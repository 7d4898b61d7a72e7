----------------------------- MODULE MeterTools -----------------------------
(***************************************************************************)
(* tools_analysis.cpp with render_stems.h, render_stats.h and              *)
(* audio_accessor.h, and what tools_spatial.cpp renders for ADM and DAMF   *)
(* masters or injects as test tones: tools that borrow REAPER's render     *)
(* settings and selection, and hand them back.  What is heard is not       *)
(* modelled, only whether there was anything to measure.                   *)
(***************************************************************************)
EXTENDS ItemTools

Targets == {0} \cup TrackArgs       \* 0: the master, which is what no target means

\* resolveAnalysisTarget, requireTrack
Resolved(s, t) == Need(s, t = 0 \/ IsTrack(t))

Width(t) == IF t = 0 THEN P.master.nchan ELSE P.tracks[t].nchan

Snapshot(s) == [render |-> s.ui.render, tracks |-> s.ui.tracks]

Restored(s, snap) == Set(s, [s.ui EXCEPT !.render = snap.render, !.tracks = snap.tracks])

Configured(s) == Set(s, [s.ui EXCEPT !.render = "call"])

\* renderTargetToTempWav: all is put back before it is looked whether a file came of it.
TempRender(s, t, works) ==
    LET staged == IF t = 0 THEN Configured(s) ELSE Select(Configured(s), {P.tracks[t].id})
    IN  Need(Restored(staged, Snapshot(s)), works)

\* renderTracksToTempWavs: several tracks, selected together, in one render.
StemRender(s, ts, works) ==
    Need(Restored(Select(Configured(s), {P.tracks[t].id : t \in ts}), Snapshot(s)), works)

-----------------------------------------------------------------------------
(* Meters of one target. *)

\* Begun in state s: a target the meter is for, a preview, or a render and a
\* measurement that may come to nothing.
Meters(tool, s, t, suits) ==
    LET r == Resolved(s, t)
        u == IF r.ok THEN Need(r, suits) ELSE r
    IN  \/ Previews(tool, <<t>>, u)
        \/ \E works \in BOOLEAN : Returns(tool, <<t>>, TempRender(u, t, works))

\* analysis.spatial_field: of a bus that is wide enough for a first-order scene.
SpatialField == \E t \in Targets : Meters("analysis.spatial_field", Now, t, Width(t) >= 4)

\* analysis.downmix_check: of a width that buildStereoDownmixMatrix has labels for.
DownmixCheck == \E t \in Targets : Meters("analysis.downmix_check", Now, t, Width(t) \in {2, 6, 8, 12, 16})

\* analysis.loudness_timeline
LoudnessTimeline == \E t \in Targets : Meters("analysis.loudness_timeline", Now, t, TRUE)

\* analysis.binaural_check: of a pair, or of a wider bus that is no loudspeaker bed.
BinauralCheck ==
    \E t \in Targets :
      Meters("analysis.binaural_check", Now, t, Width(t) >= 2 /\ Width(t) \notin {6, 8, 10, 12, 16, 24})

\* analysis.decode_coverage: on a layout it knows, or on a sphere.
DecodeCoverage ==
    \E t \in Targets, known \in BOOLEAN : Meters("analysis.decode_coverage", Need(Now, known), t, Width(t) >= 4)

\* What analysis.meter does after its preview.  When the render is silent but content
\* is read on the track, over the same window, it refuses to report the silence unless
\* that is allowed; the master has no such second reading.
Metered(t, window, allow, works, silent, content) ==
    Need(TempRender(Resolved(Now, t), t, works), ~(silent /\ content /\ t # 0 /\ window) \/ allow)

\* analysis.meter
Meter ==
    \E t \in Targets, window, allow \in BOOLEAN :
      \/ Previews("analysis.meter", <<t, window, allow>>, Resolved(Now, t))
      \/ \E works, silent, content \in BOOLEAN :
           Returns("analysis.meter", <<t, window, allow>>, Metered(t, window, allow, works, silent, content))

\* analysis.revive_and_meter: when the meter refuses, and only then, the sources are
\* revalidated (which is no edit) and it meters once more.
ReviveAndMeter ==
    \E t \in Targets, window, allow \in BOOLEAN :
      \/ Previews("analysis.revive_and_meter", <<t, window, allow>>, Now)
      \/ \E works, content, still \in BOOLEAN :
           LET first   == Metered(t, window, allow, works, TRUE, content)
               refused == ~first.ok /\ Metered(t, window, TRUE, works, TRUE, content).ok
           IN  Returns("analysis.revive_and_meter", <<t, window, allow>>,
                       IF refused THEN Metered(t, window, allow, works, TRUE, still) ELSE first)

-----------------------------------------------------------------------------
(* Meters of several. *)

BedWidths == {6, 8, 12, 16, 24}

\* analysis.check_deliverable: of a spec it knows, from the client's measurements, or of
\* a target, of listed beds or of every track as wide as a bed.  Its file stays.
CheckDeliverable ==
    LET tool == "analysis.check_deliverable"
        renders(args, s, done) == Previews(tool, args, s) \/ Returns(tool, args, Rendered(done))
        beds == {t \in DOMAIN P.tracks : P.tracks[t].nchan \in BedWidths}
        some == Need(Now, beds # {})
    IN  \/ \E spec \in {"known", "unknown"} : Returns(tool, <<spec, {}>>, Need(Now, spec = "known"))
        \/ \E t \in Targets :
             renders(<<"target", {t}>>, Resolved(Now, t), TempRender(Resolved(Now, t), t, TRUE))
        \/ \E ts \in {{1}, {1, 2}, {2, 9}} :
             LET s == Need(Now, \A t \in ts : IsTrack(t))
             IN  renders(<<"beds", ts>>, s, StemRender(s, ts, TRUE))
        \/ renders(<<"perBed", {}>>, some, StemRender(some, beds, TRUE))

\* Tracks a call lists: some, not too many, each of them there, none of them twice.
Listed(list, most) ==
    LET s == Need(Now, list # <<>> /\ Len(list) <= most)
    IN  Need(s, (\A k \in DOMAIN list : IsTrack(list[k])) /\ IsInjective(list))

Lists(most) == {<<>>, <<1>>, <<2, 1>>, <<1, 1>>, <<1, 9>>, [k \in 1..(most + 1) |-> k]}

\* analysis.stem_loudness
StemLoudness ==
    \E list \in Lists(32) :
      \/ Previews("analysis.stem_loudness", <<list>>, Listed(list, 32))
      \/ \E works \in BOOLEAN :
           Returns("analysis.stem_loudness", <<list>>, StemRender(Listed(list, 32), Range(list), works))

\* analysis.object_loudness: with a bed, when one is named that is a track; when the
\* render of the bed fails, the objects are reported without it.
ObjectLoudness ==
    \E list \in Lists(128), bed \in {<<>>} \cup {<<t>> : t \in Targets} :
      LET s == Need(Listed(list, 128), bed = <<>> \/ IsTrack(bed[1]))
      IN  \/ Previews("analysis.object_loudness", <<list, bed>>, s)
          \/ \E works \in BOOLEAN :
               LET objects == StemRender(s, Range(list), works)
               IN  Returns("analysis.object_loudness", <<list, bed>>,
                           IF bed = <<>> THEN objects ELSE TempRender(objects, bed[1], TRUE))

\* analysis.dialog_loudness: the dialog is a track; the program, then the dialog.
DialogLoudness ==
    \E dialog, t \in Targets :
      LET s == Resolved(Need(Now, dialog # 0 /\ IsTrack(dialog)), t)
      IN  \/ Previews("analysis.dialog_loudness", <<dialog, t>>, s)
          \/ \E program, stem \in BOOLEAN :
               Returns("analysis.dialog_loudness", <<dialog, t>>,
                       TempRender(TempRender(s, t, program), dialog, stem))

-----------------------------------------------------------------------------
(* Readings without a render. *)

ObjectNames == {"Object 1", "Object 2"}

\* readAccessorWindow: some of the extent is asked for.
ReadsWindow(extent, start, dur) ==
    LET lo == Clamp(extent[1], extent[2], start)
        hi == IF dur <= 0 THEN extent[2] ELSE Clamp(extent[1], extent[2], start + dur)
    IN  lo < hi

\* resolveAccessorTarget: a track, or a take of one of its items.
AccessorTarget(t, i, k) ==
    LET s == Need(Now, IsTrack(t))
        u == IF s.ok /\ i # 0 THEN Need(s, IsItem(<<t, i>>)) ELSE s
    IN  IF u.ok /\ i # 0 THEN Need(u, IsTake(<<t, i>>, k)) ELSE u

\* analysis.read_samples, accessor_meter, detect_silence: of content that there is,
\* through readTakeContent or readTrackContent.
AccessorReads ==
    \E tool \in {"analysis.read_samples", "analysis.accessor_meter", "analysis.detect_silence"},
       t \in TrackArgs, i \in {0, 1}, k \in {-1, 2} :
      LET s == AccessorTarget(t, i, k)
      IN  \/ Previews(tool, <<t, i, k>>, s)
          \/ \E extent \in {<<0, 0>>, <<0, 4>>}, window \in {<<-1, 0>>, <<3, 9>>, <<9, 1>>} :
               Returns(tool, <<t, i, k>>, Need(s, ReadsWindow(extent, window[1], window[2])))

\* analysis.verify_routing: of a file or of a track, not of both; the reading must be as
\* wide as a plan whose tones are unique.
VerifyRouting ==
    \E path, plan \in BOOLEAN, list \in {<<>>} \cup {<<t>> : t \in TrackArgs} :
      \E reads \in BOOLEAN :
        LET s == Need(Now, path # (list # <<>>))
            u == IF s.ok THEN Need(s, path \/ IsTrack(list[1])) ELSE s
        IN  Returns("analysis.verify_routing", <<path, list, plan>>, Need(u, reads /\ plan))

\* analysis.adm_inspect, adm_profile_check, damf_inspect: of a file that can be read and
\* parsed; analysis.send_layout_inspect: of a track.
Inspections ==
    \/ \E tool \in {"analysis.adm_inspect", "analysis.adm_profile_check", "analysis.damf_inspect"},
          reads \in BOOLEAN : Returns(tool, <<>>, Need(Now, reads))
    \/ \E t \in TrackArgs : Returns("analysis.send_layout_inspect", <<t>>, Need(Now, IsTrack(t)))

\* analysis.object_decode_timeline: of trajectories, of listed tracks, or, when there are
\* neither, of the tracks named as objects.
ObjectDecodeTimeline ==
    \E known, paths \in BOOLEAN, list \in {<<>>, <<1, 1>>, <<9>>} :
      LET s == Need(Need(Now, known), Len(list) <= 128 /\ \A k \in DOMAIN list : IsTrack(list[k]))
          objects == \E t \in DOMAIN P.tracks : P.tracks[t].name \in ObjectNames
      IN  Returns("analysis.object_decode_timeline", <<known, paths, list>>, Need(s, paths \/ list # <<>> \/ objects))

-----------------------------------------------------------------------------
(* Masters and tones. *)

\* What spatial.export_adm and spatial.export_damf have in common: sources that are
\* there and meet the profile, a plan, or a render of the bed and one of the objects.
\* A silence nobody allowed, or another rate than the profile's, is refused before a file is written.
Exports(tool, args, s, bed, objects, profile) ==
    \/ Previews(tool, args, s)
    \/ \E fault \in {"none", "bed", "objects", "silent", "rate", "file"} :
         LET b == IF bed = 0 THEN s ELSE TempRender(s, bed, fault # "bed")
             o == IF objects = {} THEN b ELSE StemRender(b, objects, fault # "objects")
             v == Need(o, fault # "silent" /\ (fault = "rate" => ~profile))
         IN  Returns(tool, args, Rendered(Need(v, fault # "file")))

\* A layout that is known and metadata that fits, a bed or objects, each of them there.
Sources(valid, bed, objects) ==
    LET s == Need(Now, valid /\ (bed # 0 \/ objects # {}))
    IN  Need(s, (bed = 0 \/ IsTrack(bed)) /\ \A t \in objects : IsTrack(t))

\* spatial.export_adm: to the Dolby profile when it is asked for.
ExportAdm ==
    \E valid, profile, conforms \in BOOLEAN, bed \in {0, 2, 9}, objects \in {{}, {1, 2}, {9}} :
      Exports("spatial.export_adm", <<valid, bed, objects, profile>>,
              Need(Sources(valid, bed, objects), conforms \/ ~profile), bed, objects, profile)

\* spatial.export_damf: always to the profile.
ExportDamf ==
    \E valid, conforms \in BOOLEAN, bed \in {0, 2, 9}, objects \in {{}, {1, 2}, {9}} :
      Exports("spatial.export_damf", <<valid, bed, objects>>,
              Need(Sources(valid, bed, objects), conforms), bed, objects, TRUE)

\* The order of a scene: as it is given, or the highest whose channels the track has.
SceneOrder(order, width) ==
    IF order # 0 THEN order ELSE Max({0} \cup {k \in 1..7 : (k + 1) * (k + 1) <= width})

\* The tracks, rendered one after another until one render (of the failed-th) fails.
InTurn(s, list, failed) ==
    LET after[n \in 0..Len(list)] == IF n = 0 THEN s ELSE TempRender(after[n - 1], list[n], n # failed)
    IN  after[Len(list)]

\* The bed, the scene and the voice-overs, of those there are (0 for none).
LoomSources(bed, scene, voices) ==
    (IF bed = 0 THEN <<>> ELSE <<bed>>) \o (IF scene = 0 THEN <<>> ELSE <<scene>>)
      \o [k \in DOMAIN voices |-> voices[k][1]]

\* spatial.export_loom_manifest: of a bed, a scene of up to the fourth order and
\* voice-overs of distinct languages.
ExportLoom ==
    \E valid \in BOOLEAN, bed \in {0, 2}, scene \in {0, 3}, order \in {0, 5},
       voices \in {<<<<1, "en">>, <<2, "de">>>>, <<<<1, "en">>, <<2, "en">>>>, <<<<9, "en">>>>} :
      LET r == Sources(valid, bed, IF scene = 0 THEN {} ELSE {scene})
          u == IF r.ok /\ scene # 0 THEN Need(r, SceneOrder(order, Width(scene)) \in 1..4) ELSE Need(r, order <= 4)
          s == Need(u, (\A k \in DOMAIN voices : IsTrack(voices[k][1]))
                       /\ IsInjective([k \in DOMAIN voices |-> voices[k][2]]))
          list == LoomSources(bed, scene, voices)
          args == <<valid, bed, scene, order, voices>>
      IN  \/ Previews("spatial.export_loom_manifest", args, s)
          \/ \E failed \in 0..Len(list), usable \in BOOLEAN :     \* not silent, of the rate, and written
               Returns("spatial.export_loom_manifest", args, Rendered(Need(InTurn(s, list, failed), usable)))

\* A tone on each listed track; a track that is not there is skipped, and an item without
\* a source is left as REAPER adds it.
Toned(list, sourced) ==
    LET ids(p) == UNION {{p.tracks[t].items[i].id : i \in DOMAIN p.tracks[t].items} : t \in DOMAIN p.tracks}
        put(p, t) == IF ~IsTrack(t) THEN p
                     ELSE WithItems(p, t, Append(p.tracks[t].items,
                            IF sourced THEN Item(Free(ids(p)), 1, 2, <<Take("tone")>>)
                            ELSE Item(Free(ids(p)), 0, 0, <<Take("")>>)))
    IN  FoldLeft(put, P, list)

\* spatial.inject_identity_tones: as many tones as tracks, or as a bed has channels, on
\* one track.  The files are written before the project is touched.
InjectTones ==
    \E list \in {<<>>, <<1>>, <<2, 9>>, <<1, 1>>}, slots \in {0, 6, 129}, valid, place \in BOOLEAN :
      LET n == IF slots = 0 THEN Len(list) ELSE slots     \* mode "tracks", or "channels"
          s == Need(Now, 0 < n /\ n <= 128 /\ valid)
          targets == IF slots = 0 THEN list ELSE IF list = <<>> THEN <<1>> ELSE <<list[1]>>
      IN  \/ Previews("spatial.inject_identity_tones", <<targets, slots, place>>, s)
          \/ \E writes, exported, sourced \in BOOLEAN :
               LET u == Need(s, writes)
               IN  Returns("spatial.inject_identity_tones", <<targets, slots, place>>,
                           IF place /\ exported THEN InBlock(u, Toned(targets, sourced)) ELSE u)

MeterNext ==
    \/ SpatialField \/ DownmixCheck \/ LoudnessTimeline \/ BinauralCheck \/ DecodeCoverage
    \/ Meter \/ ReviveAndMeter \/ CheckDeliverable \/ StemLoudness \/ ObjectLoudness \/ DialogLoudness
    \/ AccessorReads \/ VerifyRouting \/ Inspections \/ ObjectDecodeTimeline
    \/ ExportAdm \/ ExportDamf \/ ExportLoom \/ InjectTones
=============================================================================
