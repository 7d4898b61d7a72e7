----------------------------- MODULE ToolSession ----------------------------
(***************************************************************************)
(* A client's session with the tools: one tool call after the other, with  *)
(* undo and redo between them, on the project each session begins with.    *)
(***************************************************************************)
EXTENDS ActionTools, EnvelopeTools, TimelineTools, SpatialTools, MeterTools

Init ==
    /\ \E b \in Beginnings : reaper = Fresh(b.proj, b.ui) /\ kit = b.kit
    /\ call = None
    /\ calls = 0

Next ==
    \/ Undo \/ Redo
    \/ kit = "track" /\ TrackNext
    \/ kit = "item" /\ ItemNext
    \/ kit = "midi" /\ MidiNext
    \/ kit = "fx" /\ FxNext
    \/ kit = "action" /\ ActionNext
    \/ kit = "envelope" /\ EnvelopeNext
    \/ kit = "timeline" /\ TimelineNext
    \/ kit = "routing" /\ RoutingNext
    \/ kit = "spatial" /\ SpatialNext
    \/ kit = "meter" /\ MeterNext

Spec == Init /\ [][Next]_vars

-----------------------------------------------------------------------------
(* What the tools say of themselves. *)

\* ToolAnnotations.readOnly
ReadOnly == {
    "analysis.accessor_meter", "analysis.adm_inspect", "analysis.adm_profile_check",
    "analysis.binaural_check", "analysis.check_deliverable", "analysis.damf_inspect",
    "analysis.decode_coverage", "analysis.detect_silence", "analysis.dialog_loudness",
    "analysis.downmix_check", "analysis.loudness_timeline", "analysis.meter",
    "analysis.object_decode_timeline", "analysis.object_loudness", "analysis.read_samples",
    "analysis.send_layout_inspect", "analysis.spatial_field", "analysis.stem_loudness",
    "analysis.verify_routing", "action.get_toggle_state", "edit.get_undo_state",
    "envelope.get_points", "envelope.list",
    "fx.get_param", "fx.get_preset", "fx.list", "item.list", "markers.list", "master.get",
    "midi.extract_groove", "midi.list_cc", "midi.list_notes", "project.get_summary",
    "receive.list", "region.list", "selection.get", "send.list",
    "spatial.detect_spatial_suites", "spatial.get_scene_info", "spatial.get_surround_state",
    "take.list", "takefx.get_param", "takefx.list", "tempo.get", "tempo.list_markers",
    "time.qn_to_time", "time.time_to_qn", "timeselection.get", "track.get", "track.get_name",
    "track.get_peak", "track.list", "transport.get_state"}

\* ToolAnnotations.idempotent
Idempotent == ReadOnly \cup {
    "envelope.clear_range", "envelope.ensure_fx_envelope", "envelope.set_automation_mode",
    "fx.set_enabled", "fx.set_param", "item.move", "item.set_color", "item.set_fade_in",
    "item.set_fade_out", "item.set_length", "item.set_mute", "item.set_position",
    "item.set_selected", "item.set_vol", "marker.edit", "marker.goto", "master.set",
    "master.set_fx_param", "midi.select_notes", "midi.set_cc", "midi.set_note",
    "mix.apply_style", "project.save", "region.goto", "selection.set", "send.set",
    "send.set_channels", "spatial.set_source_position", "spatial.stereo_to_ambisonic",
    "spatial.stop_head_tracking", "take.set_active", "take.set_name", "take.set_pan",
    "take.set_pitch", "take.set_playrate", "take.set_vol", "takefx.set_enabled",
    "takefx.set_param", "tempo.edit_marker", "tempo.set", "timeselection.set", "track.select",
    "track.set_channels", "track.set_color", "track.set_fader", "track.set_folder",
    "track.set_mute", "track.set_name", "track.set_phase", "track.set_rec_arm",
    "track.set_rec_input", "track.set_rec_mode", "track.set_rec_mon", "track.set_solo",
    "track.set_width", "track.unfreeze", "transport.set_metronome", "transport.set_playrate",
    "transport.set_repeat"}

-----------------------------------------------------------------------------
(* The calls for which a promise is not kept, or not made. *)

\* Calls that may fail when they have changed something: two leave their block open, one
\* its settings changed, the others keep the first half of what they did, and the
\* transaction of stereo_to_ambisonic takes back an edit that was not its own.
Untidy == {"item.move", "items.implode_to_takes", "spatial.render_deliverables",
    "spatial.add_binaural_monitor", "spatial.add_surround_panner", "spatial.ambisonic_encode",
    "spatial.ambisonic_decode", "spatial.stereo_to_ambisonic"}

\* Idempotent by their annotations, but a repeated call finds another item, note,
\* controller or marker at its index, unfreezes once more, or adds a second monitor.
Drifting == {"track.unfreeze", "item.set_position", "item.move", "midi.set_note", "midi.set_cc",
    "tempo.edit_marker", "spatial.stereo_to_ambisonic"}

\* Not annotated, but said to drive the effect that is there rather than to add another.
ReDriven == {"spatial.ambisonic_encode", "spatial.rotate_scene", "spatial.ambisonic_decode",
    "spatial.convert_order", "spatial.convert_format", "spatial.mirror_scene", "spatial.beamform",
    "spatial.set_distance"}

\* Calls about what no undo brings back: the selection, the cursor, the transport, which
\* project is open.
AboutTheView == {"transport.set", "transport.set_repeat", "transport.set_playrate", "transport.set_metronome",
    "track.select", "selection.set", "item.set_selected", "item.glue", "item.duplicate", "take.delete",
    "take.crop_to_active", "items.implode_to_takes", "marker.goto", "region.goto", "timeselection.set",
    "project.open", "project.new", "action.run", "action.run_by_name"}

\* Calls that add or remove a track or an item, or act on no one track.
OfTheProject == {"track.add", "track.remove", "project.open", "project.new", "master.set", "master.add_fx",
    "master.set_fx_param", "master.remove_fx", "spatial.add_binaural_monitor", "spatial.stereo_to_ambisonic",
    "spatial.render_deliverables", "item.add", "items.implode_to_takes", "midi.create_item"}

-----------------------------------------------------------------------------
(* Type invariant. *)

TrackOK(x) ==
    /\ x.nchan \in {n \in 2..128 : n % 2 = 0}
    /\ x.frozen >= 0
    /\ \A a \in {"pan", "width"} : Attr(x, a) \in -1..1
    /\ Attr(x, "recmon") \in 0..2 /\ Attr(x, "recmode") \in 0..8
    /\ Attr(x, "foldercompact") \in 0..2 /\ Attr(x, "automode") \in 0..4
    /\ \A k \in DOMAIN x.sends : x.sends[k].dest \in Ids \cup {0}
    /\ \A k \in DOMAIN x.envs : x.envs[k].fx \in 0..Len(x.fx)

TakeOK(take) ==
    /\ Attr(take, "pan") \in -1..1
    /\ \A k \in DOMAIN take.notes :
         LET n == take.notes[k] IN n.start >= 0 /\ n.len >= 0 /\ n.pitch \in 0..127 /\ n.vel \in 1..127
    /\ \A k \in DOMAIN take.ccs : {take.ccs[k].msg2, take.ccs[k].msg3} \subseteq 0..127

ItemOK(item) ==
    /\ item.len >= 0
    /\ item.active = 1 \/ item.active \in DOMAIN item.takes
    /\ \A k \in DOMAIN item.takes : TakeOK(item.takes[k])

\* Type invariant: whatever numbers the calls carry, what they set is in REAPER's range
\* (an even width, seven-bit MIDI bytes, ...), every send goes to a track that is there,
\* and no two tracks or items are confused.
TypeOK ==
    /\ reaper.ok \in BOOLEAN
    /\ reaper.depth >= 0 /\ (reaper.depth = 0 <=> reaper.base = <<>>)
    /\ reaper.at \in DOMAIN reaper.points
    /\ reaper.ui.rate \in 1..16
    /\ Cardinality(Ids) = Len(P.tracks)
    /\ \A t \in DOMAIN P.tracks :
         TrackOK(P.tracks[t]) /\ \A i \in DOMAIN P.tracks[t].items : ItemOK(P.tracks[t].items[i])
    /\ \A t, u \in DOMAIN P.tracks : \A i \in DOMAIN P.tracks[t].items, j \in DOMAIN P.tracks[u].items :
         P.tracks[t].items[i].id = P.tracks[u].items[j].id => t = u /\ i = j

-----------------------------------------------------------------------------
(* Action properties. *)

Called == calls' # calls

\* A call of a read-only tool, a preview, and a call that fails leave the project, its
\* undo history, the open blocks and the user's selection and settings as they were:
\* a handler that finds its error, or stops for a preview, on the way there puts back
\* what it did (not so for the Untidy).  Only check_deliverable leaves a rendered file.
Harmless ==
    [][/\ Called
       /\ \/ call'.tool \in ReadOnly
          \/ call'.dry /\ reaper'.ok
          \/ ~reaper'.ok /\ call'.tool \notin Untidy
       => LET kept == IF call'.tool = "analysis.check_deliverable" THEN reaper.renders ELSE reaper'.renders
          IN  [reaper' EXCEPT !.ok = TRUE, !.renders = kept] = [reaper EXCEPT !.ok = TRUE]]_vars

\* Each mutation is a single undo point (SECURITY.md): a call that changes the project
\* while no block was left open, even one that fails half-way, makes exactly one point, of
\* the project as the call left it, and closes its block.  Not so for set_source_position,
\* for the rollback of stereo_to_ambisonic, and where another project is opened.
OnePointPerEdit ==
    [][Called /\ reaper.depth = 0 /\ reaper'.proj # reaper.proj
         /\ call'.tool \notin {"project.open", "project.new", "action.run", "spatial.set_source_position"}
         /\ (call'.tool # "spatial.stereo_to_ambisonic" \/ reaper'.ok) =>
         /\ reaper'.points = Append(SubSeq(reaper.points, 1, reaper.at), reaper'.proj)
         /\ reaper'.at = reaper.at + 1 /\ reaper'.depth = 0]_vars

\* A client that repeats a call at once, as after a timeout that its first call survived,
\* changes nothing more when the tool is annotated as idempotent or is said to drive the
\* effect it finds (not so for the Drifting).
RepeatIsIdle ==
    [][Called /\ call'.tool \in (Idempotent \cup ReDriven) \ Drifting /\ call' = call /\ reaper.ok /\ reaper'.ok =>
         reaper'.proj = reaper.proj /\ reaper'.ui = reaper.ui]_vars

\* The selection a handler needs for REAPER's command, and the render settings, are lent:
\* but for the calls that are about them, they are the user's again when it returns,
\* whichever way it does (not so for render_deliverables when a track is not there).
GivenBack ==
    [][Called /\ call'.tool \notin AboutTheView
         /\ (call'.tool # "spatial.render_deliverables" \/ reaper'.ok) => reaper'.ui = reaper.ui]_vars

\* Where every item is, and what is in it.
PlacedItems(p) ==
    [id \in UNION {{p.tracks[t].items[i].id : i \in DOMAIN p.tracks[t].items} : t \in DOMAIN p.tracks} |->
       CHOOSE at \in UNION {{<<p.tracks[t].id, p.tracks[t].items[i]>> : i \in DOMAIN p.tracks[t].items} :
                            t \in DOMAIN p.tracks} : at[2].id = id]

\* Nothing but track t is changed.
OnTrack(t, p, q) == DOMAIN p.tracks = DOMAIN q.tracks /\ q = [p EXCEPT !.tracks[t] = q.tracks[t]]

\* No item is changed but the one at x, and no track but by its items.
OnItem(x, p, q) ==
    /\ \A id \in DOMAIN PlacedItems(p) \ {p.tracks[x[1]].items[x[2]].id} : id \in DOMAIN PlacedItems(q) /\ PlacedItems(q)[id] = PlacedItems(p)[id]
    /\ DOMAIN p.tracks = DOMAIN q.tracks
    /\ \A t \in DOMAIN p.tracks : [p.tracks[t] EXCEPT !.items = <<>>] = [q.tracks[t] EXCEPT !.items = <<>>]

\* Nothing is changed but the sends to track t.
OnReceives(t, p, q) ==
    LET others(r) == [r EXCEPT !.tracks = [k \in DOMAIN @ |->
                        [@[k] EXCEPT !.sends = SelectSeq(@, LAMBDA x : x.dest # p.tracks[t].id)]]]
    IN  others(p) = others(q)

\* A batch that is for the selected notes leaves the others.
OnSelectedNotes(x, p, q) ==
    LET take(r) == r.tracks[x[1]].items[x[2]].takes[r.tracks[x[1]].items[x[2]].active]
    IN  \A n \in Range(take(p).notes) : n.sel \/ n \in Range(take(q).notes)

Timing == {"midi.quantize", "midi.humanize", "midi.apply_groove", "midi.transpose", "midi.scale_velocity",
    "midi.legato", "midi.nudge", "midi.stretch"}

\* A call that succeeds changes the track it names and nothing else; an item call the
\* item that was at its index (and may make new ones); a batch for the selected notes
\* those; marker.edit the marker or region of its number.  REAPER's commands act on
\* everything that is selected, and indices move while a batch is written.
OthersUntouched ==
    [][Called /\ reaper'.ok /\ reaper'.proj # reaper.proj /\ call'.tool \notin OfTheProject =>
         LET p == reaper.proj
             q == reaper'.proj
             x == call'.args[1]
         IN  CASE kit \in {"item", "midi"} ->
                    OnItem(x, p, q) /\ (call'.tool \in Timing /\ call'.args[2] => OnSelectedNotes(x, p, q))
               [] call'.tool = "marker.edit" ->
                    {mk \in p.markers : mk.num # x \/ mk.region # call'.args[2]}
                      = {mk \in q.markers : mk.num # x \/ mk.region # call'.args[2]}
               [] call'.tool \in {"send.remove", "send.set", "send.set_channels"} ->
                    IF call'.args[2] = "receive" THEN OnReceives(x, p, q) ELSE OnTrack(x, p, q)
               [] kit = "meter" ->
                    \A t \in DOMAIN p.tracks :
                      LET old == {i \in DOMAIN q.tracks[t].items : q.tracks[t].items[i] \in Range(p.tracks[t].items)}
                      IN  IF t \in Range(x) THEN Cardinality(old) = Len(p.tracks[t].items) ELSE q.tracks[t] = p.tracks[t]
               [] kit \in {"track", "fx", "envelope", "routing", "spatial"} -> OnTrack(x, p, q)
               [] OTHER -> TRUE]_vars

\* When the reply of ensure_fx_envelope says that add_point may be used with the name, an
\* add_point of that name that comes next writes the envelope of that effect, and no
\* other that happens to bear the name.
SafeNameHits ==
    [][Called /\ call.tool = "envelope.ensure_fx_envelope" /\ call'.tool = "envelope.add_point"
         /\ call.args[6] /\ call'.args[1] = call.args[1] /\ call'.args[2] = Roster[call.args[3]] =>
         /\ reaper'.ok
         /\ \A j \in DOMAIN P.tracks[call.args[1]].envs :
              LET old == P.tracks[call.args[1]].envs[j]
              IN  old = reaper'.proj.tracks[call.args[1]].envs[j]
                    <=> (old.fx # call.args[2] \/ old.name # Roster[call.args[3]])]_vars
=============================================================================
