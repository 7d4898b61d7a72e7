---------------------------- MODULE SpatialTools ----------------------------
(***************************************************************************)
(* tools_spatial.cpp: the tools that put an encoder, a rotator, a decoder, *)
(* a panner or a binaural monitor on a track and drive it, and the render  *)
(* of deliverables.  (Beds, objects and renderer sends: ObjectSession.)    *)
(***************************************************************************)
EXTENDS FxTools, RoutingTools

-----------------------------------------------------------------------------
(* Finding the effect to drive. *)

\* ambiCandidates, and the bundled effects: names in the order of preference.
Candidates ==
    [encoder    |-> <<"StereoEncoder", "ambiX encoder">>, rotator   |-> <<"SceneRotator", "ambiX rotator">>,
     decoder    |-> <<"SimpleDecoder", "ambiX decoder">>, binaural  |-> <<"BinauralDecoder", "ambiX binaural">>,
     beamformer |-> <<"Beamformer", "SPARTA beam">>,      room      |-> <<"RoomEncoder", "SPARTA room">>,
     converter  |-> <<"mcp_ambi_convert">>,               mirror    |-> <<"mcp_ambi_mirror">>]

Surround == {"ReaSurroundPan"}

\* Which effects REAPER can add: none, or only the less preferred, or all of a role.
Addable(role) == {{}, {Last(Candidates[role])}, Range(Candidates[role])}

\* The effect the call names, which is not checked; else the first instance there is of
\* the first candidate that has one; else a new one of the first candidate that adds.
resolveOrAddByCandidates(chain, fx, role, addable) ==
    LET cands == Candidates[role]
        there == {c \in DOMAIN cands : \E i \in DOMAIN chain : chain[i].name = cands[c]}
        new   == SelectSeq(cands, LAMBDA c : c \in addable)
    IN  CASE fx # 0     -> [fx |-> fx, chain |-> chain]
          [] there # {} -> [fx |-> Min({i \in DOMAIN chain : chain[i].name = cands[Min(there)]}), chain |-> chain]
          [] new # <<>> -> [fx |-> Len(chain) + 1, chain |-> Append(chain, Fx(new[1]))]
          [] OTHER      -> [fx |-> 0, chain |-> chain]

\* Effects whose angles are in degrees; the others map -180..180 to 0..36 steps.
InDegrees == {"ambiX encoder", "ambiX rotator", "SPARTA beam"}

angleToParamValue(name, deg) ==
    IF name \in InDegrees THEN Clamp(-180, 180, deg) ELSE Clamp(0, 36, (deg + 180) \div 10)

\* What a tool sets: an angle, in the units of the effect, a plain value, or nothing.
Angle(deg) == <<"angle", deg>>
Plain(value) == <<"plain", value>>
Unset == <<"unset", 0>>

Setting(fx, set) ==
    CASE set[1] = "angle" -> angleToParamValue(fx.name, set[2]) [] set[1] = "plain" -> set[2] [] set = Unset -> fx.param

\* The chain when effect k, if there is one, has its parameter set.
Tuned(chain, k, set) ==
    IF k \in DOMAIN chain THEN [chain EXCEPT ![k].param = Setting(chain[k], set)] ELSE chain

\* pinIdentityWire, of the first n pins: the ones above keep their wiring.
Wired(chain, k, n) == IF k \in DOMAIN chain THEN [chain EXCEPT ![k].pins = Max({@, n})] ELSE chain

\* clampChannels
clampChannels(n) == Clamp(2, 128, n) + (Clamp(2, 128, n) % 2)

hoaChannels(order) == (order + 1) * (order + 1)

\* What most of the tools do in their block, after what they did before: resolve, throw
\* when there is none (which leaves what was done before), drive, wire some pins.
Drives(tool, args, t, s, fx, role, addable, set, pins) ==
    LET r == resolveOrAddByCandidates(s.proj.tracks[t].fx, fx, role, addable)
    IN  Returns(tool, args,
                IF s.ok /\ r.fx = 0 THEN Need(End(s), FALSE)
                ELSE End(Write(s, [s.proj EXCEPT !.tracks[t].fx = Wired(Tuned(r.chain, r.fx, set), r.fx, pins)])))

\* Write(s, p) when the call asks for it.
MayWrite(s, asked, project) == IF asked THEN Write(s, project) ELSE s

\* An effect named by the call, or none.
Named(addable) == IF addable = {} THEN {0, 1, 9} ELSE {0}

-----------------------------------------------------------------------------
(* Panners. *)

\* spatial.add_surround_panner: always a new one; the width is set first.
AddSurroundPanner ==
    \E t \in TrackArgs, width \in {0, 5}, adds \in BOOLEAN :
      LET s == Begin(Need(Now, IsTrack(t)))
          u == MayWrite(s, width # 0, WithTrack(t, [P.tracks[t] EXCEPT !.nchan = clampChannels(width)]))
      IN  Returns("spatial.add_surround_panner", <<t, width, adds>>,
                  IF u.ok /\ ~adds THEN Need(End(u), FALSE)
                  ELSE End(Write(u, [u.proj EXCEPT !.tracks[t].fx = Append(@, Fx("ReaSurroundPan"))])))

\* findSurroundFx and, for a panner of another kind, an encoder.
FirstOf(chain, names) ==
    LET found == {k \in DOMAIN chain : chain[k].name \in names} IN IF found = {} THEN 0 ELSE Min(found)

\* spatial.get_surround_state
GetSurroundState ==
    \E t \in TrackArgs, fx \in {0, 1} :
      LET s == Need(Now, IsTrack(t))
      IN  Returns("spatial.get_surround_state", <<t, fx>>,
                  IF s.ok THEN Need(s, fx # 0 \/ FirstOf(TrackFx(t), Surround) # 0) ELSE s)

\* spatial.set_source_position: writes the parameters of the panner in no undo block.
SetSourcePosition ==
    \E t \in TrackArgs, fx \in {0, 9}, deg \in {-90, 90} :
      LET s       == Need(Now, IsTrack(t))
          sur     == FirstOf(TrackFx(t), Surround)
          k       == IF fx # 0 THEN fx ELSE IF sur # 0 THEN sur ELSE FirstOf(TrackFx(t), Range(Candidates.encoder))
          u       == IF s.ok THEN Need(s, k \in DOMAIN TrackFx(t)) ELSE s
      IN  Returns("spatial.set_source_position", <<t, fx, deg>>, Write(u, PutTrackFx(t, Tuned(TrackFx(t), k, Angle(deg)))))

\* spatial.detect_spatial_suites, spatial.get_scene_info, spatial.stop_head_tracking
SpatialReads ==
    \/ \E tool \in {"spatial.detect_spatial_suites", "spatial.stop_head_tracking"} : Returns(tool, <<>>, Now)
    \/ \E t \in TrackArgs : Returns("spatial.get_scene_info", <<t>>, Need(Now, IsTrack(t)))

-----------------------------------------------------------------------------
(* Ambisonics. *)

\* spatial.ambisonic_encode: the width of the scene first, then the encoder.
AmbisonicEncode ==
    \E t \in TrackArgs, order \in {2, 9}, setCh, wirePins \in BOOLEAN, addable \in Addable("encoder") :
    \E fx \in Named(addable) :
      LET s   == Begin(Need(Now, IsTrack(t)))
          hoa == hoaChannels(Clamp(1, 7, order))
          u   == MayWrite(s, setCh, WithTrack(t, [P.tracks[t] EXCEPT !.nchan = clampChannels(hoa)]))
      IN  Drives("spatial.ambisonic_encode", <<t, order, setCh, wirePins, fx>>, t, u, fx, "encoder", addable,
                 Angle(270), IF wirePins THEN hoa ELSE 0)

\* spatial.rotate_scene
RotateScene ==
    \E t \in TrackArgs, deg \in {-90, 30}, addable \in Addable("rotator") :
    \E fx \in Named(addable) :
      Drives("spatial.rotate_scene", <<t, deg, fx>>, t, Begin(Need(Now, IsTrack(t))), fx, "rotator", addable,
             Angle(deg), P.tracks[t].nchan)

\* spatial.ambisonic_decode: sets no parameter; wires the order it is told, if any.
AmbisonicDecode ==
    \E t \in TrackArgs, width \in {0, 13}, order \in 0..1, addable \in Addable("decoder") :
      LET s == Begin(Need(Now, IsTrack(t)))
          u == MayWrite(s, width # 0, WithTrack(t, [P.tracks[t] EXCEPT !.nchan = clampChannels(width)]))
      IN  Drives("spatial.ambisonic_decode", <<t, width, order>>, t, u, 0, "decoder", addable,
                 Unset, IF order = 0 THEN 0 ELSE hoaChannels(order))

\* spatial.convert_order: from 1 to 7 by its schema.
ConvertOrder ==
    \E t \in TrackArgs, order \in {1, 2} :
      Returns("spatial.convert_order", <<t, order>>,
              InBlock(Need(Now, IsTrack(t)), WithTrack(t, [P.tracks[t] EXCEPT !.nchan = clampChannels(hoaChannels(order))])))

\* spatial.convert_format: nothing to do, or no such conversion, or FuMa, which is for
\* four channels; else the converter's mode.
ConvertFormat ==
    \E t \in TrackArgs, mode \in {"same", "none", "sn3d-n3d", "sn3d-fuma"}, addable \in Addable("converter") :
      LET s == Need(Need(Now, mode # "none"), IsTrack(t))
          u == IF s.ok /\ mode = "sn3d-fuma" THEN Need(s, P.tracks[t].nchan <= 4) ELSE s
      IN  IF mode = "same" THEN Returns("spatial.convert_format", <<t, mode>>, Now)
          ELSE Drives("spatial.convert_format", <<t, mode>>, t, Begin(u), 0, "converter", addable,
                      Plain(IF mode = "sn3d-fuma" THEN 2 ELSE 0), P.tracks[t].nchan)

\* spatial.mirror_scene, spatial.beamform, spatial.set_distance (in metres of 0..36)
MirrorBeamDistance ==
    \E t \in TrackArgs :
      LET s == Begin(Need(Now, IsTrack(t)))
      IN  \/ \E plane \in 0..2, addable \in Addable("mirror") :
               Drives("spatial.mirror_scene", <<t, plane>>, t, s, 0, "mirror", addable, Plain(plane), P.tracks[t].nchan)
          \/ \E addable \in Addable("beamformer") :
               Drives("spatial.beamform", <<t>>, t, s, 0, "beamformer", addable,
                      Angle(-90), P.tracks[t].nchan)
          \/ \E metres \in {3, 99}, addable \in Addable("room") :
               Drives("spatial.set_distance", <<t, metres>>, t, s, 0, "room", addable,
                      Plain(Clamp(0, 36, metres)), 0)

-----------------------------------------------------------------------------
(* Binaural monitors. *)

\* The project with a new track at a place that the tracks from send to.
WithMonitor(p, place, from, name, width, chain) ==
    LET id  == Free({p.tracks[t].id : t \in DOMAIN p.tracks})
        mon == [Track(id, name) EXCEPT !.nchan = width, !.fx = chain]
    IN  [p EXCEPT !.tracks = InsertAt([t \in DOMAIN @ |-> IF t \in from THEN [@[t] EXCEPT !.sends = Append(@, SendTo(id))]
                                                          ELSE @[t]], place, mon)]

\* The effects a monitor gets: a rotator for head tracking, a decoder.
MonitorChain(rotator, decoder, pins) ==
    LET wired(name, there) == IF there THEN <<[Fx(name) EXCEPT !.pins = pins]>> ELSE <<>>
    IN  wired("SceneRotator", rotator) \o wired("BinauralDecoder", decoder)

\* The channels of the highest order that fits a width.
SceneWidth(nchan) ==
    LET fits == {hoaChannels(o) : o \in 1..7} \cap 0..nchan IN IF fits = {} THEN nchan ELSE Max(fits)

\* spatial.add_binaural_monitor: the tracks are looked up when the block is open; a place
\* past the end, and no decoder, throw when the track is there.
AddBinauralMonitor ==
    \E src \in TrackArgs, objects \in {{}, {1}, {1, 9}}, createSend, tracking, rotator, decoder \in BOOLEAN,
      place \in {"first", "last", "past"} :
      LET object == objects # {}
          s      == Need(Begin(Now), IsTrack(src) /\ \A o \in objects : IsTrack(o))
          width  == IF object THEN Cardinality(objects) ELSE SceneWidth(P.tracks[src].nchan)
          from   == IF ~createSend THEN {} ELSE IF object THEN objects ELSE {src}
          last   == Len(P.tracks) + 1
          added  == IF place = "past" THEN WithMonitor(P, last, {}, "", 2, <<>>)
                    ELSE WithMonitor(P, IF place = "first" THEN 1 ELSE last, from, "monitor", clampChannels(width),
                                     MonitorChain(tracking /\ ~object /\ rotator, decoder, width))
      IN  /\ tracking => place = "last"
          /\ rotator => tracking
          /\ Returns("spatial.add_binaural_monitor", <<src, objects, createSend, place, tracking>>,
                     IF s.ok THEN Need(End(Write(s, added)), place # "past" /\ decoder) ELSE s)

\* buildBinauralMonitor, for a scene.
buildBinauralMonitor(p, bus, width, decoder) ==
    WithMonitor(p, Len(p.tracks) + 1, {bus}, "monitor", clampChannels(width), MonitorChain(FALSE, decoder, clampChannels(width)))

\* spatial.stereo_to_ambisonic: the source by number or by a name there is not; an encoder
\* that is listed need not be addable.  A transaction that is abandoned undoes.
StereoToAmbisonic ==
    \E t \in TrackArgs, order \in {1, 2}, monitor, listed \in BOOLEAN, addable \in Addable("encoder") :
      LET s     == Need(Now, IsTrack(t))
          u     == Begin(Need(s, listed))
          wide  == Write(u, WithTrack(t, [P.tracks[t] EXCEPT !.nchan = clampChannels(hoaChannels(order))]))
          r     == resolveOrAddByCandidates(TrackFx(t), 0, "encoder", addable)
          driven == [wide.proj EXCEPT !.tracks[t].fx =
                      Wired(Tuned(r.chain, r.fx, Angle(30)), r.fx, hoaChannels(order))]
          args  == <<t, order, monitor>>
      IN  \/ Previews("spatial.stereo_to_ambisonic", args, s)
          \/ Returns("spatial.stereo_to_ambisonic", args,
               IF ~u.ok THEN u
               ELSE IF r.fx = 0 THEN Need(Undone(End(wide)), FALSE)
               ELSE End(Write(wide, IF monitor THEN buildBinauralMonitor(driven, t, hoaChannels(order), addable # {}) ELSE driven)))

-----------------------------------------------------------------------------
\* One target, 0 for the master: the settings and, of a track, the selection are set for it.
Delivered(s, t, dry) ==
    LET u == Need(s, t = 0 \/ IsTrack(t))
        v == Set(u, [u.ui EXCEPT !.render = "call"])
        w == IF t # 0 /\ u.ok THEN Select(v, {P.tracks[t].id}) ELSE v
    IN  IF dry THEN w ELSE Rendered(w)

DeliveredAll(s, targets, dry) ==
    LET after[n \in 0..Len(targets)] == IF n = 0 THEN s ELSE Delivered(after[n - 1], targets[n], dry)
    IN  after[Len(targets)]

\* spatial.render_deliverables: the settings and the selection are lent for all targets;
\* a track there is none for throws before they are put back.
RenderDeliverables ==
    \E targets \in {<<>>, <<0>>, <<1>>, <<2, 9>>, <<0, 9>>, <<9>>}, dry \in BOOLEAN :
      LET done == Set(DeliveredAll(Need(Now, targets # <<>>), targets, dry), Now.ui)
      IN  IF dry THEN Previews("spatial.render_deliverables", targets, done)
          ELSE Returns("spatial.render_deliverables", targets, done)

SpatialNext ==
    \/ AddSurroundPanner \/ GetSurroundState \/ SetSourcePosition \/ SpatialReads
    \/ AmbisonicEncode \/ RotateScene \/ AmbisonicDecode \/ ConvertOrder \/ ConvertFormat \/ MirrorBeamDistance
    \/ AddBinauralMonitor \/ StereoToAmbisonic \/ RenderDeliverables
=============================================================================
