---------------------------- MODULE EnvelopeTools ---------------------------
(***************************************************************************)
(* tools_envelopes.cpp and fx_envelope.h: the envelopes of a track, found  *)
(* by name, which are made, seeded and written.                            *)
(***************************************************************************)
EXTENDS FxTools

\* A name: its words, and whether they are capitalised.
Label(words, capital) == [words |-> words, capital |-> capital]

Volume == Label({"volume"}, TRUE)
Pan    == Label({"pan"}, TRUE)
Mute   == Label({"mute"}, TRUE)
Trim   == Label({"trim", "volume"}, TRUE)
Gain   == Label({"gain"}, TRUE)

\* The parameters of every effect.
Roster == <<Label({"azimuth", "angle"}, TRUE), Label({"elevation", "angle"}, TRUE), Gain>>

\* An envelope: its name, the effect it belongs to (0 for one of the track's own), its
\* points, each a time and a value.
Env(name, fx, points) == [name |-> name, fx |-> fx, points |-> points]

\* GetTrackEnvelopeByName: the first of that name, 0 if there is none.  One without
\* points is not found.
ByName(x, name) ==
    LET found == {k \in DOMAIN x.envs : x.envs[k].name = name /\ x.envs[k].points # <<>>}
    IN  IF found = {} THEN 0 ELSE Min(found)

\* InsertEnvelopePoint and Envelope_SortPoints.
WithPoint(points, time, value) ==
    SelectSeq(points, LAMBDA pt : pt[1] <= time) \o <<<<time, value>>>> \o SelectSeq(points, LAMBDA pt : pt[1] > time)

\* REAPER prunes an envelope of the track's own without points.
Pruned(envs) == SelectSeq(envs, LAMBDA e : e.fx # 0 \/ e.points # <<>>)

-----------------------------------------------------------------------------
(* The envelopes of the track itself. *)

\* The names a built-in envelope may have.
envChunkName == {Volume, Pan, Mute, Trim}

\* The value that leaves what is heard as it is: REAPER's pan envelope is mirrored, its
\* mute envelope is 1 for what is heard, a trim begins at unity.
envSeedValue(x, name) ==
    CASE name = Volume -> Attr(x, "vol") [] name = Pan  -> -Attr(x, "pan")
      [] name = Mute -> 1 - Attr(x, "mute") [] OTHER -> 0

\* What a call that activates an envelope meets: REAPER keeps the envelope written to the
\* chunk; it does not, and the chunk is put back, but the action makes one; or neither.
Routes == {"chunk", "action", "none"}

\* activateBuiltinEnvelope returns an envelope, and not null.
Activates(name, route) ==
    name \in envChunkName /\ (route = "chunk" \/ (route = "action" /\ name \in {Volume, Pan}))

\* What it does: the action needs the track selected alone, for volume and pan.
activateBuiltinEnvelope(s, t, name, route) ==
    LET seed   == Env(name, 0, <<<<0, envSeedValue(s.proj.tracks[t], name)>>>>)
        seeded == [s.proj EXCEPT !.tracks[t].envs = <<seed>> \o @]
        alone  == Select(s, {s.proj.tracks[t].id})
    IN  IF name \notin envChunkName THEN s
        ELSE IF route = "chunk" THEN Write(s, seeded)
        ELSE IF name \in {Volume, Pan} THEN Select(IF route = "action" THEN Write(alone, seeded) ELSE alone, s.ui.tracks)
        ELSE s

\* envelope.list
EnvelopeList == \E t \in TrackArgs : Returns("envelope.list", <<t>>, Need(Now, IsTrack(t)))

\* envelope.add_point: when there is no such envelope the block is closed, then it throws.
AddPoint ==
    \E t \in TrackArgs, name \in {Volume, Pan, Mute, Gain}, auto \in BOOLEAN, route \in Routes :
      LET s == Begin(Need(Now, IsTrack(t)))
          there == ByName(P.tracks[t], name) # 0
          u == IF s.ok /\ auto /\ ~there THEN activateBuiltinEnvelope(s, t, name, route) ELSE s
          k == ByName(u.proj.tracks[t], name)
      IN  /\ auto \/ route = "none"
          /\ Returns("envelope.add_point", <<t, name, route>>,
                     IF u.ok /\ ~there /\ ~(auto /\ Activates(name, route)) THEN Need(End(u), FALSE)
                     ELSE End(Write(u, [u.proj EXCEPT !.tracks[t].envs[k].points = WithPoint(@, 2, 5)])))

\* What the three tools that need an envelope begin with.
Active(t, name) == LET s == Need(Now, IsTrack(t)) IN IF s.ok THEN Need(s, ByName(P.tracks[t], name) # 0) ELSE s

\* The project when the points of an envelope are others.
WithPoints(t, name, points) ==
    LET x == P.tracks[t]
    IN  WithTrack(t, [x EXCEPT !.envs = Pruned([@ EXCEPT ![ByName(x, name)].points = points])])

\* envelope.get_points
GetPoints == \E t \in TrackArgs, name \in {Volume, Gain} : Returns("envelope.get_points", <<t, name>>, Active(t, name))

\* envelope.delete_point
DeletePoint ==
    \E t \in TrackArgs, name \in {Volume, Gain}, k \in {1, 9} :
      LET s      == Active(t, name)
          points == P.tracks[t].envs[ByName(P.tracks[t], name)].points
      IN  Returns("envelope.delete_point", <<t, name, k>>,
                  IF ~s.ok THEN s
                  ELSE IF k \in DOMAIN points THEN InBlock(s, WithPoints(t, name, RemoveAt(points, k)))
                  ELSE Need(InBlock(s, P), FALSE))

\* envelope.clear_range: from start, which the second sweep is for, to before the end.
ClearRange ==
    \E t \in TrackArgs, name \in {Volume, Gain}, end \in {-1, 2, 3} :
      LET s      == IF end < 0 THEN Need(Now, FALSE) ELSE Active(t, name)
          points == P.tracks[t].envs[ByName(P.tracks[t], name)].points
      IN  Returns("envelope.clear_range", <<t, name, end>>,
                  InBlock(s, WithPoints(t, name, SelectSeq(points, LAMBDA pt : pt[1] >= end))))

\* envelope.set_automation_mode
SetAutomationMode ==
    \E t \in TrackArgs, mode \in {0, 3, 5} :
      Returns("envelope.set_automation_mode", <<t, mode>>,
              InBlock(Need(Need(Now, mode \in 0..4), IsTrack(t)), WithTrack(t, With(P.tracks[t], "automode", mode))))

-----------------------------------------------------------------------------
(* The envelopes of the effects. *)

\* A parameter is found by its exact name, else regardless of case, else by some words
\* of it: the first of the three that finds any decides.
Hits(tier, roster, request) ==
    {p \in DOMAIN roster : CASE tier = 1 -> roster[p] = request
                             [] tier = 2 -> roster[p].words = request.words
                             [] tier = 3 -> request.words # {} /\ request.words \subseteq roster[p].words}

\* resolveParam: 0 for none and for more than one.
resolveParam(roster, request) ==
    LET tiers == {tier \in 1..3 : Hits(tier, roster, request) # {}}
        won   == IF tiers = {} THEN {} ELSE Hits(Min(tiers), roster, request)
    IN  IF Cardinality(won) = 1 THEN Min(won) ELSE 0

\* Mutant: some envelope answers to the name.
addPointSafe_Visible(x, k) == ByName(x, x.envs[k].name) # 0

\* The reply's addPointSafe: the name finds envelope k, and no other bears it.
addPointSafe(x, k) ==
    /\ ByName(x, x.envs[k].name) = k
    /\ Cardinality({j \in DOMAIN x.envs : x.envs[j].name = x.envs[k].name}) = 1

\* The index of the envelope of parameter p of effect k, 0 if it has none.
OfParam(x, k, p) ==
    LET found == {j \in DOMAIN x.envs : x.envs[j].fx = k /\ x.envs[j].name = Roster[p]}
    IN  IF found = {} THEN 0 ELSE Min(found)

\* The track when that envelope is there, made before or after the others, and has a
\* point if it would not be found without and a point is wanted.
Ensured(x, k, p, seedPoint, first) ==
    LET made == IF OfParam(x, k, p) # 0 THEN x
                ELSE [x EXCEPT !.envs = InsertAt(@, IF first THEN 1 ELSE Len(@) + 1, Env(Roster[p], k, <<>>))]
    IN  IF seedPoint /\ ByName(made, Roster[p]) = 0
        THEN [made EXCEPT !.envs[OfParam(made, k, p)].points = <<<<0, x.fx[k].param>>>>]
        ELSE made

\* The common part: parameter p of effect k, 0 when none was resolved.  The last
\* argument is what the reply says of add_point.
EnsuresFxEnvelope(t, k, request, s, p) ==
    \E seedPoint, first, creates \in BOOLEAN :
      LET x    == P.tracks[t]
          u    == IF s.ok THEN Need(s, k \in DOMAIN x.fx /\ p # 0) ELSE s
          y    == Ensured(x, k, p, seedPoint, first)
          safe == u.ok /\ creates /\ addPointSafe(y, OfParam(y, k, p))
      IN  Returns("envelope.ensure_fx_envelope", <<t, k, p, request, seedPoint, safe>>,
                  IF creates THEN InBlock(u, WithTrack(t, y)) ELSE Need(InBlock(u, P), FALSE))

\* envelope.ensure_fx_envelope: by index, by name, by both or by neither.
EnsureFxEnvelope ==
    \E t \in TrackArgs, k \in {1, 2, 9} :
      LET s == Need(Now, IsTrack(t))
      IN  \/ EnsuresFxEnvelope(t, k, Gain, s, 3)
          \/ \E words \in {{"angle"}, {"azimuth", "angle"}, {"gain"}}, capital \in BOOLEAN :
               EnsuresFxEnvelope(t, k, Label(words, capital), s, resolveParam(Roster, Label(words, capital)))
          \/ Returns("envelope.ensure_fx_envelope", <<t, k, 0, Gain, FALSE, FALSE>>, Need(s, FALSE))

EnvelopeNext ==
    \/ EnvelopeList \/ AddPoint \/ GetPoints \/ DeletePoint \/ ClearRange \/ SetAutomationMode \/ EnsureFxEnvelope
=============================================================================
