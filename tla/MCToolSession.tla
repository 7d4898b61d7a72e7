--------------------------- MODULE MCToolSession ---------------------------
EXTENDS ToolSession

MCItem(id, pos) == Item(id, pos, 2, <<>>)

MCItemArgs == {<<1, 1>>, <<1, 2>>, <<2, 1>>}

TwoItems == [Empty EXCEPT !.tracks = <<[Track(1, "a") EXCEPT !.items = <<
   Item(1, 0, 2, <<Take("x"), Take("y")>>), Item(2, 3, 2, <<Take("z")>>)>>], Track(2, "b")>>]

Two == [Empty EXCEPT !.tracks = <<[Track(1, "a") EXCEPT !.items = <<MCItem(1, 0)>>],
   [Track(2, "b") EXCEPT !.sends = <<SendTo(1)>>]>>]

Midi == [Empty EXCEPT !.tracks = <<[Track(1, "a") EXCEPT !.items = <<
   Item(1, 0, 9, <<MidiTake(<<Note(1, 0, 3, 60, 100, TRUE), Note(2, 3, 2, 64, 20, FALSE)>>,
                            <<CC(1, 0, "cc", 1, 64), CC(2, 4, "pitch", 0, 64)>>), Take("x")>>),
   Item(2, 9, 2, <<Take("z")>>)>>]>>]

Effects == [Empty EXCEPT !.tracks = <<
   [Track(1, "a") EXCEPT !.nchan = 6, !.fx = <<Fx("ReaEQ")>>,
      !.items = <<Item(1, 0, 2, <<[Take("x") EXCEPT !.fx = <<Fx("ReaEQ")>>]>>)>>], Track(2, "b")>>]

Curves == [Empty EXCEPT !.tracks = <<
   [With(With(Track(1, "a"), "vol", 6), "pan", 1) EXCEPT !.fx = <<Fx("ReaEQ"), Fx("ReaEQ")>>,
      !.envs = <<Env(Gain, 2, <<<<0, 0>>>>)>>], Track(2, "b")>>]

Marks == [Empty EXCEPT
   !.markers = {Marker(1, FALSE, 1, 1, "m", 0), Marker(1, TRUE, 2, 4, "r", 0)},
   !.tempo = <<[pos |-> 0, bpm |-> 120, sig |-> 0], [pos |-> 8, bpm |-> 60, sig |-> 3]>>]

Routes3 == [Empty EXCEPT !.tracks = <<[Track(1, "a") EXCEPT !.sends = <<SendTo(2), SendTo(0)>>], Track(2, "b")>>]

Scene == [Empty EXCEPT !.tracks = <<[Track(1, "a") EXCEPT !.fx = <<Fx("ReaEQ"), Fx("SceneRotator")>>],
                                    [Track(2, "b") EXCEPT !.nchan = 10, !.fx = <<Fx("ReaSurroundPan")>>]>>]

Wide == [Empty EXCEPT !.tracks = <<
   [Track(1, "Object 1") EXCEPT !.items = <<Item(1, 0, 2, <<Take("x")>>)>>],
   [Track(2, "bed") EXCEPT !.nchan = 6], [Track(3, "scene") EXCEPT !.nchan = 10]>>]

MCBeginnings == {
    [kit |-> "meter", proj |-> Wide, ui |-> UI({2}, {1})],
    [kit |-> "envelope", proj |-> Curves, ui |-> UI({2}, {})],
    [kit |-> "timeline", proj |-> Marks, ui |-> UI({}, {})],
    [kit |-> "routing", proj |-> Routes3, ui |-> UI({}, {})],
    [kit |-> "spatial", proj |-> Scene, ui |-> UI({2}, {})],
    [kit |-> "fx", proj |-> Effects, ui |-> UI({}, {})],
    [kit |-> "action", proj |-> Two, ui |-> UI({2}, {})],
    [kit |-> "midi", proj |-> Midi, ui |-> UI({}, {})],
    [kit |-> "track", proj |-> Two, ui |-> UI({2}, {})],
    [kit |-> "item", proj |-> TwoItems, ui |-> UI({}, {2})]}
=============================================================================
