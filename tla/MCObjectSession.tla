-------------------------- MODULE MCObjectSession ---------------------------
(***************************************************************************)
(* Instances of ObjectSession for TLC.                                     *)
(***************************************************************************)
EXTENDS ObjectSession

\* One and two objects, in both orders, one listed twice, one out of range, and
\* more than the limit allows.
SomeLists == {<<1>>, <<1, 2>>, <<2, 1>>, <<1, 1>>, <<2, 9>>, <<1, 2, 1>>}

\* A stereo send, a mono send to the second object's channel, and a bed's.
SomeSendings == {<<0, 0>>, <<SrcChan(0, 1), DstChan(7, FALSE)>>, <<SrcChan(0, 6), DstChan(0, TRUE)>>}

T(k, name, nchan) == [id |-> k, name |-> name, nchan |-> nchan]

Only(d, rs) == [k \in Ids |-> IF k = d THEN rs ELSE <<>>]

\* A source called "Object 2", one without a name, a bed of width w, and a bus.
FourTracks(w) == <<T(1, Object(2), 2), T(2, Plain, 2), T(3, BedName(6), w), T(4, Plain, 2)>>

\* Receives of the bus: misplaced, in place, without audio, doubled.
SomeReceives == {
    Send(1, 0, 0), Send(1, SrcChan(0, 1), 6), Send(1, NoAudio, 0),
    Send(2, SrcChan(0, 1), 7), Send(3, SrcChan(0, 6), 0)}

\* An empty project, a session with any two receives or with a doubled object, and
\* beds as wide as a track can be.
SomeSessions ==
    {[tracks |-> <<>>, receives |-> Only(1, <<>>)]}
    \cup {[tracks |-> FourTracks(6), receives |-> Only(4, <<x, y>>)] : x, y \in SomeReceives}
    \cup {[tracks |-> FourTracks(6), receives |-> Only(4, <<Send(1, 0, 0), x, Send(1, SrcChan(0, 1), 7)>>)] :
            x \in SomeReceives}
    \cup {[tracks |-> FourTracks(w), receives |-> Only(4, <<>>)] : w \in {126, 128}}
=============================================================================
