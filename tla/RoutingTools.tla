----------------------------- MODULE RoutingTools ---------------------------
(***************************************************************************)
(* tools_routing.cpp: the width of a track, its sends, its receives (the   *)
(* other tracks' sends to it) and its hardware outputs.                    *)
(***************************************************************************)
EXTENDS Project

\* A send to a track, or to the hardware (0).  src and dst are the packed channels.
SendTo(dest) == [dest |-> dest, attr |-> NoAttr, src |-> 0, dst |-> 0]

\* category: anything else is "send".
sendCategory == {"send", "receive", "hwout"}

\* The sends of a category, each as the track and the place it is kept at.
Sends(t, cat) ==
    LET own(hw) == SelectSeq([k \in DOMAIN P.tracks[t].sends |-> <<t, k>>],
                             LAMBDA at : (P.tracks[t].sends[at[2]].dest = 0) = hw)
        from(o) == SelectSeq([k \in DOMAIN P.tracks[o].sends |-> <<o, k>>],
                             LAMBDA at : P.tracks[o].sends[at[2]].dest = P.tracks[t].id)
    IN  CASE cat = "send" -> own(FALSE) [] cat = "hwout" -> own(TRUE)
          [] cat = "receive" -> FlattenSeq([o \in DOMAIN P.tracks |-> from(o)])

\* The send at a place, where there is one.
SendAt(t, cat, k) == P.tracks[Sends(t, cat)[k][1]].sends[Sends(t, cat)[k][2]]

\* The project when the send at a place is x; as it is where there is none.
WithSend(t, cat, k, x) ==
    IF k \notin DOMAIN Sends(t, cat) THEN P
    ELSE [P EXCEPT !.tracks[Sends(t, cat)[k][1]].sends[Sends(t, cat)[k][2]] = x]

SendIndices == {1, 9}

\* Mutant: an odd width is not rounded up.
EvenWidth_Odd(n) == Clamp(2, 64, n)

\* The width a call gets: between 2 and 64, even.
EvenWidth(n) == Clamp(2, 64, n) + (Clamp(2, 64, n) % 2)

\* track.set_channels
SetChannels ==
    \E t \in TrackArgs, n \in {0, 5, 63, 100} :
      Returns("track.set_channels", <<t, n>>,
              InBlock(Need(Now, IsTrack(t)), WithTrack(t, [P.tracks[t] EXCEPT !.nchan = EvenWidth(n)])))

\* What send.add and send.add_hardware_output do: create, then set, then throw if it
\* was not created.
AddsSend(tool, args, t, s, dest, db, dst) ==
    \E creates \in BOOLEAN :
      LET new == With([SendTo(dest) EXCEPT !.dst = dst], "vol", db)
      IN  Returns(tool, args,
                  Need(InBlock(s, IF creates THEN [P EXCEPT !.tracks[t].sends = Append(@, new)] ELSE P), creates))

\* send.add, to the track itself as well: REAPER decides.
SendAdd ==
    \E t, d \in TrackArgs, db \in {0, 6} :
      AddsSend("send.add", <<t, d, db>>, t, Need(Need(Now, IsTrack(t)), IsTrack(d)), P.tracks[d].id, db, 0)

\* send.list
SendList == \E t \in TrackArgs, cat \in sendCategory : Returns("send.list", <<t, cat>>, Need(Now, IsTrack(t)))

\* send.remove: an index there is none at is no error of the call.
SendRemove ==
    \E t \in TrackArgs, cat \in sendCategory, k \in SendIndices :
      LET at == Sends(t, cat)[k]
      IN  Returns("send.remove", <<t, cat, k>>,
                  InBlock(Need(Now, IsTrack(t)),
                          IF k \in DOMAIN Sends(t, cat) THEN [P EXCEPT !.tracks[at[1]].sends = RemoveAt(@, at[2])] ELSE P))

\* send.set
SendSet ==
    \E t \in TrackArgs, cat \in sendCategory, k \in SendIndices, a \in {"vol", "mute", "mode"} :
      Returns("send.set", <<t, cat, k, a>>,
              InBlock(Need(Now, IsTrack(t)), WithSend(t, cat, k, With(SendAt(t, cat, k), a, 1))))

\* encSrc: ten bits of channel, then a code for how many: one, two or a number of pairs;
\* -1 for no audio.
encSrc(off, chans) ==
    IF off < 0 THEN -1
    ELSE (off % 1024) + 1024 * (IF chans <= 1 THEN 1 ELSE IF chans = 2 THEN 0 ELSE chans \div 2)

\* A channel of the destination, or a mono mix into it.
dstOf(off, mono) == (off % 1024) + 1024 * mono

\* send.set_channels
SendSetChannels ==
    \E t \in TrackArgs, cat \in sendCategory, k \in SendIndices :
      LET s == Need(Now, IsTrack(t))
      IN  \/ \E off \in {-1, 0, 2}, chans \in {1, 2, 5} :
               Returns("send.set_channels", <<t, cat, k, off, chans>>,
                       InBlock(s, WithSend(t, cat, k, [SendAt(t, cat, k) EXCEPT !.src = encSrc(off, chans)])))
          \/ \E mono \in 0..1 :
               Returns("send.set_channels", <<t, cat, k, mono>>,
                       InBlock(s, WithSend(t, cat, k, [SendAt(t, cat, k) EXCEPT !.dst = dstOf(2, mono)])))

\* receive.list
ReceiveList == \E t \in TrackArgs : Returns("receive.list", <<t>>, Need(Now, IsTrack(t)))

\* send.add_hardware_output
AddHardwareOutput ==
    \E t \in TrackArgs, mono \in 0..1, db \in {0, 6} :
      AddsSend("send.add_hardware_output", <<t, mono, db>>, t, Need(Now, IsTrack(t)), 0, db, dstOf(2, mono))

RoutingNext ==
    \/ SetChannels \/ SendAdd \/ SendList \/ SendRemove \/ SendSet \/ SendSetChannels \/ ReceiveList \/ AddHardwareOutput
=============================================================================
