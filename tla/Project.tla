------------------------------- MODULE Project ------------------------------
(***************************************************************************)
(* The REAPER project the tools work on, and what every handler is made    *)
(* of: it may throw (Need), open an undo block (Begin), write (Write) and   *)
(* close it (End), in the order its code has.  A handler is one job of the *)
(* main thread, so it is one step; a throw between Begin and End leaves    *)
(* the block open.                                                         *)
(***************************************************************************)
EXTENDS Integers, Sequences, SequencesExt, FiniteSets

CONSTANTS
    Beginnings,     \* the projects and selections to begin with, and the tools a client calls on each
    MaxCalls        \* calls of tools in a behaviour

ASSUME CallsAssumption == MaxCalls \in Nat

VARIABLES
    reaper,     \* the program: see Fresh
    call,       \* the last call: its tool, its arguments, whether it is a dry run
    calls,      \* number of calls so far
    kit         \* the family of tools this client calls

vars == <<reaper, call, calls, kit>>

\* REAPER when a session begins.  points is its undo history, each point a saved
\* project, at the current one; base holds the project as it was when the outermost of
\* the depth open blocks began; ui is what no undo brings back: selection, transport,
\* render settings; file is the saved project, if there is one; renders counts the
\* renders and exports whose files stay; ok tells whether the last call returned a success.
Fresh(project, ui) ==
    [proj |-> project, points |-> <<project>>, at |-> 1, depth |-> 0, base |-> <<>>,
     ui |-> ui, file |-> <<project>>, renders |-> 0, ok |-> TRUE]

None == [tool |-> "none", args |-> <<>>, dry |-> FALSE]

-----------------------------------------------------------------------------
(* A handler: operators from one state of REAPER to the next.  Once the      *)
(* handler has thrown (ok is FALSE) nothing more happens.                     *)

Now == [reaper EXCEPT !.ok = TRUE]

\* Throws, or returns an error, unless the condition holds.
Need(s, holds) == IF s.ok THEN [s EXCEPT !.ok = holds] ELSE s

Write(s, project) == IF s.ok THEN [s EXCEPT !.proj = project] ELSE s

Set(s, ui) == IF s.ok THEN [s EXCEPT !.ui = ui] ELSE s

\* Undo_BeginBlock2
Begin(s) ==
    IF ~s.ok THEN s
    ELSE [s EXCEPT !.depth = @ + 1, !.base = IF s.depth = 0 THEN <<s.proj>> ELSE @]

\* A new undo point: the project as it is, and nothing to redo.
Pointed(s) == [s EXCEPT !.points = Append(SubSeq(@, 1, s.at), s.proj), !.at = @ + 1]

\* Undo_EndBlock2: the outermost block makes an undo point, an empty one none.
Closed(s) ==
    LET c == [s EXCEPT !.depth = @ - 1]
    IN  IF c.depth > 0 THEN c
        ELSE [IF <<s.proj>> # s.base THEN Pointed(c) ELSE c EXCEPT !.base = <<>>]

End(s) == IF s.ok THEN Closed(s) ELSE s

\* Undo_DoUndo2.  Edits made in no block are not a point: they go with the last one.
Undone(s) == IF s.at = 1 THEN s ELSE [s EXCEPT !.proj = s.points[s.at - 1], !.at = @ - 1]

Rendered(s) == IF s.ok THEN [s EXCEPT !.renders = @ + 1] ELSE s

\* Another project is open in its place, without undo history.
Loaded(s, project) ==
    [s EXCEPT !.proj = project, !.points = <<project>>, !.at = 1, !.depth = 0, !.base = <<>>,
              !.ui = [@ EXCEPT !.tracks = {}, !.items = {}]]

\* Begin, one write, End: the shape of most handlers.
InBlock(s, project) == End(Write(Begin(s), project))

\* UndoTransaction around one write: committed when it succeeds, else the
\* destructor closes the block (and undoes nothing, for the write did nothing).
InTransaction(s, project, succeeds) ==
    IF ~s.ok THEN s
    ELSE IF succeeds THEN InBlock(s, project)
    ELSE [Closed(Begin(s)) EXCEPT !.ok = FALSE]

\* The handler of tool, called with args, ends in state s.
Returns(tool, args, s) ==
    /\ calls < MaxCalls
    /\ calls' = calls + 1
    /\ call' = [tool |-> tool, args |-> args, dry |-> FALSE]
    /\ reaper' = s
    /\ UNCHANGED kit

\* The same for a call with dryRun:true.
Previews(tool, args, s) ==
    /\ calls < MaxCalls
    /\ calls' = calls + 1
    /\ call' = [tool |-> tool, args |-> args, dry |-> TRUE]
    /\ reaper' = s
    /\ UNCHANGED kit

-----------------------------------------------------------------------------
(* What a project is made of. *)

Clamp(lo, hi, v) == IF v < lo THEN lo ELSE IF v > hi THEN hi ELSE v

Flag(b) == IF b THEN 1 ELSE 0

NoAttr == [a \in {} |-> 0]

\* Attribute a of x, 0 where nothing was set.
Attr(x, a) == IF a \in DOMAIN x.attr THEN x.attr[a] ELSE 0

\* x with attribute a set to v; one that is 0 is not kept.
With(x, a, v) ==
    [x EXCEPT !.attr = [b \in {b \in DOMAIN x.attr \cup {a} : b # a \/ v # 0} |->
                          IF b = a THEN v ELSE x.attr[b]]]

\* An effect: its name, whether it is enabled, one parameter, one preset, and how many
\* of its pins are wired one to one to the channels of the track.
Fx(name) == [name |-> name, on |-> TRUE, param |-> 0, preset |-> 0, pins |-> 0]

Track(id, name) ==
    [id |-> id, name |-> name, nchan |-> 2, frozen |-> 0, attr |-> NoAttr,
     items |-> <<>>, fx |-> <<>>, envs |-> <<>>, sends |-> <<>>]

Empty == [tracks |-> <<>>, master |-> Track(0, "MASTER"), markers |-> {}, tempo |-> <<>>, bpm |-> 120]

P == reaper.proj

Ids == {P.tracks[t].id : t \in DOMAIN P.tracks}

\* The smallest number that is not in a set of them.
Free(ids) == CHOOSE n \in 1..(Cardinality(ids) + 1) : n \notin ids /\ 1..(n - 1) \subseteq ids

\* Track numbers a client may send: the tracks, and one there is none for.
TrackArgs == 1..(Len(P.tracks) + 1)

\* requireTrack throws for the others.
IsTrack(t) == t \in DOMAIN P.tracks

WithTrack(t, x) == [P EXCEPT !.tracks[t] = x]

\* REAPER drops the sends to a track with the track.
WithoutTrack(p, t) ==
    [p EXCEPT !.tracks = [k \in DOMAIN RemoveAt(@, t) |->
       [RemoveAt(@, t)[k] EXCEPT !.sends = SelectSeq(@, LAMBDA x : x.dest # p.tracks[t].id)]]]

\* Every track and the items on it are selected by number in ui.
UI(tracks, items) ==
    [tracks |-> tracks, items |-> items, render |-> "user", cursor |-> 0, rate |-> 4,
     repeat |-> FALSE, click |-> FALSE, playing |-> "stopped", range |-> 0, loop |-> 0]

\* A session begins with all of ui's settings, whatever they are.
IsView(v) ==
    v = [tracks |-> v.tracks, items |-> v.items, render |-> v.render, cursor |-> v.cursor, rate |-> v.rate,
         repeat |-> v.repeat, click |-> v.click, playing |-> v.playing, range |-> v.range, loop |-> v.loop]

ASSUME BeginningsAssumption == \A b \in Beginnings : IsView(b.ui)

Select(s, ids) == Set(s, [s.ui EXCEPT !.tracks = ids])
=============================================================================
