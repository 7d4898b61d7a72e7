-------------------------- MODULE ToolSessionProofs --------------------------
(***************************************************************************)
(* What every handler of every tool keeps, whatever the project, the       *)
(* selection and the arguments: the undo history, one undo point for each  *)
(* edit, nothing changed by a read, a preview or a failure, and the user's *)
(* selection and settings handed back.                                     *)
(***************************************************************************)
EXTENDS ToolSession, WellFoundedInduction, TLAPS

-----------------------------------------------------------------------------
(* The state of REAPER, and what a handler may have made of it on its way.  *)

\* The fields a state of REAPER has.
Fields(s) ==
    s = [proj |-> s.proj, points |-> s.points, at |-> s.at, depth |-> s.depth, base |-> s.base,
         ui |-> s.ui, file |-> s.file, renders |-> s.renders, ok |-> s.ok]

\* A block is open exactly when the project is kept from before it.
Blocks(s) == s.depth \in Nat /\ (s.depth = 0 => s.base = <<>>) /\ (s.depth # 0 => s.base # <<>>)

Steady(s) == Fields(s) /\ IsView(s.ui) /\ s.renders \in Nat /\ Blocks(s)

\* The handler has done nothing, but it may have thrown.
Idle(s) ==
    /\ Fields(s)
    /\ s.proj = Now.proj /\ s.points = Now.points /\ s.at = Now.at /\ s.depth = Now.depth
    /\ s.base = Now.base /\ s.ui = Now.ui /\ s.file = Now.file /\ s.renders = Now.renders

\* The handler has at most selected something, and may have thrown before it did.
Ready(s) ==
    /\ Fields(s) /\ IsView(s.ui)
    /\ s.proj = Now.proj /\ s.points = Now.points /\ s.at = Now.at /\ s.depth = Now.depth
    /\ s.base = Now.base /\ s.file = Now.file /\ s.renders = Now.renders
    /\ s.ok \/ s.ui = Now.ui

\* The handler has opened its block, and changed the project and the selection at most;
\* it has changed nothing of the project if it has thrown.
Busy(s) ==
    /\ Fields(s) /\ IsView(s.ui)
    /\ s.points = Now.points /\ s.at = Now.at /\ s.depth = Now.depth + 1
    /\ Now.depth = 0 => s.base = <<Now.proj>>
    /\ Now.depth # 0 => s.base = Now.base
    /\ s.file = Now.file /\ s.renders = Now.renders
    /\ s.ok \/ s.proj = Now.proj

\* One of the two, as it threw before its block or not.
Inside(s) == Busy(s) \/ (Idle(s) /\ ~s.ok)

\* The handler has closed its block, around one edit or none.
Ended(s) ==
    /\ Fields(s) /\ IsView(s.ui)
    /\ s.depth = Now.depth /\ s.base = Now.base /\ s.file = Now.file /\ s.renders = Now.renders
    /\ Now.depth # 0 \/ s.proj = Now.proj => s.points = Now.points /\ s.at = Now.at
    /\ Now.depth = 0 /\ s.proj # Now.proj =>
         s.points = Append(SubSeq(Now.points, 1, Now.at), s.proj) /\ s.at = Now.at + 1

-----------------------------------------------------------------------------
(* What the steps of a handler make of these. *)

LEMMA NowSteady ==
    ASSUME Steady(reaper)
    PROVE  Steady(Now) /\ Now.ok /\ Now.proj = P
<1>1. ASSUME NEW s, NEW b, Fields(s)
      PROVE  LET n == [s EXCEPT !.ok = b]
             IN  /\ n.proj = s.proj /\ n.depth = s.depth /\ n.base = s.base /\ n.ui = s.ui
                 /\ n.renders = s.renders /\ n.ok = b /\ Fields(n)
  BY <1>1 DEF Fields
<1>2. Fields(reaper)
  BY DEF Steady
<1>3. /\ Now.proj = reaper.proj /\ Now.depth = reaper.depth /\ Now.base = reaper.base
      /\ Now.ui = reaper.ui /\ Now.renders = reaper.renders /\ Now.ok = TRUE /\ Fields(Now)
  BY <1>1, <1>2, Zenon DEF Now
<1>4. Steady(Now)
  BY <1>3 DEF Steady, Blocks
<1> QED
  BY <1>3, <1>4 DEF P

LEMMA NowIdle ==
    ASSUME Steady(reaper)
    PROVE  Idle(Now)
<1>1. Fields(Now)
  BY NowSteady DEF Steady
<1> QED
  BY <1>1 DEF Idle

LEMMA NeedIdle ==
    ASSUME NEW s, NEW b, Idle(s)
    PROVE  Idle(Need(s, b))
<1>1. CASE s.ok
  <2>1. Need(s, b) = [s EXCEPT !.ok = b]
    BY <1>1 DEF Need
  <2> QED
    BY <2>1 DEF Idle, Fields
<1>2. CASE ~s.ok
  BY <1>2 DEF Need
<1> QED
  BY <1>1, <1>2

LEMMA IdleReady ==
    ASSUME NEW s, Idle(s), Steady(reaper)
    PROVE  Ready(s)
BY NowSteady DEF Idle, Ready, Steady

LEMMA SetReady ==
    ASSUME NEW s, NEW v, Ready(s), IsView(v)
    PROVE  Ready(Set(s, v)) /\ Set(s, v).ok = s.ok /\ (s.ok => Set(s, v).ui = v)
<1>1. CASE s.ok
  <2>1. Set(s, v) = [s EXCEPT !.ui = v]
    BY <1>1 DEF Set
  <2> QED
    BY <2>1, <1>1 DEF Ready, Fields
<1>2. CASE ~s.ok
  BY <1>2 DEF Set
<1> QED
  BY <1>1, <1>2

LEMMA BeginInside ==
    ASSUME NEW s, Ready(s), Steady(reaper)
    PROVE  Inside(Begin(s)) /\ Begin(s).proj = s.proj /\ Begin(s).ui = s.ui /\ Begin(s).ok = s.ok
<1>0. Now.depth \in Nat /\ IsView(Now.ui)
  BY NowSteady DEF Steady, Blocks
<1>1. CASE s.ok
  <2>1. Begin(s) = [s EXCEPT !.depth = @ + 1, !.base = IF s.depth = 0 THEN <<s.proj>> ELSE @]
    BY <1>1 DEF Begin
  <2>2. CASE s.depth = 0
    <3>1. Begin(s) = [s EXCEPT !.depth = s.depth + 1, !.base = <<s.proj>>]
      BY <2>1, <2>2
    <3> HIDE DEF Now
    <3> QED
      BY <3>1, <2>2, <1>0, <1>1, ZenonT(60) DEF Ready, Fields, Inside, Busy
  <2>3. CASE s.depth # 0
    <3>1. Begin(s) = [s EXCEPT !.depth = s.depth + 1]
      BY <2>1, <2>3 DEF Ready, Fields
    <3> QED
      BY <3>1, <2>3, <1>0, <1>1 DEF Ready, Fields, Inside, Busy
  <2> QED
    BY <2>2, <2>3
<1>2. CASE ~s.ok
  BY <1>2 DEF Begin, Inside, Ready, Idle
<1> QED
  BY <1>1, <1>2

LEMMA WriteInside ==
    ASSUME NEW s, NEW q, Inside(s)
    PROVE  /\ Inside(Write(s, q)) /\ Write(s, q).ui = s.ui /\ Write(s, q).ok = s.ok
           /\ s.ok => Write(s, q).proj = q
<1>1. CASE s.ok
  <2>1. Write(s, q) = [s EXCEPT !.proj = q] /\ Busy(s)
    BY <1>1 DEF Write, Inside
  <2> QED
    BY <2>1, <1>1 DEF Inside, Busy, Fields
<1>2. CASE ~s.ok
  BY <1>2 DEF Write
<1> QED
  BY <1>1, <1>2

LEMMA SetInside ==
    ASSUME NEW s, NEW v, Inside(s), IsView(v)
    PROVE  /\ Inside(Set(s, v)) /\ Set(s, v).proj = s.proj /\ Set(s, v).ok = s.ok
           /\ s.ok => Set(s, v).ui = v
<1>1. CASE s.ok
  <2>1. Set(s, v) = [s EXCEPT !.ui = v] /\ Busy(s)
    BY <1>1 DEF Set, Inside
  <2> QED
    BY <2>1, <1>1 DEF Inside, Busy, Fields
<1>2. CASE ~s.ok
  BY <1>2 DEF Set
<1> QED
  BY <1>1, <1>2

\* A throw in the block comes before the first write.
LEMMA NeedInside ==
    ASSUME NEW s, NEW b, Inside(s), s.proj = Now.proj
    PROVE  Inside(Need(s, b)) /\ Need(s, b).proj = Now.proj /\ Need(s, b).ui = s.ui
<1>1. CASE s.ok
  <2>1. Need(s, b) = [s EXCEPT !.ok = b] /\ Busy(s)
    BY <1>1 DEF Need, Inside
  <2> QED
    BY <2>1, <1>1 DEF Inside, Busy, Fields
<1>2. CASE ~s.ok
  BY <1>2 DEF Need
<1> QED
  BY <1>1, <1>2

LEMMA ClosedEnds ==
    ASSUME NEW s, Busy(s), Steady(reaper)
    PROVE  Ended(Closed(s)) /\ Closed(s).proj = s.proj /\ Closed(s).ui = s.ui /\ Closed(s).ok = s.ok
<1> DEFINE c == [s EXCEPT !.depth = @ - 1]
<1>0. Now.depth \in Nat /\ (Now.depth = 0 => Now.base = <<>>)
  BY NowSteady DEF Steady, Blocks
<1>1. /\ Fields(c) /\ c.depth = Now.depth /\ c.proj = s.proj /\ c.ui = s.ui /\ c.points = s.points
      /\ c.at = s.at /\ c.base = s.base /\ c.file = s.file /\ c.renders = s.renders /\ c.ok = s.ok
  BY <1>0 DEF Busy, Fields
<1>2. Closed(s) = IF c.depth > 0 THEN c
                  ELSE [IF <<s.proj>> # s.base THEN Pointed(c) ELSE c EXCEPT !.base = <<>>]
  BY DEF Closed
<1> HIDE DEF c
<1>3. CASE Now.depth # 0
  <2>1. Closed(s) = c
    BY <1>0, <1>1, <1>2, <1>3
  <2> QED
    BY <2>1, <1>1, <1>3 DEF Busy, Ended
<1>4. CASE Now.depth = 0 /\ s.proj = Now.proj
  <2>1. Closed(s) = [c EXCEPT !.base = <<>>]
    BY <1>1, <1>2, <1>4 DEF Busy
  <2> QED
    BY <2>1, <1>0, <1>1, <1>4 DEF Busy, Ended, Fields
<1>5. CASE Now.depth = 0 /\ s.proj # Now.proj
  <2>1. <<s.proj>> # s.base
    BY <1>5 DEF Busy
  <2>2. Closed(s) = [Pointed(c) EXCEPT !.base = <<>>]
    BY <2>1, <1>1, <1>2, <1>5
  <2>3. Pointed(c) = [c EXCEPT !.points = Append(SubSeq(c.points, 1, c.at), c.proj), !.at = c.at + 1]
    BY <1>1 DEF Pointed, Fields
  <2>4. Closed(s) = [c EXCEPT !.points = Append(SubSeq(c.points, 1, c.at), c.proj), !.at = c.at + 1, !.base = <<>>]
    BY <2>2, <2>3, <1>1 DEF Fields
  <2>5. /\ Fields(Closed(s))
        /\ Closed(s).points = Append(SubSeq(c.points, 1, c.at), c.proj) /\ Closed(s).at = c.at + 1
        /\ Closed(s).base = <<>> /\ Closed(s).proj = c.proj /\ Closed(s).depth = c.depth /\ Closed(s).ui = c.ui
        /\ Closed(s).file = c.file /\ Closed(s).renders = c.renders /\ Closed(s).ok = c.ok
    BY <2>4, <1>1 DEF Fields
  <2> QED
    BY <2>5, <1>0, <1>1, <1>5 DEF Busy, Ended
<1> QED
  BY <1>3, <1>4, <1>5

LEMMA EndInside ==
    ASSUME NEW s, Inside(s), Steady(reaper)
    PROVE  /\ s.ok => Ended(End(s)) /\ End(s).proj = s.proj /\ End(s).ui = s.ui /\ End(s).ok
           /\ ~s.ok => End(s) = s
<1>1. CASE s.ok
  <2>1. End(s) = Closed(s) /\ Busy(s)
    BY <1>1 DEF End, Inside
  <2>2. Closed(s).ok = s.ok
    BY <2>1, ClosedEnds
  <2> QED
    BY <2>1, <2>2, <1>1, ClosedEnds
<1>2. CASE ~s.ok
  BY <1>2 DEF End
<1> QED
  BY <1>1, <1>2

\* A block with one write: nothing when the handler has thrown before, or writes what is there.
LEMMA BlockEnds ==
    ASSUME NEW s, NEW q, Ready(s), Steady(reaper)
    PROVE  /\ s.ok => Ended(InBlock(s, q)) /\ InBlock(s, q).ui = s.ui /\ InBlock(s, q).ok
           /\ ~s.ok => InBlock(s, q) = s
           /\ q = P /\ s.ui = Now.ui => Idle(InBlock(s, q))
<1> DEFINE b == Begin(s)
           w == Write(b, q)
<1>1. Inside(b) /\ b.proj = s.proj /\ b.ui = s.ui /\ b.ok = s.ok
  BY BeginInside
<1>2. Inside(w) /\ w.ui = b.ui /\ w.ok = b.ok /\ (b.ok => w.proj = q)
  <2> HIDE DEF b
  <2> QED
    BY <1>1, WriteInside
<1>3. InBlock(s, q) = End(w)
  BY DEF InBlock
<1>4. ~s.ok => b = s /\ w = s /\ End(w) = s
  BY DEF Begin, Write, End
<1> HIDE DEF b, w
<1>5. /\ w.ok => Ended(End(w)) /\ End(w).proj = w.proj /\ End(w).ui = w.ui /\ End(w).ok
      /\ ~w.ok => End(w) = w
  BY <1>2, EndInside
<1>7. CASE s.ok
  <2>1. /\ Ended(InBlock(s, q)) /\ InBlock(s, q).ui = s.ui /\ InBlock(s, q).ok
        /\ InBlock(s, q).proj = q
    BY <1>1, <1>2, <1>3, <1>5, <1>7
  <2>2. q = P /\ s.ui = Now.ui => Idle(InBlock(s, q))
    BY <2>1, NowSteady DEF Ended, Idle
  <2> QED
    BY <2>1, <2>2, <1>7
<1>8. CASE ~s.ok
  BY <1>3, <1>4, <1>8 DEF Ready, Idle
<1> QED
  BY <1>7, <1>8

-----------------------------------------------------------------------------
(* What a tool that returns state r has kept.                               *)

\* Nothing is changed but the count of renders.
Read(r) ==
    /\ Fields(r)
    /\ r.proj = Now.proj /\ r.points = Now.points /\ r.at = Now.at /\ r.depth = Now.depth
    /\ r.base = Now.base /\ r.ui = Now.ui /\ r.file = Now.file /\ r.renders \in Nat

HarmedNothing(tool, dry, r) ==
    tool \in ReadOnly \/ (dry /\ r.ok) \/ (~r.ok /\ tool \notin Untidy)
      => Idle(r) \/ (tool = "analysis.check_deliverable" /\ Read(r))

MadeOnePoint(tool, r) ==
    /\ Now.depth = 0 /\ r.proj # Now.proj
    /\ tool \notin {"project.open", "project.new", "action.run", "spatial.set_source_position"}
    /\ tool # "spatial.stereo_to_ambisonic" \/ r.ok
    => r.points = Append(SubSeq(Now.points, 1, Now.at), r.proj) /\ r.at = Now.at + 1 /\ r.depth = 0

GaveBack(tool, r) ==
    tool \notin AboutTheView /\ (tool # "spatial.render_deliverables" \/ r.ok) => r.ui = Now.ui

Good(tool, dry, r) == Steady(r) /\ HarmedNothing(tool, dry, r) /\ MadeOnePoint(tool, r) /\ GaveBack(tool, r)

\* The step of a call that has.
Kept == Good(call'.tool, call'.dry, reaper')

\* The tools that may edit.
Edits(tool) == tool \notin ReadOnly

LEMMA IdleGood ==
    ASSUME NEW s, NEW tool, NEW dry, Idle(s), Steady(reaper)
    PROVE  Good(tool, dry, s)
<1>1. Steady(s)
  BY NowSteady DEF Idle, Steady, Blocks
<1>2. HarmedNothing(tool, dry, s)
  BY DEF HarmedNothing
<1>3. MadeOnePoint(tool, s) /\ GaveBack(tool, s)
  BY DEF Idle, MadeOnePoint, GaveBack
<1> QED
  BY <1>1, <1>2, <1>3 DEF Good

LEMMA EndedGood ==
    ASSUME NEW r, NEW tool, Ended(r), Edits(tool), Steady(reaper),
           r.ui = Now.ui \/ tool \in AboutTheView, r.ok \/ tool \in Untidy \/ Idle(r)
    PROVE  Good(tool, FALSE, r)
<1>1. Steady(r)
  BY NowSteady DEF Ended, Steady, Blocks
<1>2. HarmedNothing(tool, FALSE, r)
  BY DEF HarmedNothing, Edits
<1>3. MadeOnePoint(tool, r) /\ GaveBack(tool, r)
  BY DEF Ended, MadeOnePoint, GaveBack
<1> QED
  BY <1>1, <1>2, <1>3 DEF Good

LEMMA ReturnsKept ==
    ASSUME NEW tool, NEW args, NEW r, Returns(tool, args, r), Good(tool, FALSE, r)
    PROVE  Kept
<1>1. call'.tool = tool /\ call'.dry = FALSE /\ reaper' = r
  BY DEF Returns
<1> QED
  BY <1>1, Zenon DEF Kept

LEMMA PreviewsKept ==
    ASSUME NEW tool, NEW args, NEW r, Previews(tool, args, r), Good(tool, TRUE, r)
    PROVE  Kept
<1>1. call'.tool = tool /\ call'.dry = TRUE /\ reaper' = r
  BY DEF Previews
<1> QED
  BY <1>1, Zenon DEF Kept

\* A view with one setting changed is a view.
LEMMA ViewChanges ==
    ASSUME NEW v, NEW x, IsView(v)
    PROVE  /\ IsView([v EXCEPT !.tracks = x]) /\ IsView([v EXCEPT !.items = x])
           /\ IsView([v EXCEPT !.render = x]) /\ IsView([v EXCEPT !.cursor = x])
           /\ IsView([v EXCEPT !.rate = x]) /\ IsView([v EXCEPT !.repeat = x])
           /\ IsView([v EXCEPT !.click = x]) /\ IsView([v EXCEPT !.playing = x])
           /\ IsView([v EXCEPT !.range = x]) /\ IsView([v EXCEPT !.loop = x])
BY DEF IsView

LEMMA NowView == ASSUME Steady(reaper) PROVE IsView(Now.ui)
BY NowSteady DEF Steady

LEMMA SelectView ==
    ASSUME NEW s, NEW ids, IsView(s.ui)
    PROVE  Select(s, ids) = Set(s, [s.ui EXCEPT !.tracks = ids]) /\ IsView([s.ui EXCEPT !.tracks = ids])
BY ViewChanges DEF Select

\* What was selected is selected again.
LEMMA SelectedAgain ==
    ASSUME NEW v, NEW x, IsView(v)
    PROVE  [[v EXCEPT !.tracks = x] EXCEPT !.tracks = v.tracks] = v
BY DEF IsView

LEMMA SetEnded ==
    ASSUME NEW s, NEW v, Ended(s), IsView(v)
    PROVE  /\ Ended(Set(s, v)) /\ Set(s, v).ok = s.ok /\ Set(s, v).proj = s.proj
           /\ s.ok => Set(s, v).ui = v
<1>1. CASE s.ok
  <2>1. Set(s, v) = [s EXCEPT !.ui = v]
    BY <1>1 DEF Set
  <2> QED
    BY <2>1, <1>1 DEF Ended, Fields
<1>2. CASE ~s.ok
  BY <1>2 DEF Set
<1> QED
  BY <1>1, <1>2

\* The handler has changed the selection and the settings at most, and rendered.
Lent(s) ==
    /\ Fields(s) /\ IsView(s.ui) /\ s.renders \in Nat
    /\ s.proj = Now.proj /\ s.points = Now.points /\ s.at = Now.at /\ s.depth = Now.depth
    /\ s.base = Now.base /\ s.file = Now.file

LEMMA IdleLent ==
    ASSUME NEW s, Idle(s), Steady(reaper)
    PROVE  Lent(s)
BY NowSteady DEF Idle, Lent, Steady

LEMMA LentIdle ==
    ASSUME NEW s, Lent(s), s.ui = Now.ui, s.renders = Now.renders
    PROVE  Idle(s)
BY DEF Idle, Lent

LEMMA SetLent ==
    ASSUME NEW s, NEW v, Lent(s), IsView(v)
    PROVE  /\ Lent(Set(s, v)) /\ Set(s, v).ok = s.ok /\ Set(s, v).renders = s.renders
           /\ s.ok => Set(s, v).ui = v
           /\ ~s.ok => Set(s, v) = s
<1>1. CASE s.ok
  <2>1. Set(s, v) = [s EXCEPT !.ui = v]
    BY <1>1 DEF Set
  <2> QED
    BY <2>1, <1>1 DEF Lent, Fields
<1>2. CASE ~s.ok
  BY <1>2 DEF Set
<1> QED
  BY <1>1, <1>2

LEMMA RenderedLent ==
    ASSUME NEW s, Lent(s)
    PROVE  /\ Lent(Rendered(s)) /\ Rendered(s).ok = s.ok /\ Rendered(s).ui = s.ui
           /\ ~s.ok => Rendered(s) = s
<1>1. CASE s.ok
  <2> DEFINE n == s.renders + 1
  <2>1. Rendered(s) = [s EXCEPT !.renders = n]
    BY <1>1 DEF Rendered
  <2>2. n \in Nat
    BY DEF Lent
  <2> HIDE DEF n
  <2> QED
    BY <1>1, <2>1, <2>2 DEF Lent, Fields
<1>2. CASE ~s.ok
  BY <1>2 DEF Rendered
<1> QED
  BY <1>1, <1>2

LEMMA NeedLent ==
    ASSUME NEW s, NEW b, Lent(s)
    PROVE  Lent(Need(s, b)) /\ Need(s, b).ui = s.ui /\ Need(s, b).renders = s.renders
<1>1. CASE s.ok
  <2>1. Need(s, b) = [s EXCEPT !.ok = b]
    BY <1>1 DEF Need
  <2> QED
    BY <2>1 DEF Lent, Fields
<1>2. CASE ~s.ok
  BY <1>2 DEF Need
<1> QED
  BY <1>1, <1>2

LEMMA LentGood ==
    ASSUME NEW s, NEW tool, Lent(s), s.ui = Now.ui, Edits(tool), Steady(reaper), s.ok \/ Idle(s)
    PROVE  Good(tool, FALSE, s)
<1>1. Steady(s)
  BY NowSteady DEF Lent, Steady, Blocks
<1>2. HarmedNothing(tool, FALSE, s)
  BY DEF HarmedNothing, Edits
<1>3. MadeOnePoint(tool, s) /\ GaveBack(tool, s)
  BY DEF Lent, MadeOnePoint, GaveBack
<1> QED
  BY <1>1, <1>2, <1>3 DEF Good

-----------------------------------------------------------------------------
(* The shapes most handlers have.                                           *)

LEMMA Reads ==
    ASSUME NEW tool, NEW args, NEW s, Idle(s), Steady(reaper),
           Returns(tool, args, s) \/ Previews(tool, args, s)
    PROVE  Kept
<1>1. Good(tool, FALSE, s) /\ Good(tool, TRUE, s)
  BY IdleGood
<1> QED
  BY <1>1, ReturnsKept, PreviewsKept

LEMMA Blocked ==
    ASSUME NEW tool, NEW args, NEW s, NEW q, Idle(s), Steady(reaper), Edits(tool),
           Returns(tool, args, InBlock(s, q))
    PROVE  Kept
<1>0. Ready(s) /\ s.ui = Now.ui
  BY IdleReady DEF Idle
<1>1. CASE s.ok
  BY <1>0, <1>1, BlockEnds, EndedGood, ReturnsKept
<1>2. CASE ~s.ok
  BY <1>0, <1>2, BlockEnds, IdleGood, ReturnsKept
<1> QED
  BY <1>1, <1>2

\* A write that may fail, for which the handler throws when it has closed the block.
LEMMA Tried ==
    ASSUME NEW tool, NEW args, NEW s, NEW q, NEW b, Idle(s), Steady(reaper), Edits(tool),
           b \/ q = P, Returns(tool, args, Need(InBlock(s, q), b))
    PROVE  Kept
<1> DEFINE e == InBlock(s, q)
<1>0. Ready(s) /\ s.ui = Now.ui
  BY IdleReady DEF Idle
<1>1. Idle(e) => Idle(Need(e, b))
  BY NeedIdle
<1>2. CASE ~s.ok \/ q = P
  <2>1. Idle(e)
    BY <1>0, <1>2, BlockEnds
  <2>2. Good(tool, FALSE, Need(e, b))
    BY <2>1, <1>1, IdleGood
  <2> QED
    BY <2>2, ReturnsKept
<1>3. CASE s.ok /\ b
  <2>1. Ended(e) /\ e.ui = Now.ui /\ e.ok
    BY <1>0, <1>3, BlockEnds
  <2> HIDE DEF e
  <2>2. Need(e, b) = [e EXCEPT !.ok = b]
    BY <2>1 DEF Need
  <2>3. Ended(Need(e, b)) /\ Need(e, b).ui = Now.ui /\ Need(e, b).ok
    BY <2>1, <2>2, <1>3 DEF Ended, Fields
  <2>4. Good(tool, FALSE, Need(e, b))
    BY <2>3, EndedGood
  <2> QED
    BY <2>4, ReturnsKept DEF e
<1> QED
  BY <1>2, <1>3

\* A block in which more happens.
LEMMA Closing ==
    ASSUME NEW tool, NEW args, NEW s, Inside(s), Steady(reaper), Edits(tool),
           s.ui = Now.ui \/ tool \in AboutTheView, s.ok \/ Idle(s), Returns(tool, args, End(s))
    PROVE  Kept
<1>1. CASE s.ok
  BY <1>1, EndInside, EndedGood, ReturnsKept
<1>2. CASE ~s.ok
  BY <1>2, EndInside, IdleGood, ReturnsKept
<1> QED
  BY <1>1, <1>2

\* A change of what no undo brings back.
LEMMA Views ==
    ASSUME NEW tool, NEW args, NEW s, NEW v, Idle(s), Steady(reaper), Edits(tool), tool \in AboutTheView,
           IsView(v), Returns(tool, args, Set(s, v))
    PROVE  Kept
<1>1. CASE s.ok
  <2>1. Set(s, v) = [s EXCEPT !.ui = v]
    BY <1>1 DEF Set
  <2>2. /\ Ended(Set(s, v)) /\ Set(s, v).ok = s.ok
    BY <2>1, NowSteady DEF Idle, Ended, Fields
  <2> QED
    BY <2>2, <1>1, EndedGood, ReturnsKept
<1>2. CASE ~s.ok
  <2>1. Set(s, v) = s
    BY <1>2 DEF Set
  <2> QED
    BY <2>1, IdleGood, ReturnsKept
<1> QED
  BY <1>1, <1>2

-----------------------------------------------------------------------------
(* Tracks and the project.                                                  *)

LEMMA TransportKept == ASSUME Steady(reaper), Transport PROVE Kept
<1>0. \A tool \in {"transport.set", "transport.set_repeat", "transport.set_playrate", "transport.set_metronome"} :
        Edits(tool) /\ tool \in AboutTheView
  BY DEF Edits, ReadOnly, AboutTheView
<1>1. CASE Returns("transport.get_state", <<>>, Now)
  BY <1>1, NowIdle, Reads
<1>2. ASSUME NEW action, Returns("transport.set", <<action>>, Set(Need(Now, action # "jump"), [Now.ui EXCEPT !.playing = action]))
      PROVE  Kept
  BY <1>0, <1>2, NowIdle, NeedIdle, NowView, ViewChanges, Views, Zenon
<1>3. CASE Returns("transport.set", <<"goto">>, Set(Now, [Now.ui EXCEPT !.cursor = 1]))
  BY <1>0, <1>3, NowIdle, NowView, ViewChanges, Views
<1>4. ASSUME NEW on, Returns("transport.set_repeat", <<on>>, Set(Now, [Now.ui EXCEPT !.repeat = on]))
      PROVE  Kept
  BY <1>0, <1>4, NowIdle, NowView, ViewChanges, Views
<1>5. ASSUME NEW r, Returns("transport.set_playrate", <<r>>, Set(Now, [Now.ui EXCEPT !.rate = Clamp(1, 16, r)]))
      PROVE  Kept
  BY <1>0, <1>5, NowIdle, NowView, ViewChanges, Views
<1>6. ASSUME NEW on, Returns("transport.set_metronome", <<on>>,
                 IF Now.ui.click # on THEN Set(Now, [Now.ui EXCEPT !.click = ~@]) ELSE Now)
      PROVE  Kept
  <2>1. CASE Now.ui.click # on
    BY <1>0, <1>6, <2>1, NowIdle, NowView, ViewChanges, Views, Zenon
  <2>2. CASE Now.ui.click = on
    BY <1>6, <2>2, NowIdle, Reads
  <2> QED
    BY <2>1, <2>2
<1> QED
  BY <1>1, <1>2, <1>3, <1>4, <1>5, <1>6, Zenon DEF Transport

LEMMA ProjectSaveKept == ASSUME Steady(reaper), ProjectSave PROVE Kept
<1>0. Edits("project.save")
  BY DEF Edits, ReadOnly
<1>1. CASE Returns("project.get_summary", <<>>, Now)
  BY <1>1, NowIdle, Reads
<1>2. ASSUME NEW path, NEW s, s = Need(Now, path \/ Now.file # <<>>),
             Returns("project.save", <<path>>, IF s.ok THEN [s EXCEPT !.file = <<s.proj>>] ELSE s)
      PROVE  Kept
  <2>1. Idle(s)
    BY <1>2, NowIdle, NeedIdle, Zenon
  <2>2. CASE s.ok
    <3> DEFINE r == [s EXCEPT !.file = <<s.proj>>]
    <3>1. /\ Fields(r) /\ r.proj = Now.proj /\ r.points = Now.points /\ r.at = Now.at /\ r.depth = Now.depth
          /\ r.base = Now.base /\ r.ui = Now.ui /\ r.renders = Now.renders /\ r.ok = s.ok
      BY <2>1 DEF Idle, Fields
    <3> HIDE DEF r
    <3>2. Good("project.save", FALSE, r)
      BY <1>0, <2>2, <3>1, NowSteady DEF Good, Edits, Steady, Blocks, HarmedNothing, MadeOnePoint, GaveBack
    <3>3. Returns("project.save", <<path>>, r)
      BY <1>2, <2>2 DEF r
    <3> QED
      BY <3>2, <3>3, ReturnsKept
  <2>3. CASE ~s.ok
    BY <1>2, <2>1, <2>3, Reads
  <2> QED
    BY <2>2, <2>3
<1> QED
  BY <1>1, <1>2, Zenon DEF ProjectSave

LEMMA LoadedFields ==
    ASSUME NEW s, NEW q, Fields(s)
    PROVE  LET k == Loaded(s, q)
           IN  /\ Fields(k) /\ k.depth = 0 /\ k.base = <<>> /\ k.renders = s.renders /\ k.ok = s.ok
               /\ k.ui = [s.ui EXCEPT !.tracks = {}, !.items = {}]
<1> DEFINE u == [s.ui EXCEPT !.tracks = {}, !.items = {}]
           p == <<q>>
           b == <<>>
           a == 1
           d == 0
           k1 == [s EXCEPT !.proj = q]
           k2 == [k1 EXCEPT !.points = p]
           k3 == [k2 EXCEPT !.at = a]
           k4 == [k3 EXCEPT !.depth = d]
           k5 == [k4 EXCEPT !.base = b]
           k6 == [k5 EXCEPT !.ui = u]
<1>1. Loaded(s, q) = k6
  BY DEF Loaded
<1> HIDE DEF u, p, b, a, d
<1>2. Fields(k1) /\ k1.renders = s.renders /\ k1.ok = s.ok
  BY DEF Fields
<1> HIDE DEF k1
<1>3. Fields(k2) /\ k2.renders = s.renders /\ k2.ok = s.ok
  BY <1>2 DEF Fields
<1> HIDE DEF k2
<1>4. Fields(k3) /\ k3.renders = s.renders /\ k3.ok = s.ok
  BY <1>3 DEF Fields
<1> HIDE DEF k3
<1>5. Fields(k4) /\ k4.renders = s.renders /\ k4.ok = s.ok /\ k4.depth = d
  BY <1>4 DEF Fields
<1> HIDE DEF k4
<1>6. Fields(k5) /\ k5.renders = s.renders /\ k5.ok = s.ok /\ k5.depth = d /\ k5.base = b
  BY <1>5 DEF Fields
<1> HIDE DEF k5
<1>7. Fields(k6) /\ k6.renders = s.renders /\ k6.ok = s.ok /\ k6.depth = d /\ k6.base = b /\ k6.ui = u
  BY <1>6 DEF Fields
<1> QED
  BY <1>1, <1>7 DEF u, b, d

LEMMA LoadedSteady ==
    ASSUME NEW s, NEW q, Idle(s), Steady(reaper)
    PROVE  Steady(Loaded(s, q)) /\ Loaded(s, q).ok = s.ok
<1>1. IsView(s.ui) /\ Fields(s) /\ s.renders \in Nat
  BY NowSteady DEF Idle, Steady
<1>2. IsView([s.ui EXCEPT !.tracks = {}, !.items = {}])
  <2>1. ASSUME NEW v, NEW x, IsView(v) PROVE IsView([v EXCEPT !.tracks = x, !.items = x])
    <3>1. [v EXCEPT !.tracks = x, !.items = x] = [[v EXCEPT !.tracks = x] EXCEPT !.items = x]
      OBVIOUS
    <3> QED
      BY <2>1, <3>1, ViewChanges
  <2> QED
    BY <1>1, <2>1
<1> DEFINE l == Loaded(s, q)
<1>3. /\ Fields(l) /\ l.depth = 0 /\ l.base = <<>> /\ l.renders = s.renders /\ l.ok = s.ok
      /\ l.ui = [s.ui EXCEPT !.tracks = {}, !.items = {}]
  BY <1>1, LoadedFields
<1> HIDE DEF l
<1>4. Steady(l)
  BY <1>1, <1>2, <1>3 DEF Steady, Blocks
<1> QED
  BY <1>3, <1>4 DEF l

LEMMA Opened ==
    ASSUME NEW tool \in {"project.open", "project.new"}, NEW args, NEW s, NEW r, Idle(s), Steady(reaper),
           s.ok => Steady(r) /\ r.ok,
           Returns(tool, args, IF s.ok THEN r ELSE s)
    PROVE  Kept
<1>1. Edits(tool) /\ tool \in AboutTheView
  BY DEF Edits, ReadOnly, AboutTheView
<1>2. CASE s.ok
  <2>1. Good(tool, FALSE, r)
    BY <1>1, <1>2 DEF Good, Edits, HarmedNothing, MadeOnePoint, GaveBack
  <2> QED
    BY <1>2, <2>1, ReturnsKept
<1>3. CASE ~s.ok
  BY <1>3, Reads
<1> QED
  BY <1>2, <1>3

LEMMA ProjectOpenKept == ASSUME Steady(reaper), ProjectOpen PROVE Kept
<1>1. ASSUME NEW found, NEW discard, NEW dirty, NEW s, s = Need(Need(Now, found /\ Now.file # <<>>), discard \/ ~dirty),
             Returns("project.open", <<found, discard>>, IF s.ok THEN Loaded(s, s.file[1]) ELSE s)
      PROVE  Kept
  <2>1. Idle(s)
    BY <1>1, NowIdle, NeedIdle, Zenon
  <2> QED
    BY <1>1, <2>1, LoadedSteady, Opened
<1>2. ASSUME NEW dirty, NEW s, s = Need(Now, ~dirty),
             Returns("project.new", <<>>, IF s.ok THEN [Loaded(s, Empty) EXCEPT !.file = <<>>] ELSE s)
      PROVE  Kept
  <2>1. Idle(s)
    BY <1>2, NowIdle, NeedIdle, Zenon
  <2> DEFINE r == [Loaded(s, Empty) EXCEPT !.file = <<>>]
  <2>2. Steady(r) /\ r.ok = s.ok
    BY <2>1, LoadedSteady DEF Steady, Fields, Blocks
  <2> HIDE DEF r
  <2>3. Returns("project.new", <<>>, IF s.ok THEN r ELSE s)
    BY <1>2 DEF r
  <2> QED
    BY <2>1, <2>2, <2>3, Opened
<1> QED
  BY <1>1, <1>2, ZenonT(60) DEF ProjectOpen

LEMMA ProjectRenderKept == ASSUME Steady(reaper), ProjectRender PROVE Kept
<1>0. Edits("project.render")
  BY DEF Edits, ReadOnly
<1>1. PICK path \in BOOLEAN, dry \in BOOLEAN :
        LET s    == Set(Now, [Now.ui EXCEPT !.render = IF path THEN "call" ELSE @])
            done == Set(IF dry THEN s ELSE Rendered(s), Now.ui)
        IN  IF dry THEN Previews("project.render", <<path>>, done) ELSE Returns("project.render", <<path>>, done)
  BY Zenon DEF ProjectRender
<1> DEFINE v == [Now.ui EXCEPT !.render = IF path THEN "call" ELSE @]
           s == Set(Now, v)
<1>2. Now.ok /\ Lent(Now) /\ IsView(Now.ui)
  BY NowSteady, NowIdle, IdleLent, NowView
<1>3. IsView(v)
  BY <1>2, ViewChanges
<1> HIDE DEF v
<1>4. Lent(s) /\ s.ok /\ s.renders = Now.renders
  BY <1>2, <1>3, SetLent
<1>5. CASE dry
  <2>1. Previews("project.render", <<path>>, Set(s, Now.ui))
    BY <1>1, <1>5 DEF v
  <2> HIDE DEF s
  <2>2. Lent(Set(s, Now.ui)) /\ Set(s, Now.ui).ui = Now.ui /\ Set(s, Now.ui).renders = Now.renders
    BY <1>2, <1>4, SetLent
  <2>3. Idle(Set(s, Now.ui))
    BY <2>2, LentIdle
  <2> QED
    BY <2>1, <2>3, Reads
<1>6. CASE ~dry
  <2>1. Returns("project.render", <<path>>, Set(Rendered(s), Now.ui))
    BY <1>1, <1>6 DEF v
  <2> HIDE DEF s
  <2>2. Lent(Rendered(s)) /\ Rendered(s).ok
    BY <1>4, RenderedLent
  <2> DEFINE r == Set(Rendered(s), Now.ui)
  <2>3. Lent(r) /\ r.ui = Now.ui /\ r.ok
    BY <1>2, <2>2, SetLent
  <2> HIDE DEF r
  <2>4. Good("project.render", FALSE, r)
    BY <1>0, <2>3, LentGood
  <2> QED
    BY <2>1, <2>4, ReturnsKept DEF r
<1> QED
  BY <1>5, <1>6

LEMMA TrackAddKept == ASSUME Steady(reaper), TrackAdd PROVE Kept
<1>1. Edits("track.add")
  BY DEF Edits, ReadOnly
<1> QED
  BY <1>1, NowIdle, Blocked DEF TrackAdd

LEMMA SetFaderKept == ASSUME Steady(reaper), SetFader PROVE Kept
<1>1. Edits("track.set_fader")
  BY DEF Edits, ReadOnly
<1> QED
  BY <1>1, NowIdle, NeedIdle, Blocked DEF SetFader

\* Whether the transaction's write works or not.
LEMMA Transacted ==
    ASSUME NEW tool, NEW args, NEW s, NEW q, NEW works, Idle(s), Steady(reaper), Edits(tool),
           Returns(tool, args, InTransaction(s, q, works))
    PROVE  Kept
<1>1. CASE ~s.ok
  <2>1. InTransaction(s, q, works) = s
    BY <1>1 DEF InTransaction
  <2> QED
    BY <2>1, Reads
<1>2. CASE s.ok /\ works
  <2>1. InTransaction(s, q, works) = InBlock(s, q)
    BY <1>2 DEF InTransaction
  <2> QED
    BY <2>1, Blocked
<1>3. CASE s.ok /\ ~works
  <2> DEFINE b == Begin(s)
  <2>1. InTransaction(s, q, works) = [Closed(b) EXCEPT !.ok = FALSE]
    BY <1>3 DEF InTransaction
  <2>2. Inside(b) /\ b.proj = s.proj /\ b.ui = s.ui /\ b.ok
    BY <1>3, IdleReady, BeginInside
  <2> HIDE DEF b
  <2>3. Ended(Closed(b)) /\ Closed(b).proj = b.proj /\ Closed(b).ui = b.ui
    BY <2>2, ClosedEnds DEF Inside
  <2>4. Idle(Closed(b))
    BY <2>2, <2>3 DEF Idle, Ended
  <2>5. ASSUME NEW r, NEW x, Idle(r) PROVE Idle([r EXCEPT !.ok = x])
    BY <2>5 DEF Idle, Fields
  <2>6. Idle([Closed(b) EXCEPT !.ok = FALSE])
    BY <2>4, <2>5, Zenon
  <2> QED
    BY <2>1, <2>6, Reads
<1> QED
  BY <1>1, <1>2, <1>3

LEMMA AppliesKept ==
    ASSUME NEW tool, NEW args, NEW s, NEW t, NEW chunk, Idle(s), Steady(reaper), Edits(tool),
           Applies(tool, args, s, t, chunk)
    PROVE  Kept
<1>1. CASE s.ok /\ Changed(StateChunk(P.tracks[t]), chunk)
  <2>1. Idle(Need(s, FALSE))
    BY NeedIdle, Zenon
  <2>2. \/ Previews(tool, args, s)
        \/ Returns(tool, Append(args, "unconfirmed"), Need(s, FALSE))
        \/ \E works \in BOOLEAN :
             Returns(tool, Append(args, "confirmed"),
                     InTransaction(s, WithTrack(t, WithChunk(P.tracks[t], chunk)), works))
    BY <1>1, Zenon DEF Applies
  <2> QED
    BY <2>1, <2>2, Reads, Transacted, Zenon
<1>2. CASE ~(s.ok /\ Changed(StateChunk(P.tracks[t]), chunk))
  <2>1. Returns(tool, args, s)
    BY <1>2, Zenon DEF Applies
  <2> QED
    BY <2>1, Reads
<1> QED
  BY <1>1, <1>2

LEMMA SetStateChunkKept == ASSUME Steady(reaper), SetStateChunk PROVE Kept
<1>1. Edits("track.set_state_chunk")
  BY DEF Edits, ReadOnly
<1>2. PICK t, valid, chunk, s :
        /\ s = IF valid THEN Need(Now, IsTrack(t)) ELSE Need(Now, ValidChunk(chunk))
        /\ Applies("track.set_state_chunk", <<t, valid>>, s, t, chunk)
  BY Zenon DEF SetStateChunk
<1>3. Idle(s)
  <2>1. CASE valid
    BY <1>2, <2>1, NowIdle, NeedIdle, Zenon
  <2>2. CASE ~valid
    BY <1>2, <2>2, NowIdle, NeedIdle, Zenon
  <2> QED
    BY <2>1, <2>2
<1> QED
  BY <1>1, <1>2, <1>3, AppliesKept, Zenon

LEMMA PatchStateKept == ASSUME Steady(reaper), PatchState PROVE Kept
<1>1. Edits("track.patch_state")
  BY DEF Edits, ReadOnly
<1>2. PICK t, patches, old, s, u :
        /\ s = Need(Need(Now, ValidPatches(patches)), IsTrack(t))
        /\ u = IF s.ok THEN Need(Need(s, MissingKeys(old, patches) = {}), ValidChunk(Patched(old, patches))) ELSE s
        /\ Applies("track.patch_state", <<t, patches>>, u, t, Patched(old, patches))
  BY Zenon DEF PatchState
<1>3. Idle(s)
  BY <1>2, NowIdle, NeedIdle, Zenon
<1>4. Idle(u)
  <2>1. CASE s.ok
    BY <1>2, <1>3, <2>1, NeedIdle, Zenon
  <2>2. CASE ~s.ok
    BY <1>2, <1>3, <2>2, Zenon
  <2> QED
    BY <2>1, <2>2
<1> QED
  BY <1>1, <1>2, <1>4, AppliesKept, Zenon

LEMMA Selects ==
    ASSUME NEW tool, NEW args, NEW s, NEW ids, Idle(s), Steady(reaper), Edits(tool), tool \in AboutTheView,
           Returns(tool, args, Select(s, ids))
    PROVE  Kept
<1> DEFINE v == [s.ui EXCEPT !.tracks = ids]
<1>1. IsView(s.ui)
  BY NowView DEF Idle
<1>2. Select(s, ids) = Set(s, v) /\ IsView(v)
  BY <1>1, SelectView
<1> HIDE DEF v
<1>3. Returns(tool, args, Set(s, v))
  BY <1>2
<1> QED
  BY <1>2, <1>3, Views

LEMMA TrackSelectKept == ASSUME Steady(reaper), TrackSelect PROVE Kept
<1>1. Edits("track.select") /\ "track.select" \in AboutTheView
  BY DEF Edits, ReadOnly, AboutTheView
<1>2. ASSUME NEW args, NEW b, NEW ids, Returns("track.select", args, Select(Need(Now, b), ids))
      PROVE  Kept
  BY <1>1, <1>2, NowIdle, NeedIdle, Selects, Zenon
<1> QED
  BY <1>2, NowIdle, Reads, Zenon DEF TrackSelect

LEMMA TrackRemoveKept == ASSUME Steady(reaper), TrackRemove PROVE Kept
<1>1. Edits("track.remove")
  BY DEF Edits, ReadOnly
<1> QED
  BY <1>1, NowIdle, NeedIdle, Blocked DEF TrackRemove

LEMMA SetNameKept == ASSUME Steady(reaper), SetName PROVE Kept
<1>1. Edits("track.set_name")
  BY DEF Edits, ReadOnly
<1> QED
  BY <1>1, NowIdle, NeedIdle, Blocked, Reads DEF SetName

LEMMA SetMuteSoloPhaseWidthKept == ASSUME Steady(reaper), SetMuteSoloPhaseWidth PROVE Kept
<1>1. /\ Edits("track.set_mute") /\ Edits("track.set_solo") /\ Edits("track.set_phase")
      /\ Edits("track.set_width")
  BY DEF Edits, ReadOnly
<1> QED
  BY <1>1, NowIdle, NeedIdle, Blocked DEF SetMuteSoloPhaseWidth, SetsTrack

LEMMA SetColorRecArmInputMonKept == ASSUME Steady(reaper), SetColorRecArmInputMon PROVE Kept
<1>1. /\ Edits("track.set_color") /\ Edits("track.set_rec_arm") /\ Edits("track.set_rec_input")
      /\ Edits("track.set_rec_mon")
  BY DEF Edits, ReadOnly
<1> QED
  BY <1>1, NowIdle, NeedIdle, Blocked DEF SetColorRecArmInputMon, SetsTrack

LEMMA SetRecModeFolderKept == ASSUME Steady(reaper), SetRecModeFolder PROVE Kept
<1>1. Edits("track.set_rec_mode") /\ Edits("track.set_folder")
  BY DEF Edits, ReadOnly
<1> QED
  BY <1>1, NowIdle, NeedIdle, Blocked DEF SetRecModeFolder, SetsTrack

\* The selection is changed for the command of a block, and the user's again after it.
LEMMA Lends ==
    ASSUME NEW tool, NEW args, NEW s, NEW ids, NEW q, Idle(s), Steady(reaper), Edits(tool),
           Returns(tool, args, Select(InBlock(Select(s, ids), q), Now.ui.tracks))
    PROVE  Kept
<1> DEFINE u == Select(s, ids)
           e == InBlock(u, q)
           r == Select(e, Now.ui.tracks)
<1>1. IsView(s.ui) /\ s.ui = Now.ui
  BY NowView DEF Idle
<1>2. u = Set(s, [s.ui EXCEPT !.tracks = ids]) /\ IsView([s.ui EXCEPT !.tracks = ids])
  BY <1>1, SelectView
<1>3. Ready(u) /\ u.ok = s.ok
  BY <1>2, IdleReady, SetReady
<1>4. CASE s.ok
  <2>1. u.ui = [Now.ui EXCEPT !.tracks = ids]
    BY <1>1, <1>2, <1>4, IdleReady, SetReady
  <2> HIDE DEF u
  <2>2. Ended(e) /\ e.ui = u.ui /\ e.ok
    BY <1>3, <1>4, BlockEnds
  <2> HIDE DEF e
  <2>3. r = Set(e, [e.ui EXCEPT !.tracks = Now.ui.tracks])
    BY DEF Select
  <2>4. [e.ui EXCEPT !.tracks = Now.ui.tracks] = Now.ui
    BY <1>1, <2>1, <2>2, SelectedAgain, ZenonT(60)
  <2>5. Ended(r) /\ r.ui = Now.ui /\ r.ok
    BY <1>1, <2>2, <2>3, <2>4, SetEnded
  <2> HIDE DEF r
  <2>6. Good(tool, FALSE, r)
    BY <2>5, EndedGood
  <2> QED
    BY <2>6, ReturnsKept DEF r, e, u
<1>5. CASE ~s.ok
  <2>1. u = s /\ e = s /\ r = s
    BY <1>5 DEF Select, Set, InBlock, Begin, Write, End
  <2> QED
    BY <2>1, Reads
<1> QED
  BY <1>4, <1>5

LEMMA TrackFreezeKept == ASSUME Steady(reaper), TrackFreeze PROVE Kept
<1>1. Edits("track.freeze")
  BY DEF Edits, ReadOnly
<1> QED
  BY <1>1, NowIdle, NeedIdle, Lends DEF TrackFreeze

LEMMA TrackUnfreezeKept == ASSUME Steady(reaper), TrackUnfreeze PROVE Kept
<1>1. Edits("track.unfreeze")
  BY DEF Edits, ReadOnly
<1> QED
  BY <1>1, NowIdle, NeedIdle, Lends DEF TrackUnfreeze

LEMMA TrackGetKept == ASSUME Steady(reaper), TrackGet \/ UndoState PROVE Kept
BY NowIdle, NeedIdle, Reads DEF TrackGet, UndoState

LEMMA SelectionKept == ASSUME Steady(reaper), Selection PROVE Kept
<1>1. Edits("selection.set") /\ "selection.set" \in AboutTheView
  BY DEF Edits, ReadOnly, AboutTheView
<1>2. CASE Returns("selection.get", <<>>, Now)
  BY <1>2, NowIdle, Reads
<1>3. ASSUME NEW v, NEW x, NEW y, IsView(v)
      PROVE  IsView([v EXCEPT !.tracks = x, !.items = y])
  <2>1. [v EXCEPT !.tracks = x, !.items = y] = [[v EXCEPT !.tracks = x] EXCEPT !.items = y]
    OBVIOUS
  <2> QED
    BY <1>3, <2>1, ViewChanges
<1>4. ASSUME NEW args, NEW x, NEW y,
             Returns("selection.set", args, Set(Now, [Now.ui EXCEPT !.tracks = x, !.items = y]))
      PROVE  Kept
  BY <1>1, <1>3, <1>4, NowIdle, NowView, Views
<1> QED
  BY <1>2, <1>4, Zenon DEF Selection

LEMMA TrackNextKept == ASSUME Steady(reaper), TrackNext PROVE Kept
BY TransportKept, ProjectSaveKept, ProjectOpenKept, ProjectRenderKept, TrackAddKept, SetFaderKept,
   SetStateChunkKept, PatchStateKept, TrackSelectKept, TrackRemoveKept, SetNameKept,
   SetMuteSoloPhaseWidthKept, SetColorRecArmInputMonKept, SetRecModeFolderKept, TrackFreezeKept,
   TrackUnfreezeKept, TrackGetKept, SelectionKept DEF TrackNext

-----------------------------------------------------------------------------
(* Items and takes.                                                         *)

LEMMA ItemAddKept == ASSUME Steady(reaper), ItemAdd PROVE Kept
<1>1. Edits("item.add")
  BY DEF Edits, ReadOnly
<1> QED
  BY <1>1, NowIdle, NeedIdle, Blocked, Reads DEF ItemAdd

LEMMA SetPositionLengthMuteKept == ASSUME Steady(reaper), SetPositionLengthMute PROVE Kept
<1>1. Edits("item.set_position") /\ Edits("item.set_length") /\ Edits("item.set_mute")
  BY DEF Edits, ReadOnly
<1> QED
  BY <1>1, NowIdle, NeedIdle, Blocked DEF SetPositionLengthMute, SetsItem

LEMMA SetVolFadesKept == ASSUME Steady(reaper), SetVolFades PROVE Kept
<1>1. Edits("item.set_vol") /\ Edits("item.set_fade_in") /\ Edits("item.set_fade_out")
  BY DEF Edits, ReadOnly
<1> QED
  BY <1>1, NowIdle, NeedIdle, Blocked DEF SetVolFades, SetsItem

LEMMA SetColorSelectedKept == ASSUME Steady(reaper), SetColorSelected PROVE Kept
<1>1. Edits("item.set_color") /\ Edits("item.set_selected") /\ "item.set_selected" \in AboutTheView
  BY DEF Edits, ReadOnly, AboutTheView
<1>2. ASSUME NEW x, SetsItem("item.set_color", x, 255, With(At(x), "color", 255))
      PROVE  Kept
  BY <1>1, <1>2, NowIdle, NeedIdle, Blocked DEF SetsItem
<1>3. ASSUME NEW args, NEW b, NEW ids, Returns("item.set_selected", args, Set(Need(Now, b), [Now.ui EXCEPT !.items = ids]))
      PROVE  Kept
  BY <1>1, <1>3, NowIdle, NeedIdle, NowView, ViewChanges, Views, Zenon
<1>4. ASSUME NEW x, NEW on,
             Returns("item.set_selected", <<x, on>>,
               Set(Need(Now, IsItem(x)), [Now.ui EXCEPT !.items = IF on THEN @ \cup {At(x).id} ELSE @ \ {At(x).id}]))
      PROVE  Kept
  BY <1>3, <1>4, Zenon
<1> QED
  BY <1>2, <1>4, Zenon DEF SetColorSelected

LEMMA SplitDeleteKept == ASSUME Steady(reaper), SplitDelete PROVE Kept
<1>1. Edits("item.split") /\ Edits("item.delete")
  BY DEF Edits, ReadOnly
<1>2. ASSUME NEW args, NEW s, NEW q, NEW b, Idle(s),
             Returns("item.split", args, IF s.ok /\ b THEN InBlock(s, q) ELSE Need(s, FALSE))
      PROVE  Kept
  <2>1. CASE s.ok /\ b
    BY <1>1, <1>2, <2>1, Blocked
  <2>2. CASE ~(s.ok /\ b)
    <3>1. Idle(Need(s, FALSE))
      BY <1>2, NeedIdle, Zenon
    <3> QED
      BY <1>2, <2>2, <3>1, Reads
  <2> QED
    BY <2>1, <2>2
<1>3. ASSUME NEW x, NEW pos, NEW q,
             Returns("item.split", <<x, pos>>,
                     IF Need(Now, IsItem(x)).ok /\ Splits(x, pos) THEN InBlock(Need(Now, IsItem(x)), q)
                     ELSE Need(Need(Now, IsItem(x)), FALSE))
      PROVE  Kept
  BY <1>2, <1>3, NowIdle, NeedIdle, Zenon
<1>4. ASSUME NEW x, NEW q, Returns("item.delete", <<x>>, InBlock(Need(Now, IsItem(x)), q))
      PROVE  Kept
  BY <1>1, <1>4, NowIdle, NeedIdle, Blocked, Zenon
<1>5. ASSUME NEW x, NEW pos,
             LET left  == [At(x) EXCEPT !.len = pos - At(x).pos]
                 right == [At(x) EXCEPT !.id = Free(ItemIds), !.pos = pos, !.len = At(x).pos + At(x).len - pos]
                 s     == Need(Now, IsItem(x))
             IN  Returns("item.split", <<x, pos>>,
                         IF s.ok /\ Splits(x, pos)
                         THEN InBlock(s, WithItems(WithItem(x, left), x[1], Append(WithItem(x, left).tracks[x[1]].items, right)))
                         ELSE Need(s, FALSE))
      PROVE  Kept
  BY <1>3, <1>5
<1>6. ASSUME NEW x,
             Returns("item.delete", <<x>>,
                     InBlock(Need(Now, IsItem(x)), WithItems(P, x[1], RemoveAt(P.tracks[x[1]].items, x[2]))))
      PROVE  Kept
  BY <1>4, <1>6, Zenon
<1> QED
  BY <1>5, <1>6 DEF SplitDelete

\* A call that throws in its block leaves it open.
LEMMA OpenGood ==
    ASSUME NEW s, NEW tool, Inside(s), Steady(reaper), ~s.ok, tool \in Untidy,
           s.ui = Now.ui \/ tool \in AboutTheView, Edits(tool)
    PROVE  Good(tool, FALSE, s)
<1>1. CASE Idle(s)
  BY <1>1, IdleGood
<1>2. CASE Busy(s)
  <2>0. Blocks(Now) /\ Now.renders \in Nat
    BY NowSteady DEF Steady
  <2>1. Steady(s)
    <3>1. CASE Now.depth = 0
      <4>1. <<Now.proj>> # <<>>
        OBVIOUS
      <4>2. s.base = <<Now.proj>> /\ s.depth = 1
        BY <1>2, <3>1 DEF Busy
      <4> QED
        BY <1>2, <2>0, <4>1, <4>2 DEF Busy, Steady, Blocks
    <3>2. CASE Now.depth # 0
      BY <1>2, <2>0, <3>2 DEF Busy, Steady, Blocks
    <3> QED
      BY <3>1, <3>2
  <2>2. s.proj = Now.proj
    BY <1>2 DEF Busy
  <2> QED
    BY <2>1, <2>2 DEF Good, HarmedNothing, MadeOnePoint, GaveBack, Edits
<1> QED
  BY <1>1, <1>2 DEF Inside

LEMMA ClosingOrOpen ==
    ASSUME NEW tool, NEW args, NEW s, Inside(s), Steady(reaper), Edits(tool), tool \in Untidy,
           s.ui = Now.ui \/ tool \in AboutTheView, Returns(tool, args, End(s))
    PROVE  Kept
<1>1. CASE s.ok
  BY <1>1, Closing
<1>2. CASE ~s.ok
  BY <1>2, EndInside, OpenGood, ReturnsKept
<1> QED
  BY <1>1, <1>2

LEMMA ItemMoveKept == ASSUME Steady(reaper), ItemMove PROVE Kept
<1>1. Edits("item.move") /\ "item.move" \in Untidy
  BY DEF Edits, ReadOnly, Untidy
<1>2. ASSUME NEW args, NEW b, NEW c, NEW e, NEW q, NEW s, NEW d, s = Begin(Need(Now, b)),
             d = IF s.ok /\ c THEN Need(s, e) ELSE s, Returns("item.move", args, End(Write(d, q)))
      PROVE  Kept
  <2>1. Idle(Need(Now, b))
    BY NowIdle, NeedIdle, Zenon
  <2>2. Inside(s) /\ s.proj = Now.proj /\ s.ui = Now.ui
    BY <1>2, <2>1, IdleReady, BeginInside DEF Idle
  <2>3. Inside(Need(s, e)) /\ Need(s, e).ui = s.ui
    BY <2>2, NeedInside
  <2>4. Inside(d) /\ d.ui = Now.ui
    BY <1>2, <2>2, <2>3
  <2>5. Inside(Write(d, q)) /\ Write(d, q).ui = Now.ui
    BY <2>4, WriteInside
  <2> QED
    BY <1>1, <1>2, <2>5, ClosingOrOpen
<1> QED
  BY <1>2, ZenonT(60) DEF ItemMove

\* The block is open, or the handler has thrown before it and done nothing.
AtWork(s) == Inside(s) /\ (s.ok \/ Idle(s))

LEMMA BeginOpens ==
    ASSUME NEW s, Idle(s), Steady(reaper)
    PROVE  /\ AtWork(Begin(s)) /\ Begin(s).proj = Now.proj /\ Begin(s).ui = Now.ui /\ Begin(s).ok = s.ok
           /\ IsView(Now.ui)
<1>1. Inside(Begin(s)) /\ Begin(s).proj = s.proj /\ Begin(s).ui = s.ui /\ Begin(s).ok = s.ok
  BY IdleReady, BeginInside
<1>2. ~s.ok => Begin(s) = s
  BY DEF Begin
<1> QED
  BY <1>1, <1>2, NowView DEF AtWork, Idle

LEMMA WriteOpen ==
    ASSUME NEW s, NEW q, AtWork(s)
    PROVE  /\ AtWork(Write(s, q)) /\ Write(s, q).ui = s.ui /\ Write(s, q).ok = s.ok
           /\ s.ok => Write(s, q).proj = q
           /\ ~s.ok => Write(s, q) = s
<1>1. Inside(Write(s, q)) /\ Write(s, q).ui = s.ui /\ Write(s, q).ok = s.ok /\ (s.ok => Write(s, q).proj = q)
  BY WriteInside DEF AtWork
<1>2. ~s.ok => Write(s, q) = s
  BY DEF Write
<1> QED
  BY <1>1, <1>2 DEF AtWork

LEMMA SetOpen ==
    ASSUME NEW s, NEW v, AtWork(s), IsView(v)
    PROVE  /\ AtWork(Set(s, v)) /\ Set(s, v).proj = s.proj /\ Set(s, v).ok = s.ok
           /\ s.ok => Set(s, v).ui = v
           /\ ~s.ok => Set(s, v) = s
<1>1. Inside(Set(s, v)) /\ Set(s, v).proj = s.proj /\ Set(s, v).ok = s.ok /\ (s.ok => Set(s, v).ui = v)
  BY SetInside DEF AtWork
<1>2. ~s.ok => Set(s, v) = s
  BY DEF Set
<1> QED
  BY <1>1, <1>2 DEF AtWork

LEMMA OpenView == ASSUME NEW s, AtWork(s), Steady(reaper) PROVE IsView(s.ui)
BY NowView DEF AtWork, Inside, Busy, Idle

LEMMA SelectItemOpen ==
    ASSUME NEW s, NEW x, AtWork(s), Steady(reaper)
    PROVE  AtWork(SelectItem(s, x))
<1>1. IsView([s.ui EXCEPT !.items = {At(x).id}])
  BY OpenView, ViewChanges
<1> QED
  BY <1>1, SetOpen DEF SelectItem

LEMMA ClosingOpen ==
    ASSUME NEW tool, NEW args, NEW s, AtWork(s), Steady(reaper), Edits(tool),
           s.ui = Now.ui \/ tool \in AboutTheView, Returns(tool, args, End(s))
    PROVE  Kept
BY Closing DEF AtWork

LEMMA GlueDuplicateKept == ASSUME Steady(reaper), GlueDuplicate PROVE Kept
<1>1. \A tool \in {"item.glue", "item.duplicate"} : Edits(tool) /\ tool \in AboutTheView
  BY DEF Edits, ReadOnly, AboutTheView
<1>2. ASSUME NEW tool \in {"item.glue", "item.duplicate"}, NEW args, NEW s, NEW q, AtWork(s), Returns(tool, args, End(Write(s, q)))
      PROVE  Kept
  BY <1>1, <1>2, WriteOpen, ClosingOpen
<1>3. PICK x \in ItemArgs :
        LET s    == SelectItem(Begin(Need(Now, IsItem(x))), x)
            twin == Set(s, [s.ui EXCEPT !.items = {Free(ItemIds)}])
        IN  \/ Returns("item.glue", <<x>>, End(Write(s, OnSelected(s, Glued))))
            \/ Returns("item.duplicate", <<x>>, End(Write(twin, OnSelected(s, Duplicated))))
  BY Zenon DEF GlueDuplicate
<1> DEFINE s == SelectItem(Begin(Need(Now, IsItem(x))), x)
           twin == Set(s, [s.ui EXCEPT !.items = {Free(ItemIds)}])
<1>4. AtWork(s)
  BY NowIdle, NeedIdle, BeginOpens, SelectItemOpen, Zenon
<1>5. AtWork(twin)
  <2> HIDE DEF s
  <2>1. IsView([s.ui EXCEPT !.items = {Free(ItemIds)}])
    BY <1>4, OpenView, ViewChanges
  <2> QED
    BY <1>4, <2>1, SetOpen
<1>6. \/ \E q : Returns("item.glue", <<x>>, End(Write(s, q)))
      \/ \E q : Returns("item.duplicate", <<x>>, End(Write(twin, q)))
  BY <1>3, Zenon
<1> QED
  BY <1>2, <1>4, <1>5, <1>6, Zenon

LEMMA TakeAddDeleteCropKept == ASSUME Steady(reaper), TakeAddDeleteCrop PROVE Kept
<1>1. /\ Edits("take.add") /\ Edits("take.delete") /\ Edits("take.crop_to_active")
      /\ "take.delete" \in AboutTheView /\ "take.crop_to_active" \in AboutTheView
  BY DEF Edits, ReadOnly, AboutTheView
<1>2. ASSUME NEW args, NEW b, NEW q, NEW works, Returns("take.add", args, Need(InBlock(Need(Now, b), IF works THEN q ELSE P), works))
      PROVE  Kept
  <2>1. Idle(Need(Now, b))
    BY NowIdle, NeedIdle, Zenon
  <2>2. works \/ (IF works THEN q ELSE P) = P
    OBVIOUS
  <2> QED
    BY <1>1, <1>2, <2>1, <2>2, Tried, Zenon
<1>3. ASSUME NEW x, NEW k, NEW s, NEW u, NEW v, NEW p, NEW q, NEW b, NEW c, s = Need(Now, b),
             u = IF s.ok THEN Need(s, c) ELSE s, v = Write(Begin(u), p),
             Returns("take.delete", <<x, k>>, End(Write(SelectItem(v, x), q)))
      PROVE  Kept
  <2>1. Idle(s)
    BY <1>3, NowIdle, NeedIdle, Zenon
  <2>2. Idle(Need(s, c))
    BY <2>1, NeedIdle, Zenon
  <2>3. Idle(u)
    BY <1>3, <2>1, <2>2
  <2>4. AtWork(SelectItem(v, x))
    BY <1>3, <2>3, BeginOpens, WriteOpen, SelectItemOpen
  <2>5. AtWork(Write(SelectItem(v, x), q))
    BY <2>4, WriteOpen
  <2> QED
    BY <1>1, <1>3, <2>5, ClosingOpen
<1>4. ASSUME NEW x, NEW q, NEW s, NEW b, s = SelectItem(Begin(Need(Now, b)), x),
             Returns("take.crop_to_active", <<x>>, End(Write(s, q)))
      PROVE  Kept
  <2>1. Idle(Need(Now, b))
    BY NowIdle, NeedIdle, Zenon
  <2>2. AtWork(Write(s, q))
    BY <1>4, <2>1, BeginOpens, SelectItemOpen, WriteOpen
  <2> QED
    BY <1>1, <1>4, <2>2, ClosingOpen
<1>5. ASSUME NEW x, NEW active, NEW works,
             LET n == Len(At(x).takes) + 1
                 item == [At(x) EXCEPT !.takes = Append(@, Take("new")), !.active = IF active \/ n = 1 THEN n ELSE @]
             IN  Returns("take.add", <<x, active>>,
                       Need(InBlock(Need(Now, IsItem(x)), IF works THEN WithItem(x, item) ELSE P), works))
      PROVE  Kept
  BY <1>2, <1>5, Zenon
<1>6. ASSUME NEW x, NEW k,
             LET s == Need(Now, IsItem(x))
                 u == IF s.ok THEN Need(s, IsTake(x, k) /\ Len(At(x).takes) > 1) ELSE s
                 v == Write(Begin(u), WithItem(x, [At(x) EXCEPT !.active = TakeIndex(x, k)]))
             IN  Returns("take.delete", <<x, k>>,
                         End(Write(SelectItem(v, x), OnSelected(SelectItem(v, x), Shortened))))
      PROVE  Kept
  BY <1>3, <1>6, Zenon
<1>7. ASSUME NEW x,
             LET s == SelectItem(Begin(Need(Now, IsItem(x))), x)
             IN  Returns("take.crop_to_active", <<x>>, End(Write(s, OnSelected(s, Cropped))))
      PROVE  Kept
  BY <1>4, <1>7, Zenon
<1> QED
  BY <1>5, <1>6, <1>7, Zenon DEF TakeAddDeleteCrop

LEMMA TakeSettersKept == ASSUME Steady(reaper), TakeSetters PROVE Kept
<1>1. Edits("take.set_vol") /\ Edits("take.set_pan") /\ Edits("take.set_pitch") /\ Edits("take.set_playrate")
  BY DEF Edits, ReadOnly
<1>2. ASSUME NEW tool, NEW x, NEW k, NEW arg, NEW s, NEW take, Idle(s), Edits(tool), SetsTake(tool, x, k, arg, s, take)
      PROVE  Kept
  <2>1. PICK u, v, q : /\ u = Need(s, IsItem(x))
                       /\ v = IF u.ok THEN Need(u, IsTake(x, k)) ELSE u
                       /\ Returns(tool, <<x, k, arg>>, InBlock(v, q))
    BY <1>2, Zenon DEF SetsTake
  <2>2. Idle(u)
    BY <1>2, <2>1, NeedIdle, Zenon
  <2>3. Idle(Need(u, IsTake(x, k)))
    BY <2>2, NeedIdle, Zenon
  <2>4. Idle(v)
    BY <2>1, <2>2, <2>3
  <2> QED
    BY <1>2, <2>1, <2>4, Blocked
<1> QED
  BY <1>1, <1>2, NowIdle, NeedIdle, Zenon DEF TakeSetters

LEMMA ImplodeKept == ASSUME Steady(reaper), Implode PROVE Kept
<1>1. LET t == "items.implode_to_takes" IN Edits(t) /\ t \in Untidy /\ t \in AboutTheView
  BY DEF Edits, ReadOnly, Untidy, AboutTheView
<1>2. ASSUME NEW list, NEW s, NEW u, NEW ids, NEW b, NEW q, s = Begin(Now),
             u = Need(Set(s, [s.ui EXCEPT !.items = ids]), b),
             Returns("items.implode_to_takes", list, End(Write(u, q)))
      PROVE  Kept
  <2>1. AtWork(s) /\ s.proj = Now.proj
    BY <1>2, NowIdle, BeginOpens
  <2> DEFINE v == [s.ui EXCEPT !.items = ids]
  <2>2. IsView(v)
    BY <2>1, OpenView, ViewChanges
  <2> HIDE DEF v
  <2>3. Inside(Set(s, v)) /\ Set(s, v).proj = Now.proj
    BY <2>1, <2>2, SetOpen DEF AtWork
  <2>4. Inside(Need(Set(s, v), b))
    BY <2>3, NeedInside, Zenon
  <2>5. Inside(Write(u, q))
    BY <1>2, <2>4, WriteInside DEF v
  <2> QED
    BY <1>1, <1>2, <2>5, ClosingOrOpen
<1> QED
  BY <1>2, Zenon DEF Implode

LEMMA ItemNextKept == ASSUME Steady(reaper), ItemNext PROVE Kept
BY ItemAddKept, SetPositionLengthMuteKept, SetVolFadesKept, SetColorSelectedKept, SplitDeleteKept, ItemMoveKept,
   GlueDuplicateKept, TakeAddDeleteCropKept, TakeSettersKept, ImplodeKept DEF ItemNext

-----------------------------------------------------------------------------
(* MIDI.                                                                    *)

LEMMA HasTakeIdle ==
    ASSUME NEW s, NEW x, Idle(s)
    PROVE  Idle(HasTake(s, x))
<1> DEFINE u == Need(s, IsItem(x))
<1>1. Idle(u)
  BY NeedIdle, Zenon
<1>2. Idle(Need(u, IsTake(x, -1)))
  BY <1>1, NeedIdle, Zenon
<1>3. HasTake(s, x) = IF u.ok THEN Need(u, IsTake(x, -1)) ELSE u
  BY Zenon DEF HasTake
<1> HIDE DEF u
<1> QED
  BY <1>1, <1>2, <1>3

LEMMA IsMidiIdle ==
    ASSUME NEW s, NEW x, Idle(s)
    PROVE  Idle(IsMidi(s, x))
<1> DEFINE u == HasTake(s, x)
<1>1. Idle(u)
  BY HasTakeIdle
<1>2. Idle(Need(u, The(x).midi))
  BY <1>1, NeedIdle
<1>3. IsMidi(s, x) = IF u.ok THEN Need(u, The(x).midi) ELSE u
  BY Zenon DEF IsMidi
<1> HIDE DEF u
<1> QED
  BY <1>1, <1>2, <1>3

\* A second condition that is looked at when the first holds.
LEMMA ThenIdle ==
    ASSUME NEW s, NEW c, Idle(s)
    PROVE  Idle(IF s.ok THEN Need(s, c) ELSE s)
<1>1. Idle(Need(s, c))
  BY NeedIdle
<1> QED
  BY <1>1

\* A write that REAPER may refuse.
LEMMA Attempted ==
    ASSUME NEW tool, NEW args, NEW s, NEW q, NEW b, Idle(s), Steady(reaper), Edits(tool),
           Returns(tool, args, Need(InBlock(s, IF b THEN q ELSE P), b))
    PROVE  Kept
<1>1. b \/ (IF b THEN q ELSE P) = P
  OBVIOUS
<1> QED
  BY <1>1, Tried, Zenon

LEMMA CreateItemKept == ASSUME Steady(reaper), CreateItem PROVE Kept
<1>1. Edits("midi.create_item")
  BY DEF Edits, ReadOnly
<1>2. ASSUME NEW t, NEW works, NEW q,
             Returns("midi.create_item", <<t>>, Need(InBlock(Need(Now, IsTrack(t)), IF works THEN q ELSE P), works))
      PROVE  Kept
  BY <1>1, <1>2, NowIdle, NeedIdle, Attempted, Zenon
<1>3. ASSUME NEW x, Returns("take.list", <<x>>, Need(Now, IsItem(x)))
      PROVE  Kept
  BY <1>3, NowIdle, NeedIdle, Reads, Zenon
<1> QED
  BY <1>2, <1>3, Zenon DEF CreateItem

LEMMA TakeActiveNameKept == ASSUME Steady(reaper), TakeActiveName PROVE Kept
<1>1. Edits("take.set_active") /\ Edits("take.set_name")
  BY DEF Edits, ReadOnly
<1>2. ASSUME NEW tool, NEW args, NEW u, NEW s, NEW q, NEW c, NEW b, Edits(tool), u = Need(Now, b),
             s = IF u.ok THEN Need(u, c) ELSE u, Returns(tool, args, InBlock(s, q))
      PROVE  Kept
  <2>1. Idle(u)
    BY <1>2, NowIdle, NeedIdle, Zenon
  <2>2. Idle(s)
    BY <1>2, <2>1, ThenIdle, Zenon
  <2> QED
    BY <1>2, <2>2, Blocked
<1> QED
  BY <1>1, <1>2, Zenon DEF TakeActiveName

LEMMA InsertNoteKept == ASSUME Steady(reaper), InsertNote PROVE Kept
<1>1. Edits("midi.insert_note")
  BY DEF Edits, ReadOnly
<1>2. ASSUME NEW args, NEW x, NEW works, NEW q,
             Returns("midi.insert_note", args, Need(InBlock(IsMidi(Now, x), IF works THEN q ELSE P), works))
      PROVE  Kept
  BY <1>1, <1>2, NowIdle, IsMidiIdle, Attempted, Zenon
<1>3. ASSUME NEW x, Returns("midi.list_notes", <<x>>, HasTake(Now, x))
      PROVE  Kept
  BY <1>3, NowIdle, HasTakeIdle, Reads, Zenon
<1> QED
  BY <1>2, <1>3, ZenonT(60) DEF InsertNote

LEMMA DeleteNoteKept == ASSUME Steady(reaper), DeleteNote PROVE Kept
<1>1. Edits("midi.delete_note")
  BY DEF Edits, ReadOnly
<1>2. ASSUME NEW args, NEW x, NEW ok, NEW q,
             Returns("midi.delete_note", args, Need(InBlock(HasTake(Now, x), IF ok THEN q ELSE P), ok))
      PROVE  Kept
  BY <1>1, <1>2, NowIdle, HasTakeIdle, Attempted, Zenon
<1> QED
  BY <1>2, Zenon DEF DeleteNote

LEMMA InsertCCKept == ASSUME Steady(reaper), InsertCC PROVE Kept
<1>1. Edits("midi.insert_cc")
  BY DEF Edits, ReadOnly
<1>2. ASSUME NEW args, NEW x, NEW works, NEW q,
             Returns("midi.insert_cc", args, Need(InBlock(IsMidi(Now, x), IF works THEN q ELSE P), works))
      PROVE  Kept
  BY <1>1, <1>2, NowIdle, IsMidiIdle, Attempted, Zenon
<1>3. ASSUME NEW x, Returns("midi.list_cc", <<x>>, HasTake(Now, x))
      PROVE  Kept
  BY <1>3, NowIdle, HasTakeIdle, Reads, Zenon
<1> QED
  BY <1>2, <1>3, ZenonT(60) DEF InsertCC

LEMMA DeleteCCKept == ASSUME Steady(reaper), DeleteCC PROVE Kept
<1>1. Edits("midi.delete_cc")
  BY DEF Edits, ReadOnly
<1>2. ASSUME NEW args, NEW x, NEW ok, NEW q,
             Returns("midi.delete_cc", args, Need(InBlock(HasTake(Now, x), IF ok THEN q ELSE P), ok))
      PROVE  Kept
  BY <1>1, <1>2, NowIdle, HasTakeIdle, Attempted, Zenon
<1> QED
  BY <1>2, Zenon DEF DeleteCC

LEMMA SetNoteKept == ASSUME Steady(reaper), SetNote PROVE Kept
<1>1. Edits("midi.set_note")
  BY DEF Edits, ReadOnly
<1>2. ASSUME NEW args, NEW x, NEW u, NEW s, NEW c, NEW works, NEW q, u = IsMidi(Now, x),
             s = IF u.ok THEN Need(u, c) ELSE u,
             Returns("midi.set_note", args, Need(InBlock(s, IF works THEN q ELSE P), works))
      PROVE  Kept
  <2>1. Idle(u)
    BY <1>2, NowIdle, IsMidiIdle
  <2>2. Idle(s)
    BY <1>2, <2>1, ThenIdle, Zenon
  <2> QED
    BY <1>1, <1>2, <2>2, Attempted, Zenon
<1>3. ASSUME NEW x, NEW k, NEW move, NEW works, NEW q,
             LET u == IsMidi(Now, x)
                 s == IF u.ok THEN Need(u, k \in DOMAIN The(x).notes) ELSE u
             IN  Returns("midi.set_note", <<x, k, move>>, Need(InBlock(s, IF works THEN q ELSE P), works))
      PROVE  Kept
  BY <1>2, <1>3, Zenon
<1>4. PICK x \in ItemArgs, k \in {1, 9}, move \in BOOLEAN, works \in BOOLEAN :
      LET u    == IsMidi(Now, x)
          s    == IF u.ok THEN Need(u, k \in DOMAIN The(x).notes) ELSE u
          note == IF move THEN [The(x).notes[k] EXCEPT !.start = 9] ELSE [The(x).notes[k] EXCEPT !.vel = 1]
      IN  Returns("midi.set_note", <<x, k, move>>,
                  Need(InBlock(s, IF works THEN WithNotes(x, Sorted([The(x).notes EXCEPT ![k] = note])) ELSE P), works))
  BY Zenon DEF SetNote
<1> QED
  BY <1>3, <1>4, Zenon

LEMMA SetCCKept == ASSUME Steady(reaper), SetCC PROVE Kept
<1>1. Edits("midi.set_cc")
  BY DEF Edits, ReadOnly
<1>2. \A u, k, x : Idle(u) => Idle(IF u.ok THEN Need(u, k \in DOMAIN The(x).ccs) ELSE u)
  BY ThenIdle, Zenon
<1>3. PICK x \in ItemArgs, k \in {1, 9}, move \in BOOLEAN, value \in {5, 300} :
        LET u  == IsMidi(Now, x)
            s  == IF u.ok THEN Need(u, k \in DOMAIN The(x).ccs) ELSE u
            cc == The(x).ccs[k]
            m  == Msg(cc.type, IF move THEN 7 ELSE cc.msg2, value)
            new == [cc EXCEPT !.start = IF move THEN 9 ELSE @, !.msg2 = m[1],
                              !.msg3 = IF cc.type \in {"cc", "pitch"} THEN m[2] ELSE @]
        IN  Returns("midi.set_cc", <<x, k, move, value>>,
                    InBlock(s, WithCCs(x, Sorted([The(x).ccs EXCEPT ![k] = new]))))
  BY Zenon DEF SetCC
<1> DEFINE u  == IsMidi(Now, x)
           s  == IF u.ok THEN Need(u, k \in DOMAIN The(x).ccs) ELSE u
           cc == The(x).ccs[k]
           m  == Msg(cc.type, IF move THEN 7 ELSE cc.msg2, value)
           new == [cc EXCEPT !.start = IF move THEN 9 ELSE @, !.msg2 = m[1],
                             !.msg3 = IF cc.type \in {"cc", "pitch"} THEN m[2] ELSE @]
           q  == WithCCs(x, Sorted([The(x).ccs EXCEPT ![k] = new]))
           args == <<x, k, move, value>>
<1>4. Returns("midi.set_cc", args, InBlock(s, q))
  BY <1>3, Zenon
<1>5. Idle(u)
  BY NowIdle, IsMidiIdle
<1> HIDE DEF u
<1>6. Idle(s)
  BY <1>2, <1>5
<1> HIDE DEF args, s, q
<1> QED
  BY <1>1, <1>4, <1>6, Blocked

LEMMA InsertNotesKept == ASSUME Steady(reaper), InsertNotes PROVE Kept
<1>1. Edits("midi.insert_notes")
  BY DEF Edits, ReadOnly
<1>2. ASSUME NEW args, NEW x, NEW b, NEW q, Returns("midi.insert_notes", args, InBlock(IsMidi(Need(Now, b), x), q))
      PROVE  Kept
  BY <1>1, <1>2, NowIdle, NeedIdle, IsMidiIdle, Blocked, Zenon
<1> QED
  BY <1>2, Zenon DEF InsertNotes

LEMMA BatchKept ==
    ASSUME NEW tool, NEW args, NEW s, NEW x, NEW q, Idle(s), Steady(reaper), Edits(tool),
           Returns(tool, args, InBlock(IsMidi(s, x), q))
    PROVE  Kept
BY IsMidiIdle, Blocked, Zenon

LEMMA SelectNotesKept == ASSUME Steady(reaper), SelectNotes PROVE Kept
<1>1. Edits("midi.select_notes")
  BY DEF Edits, ReadOnly
<1> QED
  BY <1>1, NowIdle, BatchKept, Zenon DEF SelectNotes, Batch

LEMMA QuantizeKept == ASSUME Steady(reaper), Quantize PROVE Kept
<1>1. Edits("midi.quantize")
  BY DEF Edits, ReadOnly
<1> QED
  BY <1>1, NowIdle, BatchKept, ZenonT(60) DEF Quantize, Batch

LEMMA HumanizeKept == ASSUME Steady(reaper), Humanize PROVE Kept
<1>1. Edits("midi.humanize")
  BY DEF Edits, ReadOnly
<1> QED
  BY <1>1, NowIdle, BatchKept, Zenon DEF Humanize, Batch

LEMMA ApplyGrooveKept == ASSUME Steady(reaper), ApplyGroove PROVE Kept
<1>1. Edits("midi.apply_groove")
  BY DEF Edits, ReadOnly
<1> QED
  BY <1>1, NowIdle, NeedIdle, BatchKept, Zenon DEF ApplyGroove, Batch

LEMMA TransposeScaleKept == ASSUME Steady(reaper), TransposeScale PROVE Kept
<1>1. Edits("midi.transpose") /\ Edits("midi.scale_velocity")
  BY DEF Edits, ReadOnly
<1> QED
  BY <1>1, NowIdle, BatchKept, Zenon DEF TransposeScale, Batch

LEMMA LegatoKept == ASSUME Steady(reaper), Legato PROVE Kept
<1>1. Edits("midi.legato")
  BY DEF Edits, ReadOnly
<1> QED
  BY <1>1, NowIdle, BatchKept, Zenon DEF Legato, Batch

LEMMA NudgeStretchKept == ASSUME Steady(reaper), NudgeStretch PROVE Kept
<1>1. Edits("midi.nudge") /\ Edits("midi.stretch")
  BY DEF Edits, ReadOnly
<1> QED
  BY <1>1, NowIdle, NeedIdle, BatchKept, Zenon DEF NudgeStretch, Batch

LEMMA MidiNextKept == ASSUME Steady(reaper), MidiNext PROVE Kept
<1>1. ExtractGroove => Kept
  BY NowIdle, IsMidiIdle, Reads, Zenon DEF ExtractGroove
<1> QED
  BY <1>1, CreateItemKept, TakeActiveNameKept, InsertNoteKept, DeleteNoteKept, InsertCCKept, DeleteCCKept,
     SetNoteKept, SetCCKept, InsertNotesKept, SelectNotesKept, QuantizeKept, HumanizeKept, ApplyGrooveKept,
     TransposeScaleKept, LegatoKept, NudgeStretchKept DEF MidiNext

-----------------------------------------------------------------------------
(* Effects and mixing styles.                                               *)

LEMMA FxEdited ==
    ASSUME NEW tool, NEW args, NEW s, NEW b, NEW q, Idle(s), Steady(reaper), Edits(tool),
           \/ Returns(tool, args, Need(InBlock(s, IF b THEN q ELSE P), b))
           \/ Returns(tool, args, InBlock(s, IF b THEN q ELSE P))
    PROVE  Kept
BY Attempted, Blocked, Zenon

LEMMA TrackFxAddSetKept == ASSUME Steady(reaper), TrackFxAddSet PROVE Kept
<1>1. Edits("fx.add") /\ Edits("fx.set_param")
  BY DEF Edits, ReadOnly
<1>2. ASSUME NEW args, NEW b, NEW c, NEW d, NEW q,
             Returns("fx.set_param", args, InBlock(Need(Need(Now, d), b), IF c THEN q ELSE P))
      PROVE  Kept
  BY <1>1, <1>2, NowIdle, NeedIdle, Blocked, Zenon
<1>3. ASSUME NEW args, NEW b, NEW d, NEW q,
             Returns("fx.add", args, Need(InBlock(Need(Now, d), IF b THEN q ELSE P), b))
      PROVE  Kept
  BY <1>1, <1>3, NowIdle, NeedIdle, Attempted, Zenon
<1>4. ASSUME NEW tool, NEW t, Returns(tool, <<t>>, Need(Now, IsTrack(t))) PROVE Kept
  BY <1>4, NowIdle, NeedIdle, Reads, Zenon
<1> QED
  BY <1>2, <1>3, <1>4, Zenon DEF TrackFxAddSet, FxAdded, FxParam

LEMMA TrackFxRemovePresetKept == ASSUME Steady(reaper), TrackFxRemovePreset PROVE Kept
<1>1. Edits("fx.remove") /\ Edits("fx.set_enabled") /\ Edits("fx.set_preset")
  BY DEF Edits, ReadOnly
<1>2. ASSUME NEW args, NEW b, NEW d, NEW q,
             \/ Returns("fx.remove", args, Need(InBlock(Need(Now, d), IF b THEN q ELSE P), b))
             \/ Returns("fx.set_enabled", args, InBlock(Need(Now, d), IF b THEN q ELSE P))
      PROVE  Kept
  BY <1>1, <1>2, NowIdle, NeedIdle, FxEdited, Zenon
<1>3. ASSUME NEW args, NEW b, NEW c, NEW d, NEW q,
             LET u == Need(Need(Now, d), b)
                 here == u.ok /\ c
             IN  Returns("fx.set_preset", args, Need(InBlock(u, IF ~here THEN P ELSE q), here))
      PROVE  Kept
  <2> DEFINE u == Need(Need(Now, d), b)
             here == u.ok /\ c
  <2>1. Idle(u)
    BY NowIdle, NeedIdle, Zenon
  <2>2. here \/ (IF ~here THEN P ELSE q) = P
    OBVIOUS
  <2> HIDE DEF u
  <2>3. Returns("fx.set_preset", args, Need(InBlock(u, IF ~here THEN P ELSE q), here))
    BY <1>3 DEF u
  <2> QED
    BY <1>1, <2>1, <2>2, <2>3, Tried, Zenon
<1>4. ASSUME NEW t, Returns("fx.get_preset", <<t>>, Need(Now, IsTrack(t))) PROVE Kept
  BY <1>4, NowIdle, NeedIdle, Reads, Zenon
<1>5. ASSUME NEW t, NEW k, NEW by,
             LET u    == Need(Need(Now, IsTrack(t)), by # "none")
                 here == u.ok /\ k \in DOMAIN TrackFx(t)
             IN  Returns("fx.set_preset", <<t, k, by>>,
                   Need(InBlock(u, IF ~here THEN P
                                   ELSE PutTrackFx(t, [TrackFx(t) EXCEPT ![k].preset =
                                                         IF by = "preset" THEN 2 ELSE (@ + 1) % Presets])),
                        here))
      PROVE  Kept
  BY <1>3, <1>5, Zenon
<1> QED
  BY <1>2, <1>4, <1>5, ZenonT(60) DEF TrackFxRemovePreset, FxRemoved, FxEnabled

LEMMA TakeFxAddRemoveKept == ASSUME Steady(reaper), TakeFxAddRemove PROVE Kept
<1>1. Edits("takefx.add") /\ Edits("takefx.remove")
  BY DEF Edits, ReadOnly
<1>2. ASSUME NEW tool, NEW x, NEW args, NEW b, NEW q, Edits(tool),
             Returns(tool, args, Need(InBlock(HasTake(Now, x), IF b THEN q ELSE P), b))
      PROVE  Kept
  BY <1>2, NowIdle, HasTakeIdle, Attempted, Zenon
<1>3. ASSUME NEW x, Returns("takefx.list", x, HasTake(Now, x)) PROVE Kept
  BY <1>3, NowIdle, HasTakeIdle, Reads, Zenon
<1> QED
  BY <1>1, <1>2, <1>3, Zenon DEF TakeFxAddRemove, FxAdded, FxRemoved

LEMMA TakeFxSetKept == ASSUME Steady(reaper), TakeFxSet PROVE Kept
<1>1. Edits("takefx.set_param") /\ Edits("takefx.set_enabled")
  BY DEF Edits, ReadOnly
<1>2. ASSUME NEW x, NEW args, NEW b, NEW q,
             Returns("takefx.set_param", args, InBlock(Need(HasTake(Now, x), b), q))
      PROVE  Kept
  BY <1>1, <1>2, NowIdle, HasTakeIdle, NeedIdle, Blocked, Zenon
<1>3. ASSUME NEW x, NEW args, NEW q,
             Returns("takefx.set_enabled", args, InBlock(HasTake(Now, x), q))
      PROVE  Kept
  BY <1>1, <1>3, NowIdle, HasTakeIdle, Blocked, Zenon
<1>4. ASSUME NEW x, Returns("takefx.get_param", x, HasTake(Now, x)) PROVE Kept
  BY <1>4, NowIdle, HasTakeIdle, Reads, Zenon
<1> QED
  BY <1>2, <1>3, <1>4, Zenon DEF TakeFxSet, FxParam, FxEnabled

LEMMA MasterKept == ASSUME Steady(reaper), Master PROVE Kept
<1>1. Edits("master.set") /\ Edits("master.add_fx")
  BY DEF Edits, ReadOnly
<1>2. ASSUME NEW args, NEW q, Returns("master.set", args, InBlock(Now, q)) PROVE Kept
  BY <1>1, <1>2, NowIdle, Blocked, Zenon
<1>3. ASSUME NEW args, NEW b, NEW q, Returns("master.add_fx", args, Need(InBlock(Now, IF b THEN q ELSE P), b)) PROVE Kept
  BY <1>1, <1>3, NowIdle, Attempted, Zenon
<1>4. CASE Returns("master.get", <<>>, Now)
  BY <1>4, NowIdle, Reads
<1> QED
  BY <1>2, <1>3, <1>4, Zenon DEF Master, FxAdded

LEMMA MasterFxKept == ASSUME Steady(reaper), MasterFx PROVE Kept
<1>1. Edits("master.set_fx_param") /\ Edits("master.remove_fx")
  BY DEF Edits, ReadOnly
<1>2. ASSUME NEW args, NEW b, NEW q, Returns("master.set_fx_param", args, InBlock(Need(Now, b), q)) PROVE Kept
  BY <1>1, <1>2, NowIdle, NeedIdle, Blocked, Zenon
<1>3. ASSUME NEW args, NEW b, NEW d, NEW q,
             Returns("master.remove_fx", args, Need(InBlock(Need(Now, d), IF b THEN q ELSE P), b))
      PROVE  Kept
  BY <1>1, <1>3, NowIdle, NeedIdle, Attempted, Zenon
<1> QED
  BY <1>2, <1>3, Zenon DEF MasterFx, FxParam, FxRemoved

LEMMA ApplyStyleKept == ASSUME Steady(reaper), ApplyStyle PROVE Kept
<1>1. Edits("mix.apply_style")
  BY DEF Edits, ReadOnly
<1>2. ASSUME NEW args, NEW s, NEW b, NEW q, Idle(s),
             \/ Previews("mix.apply_style", args, s)
             \/ Returns("mix.apply_style", args, IF s.ok /\ b THEN s ELSE InBlock(s, q))
      PROVE  Kept
  <2>1. CASE Previews("mix.apply_style", args, s) \/ Returns("mix.apply_style", args, s)
    BY <1>2, <2>1, Reads
  <2>2. CASE Returns("mix.apply_style", args, InBlock(s, q))
    BY <1>1, <1>2, <2>2, Blocked
  <2> QED
    BY <1>2, <2>1, <2>2, Zenon
<1>3. ASSUME NEW args, NEW b, NEW c, NEW d, NEW q,
             \/ Previews("mix.apply_style", args, Need(Need(Now, c), d))
             \/ Returns("mix.apply_style", args, IF Need(Need(Now, c), d).ok /\ b THEN Need(Need(Now, c), d)
                                                 ELSE InBlock(Need(Need(Now, c), d), q))
      PROVE  Kept
  BY <1>2, <1>3, NowIdle, NeedIdle, Zenon
<1> QED
  BY <1>3, ZenonT(60) DEF ApplyStyle

LEMMA FxNextKept == ASSUME Steady(reaper), FxNext PROVE Kept
BY TrackFxAddSetKept, TrackFxRemovePresetKept, TakeFxAddRemoveKept, TakeFxSetKept, MasterKept, MasterFxKept,
   ApplyStyleKept DEF FxNext

-----------------------------------------------------------------------------
(* Actions.                                                                 *)

\* One command that is no "close", in the block.
LEMMA CommandAtWork ==
    ASSUME NEW s, NEW cmd, AtWork(s), s.ui = Now.ui, cmd # "close" \/ ~s.ok
    PROVE  LET u == OnCommand(s, cmd) IN AtWork(u) /\ u.ui = Now.ui
<1>1. CASE ~s.ok
  <2>1. OnCommand(s, cmd) = s
    BY <1>1, Zenon DEF OnCommand
  <2> QED
    BY <2>1
<1>2. CASE s.ok /\ cmd = "mute"
  <2>1. ASSUME NEW q, OnCommand(s, cmd) = Write(s, q)
        PROVE  LET u == OnCommand(s, cmd) IN AtWork(u) /\ u.ui = Now.ui
    BY <2>1, WriteOpen
  <2> DEFINE q == [s.proj EXCEPT !.tracks = [t \in DOMAIN @ |->
                    IF @[t].id \in s.ui.tracks THEN With(@[t], "mute", 1 - Attr(@[t], "mute")) ELSE @[t]]]
  <2>2. OnCommand(s, cmd) = Write(s, q)
    BY <1>2, Zenon DEF OnCommand
  <2> HIDE DEF q
  <2> QED
    BY <2>1, <2>2
<1>3. CASE s.ok /\ cmd # "mute"
  <2>1. cmd # "close"
    BY <1>3
  <2>2. OnCommand(s, cmd) = s
    BY <1>3, <2>1, Zenon DEF OnCommand
  <2> QED
    BY <2>2
<1> QED
  BY <1>1, <1>2, <1>3

LEMMA Ran ==
    ASSUME NEW tool, NEW args, NEW u, AtWork(u), u.ui = Now.ui, Edits(tool), Steady(reaper),
           Returns(tool, args, IF u.depth > 0 THEN End(u) ELSE u)
    PROVE  Kept
<1>1. CASE u.ok
  <2>1. u.depth > 0
    BY <1>1, NowSteady DEF AtWork, Inside, Busy, Steady, Blocks
  <2> QED
    BY <2>1, ClosingOpen
<1>2. CASE ~u.ok
  <2>1. End(u) = u
    BY <1>2 DEF End
  <2>2. Idle(u) /\ Returns(tool, args, u)
    BY <1>2, <2>1 DEF AtWork
  <2> QED
    BY <2>2, Reads
<1> QED
  BY <1>1, <1>2

\* The action that closes the project opens another with the block: nothing is left of it.
LEMMA RanClose ==
    ASSUME NEW args, NEW s, AtWork(s), s.ok, Steady(reaper),
           LET u == Loaded(s, Empty) IN Returns("action.run", args, IF u.depth > 0 THEN End(u) ELSE u)
    PROVE  Kept
<1> DEFINE u == Loaded(s, Empty)
<1>1. Fields(s) /\ IsView(s.ui) /\ s.renders \in Nat
  BY NowSteady DEF AtWork, Inside, Busy, Steady
<1>2. /\ Fields(u) /\ u.depth = 0 /\ u.base = <<>> /\ u.renders = s.renders /\ u.ok = s.ok
      /\ u.ui = [s.ui EXCEPT !.tracks = {}, !.items = {}]
  BY <1>1, LoadedFields
<1>3. Returns("action.run", args, u)
  <2>1. ~(u.depth > 0)
    BY <1>2
  <2> QED
    BY <2>1
<1>4. [s.ui EXCEPT !.tracks = {}, !.items = {}] = [[s.ui EXCEPT !.tracks = {}] EXCEPT !.items = {}]
  OBVIOUS
<1> HIDE DEF u
<1>5. IsView(u.ui)
  <2> DEFINE v == [s.ui EXCEPT !.tracks = {}]
             w == [v EXCEPT !.items = {}]
  <2>1. u.ui = w
    BY <1>2, <1>4
  <2>2. IsView(v)
    BY <1>1, ViewChanges
  <2> HIDE DEF v
  <2>3. IsView(w)
    BY <2>2, ViewChanges
  <2> HIDE DEF w
  <2> QED
    BY <2>1, <2>3
<1>6. Steady(u)
  BY <1>1, <1>2, <1>5 DEF Steady, Blocks
<1>7. "action.run" \notin ReadOnly /\ "action.run" \in AboutTheView
  BY DEF ReadOnly, AboutTheView
<1>8. Good("action.run", FALSE, u)
  BY <1>2, <1>6, <1>7 DEF Good, HarmedNothing, MadeOnePoint, GaveBack
<1> QED
  BY <1>3, <1>8, ReturnsKept

LEMMA ActionRunKept == ASSUME Steady(reaper), ActionRun PROVE Kept
<1>1. Edits("action.run")
  BY DEF Edits, ReadOnly
<1>2. ASSUME NEW args, NEW cmd, NEW b, NEW s, NEW u, s = Begin(Need(Now, b)), u = OnCommand(s, cmd),
             Returns("action.run", args, IF u.depth > 0 THEN End(u) ELSE u)
      PROVE  Kept
  <2>1. Idle(Need(Now, b))
    BY NowIdle, NeedIdle, Zenon
  <2>2. AtWork(s) /\ s.ui = Now.ui
    BY <1>2, <2>1, BeginOpens
  <2>3. CASE cmd # "close" \/ ~s.ok
    BY <1>1, <1>2, <2>2, <2>3, CommandAtWork, Ran
  <2>4. CASE cmd = "close" /\ s.ok
    <3>1. u = Loaded(s, Empty)
      <4>1. cmd # "mute"
        BY <2>4
      <4> QED
        BY <1>2, <2>4, <4>1, Zenon DEF OnCommand
    <3> QED
      BY <1>2, <2>2, <2>4, <3>1, RanClose
  <2> QED
    BY <2>3, <2>4
<1>3. ASSUME NEW args, Previews("action.run", args, Now) PROVE Kept
  BY <1>3, NowIdle, Reads
<1> QED
  BY <1>2, <1>3, Zenon DEF ActionRun, runActionResolved

LEMMA ActionRunByNameKept == ASSUME Steady(reaper), ActionRunByName PROVE Kept
<1>1. Edits("action.run_by_name")
  BY DEF Edits, ReadOnly
<1>2. ASSUME NEW args, NEW b, NEW s, NEW u, s = Begin(Need(Now, b)), u = OnCommand(s, "mute"),
             Returns("action.run_by_name", args, IF u.depth > 0 THEN End(u) ELSE u)
      PROVE  Kept
  <2>1. Idle(Need(Now, b))
    BY NowIdle, NeedIdle, Zenon
  <2>2. AtWork(s) /\ s.ui = Now.ui
    BY <1>2, <2>1, BeginOpens
  <2>3. AtWork(u) /\ u.ui = Now.ui
    BY <1>2, <2>2, CommandAtWork
  <2> QED
    BY <1>1, <1>2, <2>3, Ran
<1>3. ASSUME NEW args, Previews("action.run_by_name", args, Now) PROVE Kept
  BY <1>3, NowIdle, Reads
<1>4. CASE Returns("action.run_by_name", <<"unknown">>, Need(Now, FALSE))
  BY <1>4, NowIdle, NeedIdle, Reads, Zenon
<1> QED
  BY <1>2, <1>3, <1>4, Zenon DEF ActionRunByName, runActionResolved

LEMMA ActionNextKept == ASSUME Steady(reaper), ActionNext PROVE Kept
<1>1. ActionToggleState => Kept
  BY NowIdle, Reads, Zenon DEF ActionToggleState
<1> QED
  BY <1>1, ActionRunKept, ActionRunByNameKept DEF ActionNext

-----------------------------------------------------------------------------
(* Envelopes.                                                               *)

\* A block that is closed as it was opened is as if it never was.
LEMMA EndIdle ==
    ASSUME NEW s, AtWork(s), s.proj = Now.proj, s.ui = Now.ui, Steady(reaper)
    PROVE  Idle(End(s))
<1>1. CASE s.ok
  <2>1. Ended(End(s)) /\ End(s).proj = Now.proj /\ End(s).ui = Now.ui
    BY <1>1, EndInside DEF AtWork
  <2> QED
    BY <2>1 DEF Ended, Idle
<1>2. CASE ~s.ok
  BY <1>2 DEF AtWork, End
<1> QED
  BY <1>1, <1>2

LEMMA SelectOpen ==
    ASSUME NEW s, NEW ids, AtWork(s), s.ok, IsView(s.ui)
    PROVE  /\ AtWork(Select(s, ids)) /\ Select(s, ids).proj = s.proj /\ Select(s, ids).ok
           /\ Select(s, ids).ui = [s.ui EXCEPT !.tracks = ids]
<1> DEFINE v == [s.ui EXCEPT !.tracks = ids]
<1>1. Select(s, ids) = Set(s, v) /\ IsView(v)
  BY SelectView
<1> HIDE DEF v
<1>2. AtWork(Select(s, ids)) /\ Select(s, ids).proj = s.proj /\ Select(s, ids).ok /\ Select(s, ids).ui = v
  BY <1>1, SetOpen
<1> QED
  BY <1>2 DEF v

\* An envelope is made, or nothing is; the selection is handed back at once.
LEMMA ActivateAtWork ==
    ASSUME NEW s, NEW t, NEW name, NEW route, AtWork(s), s.ok, s.ui = Now.ui, s.proj = Now.proj, Steady(reaper)
    PROVE  LET u == activateBuiltinEnvelope(s, t, name, route)
           IN  AtWork(u) /\ u.ok /\ u.ui = Now.ui /\ (Activates(name, route) \/ u.proj = Now.proj)
<1> DEFINE seed   == Env(name, 0, <<<<0, envSeedValue(s.proj.tracks[t], name)>>>>)
           seeded == [s.proj EXCEPT !.tracks[t].envs = <<seed>> \o @]
           ids    == {s.proj.tracks[t].id}
           alone  == Select(s, ids)
           w      == IF route = "action" THEN Write(alone, seeded) ELSE alone
           u      == activateBuiltinEnvelope(s, t, name, route)
<1>1. u = IF name \notin envChunkName THEN s
          ELSE IF route = "chunk" THEN Write(s, seeded)
          ELSE IF name \in {Volume, Pan} THEN Select(w, s.ui.tracks)
          ELSE s
  BY Zenon DEF activateBuiltinEnvelope
<1>2. IsView(s.ui)
  BY NowView
<1>3. Activates(name, route) <=> name \in envChunkName /\ (route = "chunk" \/ (route = "action" /\ name \in {Volume, Pan}))
  BY DEF Activates
<1> HIDE DEF seeded, ids, u
<1>4. AtWork(alone) /\ alone.ok /\ alone.proj = s.proj /\ alone.ui = [s.ui EXCEPT !.tracks = ids]
  BY <1>2, SelectOpen
<1> HIDE DEF alone
<1>5. AtWork(w) /\ w.ok /\ w.ui = [s.ui EXCEPT !.tracks = ids] /\ (route = "action" \/ w.proj = s.proj)
  <2>1. AtWork(Write(alone, seeded)) /\ Write(alone, seeded).ok /\ Write(alone, seeded).ui = alone.ui
    BY <1>4, WriteOpen
  <2> QED
    BY <1>4, <2>1
<1> HIDE DEF w
<1>6. CASE name \in envChunkName /\ route = "chunk"
  <2>1. u = Write(s, seeded)
    BY <1>1, <1>6
  <2>2. AtWork(u) /\ u.ok /\ u.ui = Now.ui
    BY <2>1, WriteOpen
  <2> QED
    BY <2>2, <1>3, <1>6 DEF u
<1>7. CASE name \in envChunkName /\ route # "chunk" /\ name \in {Volume, Pan}
  <2>1. u = Select(w, s.ui.tracks)
    BY <1>1, <1>7
  <2>2. IsView(w.ui) /\ AtWork(w) /\ w.ok
    BY <1>5, OpenView
  <2> DEFINE x == s.ui.tracks
             r == Select(w, x)
  <2>3. [w.ui EXCEPT !.tracks = x] = s.ui
    <3> DEFINE v == s.ui
    <3>1. IsView(v) /\ w.ui = [v EXCEPT !.tracks = ids]
      BY <1>2, <1>5
    <3>2. x = v.tracks
      OBVIOUS
    <3> HIDE DEF v, x
    <3>3. [w.ui EXCEPT !.tracks = x] = v
      BY <3>1, <3>2 DEF IsView
    <3> QED
      BY <3>3 DEF v
  <2> HIDE DEF x
  <2>4. AtWork(Select(w, x)) /\ Select(w, x).ok /\ Select(w, x).proj = w.proj
        /\ Select(w, x).ui = [w.ui EXCEPT !.tracks = x]
    BY <2>2, SelectOpen, Zenon
  <2>5. AtWork(r) /\ r.ok /\ r.proj = w.proj /\ r.ui = s.ui
    BY <2>3, <2>4, Zenon
  <2>6. u = r
    BY <2>1 DEF x
  <2> HIDE DEF r
  <2> QED
    BY <2>5, <2>6, <1>3, <1>5, <1>7 DEF u
<1>8. CASE name \notin envChunkName \/ (route # "chunk" /\ name \notin {Volume, Pan})
  <2>1. u = s
    BY <1>1, <1>8
  <2> QED
    BY <2>1 DEF u
<1> QED
  BY <1>6, <1>7, <1>8

LEMMA AddPointKept == ASSUME Steady(reaper), AddPoint PROVE Kept
<1>1. Edits("envelope.add_point")
  BY DEF Edits, ReadOnly
<1>2. \A t : Idle(Need(Now, IsTrack(t)))
  BY NowIdle, NeedIdle, Zenon
<1>3. PICK t, name, auto, route :
        LET s == Begin(Need(Now, IsTrack(t)))
            there == ByName(P.tracks[t], name) # 0
            u == IF s.ok /\ auto /\ ~there THEN activateBuiltinEnvelope(s, t, name, route) ELSE s
            k == ByName(u.proj.tracks[t], name)
        IN  Returns("envelope.add_point", <<t, name, route>>,
                    IF u.ok /\ ~there /\ ~(auto /\ Activates(name, route)) THEN Need(End(u), FALSE)
                    ELSE End(Write(u, [u.proj EXCEPT !.tracks[t].envs[k].points = WithPoint(@, 2, 5)])))
  <2>1. PICK t \in TrackArgs, name \in {Volume, Pan, Mute, Gain}, auto \in BOOLEAN, route \in Routes :
          LET s == Begin(Need(Now, IsTrack(t)))
              there == ByName(P.tracks[t], name) # 0
              u == IF s.ok /\ auto /\ ~there THEN activateBuiltinEnvelope(s, t, name, route) ELSE s
              k == ByName(u.proj.tracks[t], name)
          IN  /\ auto \/ route = "none"
              /\ Returns("envelope.add_point", <<t, name, route>>,
                         IF u.ok /\ ~there /\ ~(auto /\ Activates(name, route)) THEN Need(End(u), FALSE)
                         ELSE End(Write(u, [u.proj EXCEPT !.tracks[t].envs[k].points = WithPoint(@, 2, 5)])))
    BY DEF AddPoint
  <2> QED
    BY <2>1, ZenonT(60)
<1> DEFINE s == Begin(Need(Now, IsTrack(t)))
           there == ByName(P.tracks[t], name) # 0
           u == IF s.ok /\ auto /\ ~there THEN activateBuiltinEnvelope(s, t, name, route) ELSE s
           k == ByName(u.proj.tracks[t], name)
           q == [u.proj EXCEPT !.tracks[t].envs[k].points = WithPoint(@, 2, 5)]
           args == <<t, name, route>>
           fails == u.ok /\ ~there /\ ~(auto /\ Activates(name, route))
<1>4. Returns("envelope.add_point", args, IF fails THEN Need(End(u), FALSE) ELSE End(Write(u, q)))
  BY <1>3, Zenon
<1> HIDE DEF k, q, args
<1>5. AtWork(s) /\ s.proj = Now.proj /\ s.ui = Now.ui
  BY <1>2, BeginOpens
<1> HIDE DEF s
<1>6. AtWork(u) /\ u.ui = Now.ui /\ (~u.ok \/ there \/ (auto /\ Activates(name, route)) \/ u.proj = Now.proj)
  <2> HIDE DEF there
  <2>1. CASE s.ok /\ auto /\ ~there
    BY <1>5, <2>1, ActivateAtWork
  <2>2. CASE ~(s.ok /\ auto /\ ~there)
    BY <1>5, <2>2
  <2> QED
    BY <2>1, <2>2
<1> HIDE DEF u, there
<1>7. CASE fails
  <2>1. Idle(End(u))
    BY <1>6, <1>7, EndIdle
  <2>2. Idle(Need(End(u), FALSE))
    BY <2>1, NeedIdle, Zenon
  <2>3. Returns("envelope.add_point", args, Need(End(u), FALSE))
    BY <1>4, <1>7, Zenon
  <2> QED
    BY <2>2, <2>3, Reads
<1>8. CASE ~fails
  <2>1. AtWork(Write(u, q)) /\ Write(u, q).ui = Now.ui
    BY <1>6, WriteOpen
  <2>2. Returns("envelope.add_point", args, End(Write(u, q)))
    BY <1>4, <1>8, Zenon
  <2> QED
    BY <1>1, <2>1, <2>2, ClosingOpen
<1> QED
  BY <1>7, <1>8

\* A block in which nothing was written, before an error.
LEMMA Failed ==
    ASSUME NEW tool, NEW args, NEW s, Idle(s), Steady(reaper), Edits(tool),
           Returns(tool, args, Need(InBlock(s, P), FALSE))
    PROVE  Kept
<1>1. FALSE \/ P = P
  OBVIOUS
<1> QED
  BY <1>1, Tried, Zenon

LEMMA ActiveIdle ==
    ASSUME NEW t, NEW name, Steady(reaper)
    PROVE  Idle(Active(t, name))
<1> DEFINE s == Need(Now, IsTrack(t))
<1>1. Idle(s)
  BY NowIdle, NeedIdle, Zenon
<1>2. Idle(Need(s, ByName(P.tracks[t], name) # 0))
  BY <1>1, NeedIdle, Zenon
<1>3. Active(t, name) = IF s.ok THEN Need(s, ByName(P.tracks[t], name) # 0) ELSE s
  BY Zenon DEF Active
<1> HIDE DEF s
<1> QED
  BY <1>1, <1>2, <1>3

LEMMA DeletePointKept == ASSUME Steady(reaper), DeletePoint PROVE Kept
<1>1. Edits("envelope.delete_point")
  BY DEF Edits, ReadOnly
<1>2. ASSUME NEW args, NEW s, NEW b, NEW q, Idle(s),
             Returns("envelope.delete_point", args,
                     IF ~s.ok THEN s ELSE IF b THEN InBlock(s, q) ELSE Need(InBlock(s, P), FALSE))
      PROVE  Kept
  <2>1. CASE ~s.ok
    BY <1>2, <2>1, Reads
  <2>2. CASE s.ok /\ b
    BY <1>1, <1>2, <2>2, Blocked
  <2>3. CASE s.ok /\ ~b
    <3>1. Returns("envelope.delete_point", args, Need(InBlock(s, P), FALSE))
      BY <1>2, <2>3, Zenon
    <3> QED
      BY <1>1, <1>2, <3>1, Failed, Zenon
  <2> QED
    BY <2>1, <2>2, <2>3
<1> QED
  BY <1>2, ActiveIdle, Zenon DEF DeletePoint

LEMMA ClearRangeKept == ASSUME Steady(reaper), ClearRange PROVE Kept
<1>1. Edits("envelope.clear_range")
  BY DEF Edits, ReadOnly
<1>2. ASSUME NEW args, NEW t, NEW name, NEW s, NEW q, s = Need(Now, FALSE) \/ s = Active(t, name),
             Returns("envelope.clear_range", args, InBlock(s, q))
      PROVE  Kept
  <2>1. Idle(Need(Now, FALSE))
    BY NowIdle, NeedIdle, Zenon
  <2>2. Idle(s)
    BY <1>2, <2>1, ActiveIdle, Zenon
  <2> QED
    BY <1>1, <1>2, <2>2, Blocked
<1> QED
  BY <1>2, Zenon DEF ClearRange

LEMMA SetAutomationModeKept == ASSUME Steady(reaper), SetAutomationMode PROVE Kept
<1>1. Edits("envelope.set_automation_mode")
  BY DEF Edits, ReadOnly
<1>2. ASSUME NEW args, NEW b, NEW c, NEW q,
             Returns("envelope.set_automation_mode", args, InBlock(Need(Need(Now, b), c), q))
      PROVE  Kept
  BY <1>1, <1>2, NowIdle, NeedIdle, Blocked, Zenon
<1> QED
  BY <1>2, Zenon DEF SetAutomationMode

LEMMA EnsuresKept ==
    ASSUME NEW t, NEW k, NEW request, NEW s, NEW p, Idle(s), Steady(reaper), EnsuresFxEnvelope(t, k, request, s, p)
    PROVE  Kept
<1>1. Edits("envelope.ensure_fx_envelope")
  BY DEF Edits, ReadOnly
<1>2. ASSUME NEW args, NEW u, NEW c, NEW q, Idle(u),
             Returns("envelope.ensure_fx_envelope", args, IF c THEN InBlock(u, q) ELSE Need(InBlock(u, P), FALSE))
      PROVE  Kept
  <2>1. CASE c
    BY <1>1, <1>2, <2>1, Blocked
  <2>2. CASE ~c
    <3>1. Returns("envelope.ensure_fx_envelope", args, Need(InBlock(u, P), FALSE))
      BY <1>2, <2>2, Zenon
    <3> QED
      BY <1>1, <1>2, <3>1, Failed, Zenon
  <2> QED
    BY <2>1, <2>2
<1>3. \A c : Idle(IF s.ok THEN Need(s, c) ELSE s)
  BY ThenIdle
<1> QED
  BY <1>2, <1>3, Zenon DEF EnsuresFxEnvelope

LEMMA EnsureFxEnvelopeKept == ASSUME Steady(reaper), EnsureFxEnvelope PROVE Kept
<1>1. \A t : Idle(Need(Now, IsTrack(t)))
  BY NowIdle, NeedIdle, Zenon
<1>2. ASSUME NEW t, NEW args, Returns("envelope.ensure_fx_envelope", args, Need(Need(Now, IsTrack(t)), FALSE))
      PROVE  Kept
  BY <1>1, <1>2, NeedIdle, Reads, Zenon
<1>3. ASSUME NEW t, NEW k, NEW request, NEW p, EnsuresFxEnvelope(t, k, request, Need(Now, IsTrack(t)), p)
      PROVE  Kept
  BY <1>1, <1>3, EnsuresKept
<1> QED
  BY <1>2, <1>3, Zenon DEF EnsureFxEnvelope

LEMMA EnvelopeNextKept == ASSUME Steady(reaper), EnvelopeNext PROVE Kept
<1>1. EnvelopeList => Kept
  BY NowIdle, NeedIdle, Reads, Zenon DEF EnvelopeList
<1>2. GetPoints => Kept
  BY ActiveIdle, Reads, Zenon DEF GetPoints
<1> QED
  BY <1>1, <1>2, AddPointKept, DeletePointKept, ClearRangeKept, SetAutomationModeKept, EnsureFxEnvelopeKept
     DEF EnvelopeNext

-----------------------------------------------------------------------------
(* Markers, tempo and time.                                                 *)

LEMMA MarkersKept == ASSUME Steady(reaper), MarkerAdd \/ MarkersList \/ MarkerDelete PROVE Kept
<1>1. Edits("marker.add") /\ Edits("region.add") /\ Edits("marker.delete") /\ Edits("region.delete")
  BY DEF Edits, ReadOnly
<1>2. ASSUME NEW tool, NEW args, NEW q, Edits(tool), Returns(tool, args, InBlock(Now, q))
      PROVE  Kept
  BY <1>2, NowIdle, Blocked, Zenon
<1>3. MarkerAdd => Kept
  BY <1>1, <1>2, Zenon DEF MarkerAdd
<1>4. MarkersList => Kept
  BY NowIdle, Reads, Zenon DEF MarkersList
<1>5. ASSUME MarkerDelete PROVE Kept
  <2>1. PICK tool, args, q : tool \in {"marker.delete", "region.delete"} /\ Returns(tool, args, InBlock(Now, q))
    BY <1>5 DEF MarkerDelete
  <2>2. Edits(tool)
    BY <1>1, <2>1
  <2> QED
    BY <1>2, <2>1, <2>2
<1> QED
  BY <1>3, <1>4, <1>5

LEMMA MarkerGotoKept == ASSUME Steady(reaper), MarkerGoto PROVE Kept
<1>1. \A tool \in {"marker.goto", "region.goto"} : Edits(tool) /\ tool \in AboutTheView
  BY DEF Edits, ReadOnly, AboutTheView
<1>2. ASSUME NEW tool \in {"marker.goto", "region.goto"}, NEW args, NEW b, NEW at,
             Returns(tool, args, IF b THEN Now ELSE Set(Now, [Now.ui EXCEPT !.cursor = at]))
      PROVE  Kept
  <2>1. CASE b
    BY <1>2, <2>1, NowIdle, Reads
  <2>2. CASE ~b
    BY <1>1, <1>2, <2>2, NowIdle, NowView, ViewChanges, Views
  <2> QED
    BY <2>1, <2>2
<1>3. PICK n, region :
        Returns(IF region THEN "region.goto" ELSE "marker.goto", <<n>>,
                IF Found(n, region) = {} THEN Now
                ELSE Set(Now, [Now.ui EXCEPT !.cursor = (CHOOSE mk \in Found(n, region) : TRUE).pos]))
  BY DEF MarkerGoto
<1>4. (IF region THEN "region.goto" ELSE "marker.goto") \in {"marker.goto", "region.goto"}
  OBVIOUS
<1> QED
  BY <1>2, <1>3, <1>4, Zenon

LEMMA MarkerEditKept == ASSUME Steady(reaper), MarkerEdit PROVE Kept
<1>1. Edits("marker.edit")
  BY DEF Edits, ReadOnly
<1>2. ASSUME NEW args, NEW b, NEW q, Returns("marker.edit", args, InBlock(Need(Now, b), q))
      PROVE  Kept
  BY <1>1, <1>2, NowIdle, NeedIdle, Blocked, Zenon
<1>3. PICK n \in Numbers, region \in BOOLEAN, pos \in {-1, 7}, name \in {"", "new"}, c \in {-1, 0, 255} :
      Returns("marker.edit", <<n, region, pos, name, c>>,
        InBlock(Need(Now, Found(n, region) # {}),
                WithMarkers({IF mk \notin Found(n, region) THEN mk
                             ELSE LET at == IF pos < 0 THEN mk.pos ELSE pos
                                  IN  [mk EXCEPT !.pos = at, !.end = IF region THEN @ ELSE at,
                                                 !.name = IF name = "" THEN @ ELSE name,
                                                 !.color = IF c < 0 THEN @ ELSE nativeMarkerColor(c)] : mk \in P.markers})))
  BY Zenon DEF MarkerEdit
<1> QED
  BY <1>2, <1>3, Zenon

LEMMA TimeSelectionKept == ASSUME Steady(reaper), TimeSelection PROVE Kept
<1>1. Edits("timeselection.set") /\ "timeselection.set" \in AboutTheView
  BY DEF Edits, ReadOnly, AboutTheView
<1>2. CASE Returns("timeselection.get", <<>>, Now)
  BY <1>2, NowIdle, Reads
<1>3. CASE \/ Returns("timeselection.set", <<"loop">>, Set(Now, [Now.ui EXCEPT !.loop = 3]))
           \/ Returns("timeselection.set", <<"timesel">>, Set(Now, [Now.ui EXCEPT !.range = 3]))
  BY <1>1, <1>3, NowIdle, NowView, ViewChanges, Views
<1> QED
  BY <1>2, <1>3 DEF TimeSelection

LEMMA TempoKept == ASSUME Steady(reaper), Tempo \/ TempoAdd \/ TempoEdit \/ TempoDelete PROVE Kept
<1>1. Edits("tempo.set") /\ Edits("tempo.add_marker") /\ Edits("tempo.edit_marker") /\ Edits("tempo.delete_marker")
  BY DEF Edits, ReadOnly
<1>2. ASSUME NEW tool, NEW args, Returns(tool, args, Now) PROVE Kept
  BY <1>2, NowIdle, Reads
<1>3. ASSUME NEW args, NEW q, Returns("tempo.set", args, InBlock(Now, q)) PROVE Kept
  BY <1>1, <1>3, NowIdle, Blocked
<1>4. ASSUME NEW tool, NEW args, NEW s, NEW b, NEW q, Edits(tool), Idle(s),
             Returns(tool, args, Need(InBlock(s, IF b THEN q ELSE P), b))
      PROVE  Kept
  BY <1>4, Attempted, Zenon
<1>5. Tempo => Kept
  BY <1>2, <1>3, Zenon DEF Tempo
<1>6. TempoAdd => Kept
  BY <1>1, <1>2, <1>4, NowIdle, ZenonT(60) DEF TempoAdd
<1>7. ASSUME TempoEdit PROVE Kept
  <2>1. \A c : Idle(Need(Now, c))
    BY NowIdle, NeedIdle, Zenon
  <2>2. PICK args, c, b, q : Returns("tempo.edit_marker", args, Need(InBlock(Need(Now, c), IF b THEN q ELSE P), b))
    BY <1>7, ZenonT(60) DEF TempoEdit
  <2> QED
    BY <1>1, <1>4, <2>1, <2>2, Zenon
<1>8. TempoDelete => Kept
  BY <1>1, <1>4, NowIdle, Zenon DEF TempoDelete
<1> QED
  BY <1>5, <1>6, <1>7, <1>8

LEMMA TimelineNextKept == ASSUME Steady(reaper), TimelineNext PROVE Kept
<1>1. TimeConversions => Kept
  BY NowIdle, Reads, Zenon DEF TimeConversions
<1> QED
  BY <1>1, MarkersKept, MarkerGotoKept, MarkerEditKept, TimeSelectionKept, TempoKept DEF TimelineNext

-----------------------------------------------------------------------------
(* Widths and sends.                                                        *)

LEMMA SetChannelsKept == ASSUME Steady(reaper), SetChannels PROVE Kept
<1>1. Edits("track.set_channels")
  BY DEF Edits, ReadOnly
<1> QED
  BY <1>1, NowIdle, NeedIdle, Blocked DEF SetChannels

LEMMA AddsSendKept ==
    ASSUME NEW tool, NEW args, NEW t, NEW s, NEW dest, NEW db, NEW dst, Idle(s), Steady(reaper), Edits(tool),
           AddsSend(tool, args, t, s, dest, db, dst)
    PROVE  Kept
BY Attempted, Zenon DEF AddsSend

LEMMA SendAddKept == ASSUME Steady(reaper), SendAdd PROVE Kept
<1>1. Edits("send.add")
  BY DEF Edits, ReadOnly
<1>2. \A t, d : Idle(Need(Need(Now, IsTrack(t)), IsTrack(d)))
  BY NowIdle, NeedIdle, Zenon
<1> QED
  BY <1>1, <1>2, AddsSendKept, Zenon DEF SendAdd

LEMMA SendRemoveKept == ASSUME Steady(reaper), SendRemove PROVE Kept
<1>1. Edits("send.remove")
  BY DEF Edits, ReadOnly
<1>2. ASSUME NEW args, NEW b, NEW q, Returns("send.remove", args, InBlock(Need(Now, b), q)) PROVE Kept
  BY <1>1, <1>2, NowIdle, NeedIdle, Blocked, Zenon
<1> QED
  BY <1>2, Zenon DEF SendRemove

LEMMA SendSetKept == ASSUME Steady(reaper), SendSet PROVE Kept
<1>1. Edits("send.set")
  BY DEF Edits, ReadOnly
<1>2. ASSUME NEW args, NEW b, NEW q, Returns("send.set", args, InBlock(Need(Now, b), q)) PROVE Kept
  BY <1>1, <1>2, NowIdle, NeedIdle, Blocked, Zenon
<1>3. PICK t \in TrackArgs, cat \in sendCategory, k \in SendIndices, a \in {"vol", "mute", "mode"} :
        Returns("send.set", <<t, cat, k, a>>,
                InBlock(Need(Now, IsTrack(t)), WithSend(t, cat, k, With(SendAt(t, cat, k), a, 1))))
  BY Zenon DEF SendSet
<1> QED
  BY <1>2, <1>3, Zenon

LEMMA SendSetChannelsKept == ASSUME Steady(reaper), SendSetChannels PROVE Kept
<1>1. Edits("send.set_channels")
  BY DEF Edits, ReadOnly
<1>2. ASSUME NEW args, NEW b, NEW q, Returns("send.set_channels", args, InBlock(Need(Now, b), q)) PROVE Kept
  BY <1>1, <1>2, NowIdle, NeedIdle, Blocked, Zenon
<1>3. PICK t \in TrackArgs, cat \in sendCategory, k \in SendIndices :
        \/ \E off \in {-1, 0, 2}, chans \in {1, 2, 5} :
             Returns("send.set_channels", <<t, cat, k, off, chans>>,
                     InBlock(Need(Now, IsTrack(t)),
                             WithSend(t, cat, k, [SendAt(t, cat, k) EXCEPT !.src = encSrc(off, chans)])))
        \/ \E mono \in 0..1 :
             Returns("send.set_channels", <<t, cat, k, mono>>,
                     InBlock(Need(Now, IsTrack(t)),
                             WithSend(t, cat, k, [SendAt(t, cat, k) EXCEPT !.dst = dstOf(2, mono)])))
  BY Zenon DEF SendSetChannels
<1>4. CASE \E off \in {-1, 0, 2}, chans \in {1, 2, 5} :
             Returns("send.set_channels", <<t, cat, k, off, chans>>,
                     InBlock(Need(Now, IsTrack(t)),
                             WithSend(t, cat, k, [SendAt(t, cat, k) EXCEPT !.src = encSrc(off, chans)])))
  BY <1>2, <1>4, Zenon
<1>5. CASE \E mono \in 0..1 :
             Returns("send.set_channels", <<t, cat, k, mono>>,
                     InBlock(Need(Now, IsTrack(t)),
                             WithSend(t, cat, k, [SendAt(t, cat, k) EXCEPT !.dst = dstOf(2, mono)])))
  <2>1. ASSUME NEW mono,
               Returns("send.set_channels", <<t, cat, k, mono>>,
                       InBlock(Need(Now, IsTrack(t)),
                               WithSend(t, cat, k, [SendAt(t, cat, k) EXCEPT !.dst = dstOf(2, mono)])))
        PROVE  Kept
    BY <1>2, <2>1, Zenon
  <2> QED
    BY <1>5, <2>1, Zenon
<1> QED
  BY <1>3, <1>4, <1>5, Zenon

LEMMA AddHardwareOutputKept == ASSUME Steady(reaper), AddHardwareOutput PROVE Kept
<1>1. Edits("send.add_hardware_output")
  BY DEF Edits, ReadOnly
<1>2. \A t : Idle(Need(Now, IsTrack(t)))
  BY NowIdle, NeedIdle, Zenon
<1>3. ASSUME NEW t, NEW mono, NEW db,
             AddsSend("send.add_hardware_output", <<t, mono, db>>, t, Need(Now, IsTrack(t)), 0, db, dstOf(2, mono))
      PROVE  Kept
  BY <1>1, <1>2, <1>3, AddsSendKept, Zenon
<1> QED
  BY <1>3, Zenon DEF AddHardwareOutput

LEMMA RoutingNextKept == ASSUME Steady(reaper), RoutingNext PROVE Kept
<1>1. SendList => Kept
  BY NowIdle, NeedIdle, Reads, Zenon DEF SendList
<1>2. ReceiveList => Kept
  BY NowIdle, NeedIdle, Reads, Zenon DEF ReceiveList
<1> QED
  BY <1>1, <1>2, SetChannelsKept, SendAddKept, SendRemoveKept, SendSetKept, SendSetChannelsKept,
     AddHardwareOutputKept DEF RoutingNext

-----------------------------------------------------------------------------
(* Tools of the spatial scene.                                              *)

LEMMA NeedEnded ==
    ASSUME NEW s, NEW b, Ended(s)
    PROVE  Ended(Need(s, b)) /\ Need(s, b).ui = s.ui /\ Need(s, b).proj = s.proj
<1>1. CASE s.ok
  <2>1. Need(s, b) = [s EXCEPT !.ok = b]
    BY <1>1 DEF Need
  <2> QED
    BY <2>1 DEF Ended, Fields
<1>2. CASE ~s.ok
  BY <1>2 DEF Need
<1> QED
  BY <1>1, <1>2

\* An error when the block is open: the tool has written nothing, or it is one of the Untidy.
LEMMA FailedAtWork ==
    ASSUME NEW tool, NEW args, NEW s, NEW b, AtWork(s), Steady(reaper), Edits(tool), s.ui = Now.ui,
           s.proj = Now.proj \/ tool \in Untidy, Returns(tool, args, Need(End(s), b))
    PROVE  Kept
<1>1. CASE ~s.ok \/ s.proj = Now.proj
  <2>1. Idle(End(s))
    BY <1>1, EndIdle DEF AtWork, End
  <2>2. Idle(Need(End(s), b))
    BY <2>1, NeedIdle, Zenon
  <2> QED
    BY <2>2, Reads
<1>2. CASE s.ok /\ tool \in Untidy
  <2> DEFINE e == End(s)
  <2>1. Ended(e) /\ e.ui = Now.ui
    BY <1>2, EndInside DEF AtWork
  <2> HIDE DEF e
  <2>2. Ended(Need(e, b)) /\ Need(e, b).ui = Now.ui
    BY <2>1, NeedEnded
  <2>3. Good(tool, FALSE, Need(e, b))
    BY <1>2, <2>2, EndedGood
  <2> QED
    BY <2>3, ReturnsKept DEF e
<1> QED
  BY <1>1, <1>2

LEMMA MayWriteOpen ==
    ASSUME NEW s, NEW asked, NEW q, AtWork(s)
    PROVE  AtWork(MayWrite(s, asked, q)) /\ MayWrite(s, asked, q).ui = s.ui
<1>1. CASE asked
  BY <1>1, WriteOpen DEF MayWrite
<1>2. CASE ~asked
  BY <1>2 DEF MayWrite
<1> QED
  BY <1>1, <1>2

LEMMA DrivesKept ==
    ASSUME NEW tool, NEW args, NEW t, NEW s, NEW fx, NEW role, NEW addable, NEW set, NEW pins,
           AtWork(s), Steady(reaper), Edits(tool), s.ui = Now.ui, s.proj = Now.proj \/ tool \in Untidy,
           Drives(tool, args, t, s, fx, role, addable, set, pins)
    PROVE  Kept
<1> DEFINE r == resolveOrAddByCandidates(s.proj.tracks[t].fx, fx, role, addable)
           q == [s.proj EXCEPT !.tracks[t].fx = Wired(Tuned(r.chain, r.fx, set), r.fx, pins)]
<1>1. Returns(tool, args, IF s.ok /\ r.fx = 0 THEN Need(End(s), FALSE) ELSE End(Write(s, q)))
  BY Zenon DEF Drives
<1> HIDE DEF q
<1>2. CASE s.ok /\ r.fx = 0
  <2>1. Returns(tool, args, Need(End(s), FALSE))
    BY <1>1, <1>2, Zenon
  <2> QED
    BY <2>1, FailedAtWork
<1>3. CASE ~(s.ok /\ r.fx = 0)
  <2>1. Returns(tool, args, End(Write(s, q)))
    BY <1>1, <1>3, Zenon
  <2>2. AtWork(Write(s, q)) /\ Write(s, q).ui = Now.ui
    BY WriteOpen
  <2> QED
    BY <2>1, <2>2, ClosingOpen
<1> QED
  BY <1>2, <1>3

\* A block opened on a track.
LEMMA OnTrackOpens ==
    ASSUME NEW t, Steady(reaper)
    PROVE  LET s == Begin(Need(Now, IsTrack(t)))
           IN  AtWork(s) /\ s.ui = Now.ui /\ s.proj = Now.proj
<1>1. Idle(Need(Now, IsTrack(t)))
  BY NowIdle, NeedIdle, Zenon
<1> QED
  BY <1>1, BeginOpens

LEMMA AmbisonicEncodeKept == ASSUME Steady(reaper), AmbisonicEncode PROVE Kept
<1>1. Edits("spatial.ambisonic_encode") /\ "spatial.ambisonic_encode" \in Untidy
  BY DEF Edits, ReadOnly, Untidy
<1>2. ASSUME NEW t, NEW args, NEW asked, NEW q, NEW fx, NEW addable, NEW set, NEW pins,
             Drives("spatial.ambisonic_encode", args, t, MayWrite(Begin(Need(Now, IsTrack(t))), asked, q), fx, "encoder",
                    addable, set, pins)
      PROVE  Kept
  <2> DEFINE s == Begin(Need(Now, IsTrack(t)))
  <2>1. AtWork(MayWrite(s, asked, q)) /\ MayWrite(s, asked, q).ui = Now.ui
    BY OnTrackOpens, MayWriteOpen
  <2> QED
    BY <1>1, <1>2, <2>1, DrivesKept
<1>3. PICK t \in TrackArgs, order \in {2, 9}, setCh \in BOOLEAN, wirePins \in BOOLEAN, addable \in Addable("encoder") :
        \E fx \in Named(addable) :
          Drives("spatial.ambisonic_encode", <<t, order, setCh, wirePins, fx>>, t,
                 MayWrite(Begin(Need(Now, IsTrack(t))), setCh,
                          WithTrack(t, [P.tracks[t] EXCEPT !.nchan = clampChannels(hoaChannels(Clamp(1, 7, order)))])),
                 fx, "encoder", addable, Angle(270), IF wirePins THEN hoaChannels(Clamp(1, 7, order)) ELSE 0)
  BY Zenon DEF AmbisonicEncode
<1> QED
  BY <1>2, <1>3, ZenonT(60)

LEMMA RotateSceneKept == ASSUME Steady(reaper), RotateScene PROVE Kept
<1>1. Edits("spatial.rotate_scene")
  BY DEF Edits, ReadOnly
<1> QED
  BY <1>1, OnTrackOpens, DrivesKept, Zenon DEF RotateScene

LEMMA AmbisonicDecodeKept == ASSUME Steady(reaper), AmbisonicDecode PROVE Kept
<1>1. Edits("spatial.ambisonic_decode") /\ "spatial.ambisonic_decode" \in Untidy
  BY DEF Edits, ReadOnly, Untidy
<1>2. ASSUME NEW t, NEW args, NEW asked, NEW q, NEW addable, NEW pins,
             Drives("spatial.ambisonic_decode", args, t, MayWrite(Begin(Need(Now, IsTrack(t))), asked, q), 0, "decoder",
                    addable, Unset, pins)
      PROVE  Kept
  <2> DEFINE s == Begin(Need(Now, IsTrack(t)))
  <2>1. AtWork(MayWrite(s, asked, q)) /\ MayWrite(s, asked, q).ui = Now.ui
    BY OnTrackOpens, MayWriteOpen
  <2> QED
    BY <1>1, <1>2, <2>1, DrivesKept
<1> QED
  BY <1>2, Zenon DEF AmbisonicDecode

LEMMA ConvertOrderKept == ASSUME Steady(reaper), ConvertOrder PROVE Kept
<1>1. Edits("spatial.convert_order")
  BY DEF Edits, ReadOnly
<1>2. ASSUME NEW args, NEW b, NEW q, Returns("spatial.convert_order", args, InBlock(Need(Now, b), q)) PROVE Kept
  BY <1>1, <1>2, NowIdle, NeedIdle, Blocked, Zenon
<1> QED
  BY <1>2, Zenon DEF ConvertOrder

LEMMA ConvertFormatKept == ASSUME Steady(reaper), ConvertFormat PROVE Kept
<1>1. Edits("spatial.convert_format")
  BY DEF Edits, ReadOnly
<1>2. ASSUME NEW args, NEW t, NEW b, NEW c, NEW e, NEW d, NEW addable, NEW set, NEW pins, NEW s, NEW u,
             s = Need(Need(Now, b), c), u = IF s.ok /\ d THEN Need(s, e) ELSE s,
             Drives("spatial.convert_format", args, t, Begin(u), 0, "converter", addable, set, pins)
      PROVE  Kept
  <2>1. Idle(s)
    BY <1>2, NowIdle, NeedIdle, Zenon
  <2>2. Idle(Need(s, e))
    BY <2>1, NeedIdle, Zenon
  <2>3. Idle(u)
    BY <1>2, <2>1, <2>2
  <2>4. AtWork(Begin(u)) /\ Begin(u).ui = Now.ui /\ Begin(u).proj = Now.proj
    BY <2>3, BeginOpens
  <2> QED
    BY <1>1, <1>2, <2>4, DrivesKept
<1>3. PICK t \in TrackArgs, mode \in {"same", "none", "sn3d-n3d", "sn3d-fuma"}, addable \in Addable("converter") :
      LET s == Need(Need(Now, mode # "none"), IsTrack(t))
          u == IF s.ok /\ mode = "sn3d-fuma" THEN Need(s, P.tracks[t].nchan <= 4) ELSE s
      IN  IF mode = "same" THEN Returns("spatial.convert_format", <<t, mode>>, Now)
          ELSE Drives("spatial.convert_format", <<t, mode>>, t, Begin(u), 0, "converter", addable,
                      Plain(IF mode = "sn3d-fuma" THEN 2 ELSE 0), P.tracks[t].nchan)
  BY Zenon DEF ConvertFormat
<1>4. CASE mode = "same"
  BY <1>3, <1>4, NowIdle, Reads, Zenon
<1>5. CASE mode # "same"
  BY <1>2, <1>3, <1>5, Zenon
<1> QED
  BY <1>4, <1>5

LEMMA MirrorBeamDistanceKept == ASSUME Steady(reaper), MirrorBeamDistance PROVE Kept
<1>1. Edits("spatial.mirror_scene") /\ Edits("spatial.beamform") /\ Edits("spatial.set_distance")
  BY DEF Edits, ReadOnly
<1>2. ASSUME NEW tool, NEW args, NEW t, NEW role, NEW addable, NEW set, NEW pins, Edits(tool),
             Drives(tool, args, t, Begin(Need(Now, IsTrack(t))), 0, role, addable, set, pins)
      PROVE  Kept
  BY <1>2, OnTrackOpens, DrivesKept
<1> QED
  BY <1>1, <1>2, Zenon DEF MirrorBeamDistance

LEMMA AddSurroundPannerKept == ASSUME Steady(reaper), AddSurroundPanner PROVE Kept
<1>1. Edits("spatial.add_surround_panner") /\ "spatial.add_surround_panner" \in Untidy
  BY DEF Edits, ReadOnly, Untidy
<1>2. ASSUME NEW t, NEW args, NEW asked, NEW q, NEW r, NEW adds, NEW u, u = MayWrite(Begin(Need(Now, IsTrack(t))), asked, q),
             Returns("spatial.add_surround_panner", args,
                     IF u.ok /\ ~adds THEN Need(End(u), FALSE) ELSE End(Write(u, r)))
      PROVE  Kept
  <2> DEFINE s == Begin(Need(Now, IsTrack(t)))
  <2>1. AtWork(u) /\ u.ui = Now.ui
    BY <1>2, OnTrackOpens, MayWriteOpen
  <2>2. AtWork(Write(u, r)) /\ Write(u, r).ui = Now.ui
    BY <2>1, WriteOpen
  <2>3. CASE u.ok /\ ~adds
    <3>1. Returns("spatial.add_surround_panner", args, Need(End(u), FALSE))
      BY <1>2, <2>3, Zenon
    <3> QED
      BY <1>1, <2>1, <3>1, FailedAtWork
  <2>4. CASE ~(u.ok /\ ~adds)
    <3>1. Returns("spatial.add_surround_panner", args, End(Write(u, r)))
      BY <1>2, <2>4, Zenon
    <3> QED
      BY <1>1, <2>2, <3>1, ClosingOpen
  <2> QED
    BY <2>3, <2>4
<1>3. PICK t, width, adds :
        LET s == Begin(Need(Now, IsTrack(t)))
            u == MayWrite(s, width # 0, WithTrack(t, [P.tracks[t] EXCEPT !.nchan = clampChannels(width)]))
        IN  Returns("spatial.add_surround_panner", <<t, width, adds>>,
                    IF u.ok /\ ~adds THEN Need(End(u), FALSE)
                    ELSE End(Write(u, [u.proj EXCEPT !.tracks[t].fx = Append(@, Fx("ReaSurroundPan"))])))
  BY ZenonT(60) DEF AddSurroundPanner
<1> DEFINE u == MayWrite(Begin(Need(Now, IsTrack(t))), width # 0,
                         WithTrack(t, [P.tracks[t] EXCEPT !.nchan = clampChannels(width)]))
           r == [u.proj EXCEPT !.tracks[t].fx = Append(@, Fx("ReaSurroundPan"))]
<1>4. \E b, q : u = MayWrite(Begin(Need(Now, IsTrack(t))), b, q)
  BY Zenon
<1>5. Returns("spatial.add_surround_panner", <<t, width, adds>>,
              IF u.ok /\ ~adds THEN Need(End(u), FALSE) ELSE End(Write(u, r)))
  BY <1>3, Zenon
<1> HIDE DEF u, r
<1> QED
  BY <1>2, <1>4, <1>5, Zenon

LEMMA GetSurroundStateKept == ASSUME Steady(reaper), GetSurroundState PROVE Kept
<1>1. ASSUME NEW args, NEW b, NEW c, NEW s, s = Need(Now, b),
             Returns("spatial.get_surround_state", args, IF s.ok THEN Need(s, c) ELSE s)
      PROVE  Kept
  <2>1. Idle(s)
    BY <1>1, NowIdle, NeedIdle, Zenon
  <2>2. Idle(IF s.ok THEN Need(s, c) ELSE s)
    BY <2>1, ThenIdle, Zenon
  <2> QED
    BY <1>1, <2>2, Reads, Zenon
<1> QED
  BY <1>1, Zenon DEF GetSurroundState

LEMMA SpatialReadsKept == ASSUME Steady(reaper), SpatialReads PROVE Kept
<1>1. ASSUME NEW t, Returns("spatial.get_scene_info", <<t>>, Need(Now, IsTrack(t))) PROVE Kept
  BY <1>1, NowIdle, NeedIdle, Reads, Zenon
<1>2. ASSUME NEW tool, Returns(tool, <<>>, Now) PROVE Kept
  BY <1>2, NowIdle, Reads
<1> QED
  BY <1>1, <1>2, Zenon DEF SpatialReads

\* The parameters of a panner are written in no block.
LEMMA SetSourcePositionKept == ASSUME Steady(reaper), SetSourcePosition PROVE Kept
<1>1. Edits("spatial.set_source_position")
  BY DEF Edits, ReadOnly
<1>2. ASSUME NEW args, NEW b, NEW c, NEW q, NEW s, NEW u, s = Need(Now, b), u = IF s.ok THEN Need(s, c) ELSE s,
             Returns("spatial.set_source_position", args, Write(u, q))
      PROVE  Kept
  <2>1. Idle(s)
    BY <1>2, NowIdle, NeedIdle, Zenon
  <2>2. Idle(u)
    BY <1>2, <2>1, ThenIdle, Zenon
  <2>3. CASE u.ok
    <3> DEFINE r == Write(u, q)
    <3>1. r = [u EXCEPT !.proj = q]
      BY <2>3 DEF Write
    <3>2. /\ Fields(r) /\ r.points = Now.points /\ r.at = Now.at /\ r.depth = Now.depth
          /\ r.base = Now.base /\ r.ui = Now.ui /\ r.renders = Now.renders /\ r.ok
      BY <2>2, <2>3, <3>1 DEF Idle, Fields
    <3> HIDE DEF r
    <3>3. Good("spatial.set_source_position", FALSE, r)
      BY <1>1, <3>2, NowSteady DEF Good, Edits, Steady, Blocks, HarmedNothing, MadeOnePoint, GaveBack
    <3> QED
      BY <1>2, <3>3, ReturnsKept DEF r
  <2>4. CASE ~u.ok
    <3>1. Write(u, q) = u
      BY <2>4 DEF Write
    <3> QED
      BY <1>2, <2>2, <3>1, Reads
  <2> QED
    BY <2>3, <2>4
<1>3. PICK t, fx, deg :
        LET s   == Need(Now, IsTrack(t))
            sur == FirstOf(TrackFx(t), Surround)
            k   == IF fx # 0 THEN fx ELSE IF sur # 0 THEN sur ELSE FirstOf(TrackFx(t), Range(Candidates.encoder))
            u   == IF s.ok THEN Need(s, k \in DOMAIN TrackFx(t)) ELSE s
        IN  Returns("spatial.set_source_position", <<t, fx, deg>>, Write(u, PutTrackFx(t, Tuned(TrackFx(t), k, Angle(deg)))))
  BY ZenonT(60) DEF SetSourcePosition
<1> QED
  BY <1>2, <1>3, Zenon

\* The monitor is there when no decoder is, or its place was past the end.
LEMMA AddBinauralMonitorKept == ASSUME Steady(reaper), AddBinauralMonitor PROVE Kept
<1>1. Edits("spatial.add_binaural_monitor") /\ "spatial.add_binaural_monitor" \in Untidy
  BY DEF Edits, ReadOnly, Untidy
<1>2. ASSUME NEW args, NEW b, NEW c, NEW q, NEW s, s = Need(Begin(Now), b),
             Returns("spatial.add_binaural_monitor", args, IF s.ok THEN Need(End(Write(s, q)), c) ELSE s)
      PROVE  Kept
  <2>1. AtWork(Begin(Now)) /\ Begin(Now).ui = Now.ui /\ Begin(Now).proj = Now.proj /\ Begin(Now).ok
    BY NowIdle, BeginOpens, NowSteady
  <2>2. Inside(s) /\ s.ui = Now.ui
    BY <1>2, <2>1, NeedInside DEF AtWork
  <2>3. CASE s.ok
    <3>1. AtWork(Write(s, q)) /\ Write(s, q).ui = Now.ui
      BY <2>2, <2>3, WriteOpen DEF AtWork
    <3>2. Returns("spatial.add_binaural_monitor", args, Need(End(Write(s, q)), c))
      BY <1>2, <2>3, Zenon
    <3> QED
      BY <1>1, <3>1, <3>2, FailedAtWork
  <2>4. CASE ~s.ok
    <3>1. Returns("spatial.add_binaural_monitor", args, s)
      BY <1>2, <2>4, Zenon
    <3> QED
      BY <1>1, <2>2, <2>4, <3>1, OpenGood, ReturnsKept
  <2> QED
    BY <2>3, <2>4
<1>3. PICK src \in TrackArgs, objects \in {{}, {1}, {1, 9}}, createSend \in BOOLEAN, tracking \in BOOLEAN,
           rotator \in BOOLEAN, decoder \in BOOLEAN, place \in {"first", "last", "past"} :
        LET object == objects # {}
            s      == Need(Begin(Now), IsTrack(src) /\ \A o \in objects : IsTrack(o))
            width  == IF object THEN Cardinality(objects) ELSE SceneWidth(P.tracks[src].nchan)
            from   == IF ~createSend THEN {} ELSE IF object THEN objects ELSE {src}
            last   == Len(P.tracks) + 1
            added  == IF place = "past" THEN WithMonitor(P, last, {}, "", 2, <<>>)
                      ELSE WithMonitor(P, IF place = "first" THEN 1 ELSE last, from, "monitor", clampChannels(width),
                                       MonitorChain(tracking /\ ~object /\ rotator, decoder, width))
        IN  /\ tracking => place = "last"
            /\ rotator => tracking
            /\ Returns("spatial.add_binaural_monitor", <<src, objects, createSend, place, tracking>>,
                       IF s.ok THEN Need(End(Write(s, added)), place # "past" /\ decoder) ELSE s)
  BY Zenon DEF AddBinauralMonitor
<1> DEFINE object == objects # {}
           b      == IsTrack(src) /\ \A o \in objects : IsTrack(o)
           s      == Need(Begin(Now), b)
           width  == IF object THEN Cardinality(objects) ELSE SceneWidth(P.tracks[src].nchan)
           from   == IF ~createSend THEN {} ELSE IF object THEN objects ELSE {src}
           last   == Len(P.tracks) + 1
           added  == IF place = "past" THEN WithMonitor(P, last, {}, "", 2, <<>>)
                     ELSE WithMonitor(P, IF place = "first" THEN 1 ELSE last, from, "monitor", clampChannels(width),
                                      MonitorChain(tracking /\ ~object /\ rotator, decoder, width))
           args   == <<src, objects, createSend, place, tracking>>
           c      == place # "past" /\ decoder
<1>4. Returns("spatial.add_binaural_monitor", args, IF s.ok THEN Need(End(Write(s, added)), c) ELSE s)
  BY <1>3, Zenon
<1> HIDE DEF added, args, b, c
<1> QED
  BY <1>2, <1>4, Zenon

\* What the rollback takes back may not be what this call did.
LEMMA UndoneFields ==
    ASSUME NEW s, Ended(s), Steady(reaper)
    PROVE  /\ Steady(Undone(s)) /\ Undone(s).ui = s.ui /\ Undone(s).ok = s.ok
<1>1. Steady(s)
  BY NowSteady DEF Ended, Steady, Blocks
<1>2. CASE s.at = 1
  <2>1. Undone(s) = s
    BY <1>2 DEF Undone
  <2> QED
    BY <1>1, <2>1
<1>3. CASE s.at # 1
  <2> DEFINE q == s.points[s.at - 1]
             a == s.at - 1
             k1 == [s EXCEPT !.proj = q]
             k2 == [k1 EXCEPT !.at = a]
  <2>1. Undone(s) = k2
    BY <1>3 DEF Undone
  <2> HIDE DEF q, a
  <2>2. Fields(k1) /\ k1.ui = s.ui /\ k1.ok = s.ok /\ k1.renders = s.renders /\ k1.depth = s.depth /\ k1.base = s.base
    BY <1>1 DEF Steady, Fields
  <2> HIDE DEF k1
  <2>3. Fields(k2) /\ k2.ui = s.ui /\ k2.ok = s.ok /\ k2.renders = s.renders /\ k2.depth = s.depth /\ k2.base = s.base
    BY <2>2 DEF Fields
  <2> HIDE DEF k2
  <2>4. Steady(k2)
    BY <1>1, <2>3 DEF Steady, Blocks
  <2> QED
    BY <2>1, <2>3, <2>4
<1> QED
  BY <1>2, <1>3

LEMMA StereoToAmbisonicKept == ASSUME Steady(reaper), StereoToAmbisonic PROVE Kept
<1>1. /\ Edits("spatial.stereo_to_ambisonic") /\ "spatial.stereo_to_ambisonic" \in Untidy
      /\ "spatial.stereo_to_ambisonic" \notin AboutTheView
  BY DEF Edits, ReadOnly, Untidy, AboutTheView
<1>2. ASSUME NEW args, NEW b, NEW c, NEW q, NEW r, NEW e, NEW u, NEW w,
             u = Begin(Need(Need(Now, b), c)), w = Write(u, q),
             Returns("spatial.stereo_to_ambisonic", args,
                     IF ~u.ok THEN u ELSE IF e THEN Need(Undone(End(w)), FALSE) ELSE End(Write(w, r)))
      PROVE  Kept
  <2>1. Idle(Need(Need(Now, b), c))
    BY NowIdle, NeedIdle, Zenon
  <2>2. AtWork(u) /\ u.ui = Now.ui
    BY <1>2, <2>1, BeginOpens
  <2>3. AtWork(w) /\ w.ui = Now.ui /\ w.ok = u.ok
    BY <1>2, <2>2, WriteOpen
  <2>4. CASE ~u.ok
    <3>1. Returns("spatial.stereo_to_ambisonic", args, u)
      BY <1>2, <2>4, Zenon
    <3>2. Idle(u)
      BY <2>2, <2>4 DEF AtWork
    <3> QED
      BY <3>1, <3>2, Reads
  <2>5. CASE u.ok /\ e
    <3> DEFINE d == Undone(End(w))
               f == Need(d, FALSE)
    <3>1. Ended(End(w)) /\ End(w).ui = Now.ui /\ End(w).ok
      BY <2>3, <2>5, EndInside DEF AtWork
    <3>2. Steady(d) /\ d.ui = Now.ui /\ d.ok
      BY <3>1, UndoneFields
    <3> HIDE DEF d
    <3>3. f = [d EXCEPT !.ok = FALSE]
      BY <3>2 DEF Need
    <3>4. Steady(f) /\ f.ui = Now.ui /\ ~f.ok
      BY <3>2, <3>3 DEF Steady, Fields, Blocks
    <3>5. Returns("spatial.stereo_to_ambisonic", args, f)
      BY <1>2, <2>5, Zenon DEF d
    <3> HIDE DEF f
    <3>6. Good("spatial.stereo_to_ambisonic", FALSE, f)
      BY <1>1, <3>4 DEF Good, Edits, HarmedNothing, MadeOnePoint, GaveBack
    <3> QED
      BY <3>5, <3>6, ReturnsKept
  <2>6. CASE u.ok /\ ~e
    <3>1. Returns("spatial.stereo_to_ambisonic", args, End(Write(w, r)))
      BY <1>2, <2>6, Zenon
    <3>2. AtWork(Write(w, r)) /\ Write(w, r).ui = Now.ui
      BY <2>3, WriteOpen
    <3> QED
      BY <1>1, <3>1, <3>2, ClosingOpen
  <2> QED
    BY <2>4, <2>5, <2>6
<1>3. ASSUME NEW args, NEW b, Previews("spatial.stereo_to_ambisonic", args, Need(Now, b)) PROVE Kept
  BY <1>3, NowIdle, NeedIdle, Reads, Zenon
<1>4. PICK t \in TrackArgs, order \in {1, 2}, monitor \in BOOLEAN, listed \in BOOLEAN, addable \in Addable("encoder") :
        LET s     == Need(Now, IsTrack(t))
            u     == Begin(Need(s, listed))
            wide  == Write(u, WithTrack(t, [P.tracks[t] EXCEPT !.nchan = clampChannels(hoaChannels(order))]))
            r     == resolveOrAddByCandidates(TrackFx(t), 0, "encoder", addable)
            driven == [wide.proj EXCEPT !.tracks[t].fx = Wired(Tuned(r.chain, r.fx, Angle(30)), r.fx, hoaChannels(order))]
            args  == <<t, order, monitor>>
        IN  \/ Previews("spatial.stereo_to_ambisonic", args, s)
            \/ Returns("spatial.stereo_to_ambisonic", args,
                 IF ~u.ok THEN u
                 ELSE IF r.fx = 0 THEN Need(Undone(End(wide)), FALSE)
                 ELSE End(Write(wide, IF monitor THEN buildBinauralMonitor(driven, t, hoaChannels(order), addable # {}) ELSE driven)))
  BY Zenon DEF StereoToAmbisonic
<1> DEFINE s     == Need(Now, IsTrack(t))
           u     == Begin(Need(s, listed))
           q     == WithTrack(t, [P.tracks[t] EXCEPT !.nchan = clampChannels(hoaChannels(order))])
           wide  == Write(u, q)
           r     == resolveOrAddByCandidates(TrackFx(t), 0, "encoder", addable)
           e     == r.fx = 0
           driven == [wide.proj EXCEPT !.tracks[t].fx = Wired(Tuned(r.chain, r.fx, Angle(30)), r.fx, hoaChannels(order))]
           p     == IF monitor THEN buildBinauralMonitor(driven, t, hoaChannels(order), addable # {}) ELSE driven
           args  == <<t, order, monitor>>
<1>5. \/ Previews("spatial.stereo_to_ambisonic", args, s)
      \/ Returns("spatial.stereo_to_ambisonic", args,
           IF ~u.ok THEN u ELSE IF e THEN Need(Undone(End(wide)), FALSE) ELSE End(Write(wide, p)))
  BY <1>4, Zenon
<1> HIDE DEF q, p, e, args
<1>6. CASE Previews("spatial.stereo_to_ambisonic", args, s)
  BY <1>3, <1>6, Zenon
<1>7. CASE Returns("spatial.stereo_to_ambisonic", args,
             IF ~u.ok THEN u ELSE IF e THEN Need(Undone(End(wide)), FALSE) ELSE End(Write(wide, p)))
  BY <1>2, <1>7, Zenon
<1> QED
  BY <1>5, <1>6, <1>7

\* Induction for a set of numbers.
LEMMA NatSetInduction ==
    ASSUME NEW S, 0 \in S, \A n \in Nat : n \in S => n + 1 \in S
    PROVE  Nat \subseteq S
<1> DEFINE T == Nat \ S
           R == OpToRel(<, Nat)
<1>1. IsWellFoundedOn(R, Nat)
  BY NatLessThanWellFounded
<1>2. ASSUME T # {} PROVE FALSE
  <2>1. PICK x \in T : \A y \in T : <<y, x>> \notin R
    <3>1. T \subseteq Nat
      OBVIOUS
    <3> HIDE DEF R, T
    <3> QED
      BY <1>1, <1>2, <3>1, WFMin
  <2>2. x # 0 /\ x \in Nat /\ x - 1 \in Nat /\ x - 1 < x
    OBVIOUS
  <2>3. x - 1 \in T
    BY <2>2
  <2>4. <<x - 1, x>> \in R
    BY <2>2 DEF OpToRel
  <2> QED
    BY <2>1, <2>3, <2>4
<1> QED
  BY <1>2

\* The settings stay those of the call, and a preview renders nothing.
LEMMA DeliveredLent ==
    ASSUME NEW s, NEW t, NEW dry, Lent(s), dry => s.renders = Now.renders
    PROVE  Lent(Delivered(s, t, dry)) /\ (dry => Delivered(s, t, dry).renders = Now.renders)
<1> DEFINE u == Need(s, t = 0 \/ IsTrack(t))
           v == Set(u, [u.ui EXCEPT !.render = "call"])
           ids == {P.tracks[t].id}
           w == IF t # 0 /\ u.ok THEN Select(v, ids) ELSE v
<1>1. Delivered(s, t, dry) = IF dry THEN w ELSE Rendered(w)
  BY Zenon DEF Delivered
<1>2. Lent(u) /\ u.renders = s.renders
  BY NeedLent, Zenon
<1> HIDE DEF u, ids
<1>3. IsView(u.ui)
  BY <1>2 DEF Lent
<1> DEFINE called == [u.ui EXCEPT !.render = "call"]
<1>35. IsView(called)
  BY <1>3, ViewChanges
<1> HIDE DEF called
<1>4. Lent(v) /\ v.renders = s.renders
  <2>1. v = Set(u, called)
    BY DEF called
  <2> QED
    BY <1>2, <1>35, <2>1, SetLent
<1> HIDE DEF v
<1>5. Lent(Select(v, ids)) /\ Select(v, ids).renders = s.renders
  <2> DEFINE x == [v.ui EXCEPT !.tracks = ids]
  <2>1. IsView(v.ui)
    BY <1>4 DEF Lent
  <2>2. Select(v, ids) = Set(v, x) /\ IsView(x)
    BY <2>1, SelectView
  <2> HIDE DEF x
  <2>3. Lent(Set(v, x)) /\ Set(v, x).renders = v.renders
    BY <1>4, <2>2, SetLent
  <2> QED
    BY <1>4, <2>2, <2>3
<1>6. Lent(w) /\ w.renders = s.renders
  BY <1>4, <1>5
<1> HIDE DEF w
<1>7. Lent(Rendered(w))
  BY <1>6, RenderedLent
<1>8. CASE dry
  BY <1>1, <1>6, <1>8
<1>9. CASE ~dry
  BY <1>1, <1>7, <1>9
<1> QED
  BY <1>8, <1>9

\* So it is after all targets.
LEMMA DeliveredAllLent ==
    ASSUME NEW s, NEW targets, NEW dry, Len(targets) \in Nat, Lent(s), dry => s.renders = Now.renders
    PROVE  /\ Lent(DeliveredAll(s, targets, dry))
           /\ dry => DeliveredAll(s, targets, dry).renders = Now.renders
<1> DEFINE N == Len(targets)
           Def(m, f) == [k \in 0..m |-> IF k = 0 THEN s ELSE Delivered(f[k - 1], targets[k], dry)]
           S == {m \in Nat : \E f : f = Def(m, f)}
<1>1. 0 \in S
  <2> DEFINE f == [k \in 0..0 |-> s]
  <2>1. f = Def(0, f)
    OBVIOUS
  <2> HIDE DEF f, Def
  <2> QED
    BY <2>1
<1>2. ASSUME NEW m \in Nat, m \in S PROVE m + 1 \in S
  <2>1. PICK f : f = Def(m, f)
    BY <1>2
  <2> DEFINE d == Delivered(f[m], targets[m + 1], dry)
             g == [k \in 0..(m + 1) |-> IF k <= m THEN f[k] ELSE d]
  <2>2. ASSUME NEW k \in 0..(m + 1) PROVE g[k] = IF k = 0 THEN s ELSE Delivered(g[k - 1], targets[k], dry)
    <3>0. \A i \in 0..m : f[i] = IF i = 0 THEN s ELSE Delivered(f[i - 1], targets[i], dry)
      BY <2>1
    <3>1. CASE k <= m
      BY <3>0, <3>1
    <3>2. CASE k = m + 1
      BY <3>2
    <3> QED
      BY <3>1, <3>2
  <2>3. g = Def(m + 1, g)
    <3> HIDE DEF d
    <3>1. g = [k \in 0..(m + 1) |-> g[k]]
      OBVIOUS
    <3> HIDE DEF g
    <3> QED
      BY <2>2, <3>1
  <2> HIDE DEF g, Def
  <2>4. m + 1 \in Nat
    OBVIOUS
  <2> QED
    BY <2>3, <2>4
<1>3. N \in S
  <2> HIDE DEF S
  <2> QED
    BY <1>1, <1>2, NatSetInduction
<1> DEFINE h == CHOOSE f : f = Def(N, f)
<1>4. h = Def(N, h)
  BY <1>3
<1>5. DeliveredAll(s, targets, dry) = h[N]
  BY DEF DeliveredAll
<1> HIDE DEF h, S, N
<1> DEFINE U == {m \in Nat : m <= N => Lent(h[m]) /\ (dry => h[m].renders = Now.renders)}
<1>6. h[0] = s /\ \A k \in 0..N : k # 0 => h[k] = Delivered(h[k - 1], targets[k], dry)
  <2>1. N \in Nat
    BY DEF N
  <2> QED
    BY <1>4, <2>1
<1>7. 0 \in U
  BY <1>6
<1>8. ASSUME NEW m \in Nat, m \in U PROVE m + 1 \in U
  <2> SUFFICES ASSUME m + 1 <= N PROVE Lent(h[m + 1]) /\ (dry => h[m + 1].renders = Now.renders)
    OBVIOUS
  <2>0. N \in Nat
    BY DEF N
  <2>1. Lent(h[m]) /\ (dry => h[m].renders = Now.renders)
    BY <1>8, <2>0
  <2>2. h[m + 1] = Delivered(h[m], targets[m + 1], dry)
    BY <1>6, <2>0
  <2> HIDE DEF Def, U
  <2> QED
    BY <2>1, <2>2, DeliveredLent
<1>9. N \in U
  <2>1. N \in Nat
    BY DEF N
  <2> HIDE DEF U, Def
  <2> QED
    BY <1>7, <1>8, <2>1, NatSetInduction
<1> QED
  BY <1>5, <1>9

LEMMA RenderDeliverablesKept == ASSUME Steady(reaper), RenderDeliverables PROVE Kept
<1>0. Edits("spatial.render_deliverables") /\ "spatial.render_deliverables" \in Untidy
  BY DEF Edits, ReadOnly, Untidy
<1>1. \A targets \in {<<>>, <<0>>, <<1>>, <<2, 9>>, <<0, 9>>, <<9>>} : Len(targets) \in Nat
  OBVIOUS
<1>2. ASSUME NEW targets, NEW dry, NEW b, NEW r, Len(targets) \in Nat, r = DeliveredAll(Need(Now, b), targets, dry),
             IF dry THEN Previews("spatial.render_deliverables", targets, Set(r, Now.ui))
             ELSE Returns("spatial.render_deliverables", targets, Set(r, Now.ui))
      PROVE  Kept
  <2> DEFINE s == Need(Now, b)
             d == Set(r, Now.ui)
  <2>1. Lent(s) /\ s.renders = Now.renders
    BY NowIdle, NeedIdle, IdleLent DEF Idle
  <2> HIDE DEF s
  <2>2. Lent(r) /\ (dry => r.renders = Now.renders)
    <3>1. r = DeliveredAll(s, targets, dry)
      BY <1>2 DEF s
    <3> QED
      BY <1>2, <2>1, <3>1, DeliveredAllLent
  <2>3. Lent(d) /\ d.ok = r.ok /\ d.renders = r.renders /\ (r.ok => d.ui = Now.ui)
    BY <2>2, NowView, SetLent
  <2>4. IF dry THEN Previews("spatial.render_deliverables", targets, d)
        ELSE Returns("spatial.render_deliverables", targets, d)
    BY <1>2, Zenon
  <2> HIDE DEF d
  <2>5. Steady(d)
    BY <2>3, NowSteady DEF Lent, Steady, Blocks
  <2>6. GaveBack("spatial.render_deliverables", d) /\ MadeOnePoint("spatial.render_deliverables", d)
    BY <2>3 DEF GaveBack, MadeOnePoint, Lent
  <2>7. CASE dry
    <3>1. d.ok => Idle(d)
      BY <2>2, <2>3, <2>7, LentIdle
    <3>2. Good("spatial.render_deliverables", TRUE, d)
      BY <1>0, <2>5, <2>6, <3>1 DEF Good, HarmedNothing, Edits
    <3> QED
      BY <2>4, <2>7, <3>2, PreviewsKept
  <2>8. CASE ~dry
    <3>1. Good("spatial.render_deliverables", FALSE, d)
      BY <1>0, <2>5, <2>6 DEF Good, HarmedNothing, Edits
    <3> QED
      BY <2>4, <2>8, <3>1, ReturnsKept
  <2> QED
    BY <2>7, <2>8
<1> QED
  BY <1>1, <1>2, Zenon DEF RenderDeliverables

LEMMA SpatialNextKept == ASSUME Steady(reaper), SpatialNext PROVE Kept
BY AddSurroundPannerKept, GetSurroundStateKept, SetSourcePositionKept, SpatialReadsKept, AmbisonicEncodeKept,
   RotateSceneKept, AmbisonicDecodeKept, ConvertOrderKept, ConvertFormatKept, MirrorBeamDistanceKept,
   AddBinauralMonitorKept, StereoToAmbisonicKept, RenderDeliverablesKept DEF SpatialNext

-----------------------------------------------------------------------------
(* Meters, masters and tones.                                               *)

\* What is lent of a view, and given back.
LentView(v, w) ==
    /\ IsView(w) /\ w.items = v.items /\ w.cursor = v.cursor /\ w.rate = v.rate /\ w.repeat = v.repeat
    /\ w.click = v.click /\ w.playing = v.playing /\ w.range = v.range /\ w.loop = v.loop

LEMMA LentViews ==
    ASSUME NEW v, NEW w, NEW x, LentView(v, w), IsView(v)
    PROVE  /\ LentView(v, [w EXCEPT !.render = x]) /\ LentView(v, [w EXCEPT !.tracks = x])
           /\ [w EXCEPT !.render = v.render, !.tracks = v.tracks] = v
<1>1. [w EXCEPT !.render = v.render, !.tracks = v.tracks] = [[w EXCEPT !.render = v.render] EXCEPT !.tracks = v.tracks]
  OBVIOUS
<1>2. [[w EXCEPT !.render = v.render] EXCEPT !.tracks = v.tracks] = v
  <2> DEFINE w1 == [w EXCEPT !.render = v.render]
  <2>1. LentView(v, w1) /\ w1.render = v.render
    BY DEF LentView, IsView
  <2> HIDE DEF w1
  <2>2. [w1 EXCEPT !.tracks = v.tracks] = v
    BY <2>1 DEF LentView, IsView
  <2> QED
    BY <2>2 DEF w1
<1> QED
  BY <1>1, <1>2 DEF LentView, IsView

\* The handler is in between.
Staged(s, u) == Ready(u) /\ u.ok = s.ok /\ (s.ok => LentView(s.ui, u.ui))

LEMMA ConfiguredStaged ==
    ASSUME NEW s, Idle(s), Steady(reaper)
    PROVE  Staged(s, Configured(s))
<1> DEFINE v == [s.ui EXCEPT !.render = "call"]
<1>1. Ready(s) /\ IsView(s.ui)
  BY IdleReady, NowView DEF Idle
<1>2. LentView(s.ui, s.ui)
  BY <1>1 DEF LentView
<1>3. LentView(s.ui, v)
  BY <1>1, <1>2, LentViews
<1>4. Configured(s) = Set(s, v)
  BY DEF Configured
<1> HIDE DEF v
<1>5. IsView(v)
  BY <1>3 DEF LentView
<1> QED
  BY <1>1, <1>3, <1>4, <1>5, SetReady DEF Staged

LEMMA SelectStaged ==
    ASSUME NEW s, NEW u, NEW ids, Idle(s), Staged(s, u), Steady(reaper)
    PROVE  Staged(s, Select(u, ids))
<1> DEFINE v == [u.ui EXCEPT !.tracks = ids]
<1>1. Ready(u) /\ IsView(u.ui) /\ IsView(s.ui)
  BY NowView DEF Staged, Ready, Idle
<1>2. Select(u, ids) = Set(u, v) /\ IsView(v)
  BY <1>1, SelectView
<1>3. s.ok => LentView(s.ui, v)
  BY <1>1, LentViews DEF Staged
<1> HIDE DEF v
<1> QED
  BY <1>1, <1>2, <1>3, SetReady DEF Staged

LEMMA RestoredIdle ==
    ASSUME NEW s, NEW u, NEW b, Idle(s), Staged(s, u), Steady(reaper)
    PROVE  Idle(Need(Restored(u, Snapshot(s)), b))
<1> DEFINE v == [u.ui EXCEPT !.render = s.ui.render, !.tracks = s.ui.tracks]
           r == Restored(u, Snapshot(s))
<1>1. r = Set(u, v)
  BY DEF Restored, Snapshot
<1>2. IsView(s.ui) /\ s.ui = Now.ui
  BY NowView DEF Idle
<1>3. CASE s.ok
  <2>1. v = s.ui
    BY <1>2, <1>3, LentViews DEF Staged
  <2>2. Ready(r) /\ r.ok /\ r.ui = Now.ui
    <3> HIDE DEF v, r
    <3>1. IsView(v)
      BY <1>2, <2>1
    <3>2. Ready(u) /\ u.ok
      BY <1>3 DEF Staged
    <3> QED
      BY <1>1, <1>2, <2>1, <3>1, <3>2, SetReady
  <2> HIDE DEF r
  <2>3. Idle(r)
    BY <2>2 DEF Ready, Idle
  <2>4. Idle(Need(r, b))
    BY <2>3, NeedIdle
  <2> QED
    BY <2>4 DEF r
<1>4. CASE ~s.ok
  <2>1. r = u /\ ~u.ok /\ Ready(u)
    BY <1>1, <1>4 DEF Set, Staged
  <2> HIDE DEF r
  <2>2. Idle(r)
    BY <2>1 DEF Ready, Idle
  <2>3. Idle(Need(r, b))
    BY <2>2, NeedIdle
  <2> QED
    BY <2>3 DEF r
<1> QED
  BY <1>3, <1>4

\* A render leaves nothing, whether a file comes of it or not.
LEMMA TempRenderIdle ==
    ASSUME NEW s, NEW t, NEW works, Idle(s), Steady(reaper)
    PROVE  Idle(TempRender(s, t, works))
<1> DEFINE ids == {P.tracks[t].id}
           staged == IF t = 0 THEN Configured(s) ELSE Select(Configured(s), ids)
<1>1. TempRender(s, t, works) = Need(Restored(staged, Snapshot(s)), works)
  BY DEF TempRender
<1> HIDE DEF ids
<1>2. Staged(s, Configured(s)) /\ Staged(s, Select(Configured(s), ids))
  BY ConfiguredStaged, SelectStaged
<1>3. Staged(s, staged)
  BY <1>2
<1> HIDE DEF staged
<1> QED
  BY <1>1, <1>3, RestoredIdle

LEMMA StemRenderIdle ==
    ASSUME NEW s, NEW ts, NEW works, Idle(s), Steady(reaper)
    PROVE  Idle(StemRender(s, ts, works))
<1> DEFINE ids == {P.tracks[t].id : t \in ts}
           staged == Select(Configured(s), ids)
<1>1. StemRender(s, ts, works) = Need(Restored(staged, Snapshot(s)), works)
  BY DEF StemRender
<1> HIDE DEF ids
<1>2. Staged(s, staged)
  BY ConfiguredStaged, SelectStaged
<1> HIDE DEF staged
<1> QED
  BY <1>1, <1>2, RestoredIdle

LEMMA ResolvedIdle ==
    ASSUME NEW s, NEW t, Idle(s)
    PROVE  Idle(Resolved(s, t))
BY NeedIdle, Zenon DEF Resolved

LEMMA MetersKept ==
    ASSUME NEW tool, NEW s, NEW t, NEW suits, Idle(s), Steady(reaper), Meters(tool, s, t, suits)
    PROVE  Kept
<1> DEFINE r == Resolved(s, t)
           u == IF r.ok THEN Need(r, suits) ELSE r
<1>1. Previews(tool, <<t>>, u) \/ \E works \in BOOLEAN : Returns(tool, <<t>>, TempRender(u, t, works))
  BY Zenon DEF Meters
<1>2. Idle(r)
  BY ResolvedIdle
<1> HIDE DEF r
<1>3. Idle(u)
  BY <1>2, ThenIdle, Zenon
<1> HIDE DEF u
<1>4. \A works : Idle(TempRender(u, t, works))
  BY <1>3, TempRenderIdle
<1> QED
  BY <1>1, <1>3, <1>4, Reads

LEMMA MeterOfOneKept ==
    ASSUME Steady(reaper), SpatialField \/ DownmixCheck \/ LoudnessTimeline \/ BinauralCheck \/ DecodeCoverage
    PROVE  Kept
<1>1. Idle(Now) /\ \A b : Idle(Need(Now, b))
  BY NowIdle, NeedIdle
<1>2. SpatialField => Kept
  BY <1>1, MetersKept, Zenon DEF SpatialField
<1>3. DownmixCheck => Kept
  BY <1>1, MetersKept, Zenon DEF DownmixCheck
<1>4. LoudnessTimeline => Kept
  BY <1>1, MetersKept, Zenon DEF LoudnessTimeline
<1>5. BinauralCheck => Kept
  BY <1>1, MetersKept, Zenon DEF BinauralCheck
<1>6. DecodeCoverage => Kept
  BY <1>1, MetersKept, Zenon DEF DecodeCoverage
<1> QED
  BY <1>2, <1>3, <1>4, <1>5, <1>6

LEMMA MeteredIdle ==
    ASSUME NEW t, NEW window, NEW allow, NEW works, NEW silent, NEW content, Steady(reaper)
    PROVE  Idle(Metered(t, window, allow, works, silent, content))
<1>1. Idle(TempRender(Resolved(Now, t), t, works))
  BY NowIdle, ResolvedIdle, TempRenderIdle
<1> QED
  BY <1>1, NeedIdle, Zenon DEF Metered

LEMMA MeterKept == ASSUME Steady(reaper), Meter PROVE Kept
<1>1. \A t : Idle(Resolved(Now, t))
  BY NowIdle, ResolvedIdle
<1>2. ASSUME NEW args, NEW t, Previews("analysis.meter", args, Resolved(Now, t)) PROVE Kept
  BY <1>1, <1>2, Reads
<1>3. ASSUME NEW args, NEW t, NEW window, NEW allow, NEW works, NEW silent, NEW content,
             Returns("analysis.meter", args, Metered(t, window, allow, works, silent, content))
      PROVE  Kept
  BY <1>3, MeteredIdle, Reads
<1>4. PICK t \in Targets, window \in BOOLEAN, allow \in BOOLEAN :
        \/ Previews("analysis.meter", <<t, window, allow>>, Resolved(Now, t))
        \/ \E works, silent, content \in BOOLEAN :
             Returns("analysis.meter", <<t, window, allow>>, Metered(t, window, allow, works, silent, content))
  BY Zenon DEF Meter
<1> QED
  BY <1>2, <1>3, <1>4

LEMMA ReviveAndMeterKept == ASSUME Steady(reaper), ReviveAndMeter PROVE Kept
<1>1. ASSUME NEW args, Previews("analysis.revive_and_meter", args, Now) PROVE Kept
  BY <1>1, NowIdle, Reads
<1>2. ASSUME NEW args, NEW t, NEW window, NEW allow, NEW works, NEW content, NEW still, NEW refused,
             Returns("analysis.revive_and_meter", args,
                     IF refused THEN Metered(t, window, allow, works, TRUE, still)
                     ELSE Metered(t, window, allow, works, TRUE, content))
      PROVE  Kept
  <2>1. \A c : Idle(Metered(t, window, allow, works, TRUE, c))
    BY MeteredIdle
  <2>2. CASE refused
    <3>1. Returns("analysis.revive_and_meter", args, Metered(t, window, allow, works, TRUE, still))
      BY <1>2, <2>2, Zenon
    <3> QED
      BY <2>1, <3>1, Reads
  <2>3. CASE ~refused
    <3>1. Returns("analysis.revive_and_meter", args, Metered(t, window, allow, works, TRUE, content))
      BY <1>2, <2>3, Zenon
    <3> QED
      BY <2>1, <3>1, Reads
  <2> QED
    BY <2>2, <2>3
<1>3. PICK t \in Targets, window \in BOOLEAN, allow \in BOOLEAN :
        \/ Previews("analysis.revive_and_meter", <<t, window, allow>>, Now)
        \/ \E works, content, still \in BOOLEAN :
             LET first   == Metered(t, window, allow, works, TRUE, content)
                 refused == ~first.ok /\ Metered(t, window, TRUE, works, TRUE, content).ok
             IN  Returns("analysis.revive_and_meter", <<t, window, allow>>,
                         IF refused THEN Metered(t, window, allow, works, TRUE, still) ELSE first)
  BY Zenon DEF ReviveAndMeter
<1>4. CASE Previews("analysis.revive_and_meter", <<t, window, allow>>, Now)
  BY <1>1, <1>4
<1>5. ASSUME NEW works \in BOOLEAN, NEW content \in BOOLEAN, NEW still \in BOOLEAN,
             LET first   == Metered(t, window, allow, works, TRUE, content)
                 refused == ~first.ok /\ Metered(t, window, TRUE, works, TRUE, content).ok
             IN  Returns("analysis.revive_and_meter", <<t, window, allow>>,
                         IF refused THEN Metered(t, window, allow, works, TRUE, still) ELSE first)
      PROVE  Kept
  <2> DEFINE refused == ~Metered(t, window, allow, works, TRUE, content).ok
                        /\ Metered(t, window, TRUE, works, TRUE, content).ok
             args == <<t, window, allow>>
  <2>1. Returns("analysis.revive_and_meter", args,
                IF refused THEN Metered(t, window, allow, works, TRUE, still)
                ELSE Metered(t, window, allow, works, TRUE, content))
    BY <1>5, Zenon
  <2> HIDE DEF refused, args
  <2> QED
    BY <1>2, <2>1, ZenonT(60)
<1> QED
  BY <1>3, <1>4, <1>5, Zenon

\* Its file stays, though it is said to be read-only.
LEMMA RenderedKept ==
    ASSUME NEW tool, NEW args, NEW s, Idle(s), Steady(reaper), tool = "analysis.check_deliverable" \/ Edits(tool),
           Returns(tool, args, Rendered(s))
    PROVE  Kept
<1> DEFINE r == Rendered(s)
<1>1. Lent(s) /\ s.ui = Now.ui
  BY IdleLent DEF Idle
<1>2. Lent(r) /\ r.ui = Now.ui /\ r.ok = s.ok /\ (~s.ok => r = s)
  BY <1>1, RenderedLent
<1> HIDE DEF r
<1>3. CASE tool = "analysis.check_deliverable"
  <2>1. Read(r) /\ Steady(r)
    BY <1>2, NowSteady DEF Lent, Read, Steady, Blocks
  <2>2. HarmedNothing(tool, FALSE, r)
    BY <1>3, <2>1 DEF HarmedNothing
  <2>3. MadeOnePoint(tool, r) /\ GaveBack(tool, r)
    BY <2>1 DEF Read, MadeOnePoint, GaveBack
  <2>4. Good(tool, FALSE, r)
    BY <2>1, <2>2, <2>3 DEF Good
  <2> QED
    BY <2>4, ReturnsKept DEF r
<1>4. CASE Edits(tool)
  <2>1. r.ok \/ Idle(r)
    BY <1>2
  <2>2. Good(tool, FALSE, r)
    BY <1>2, <1>4, <2>1, LentGood
  <2> QED
    BY <2>2, ReturnsKept DEF r
<1> QED
  BY <1>3, <1>4

LEMMA CheckDeliverableKept == ASSUME Steady(reaper), CheckDeliverable PROVE Kept
<1>1. \A b : Idle(Need(Now, b))
  BY NowIdle, NeedIdle, Zenon
<1>2. ASSUME NEW args, NEW s, NEW d, Idle(s), Idle(d),
             \/ Previews("analysis.check_deliverable", args, s)
             \/ Returns("analysis.check_deliverable", args, Rendered(d))
      PROVE  Kept
  BY <1>2, Reads, RenderedKept
<1>3. ASSUME NEW t,
             \/ Previews("analysis.check_deliverable", <<"target", {t}>>, Resolved(Now, t))
             \/ Returns("analysis.check_deliverable", <<"target", {t}>>, Rendered(TempRender(Resolved(Now, t), t, TRUE)))
      PROVE  Kept
  <2>1. Idle(Resolved(Now, t)) /\ Idle(TempRender(Resolved(Now, t), t, TRUE))
    BY NowIdle, ResolvedIdle, TempRenderIdle
  <2> QED
    BY <1>2, <1>3, <2>1
<1>4. ASSUME NEW args, NEW b, NEW ts,
             \/ Previews("analysis.check_deliverable", args, Need(Now, b))
             \/ Returns("analysis.check_deliverable", args, Rendered(StemRender(Need(Now, b), ts, TRUE)))
      PROVE  Kept
  <2>1. Idle(StemRender(Need(Now, b), ts, TRUE))
    BY <1>1, StemRenderIdle
  <2> QED
    BY <1>1, <1>2, <1>4, <2>1
<1>5. ASSUME NEW args, NEW b, Returns("analysis.check_deliverable", args, Need(Now, b)) PROVE Kept
  BY <1>1, <1>5, Reads, Zenon
<1> QED
  BY <1>3, <1>4, <1>5, Zenon DEF CheckDeliverable

LEMMA ListedIdle == ASSUME NEW list, NEW most, Steady(reaper) PROVE Idle(Listed(list, most))
BY NowIdle, NeedIdle, Zenon DEF Listed

LEMMA StemLoudnessKept == ASSUME Steady(reaper), StemLoudness PROVE Kept
<1>1. ASSUME NEW args, NEW list, Previews("analysis.stem_loudness", args, Listed(list, 32)) PROVE Kept
  BY <1>1, ListedIdle, Reads
<1>2. ASSUME NEW args, NEW list, NEW ts, NEW works,
             Returns("analysis.stem_loudness", args, StemRender(Listed(list, 32), ts, works))
      PROVE  Kept
  BY <1>2, ListedIdle, StemRenderIdle, Reads
<1> QED
  BY <1>1, <1>2, Zenon DEF StemLoudness

LEMMA ObjectLoudnessKept == ASSUME Steady(reaper), ObjectLoudness PROVE Kept
<1>1. \A list, b : Idle(Need(Listed(list, 128), b))
  BY ListedIdle, NeedIdle, Zenon
<1>2. ASSUME NEW args, NEW list, NEW b, Previews("analysis.object_loudness", args, Need(Listed(list, 128), b)) PROVE Kept
  BY <1>1, <1>2, Reads
<1>3. ASSUME NEW args, NEW list, NEW b, NEW ts, NEW works, NEW alone, NEW bed, NEW o,
             o = StemRender(Need(Listed(list, 128), b), ts, works),
             Returns("analysis.object_loudness", args, IF alone THEN o ELSE TempRender(o, bed, TRUE))
      PROVE  Kept
  <2>1. Idle(o)
    BY <1>1, <1>3, StemRenderIdle
  <2>2. Idle(TempRender(o, bed, TRUE))
    BY <2>1, TempRenderIdle
  <2>3. CASE alone
    BY <1>3, <2>1, <2>3, Reads
  <2>4. CASE ~alone
    BY <1>3, <2>2, <2>4, Reads
  <2> QED
    BY <2>3, <2>4
<1>4. PICK list \in Lists(128), bed \in {<<>>} \cup {<<t>> : t \in Targets} :
        LET s == Need(Listed(list, 128), bed = <<>> \/ IsTrack(bed[1]))
        IN  \/ Previews("analysis.object_loudness", <<list, bed>>, s)
            \/ \E works \in BOOLEAN :
                 LET objects == StemRender(s, Range(list), works)
                 IN  Returns("analysis.object_loudness", <<list, bed>>,
                             IF bed = <<>> THEN objects ELSE TempRender(objects, bed[1], TRUE))
  BY Zenon DEF ObjectLoudness
<1> DEFINE alone == bed = <<>>
           b == alone \/ IsTrack(bed[1])
           args == <<list, bed>>
<1>5. CASE Previews("analysis.object_loudness", args, Need(Listed(list, 128), b))
  <2> HIDE DEF b, args
  <2> QED
    BY <1>2, <1>5, Zenon
<1>6. ASSUME NEW works \in BOOLEAN,
             Returns("analysis.object_loudness", args,
                     IF alone THEN StemRender(Need(Listed(list, 128), b), Range(list), works)
                     ELSE TempRender(StemRender(Need(Listed(list, 128), b), Range(list), works), bed[1], TRUE))
      PROVE  Kept
  <2> HIDE DEF alone, b, args
  <2> QED
    BY <1>3, <1>6, ZenonT(60)
<1> QED
  BY <1>4, <1>5, <1>6, ZenonT(60)

LEMMA DialogLoudnessKept == ASSUME Steady(reaper), DialogLoudness PROVE Kept
<1>1. \A b, t : Idle(Resolved(Need(Now, b), t))
  BY NowIdle, NeedIdle, ResolvedIdle, Zenon
<1>2. ASSUME NEW args, NEW b, NEW t, Previews("analysis.dialog_loudness", args, Resolved(Need(Now, b), t)) PROVE Kept
  BY <1>1, <1>2, Reads
<1>3. ASSUME NEW args, NEW b, NEW t, NEW dialog, NEW program, NEW stem,
             Returns("analysis.dialog_loudness", args,
                     TempRender(TempRender(Resolved(Need(Now, b), t), t, program), dialog, stem))
      PROVE  Kept
  BY <1>1, <1>3, TempRenderIdle, Reads, Zenon
<1> QED
  BY <1>2, <1>3, Zenon DEF DialogLoudness

LEMMA AccessorReadsKept == ASSUME Steady(reaper), AccessorReads PROVE Kept
<1>1. ASSUME NEW t, NEW i, NEW k PROVE Idle(AccessorTarget(t, i, k))
  <2> DEFINE s == Need(Now, IsTrack(t))
             u == IF s.ok /\ i # 0 THEN Need(s, IsItem(<<t, i>>)) ELSE s
  <2>1. AccessorTarget(t, i, k) = IF u.ok /\ i # 0 THEN Need(u, IsTake(<<t, i>>, k)) ELSE u
    BY Zenon DEF AccessorTarget
  <2>2. Idle(s)
    BY NowIdle, NeedIdle, Zenon
  <2> HIDE DEF s
  <2>3. Idle(u)
    BY <2>2, NeedIdle
  <2> HIDE DEF u
  <2>4. Idle(Need(u, IsTake(<<t, i>>, k)))
    BY <2>3, NeedIdle, Zenon
  <2> QED
    BY <2>1, <2>3, <2>4
<1>2. ASSUME NEW tool, NEW t, NEW i, NEW k, NEW b, NEW args,
             \/ Previews(tool, args, AccessorTarget(t, i, k))
             \/ Returns(tool, args, Need(AccessorTarget(t, i, k), b))
      PROVE  Kept
  BY <1>1, <1>2, NeedIdle, Reads
<1> QED
  BY <1>2, Zenon DEF AccessorReads

LEMMA VerifyRoutingKept == ASSUME Steady(reaper), VerifyRouting PROVE Kept
<1>1. ASSUME NEW args, NEW b, NEW c, NEW d, NEW s, NEW u, s = Need(Now, b), u = IF s.ok THEN Need(s, c) ELSE s,
             Returns("analysis.verify_routing", args, Need(u, d))
      PROVE  Kept
  <2>1. Idle(s)
    BY <1>1, NowIdle, NeedIdle, Zenon
  <2>2. Idle(u)
    BY <1>1, <2>1, ThenIdle, Zenon
  <2> QED
    BY <1>1, <2>2, NeedIdle, Reads
<1> QED
  BY <1>1, ZenonT(60) DEF VerifyRouting

LEMMA InspectionsKept == ASSUME Steady(reaper), Inspections PROVE Kept
<1>1. ASSUME NEW tool, NEW args, NEW b, Returns(tool, args, Need(Now, b)) PROVE Kept
  BY <1>1, NowIdle, NeedIdle, Reads, Zenon
<1> QED
  BY <1>1, Zenon DEF Inspections

LEMMA ObjectDecodeTimelineKept == ASSUME Steady(reaper), ObjectDecodeTimeline PROVE Kept
<1>1. ASSUME NEW args, NEW b, NEW c, NEW d, Returns("analysis.object_decode_timeline", args, Need(Need(Need(Now, b), c), d))
      PROVE  Kept
  BY <1>1, NowIdle, NeedIdle, Reads, Zenon
<1> QED
  BY <1>1, Zenon DEF ObjectDecodeTimeline

\* The tracks in turn: idle after each of them.
LEMMA InTurnIdle ==
    ASSUME NEW s, NEW list, NEW failed, Len(list) \in Nat, Idle(s), Steady(reaper)
    PROVE  Idle(InTurn(s, list, failed))
<1> DEFINE N == Len(list)
           Def(m, f) == [n \in 0..m |-> IF n = 0 THEN s ELSE TempRender(f[n - 1], list[n], n # failed)]
           S == {m \in Nat : \E f : f = Def(m, f)}
<1>1. 0 \in S
  <2> DEFINE f == [k \in 0..0 |-> s]
  <2>1. f = Def(0, f)
    OBVIOUS
  <2> HIDE DEF f, Def
  <2> QED
    BY <2>1
<1>2. ASSUME NEW m \in Nat, m \in S PROVE m + 1 \in S
  <2>1. PICK f : f = Def(m, f)
    BY <1>2
  <2> DEFINE d == TempRender(f[m], list[m + 1], m + 1 # failed)
             g == [k \in 0..(m + 1) |-> IF k <= m THEN f[k] ELSE d]
  <2>2. ASSUME NEW k \in 0..(m + 1) PROVE g[k] = IF k = 0 THEN s ELSE TempRender(g[k - 1], list[k], k # failed)
    <3>0. \A i \in 0..m : f[i] = IF i = 0 THEN s ELSE TempRender(f[i - 1], list[i], i # failed)
      BY <2>1
    <3>1. CASE k <= m
      BY <3>0, <3>1
    <3>2. CASE k = m + 1
      BY <3>2
    <3> QED
      BY <3>1, <3>2
  <2>3. g = Def(m + 1, g)
    <3> HIDE DEF d
    <3>1. g = [k \in 0..(m + 1) |-> g[k]]
      OBVIOUS
    <3> HIDE DEF g
    <3> QED
      BY <2>2, <3>1
  <2> HIDE DEF g, Def
  <2>4. m + 1 \in Nat
    OBVIOUS
  <2> QED
    BY <2>3, <2>4
<1>3. N \in S
  <2> HIDE DEF S
  <2> QED
    BY <1>1, <1>2, NatSetInduction
<1> DEFINE h == CHOOSE f : f = Def(N, f)
<1>4. h = Def(N, h)
  BY <1>3
<1>5. InTurn(s, list, failed) = h[N]
  BY DEF InTurn
<1> HIDE DEF h, S, N
<1> DEFINE U == {m \in Nat : m <= N => Idle(h[m])}
<1>6. h[0] = s /\ \A n \in 0..N : n # 0 => h[n] = TempRender(h[n - 1], list[n], n # failed)
  <2>1. N \in Nat
    BY DEF N
  <2> QED
    BY <1>4, <2>1
<1>7. 0 \in U
  BY <1>6
<1>8. ASSUME NEW m \in Nat, m \in U PROVE m + 1 \in U
  <2> SUFFICES ASSUME m + 1 <= N PROVE Idle(h[m + 1])
    OBVIOUS
  <2>0. N \in Nat
    BY DEF N
  <2>1. Idle(h[m])
    BY <1>8, <2>0
  <2>2. h[m + 1] = TempRender(h[m], list[m + 1], m + 1 # failed)
    BY <1>6, <2>0
  <2> HIDE DEF Def, U
  <2> QED
    BY <2>1, <2>2, TempRenderIdle
<1>9. N \in U
  <2>1. N \in Nat
    BY DEF N
  <2> HIDE DEF U, Def
  <2> QED
    BY <1>7, <1>8, <2>1, NatSetInduction
<1> QED
  BY <1>5, <1>9

LEMMA ExportsKept ==
    ASSUME NEW tool, NEW args, NEW s, NEW bed, NEW objects, NEW profile, Idle(s), Steady(reaper), Edits(tool),
           Exports(tool, args, s, bed, objects, profile)
    PROVE  Kept
<1>1. CASE Previews(tool, args, s)
  BY <1>1, Reads
<1>2. ASSUME NEW noBed, NEW noObjects, NEW c, NEW d, NEW e, NEW f, NEW b, NEW o,
             b = IF noBed THEN s ELSE TempRender(s, bed, e),
             o = IF noObjects THEN b ELSE StemRender(b, objects, f),
             Returns(tool, args, Rendered(Need(Need(o, c), d)))
      PROVE  Kept
  <2>1. Idle(TempRender(s, bed, e))
    BY TempRenderIdle
  <2>2. Idle(b)
    BY <1>2, <2>1
  <2>3. Idle(StemRender(b, objects, f))
    BY <2>2, StemRenderIdle
  <2>4. Idle(o)
    BY <1>2, <2>2, <2>3
  <2>5. Idle(Need(Need(o, c), d))
    BY <2>4, NeedIdle, Zenon
  <2> QED
    BY <1>2, <2>5, RenderedKept
<1>3. ASSUME NEW fault,
             LET b == IF bed = 0 THEN s ELSE TempRender(s, bed, fault # "bed")
                 o == IF objects = {} THEN b ELSE StemRender(b, objects, fault # "objects")
                 v == Need(o, fault # "silent" /\ (fault = "rate" => ~profile))
             IN  Returns(tool, args, Rendered(Need(v, fault # "file")))
      PROVE  Kept
  <2> DEFINE e == fault # "bed"
             f == fault # "objects"
             c == fault # "silent" /\ (fault = "rate" => ~profile)
             d == fault # "file"
             noBed == bed = 0
             noObjects == objects = {}
             b == IF noBed THEN s ELSE TempRender(s, bed, e)
             o == IF noObjects THEN b ELSE StemRender(b, objects, f)
  <2>1. Returns(tool, args, Rendered(Need(Need(o, c), d)))
    BY <1>3, Zenon
  <2> HIDE DEF e, f, c, d, noBed, noObjects
  <2> QED
    BY <1>2, <2>1, Zenon
<1> QED
  BY <1>1, <1>3, Zenon DEF Exports

LEMMA SourcesIdle == ASSUME NEW valid, NEW bed, NEW objects, Steady(reaper) PROVE Idle(Sources(valid, bed, objects))
<1>1. \A b, c : Idle(Need(Need(Now, b), c))
  BY NowIdle, NeedIdle, Zenon
<1> QED
  BY <1>1 DEF Sources

LEMMA ExportAdmDamfKept == ASSUME Steady(reaper), ExportAdm \/ ExportDamf PROVE Kept
<1>1. Edits("spatial.export_adm") /\ Edits("spatial.export_damf")
  BY DEF Edits, ReadOnly
<1>2. ASSUME NEW tool, NEW args, NEW valid, NEW b, NEW bed, NEW objects, NEW profile, Edits(tool),
             Exports(tool, args, Need(Sources(valid, bed, objects), b), bed, objects, profile)
      PROVE  Kept
  <2>1. Idle(Need(Sources(valid, bed, objects), b))
    BY SourcesIdle, NeedIdle
  <2> QED
    BY <1>2, <2>1, ExportsKept
<1>3. ExportAdm => Kept
  BY <1>1, <1>2, ZenonT(60) DEF ExportAdm
<1>4. ExportDamf => Kept
  BY <1>1, <1>2, Zenon DEF ExportDamf
<1> QED
  BY <1>3, <1>4

LEMMA LoomSourcesLen ==
    ASSUME NEW bed \in {0, 2}, NEW scene \in {0, 3},
           NEW voices \in {<<<<1, "en">>, <<2, "de">>>>, <<<<1, "en">>, <<2, "en">>>>, <<<<9, "en">>>>}
    PROVE  Len(LoomSources(bed, scene, voices)) \in Nat
<1> DEFINE a == IF bed = 0 THEN <<>> ELSE <<bed>>
           b == IF scene = 0 THEN <<>> ELSE <<scene>>
           c == [k \in DOMAIN voices |-> voices[k][1]]
<1>1. a \in Seq(Nat) /\ b \in Seq(Nat)
  OBVIOUS
<1>2. c \in Seq(Nat)
  <2>1. CASE voices = <<<<1, "en">>, <<2, "de">>>>
    <3>1. c = <<1, 2>>
      BY <2>1
    <3> HIDE DEF c
    <3> QED
      BY <3>1
  <2>2. CASE voices = <<<<1, "en">>, <<2, "en">>>>
    <3>1. c = <<1, 2>>
      BY <2>2
    <3> HIDE DEF c
    <3> QED
      BY <3>1
  <2>3. CASE voices = <<<<9, "en">>>>
    <3>1. c = <<9>>
      BY <2>3
    <3> HIDE DEF c
    <3> QED
      BY <3>1
  <2> QED
    BY <2>1, <2>2, <2>3
<1>3. LoomSources(bed, scene, voices) = (a \o b) \o c
  BY Zenon DEF LoomSources
<1> HIDE DEF a, b, c
<1> QED
  BY <1>1, <1>2, <1>3

LEMMA ExportLoomKept == ASSUME Steady(reaper), ExportLoom PROVE Kept
<1>1. Edits("spatial.export_loom_manifest")
  BY DEF Edits, ReadOnly
<1>2. PICK valid \in BOOLEAN, bed \in {0, 2}, scene \in {0, 3}, order \in {0, 5},
           voices \in {<<<<1, "en">>, <<2, "de">>>>, <<<<1, "en">>, <<2, "en">>>>, <<<<9, "en">>>>} :
        LET r == Sources(valid, bed, IF scene = 0 THEN {} ELSE {scene})
            u == IF r.ok /\ scene # 0 THEN Need(r, SceneOrder(order, Width(scene)) \in 1..4) ELSE Need(r, order <= 4)
            s == Need(u, (\A k \in DOMAIN voices : IsTrack(voices[k][1]))
                         /\ IsInjective([k \in DOMAIN voices |-> voices[k][2]]))
            list == LoomSources(bed, scene, voices)
            args == <<valid, bed, scene, order, voices>>
        IN  \/ Previews("spatial.export_loom_manifest", args, s)
            \/ \E failed \in 0..Len(list), usable \in BOOLEAN :
                 Returns("spatial.export_loom_manifest", args, Rendered(Need(InTurn(s, list, failed), usable)))
  BY Zenon DEF ExportLoom
<1> DEFINE objects == IF scene = 0 THEN {} ELSE {scene}
           r == Sources(valid, bed, objects)
           b == SceneOrder(order, Width(scene)) \in 1..4
           c == order <= 4
           d == (\A k \in DOMAIN voices : IsTrack(voices[k][1])) /\ IsInjective([k \in DOMAIN voices |-> voices[k][2]])
           u == IF r.ok /\ scene # 0 THEN Need(r, b) ELSE Need(r, c)
           s == Need(u, d)
           list == LoomSources(bed, scene, voices)
           args == <<valid, bed, scene, order, voices>>
<1>3. \/ Previews("spatial.export_loom_manifest", args, s)
      \/ \E failed \in 0..Len(list), usable \in BOOLEAN :
           Returns("spatial.export_loom_manifest", args, Rendered(Need(InTurn(s, list, failed), usable)))
  BY <1>2, Zenon
<1>4. Len(list) \in Nat
  BY LoomSourcesLen
<1> HIDE DEF objects, b, c, d, list, args
<1>5. Idle(r)
  BY SourcesIdle
<1> HIDE DEF r
<1>6. Idle(u)
  BY <1>5, NeedIdle
<1> HIDE DEF u
<1>7. Idle(s)
  BY <1>6, NeedIdle
<1> HIDE DEF s
<1>8. ASSUME NEW failed, NEW usable,
             Returns("spatial.export_loom_manifest", args, Rendered(Need(InTurn(s, list, failed), usable)))
      PROVE  Kept
  <2>1. Idle(InTurn(s, list, failed))
    BY <1>4, <1>7, InTurnIdle
  <2>2. Idle(Need(InTurn(s, list, failed), usable))
    BY <2>1, NeedIdle
  <2> QED
    BY <1>1, <1>8, <2>2, RenderedKept
<1>9. CASE Previews("spatial.export_loom_manifest", args, s)
  BY <1>7, <1>9, Reads
<1> QED
  BY <1>3, <1>8, <1>9

LEMMA InjectTonesKept == ASSUME Steady(reaper), InjectTones PROVE Kept
<1>1. Edits("spatial.inject_identity_tones")
  BY DEF Edits, ReadOnly
<1>2. ASSUME NEW args, NEW b, Previews("spatial.inject_identity_tones", args, Need(Now, b)) PROVE Kept
  BY <1>2, NowIdle, NeedIdle, Reads, Zenon
<1>3. ASSUME NEW args, NEW b, NEW c, NEW d, NEW q, NEW u, u = Need(Need(Now, b), c),
             Returns("spatial.inject_identity_tones", args, IF d THEN InBlock(u, q) ELSE u)
      PROVE  Kept
  <2>1. Idle(u)
    BY <1>3, NowIdle, NeedIdle, Zenon
  <2>2. CASE d
    BY <1>1, <1>3, <2>1, <2>2, Blocked
  <2>3. CASE ~d
    BY <1>3, <2>1, <2>3, Reads
  <2> QED
    BY <2>2, <2>3
<1>4. PICK list \in {<<>>, <<1>>, <<2, 9>>, <<1, 1>>}, slots \in {0, 6, 129}, valid \in BOOLEAN, place \in BOOLEAN :
        LET n == IF slots = 0 THEN Len(list) ELSE slots
            s == Need(Now, 0 < n /\ n <= 128 /\ valid)
            targets == IF slots = 0 THEN list ELSE IF list = <<>> THEN <<1>> ELSE <<list[1]>>
        IN  \/ Previews("spatial.inject_identity_tones", <<targets, slots, place>>, s)
            \/ \E writes, exported, sourced \in BOOLEAN :
                 LET u == Need(s, writes)
                 IN  Returns("spatial.inject_identity_tones", <<targets, slots, place>>,
                             IF place /\ exported THEN InBlock(u, Toned(targets, sourced)) ELSE u)
  BY Zenon DEF InjectTones
<1> DEFINE n == IF slots = 0 THEN Len(list) ELSE slots
           b == 0 < n /\ n <= 128 /\ valid
           s == Need(Now, b)
           targets == IF slots = 0 THEN list ELSE IF list = <<>> THEN <<1>> ELSE <<list[1]>>
           args == <<targets, slots, place>>
<1>5. CASE Previews("spatial.inject_identity_tones", args, s)
  <2> HIDE DEF b, args
  <2> QED
    BY <1>2, <1>5
<1>6. ASSUME NEW writes \in BOOLEAN, NEW exported \in BOOLEAN, NEW sourced \in BOOLEAN,
             Returns("spatial.inject_identity_tones", args,
                     IF place /\ exported THEN InBlock(Need(s, writes), Toned(targets, sourced)) ELSE Need(s, writes))
      PROVE  Kept
  <2> DEFINE d == place /\ exported
             q == Toned(targets, sourced)
  <2>1. Returns("spatial.inject_identity_tones", args, IF d THEN InBlock(Need(s, writes), q) ELSE Need(s, writes))
    BY <1>6, Zenon
  <2> HIDE DEF b, args, targets, d, q
  <2> QED
    BY <1>3, <2>1
<1> QED
  BY <1>4, <1>5, <1>6, ZenonT(60)

LEMMA MeterNextKept == ASSUME Steady(reaper), MeterNext PROVE Kept
BY MeterOfOneKept, MeterKept, ReviveAndMeterKept, CheckDeliverableKept, StemLoudnessKept, ObjectLoudnessKept,
   DialogLoudnessKept, AccessorReadsKept, VerifyRoutingKept, InspectionsKept, ObjectDecodeTimelineKept,
   ExportAdmDamfKept, ExportLoomKept, InjectTonesKept DEF MeterNext

-----------------------------------------------------------------------------
(* The session: the client's undo and redo, and every tool.                 *)

\* A project, or a place in its history, is another.
LEMMA SteadyMoves ==
    ASSUME NEW s, NEW x, Steady(s)
    PROVE  Steady([s EXCEPT !.ok = x]) /\ Steady([s EXCEPT !.proj = x]) /\ Steady([s EXCEPT !.at = x])
BY DEF Steady, Fields, Blocks

LEMMA UndoneSteady ==
    ASSUME NEW s, Steady(s)
    PROVE  Steady(Undone(s))
<1>1. CASE s.at = 1
  <2>1. Undone(s) = s
    BY <1>1 DEF Undone
  <2> QED
    BY <2>1
<1>2. CASE s.at # 1
  <2> DEFINE q == s.points[s.at - 1]
             a == s.at - 1
  <2>1. Undone(s) = [[s EXCEPT !.proj = q] EXCEPT !.at = a]
    BY <1>2 DEF Undone
  <2> DEFINE s1 == [s EXCEPT !.proj = q]
  <2>2. Undone(s) = [s1 EXCEPT !.at = a]
    BY <2>1
  <2> HIDE DEF q, a
  <2>3. Steady(s1)
    BY SteadyMoves
  <2> HIDE DEF s1
  <2> QED
    BY <2>2, <2>3, SteadyMoves, ZenonT(60)
<1> QED
  BY <1>1, <1>2

LEMMA UndoSteady == ASSUME Steady(reaper), Undo PROVE Steady(reaper')
<1>1. PICK s : s \in {Undone(Now), Now, [Now EXCEPT !.proj = Now.base[1]]} /\ reaper' = [s EXCEPT !.ok = s # Now]
  BY DEF Undo
<1>2. Steady(Undone(Now)) /\ Steady(Now) /\ Steady([Now EXCEPT !.proj = Now.base[1]])
  BY NowSteady, UndoneSteady, SteadyMoves
<1>3. Steady(s)
  BY <1>1, <1>2
<1> QED
  BY <1>1, <1>3, SteadyMoves

LEMMA RedoSteady == ASSUME Steady(reaper), Redo PROVE Steady(reaper')
<1>1. CASE reaper' = [Now EXCEPT !.at = @ + 1, !.proj = Now.points[Now.at + 1]]
  <2> DEFINE q == Now.points[Now.at + 1]
             a == Now.at + 1
  <2>1. reaper' = [[Now EXCEPT !.at = a] EXCEPT !.proj = q]
    BY <1>1, NowSteady DEF Steady, Fields
  <2> HIDE DEF q, a
  <2>2. Steady(Now)
    BY NowSteady
  <2> QED
    BY <2>1, <2>2, SteadyMoves
<1>2. CASE reaper' = Need(Now, FALSE)
  <2>1. reaper' = [Now EXCEPT !.ok = FALSE]
    BY <1>2, NowSteady DEF Need
  <2> QED
    BY <2>1, NowSteady, SteadyMoves
<1> QED
  BY <1>1, <1>2 DEF Redo

\* The invariant is kept by every step, and what is promised by every call.
LEMMA NextKept ==
    ASSUME Steady(reaper), Next
    PROVE  Steady(reaper') /\ (Called => Kept)
<1>1. CASE Undo \/ Redo
  <2>1. Steady(reaper') /\ calls' = calls
    BY <1>1, UndoSteady, RedoSteady DEF Undo, Redo
  <2> QED
    BY <2>1 DEF Called
<1>2. CASE ~(Undo \/ Redo)
  <2>1. Kept
    BY <1>2, TrackNextKept, ItemNextKept, MidiNextKept, FxNextKept, ActionNextKept, EnvelopeNextKept,
       TimelineNextKept, RoutingNextKept, SpatialNextKept, MeterNextKept DEF Next
  <2> QED
    BY <2>1 DEF Kept, Good
<1> QED
  BY <1>1, <1>2

LEMMA InitSteady == ASSUME Init PROVE Steady(reaper)
<1>1. PICK b \in Beginnings : reaper = Fresh(b.proj, b.ui)
  BY DEF Init
<1>2. IsView(b.ui)
  BY BeginningsAssumption
<1> QED
  BY <1>1, <1>2 DEF Fresh, Steady, Fields, Blocks

\* The inductive invariant: REAPER's state keeps its shape, and a block is open exactly when
\* the project is kept from before it, whatever handlers ran, failed or left open.
THEOREM SessionIsSteady == Spec => []Steady(reaper)
<1>1. Init => Steady(reaper)
  BY InitSteady
<1>2. Steady(reaper) /\ [Next]_vars => Steady(reaper)'
  <2>1. CASE Next
    BY <2>1, NextKept
  <2>2. CASE UNCHANGED vars
    BY <2>2 DEF vars, Steady, Fields, Blocks
  <2> QED
    BY <2>1, <2>2
<1> QED
  BY <1>1, <1>2, PTL DEF Spec

\* Now is reaper but for ok.
LEMMA NowFields ==
    ASSUME Steady(reaper)
    PROVE  /\ Now.proj = reaper.proj /\ Now.points = reaper.points /\ Now.at = reaper.at
           /\ Now.depth = reaper.depth /\ Now.base = reaper.base /\ Now.ui = reaper.ui
           /\ Now.file = reaper.file /\ Now.renders = reaper.renders /\ Now.ok = TRUE /\ Fields(Now)
<1>1. ASSUME NEW s, NEW b, Fields(s)
      PROVE  LET n == [s EXCEPT !.ok = b]
             IN  /\ n.proj = s.proj /\ n.points = s.points /\ n.at = s.at /\ n.depth = s.depth /\ n.base = s.base
                 /\ n.ui = s.ui /\ n.file = s.file /\ n.renders = s.renders /\ n.ok = b /\ Fields(n)
  BY <1>1 DEF Fields
<1> QED
  BY <1>1, ZenonT(60) DEF Steady, Now

\* GivenBack for every project, selection and sequence of calls: a handler that selects
\* tracks for a command or sets the render settings puts the user's own back on every path.
THEOREM LentIsGivenBack == Spec => GivenBack
<1>1. Steady(reaper) /\ [Next]_vars
        => [Called /\ call'.tool \notin AboutTheView
            /\ (call'.tool # "spatial.render_deliverables" \/ reaper'.ok) => reaper'.ui = reaper.ui]_vars
  <2> SUFFICES ASSUME Steady(reaper), Next, Called, call'.tool \notin AboutTheView,
                      call'.tool # "spatial.render_deliverables" \/ reaper'.ok
               PROVE  reaper'.ui = reaper.ui
    BY DEF vars, Called
  <2>1. GaveBack(call'.tool, reaper')
    BY NextKept DEF Kept, Good
  <2> QED
    BY <2>1, NowFields DEF GaveBack
<1> QED
  BY <1>1, SessionIsSteady, PTL DEF Spec, GivenBack

\* OnePointPerEdit for every project and sequence of calls: every path of a handler that
\* changes the project, the failing ones as well, closes one block around its writes.
THEOREM EditsAreOnePoint == Spec => OnePointPerEdit
<1>1. Steady(reaper) /\ [Next]_vars
        => [Called /\ reaper.depth = 0 /\ reaper'.proj # reaper.proj
              /\ call'.tool \notin {"project.open", "project.new", "action.run", "spatial.set_source_position"}
              /\ (call'.tool # "spatial.stereo_to_ambisonic" \/ reaper'.ok) =>
              /\ reaper'.points = Append(SubSeq(reaper.points, 1, reaper.at), reaper'.proj)
              /\ reaper'.at = reaper.at + 1 /\ reaper'.depth = 0]_vars
  <2> SUFFICES ASSUME Steady(reaper), Next, Called, reaper.depth = 0, reaper'.proj # reaper.proj,
                      call'.tool \notin {"project.open", "project.new", "action.run", "spatial.set_source_position"},
                      call'.tool # "spatial.stereo_to_ambisonic" \/ reaper'.ok
               PROVE  /\ reaper'.points = Append(SubSeq(reaper.points, 1, reaper.at), reaper'.proj)
                      /\ reaper'.at = reaper.at + 1 /\ reaper'.depth = 0
    BY DEF vars, Called
  <2>1. MadeOnePoint(call'.tool, reaper')
    BY NextKept DEF Kept, Good
  <2> QED
    BY <2>1, NowFields DEF MadeOnePoint
<1> QED
  BY <1>1, SessionIsSteady, PTL DEF Spec, OnePointPerEdit

\* Two states of REAPER that agree but for ok and the renders.
LEMMA SameButForRenders ==
    ASSUME NEW s, NEW n, NEW k, NEW b, Fields(s), Fields(n), n.ok = b, k = n.renders,
           s.proj = n.proj, s.points = n.points, s.at = n.at, s.depth = n.depth, s.base = n.base,
           s.ui = n.ui, s.file = n.file
    PROVE  [s EXCEPT !.ok = b, !.renders = k] = n
<1> DEFINE s1 == [s EXCEPT !.ok = b]
           s2 == [s1 EXCEPT !.renders = k]
<1>1. [s EXCEPT !.ok = b, !.renders = k] = s2
  OBVIOUS
<1>2. /\ Fields(s1) /\ s1.proj = n.proj /\ s1.points = n.points /\ s1.at = n.at /\ s1.depth = n.depth
      /\ s1.base = n.base /\ s1.ui = n.ui /\ s1.file = n.file /\ s1.ok = b
  BY DEF Fields
<1> HIDE DEF s1
<1>3. s2 = n
  BY <1>2 DEF Fields
<1> QED
  BY <1>1, <1>3

\* Harmless for every project and sequence of calls: what a read-only tool, a dry run or a
\* failing call did on its way is taken back before it returns.
THEOREM NothingIsHarmed == Spec => Harmless
<1>1. Steady(reaper) /\ [Next]_vars
        => [/\ Called
            /\ \/ call'.tool \in ReadOnly
               \/ call'.dry /\ reaper'.ok
               \/ ~reaper'.ok /\ call'.tool \notin Untidy
            => LET kept == IF call'.tool = "analysis.check_deliverable" THEN reaper.renders ELSE reaper'.renders
               IN  [reaper' EXCEPT !.ok = TRUE, !.renders = kept] = [reaper EXCEPT !.ok = TRUE]]_vars
  <2> DEFINE kept == IF call'.tool = "analysis.check_deliverable" THEN reaper.renders ELSE reaper'.renders
  <2> SUFFICES ASSUME Steady(reaper), Next, Called,
                      \/ call'.tool \in ReadOnly
                      \/ call'.dry /\ reaper'.ok
                      \/ ~reaper'.ok /\ call'.tool \notin Untidy
               PROVE  [reaper' EXCEPT !.ok = TRUE, !.renders = kept] = Now
    BY DEF vars, Called, Now
  <2>1. HarmedNothing(call'.tool, call'.dry, reaper')
    BY NextKept DEF Kept, Good
  <2>2. Idle(reaper') \/ (call'.tool = "analysis.check_deliverable" /\ Read(reaper'))
    BY <2>1 DEF HarmedNothing
  <2>3. /\ Fields(reaper') /\ reaper'.proj = Now.proj /\ reaper'.points = Now.points /\ reaper'.at = Now.at
        /\ reaper'.depth = Now.depth /\ reaper'.base = Now.base /\ reaper'.ui = Now.ui /\ reaper'.file = Now.file
        /\ kept = Now.renders
    BY <2>2, NowFields DEF Idle, Read
  <2>4. Fields(Now) /\ Now.ok = TRUE
    BY NowFields
  <2> HIDE DEF kept, Now
  <2> QED
    BY <2>3, <2>4, SameButForRenders, Zenon
<1> QED
  BY <1>1, SessionIsSteady, PTL DEF Spec, Harmless
=============================================================================
