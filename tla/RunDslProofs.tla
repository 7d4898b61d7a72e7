---------------------------- MODULE RunDslProofs ----------------------------
(***************************************************************************)
(* Proofs about RunDsl: under the codebase convention on what a tool has   *)
(* done when it returns a result or an error, run_dsl is all-or-nothing    *)
(* and never touches the user's own undo points.                           *)
(***************************************************************************)
EXTENDS RunDsl, SequenceTheorems, FiniteSetTheorems, TLAPS

\* Undoing the block that was just closed restores the history.
LEMMA UndoClosedBlock ==
  ASSUME NEW h \in Seq(SUBSET Edits), NEW b \in SUBSET Edits
  PROVE  b # {} => Popped(Closed(h, b)) = h
  <1> SUFFICES ASSUME b # {} PROVE Popped(Append(h, b)) = h
    BY DEF Closed
  <1> DEFINE a == Append(h, b)
  <1>1. a \in Seq(SUBSET Edits) /\ a # <<>> /\ Len(a) = Len(h) + 1
        /\ \A i \in 1..Len(h) : a[i] = h[i]
    BY AppendProperties
  <1>2. Len(h) \in Nat /\ \A i \in 1..Len(h) : h[i] \in SUBSET Edits
    OBVIOUS
  <1>3. Popped(a) = SubSeq(a, 1, Len(h))
    BY <1>1, <1>2 DEF Popped
  <1>4. /\ SubSeq(a, 1, Len(h)) \in Seq(SUBSET Edits)
        /\ Len(SubSeq(a, 1, Len(h))) = Len(h)
        /\ \A i \in 1..Len(h) : SubSeq(a, 1, Len(h))[i] = h[i]
    <2>1. \A i \in 1..Len(h) : a[i] \in SUBSET Edits
      BY <1>1, <1>2
    <2>2. 1 \in Int /\ Len(h) \in Int
      BY <1>2
    <2> HIDE DEF a
    <2>3. /\ SubSeq(a, 1, Len(h)) \in Seq(SUBSET Edits)
          /\ Len(SubSeq(a, 1, Len(h))) = IF 1 <= Len(h) THEN Len(h) - 1 + 1 ELSE 0
          /\ \A i \in 1..(Len(h) - 1 + 1) : SubSeq(a, 1, Len(h))[i] = a[1 + i - 1]
      BY <2>1, <2>2, SubSeqProperties
    <2> QED
      BY <2>3, <1>1, <1>2
  <1> QED
    BY <1>3, <1>4, SeqEqual

\* The points of a history to which one is added.
LEMMA AppendedPoints ==
  ASSUME NEW h \in Seq(SUBSET Edits), NEW b \in SUBSET Edits
  PROVE  /\ DOMAIN Append(h, b) = DOMAIN h \cup {Len(h) + 1}
         /\ \A k \in DOMAIN h : Append(h, b)[k] = h[k]
         /\ Append(h, b)[Len(h) + 1] = b
  <1>1. Append(h, b) \in Seq(SUBSET Edits) /\ Len(Append(h, b)) = Len(h) + 1
        /\ (\A k \in 1..Len(h) : Append(h, b)[k] = h[k]) /\ Append(h, b)[Len(h) + 1] = b
    BY AppendProperties
  <1>2. DOMAIN h = 1..Len(h) /\ Len(h) \in Nat /\ DOMAIN Append(h, b) = 1..Len(Append(h, b))
    BY <1>1, LenProperties
  <1>3. 1..(Len(h) + 1) = (1..Len(h)) \cup {Len(h) + 1}
    BY <1>2
  <1> QED
    BY <1>1, <1>2, <1>3

\* The edits of a history to which an undo point is added.
LEMMA AppendedEdits ==
  ASSUME NEW h \in Seq(SUBSET Edits), NEW b \in SUBSET Edits
  PROVE  /\ Append(h, b) \in Seq(SUBSET Edits)
         /\ UNION {Append(h, b)[k] : k \in DOMAIN Append(h, b)} = (UNION {h[k] : k \in DOMAIN h}) \cup b
  <1>1. /\ Append(h, b) \in Seq(SUBSET Edits)
        /\ DOMAIN Append(h, b) = DOMAIN h \cup {Len(h) + 1}
        /\ \A k \in DOMAIN h : Append(h, b)[k] = h[k]
        /\ Append(h, b)[Len(h) + 1] = b
    BY AppendedPoints, AppendProperties
  <1> QED
    BY <1>1

\* Closing a block adds its edits to those of the history.
LEMMA ClosedEdits ==
  ASSUME NEW h \in Seq(SUBSET Edits), NEW b \in SUBSET Edits
  PROVE  /\ Closed(h, b) \in Seq(SUBSET Edits)
         /\ UNION {Closed(h, b)[k] : k \in DOMAIN Closed(h, b)} = (UNION {h[k] : k \in DOMAIN h}) \cup b
  <1>1. CASE b = {}
    BY <1>1 DEF Closed
  <1>2. CASE b # {}
    BY <1>2, AppendedEdits, SMTT(30) DEF Closed
  <1> QED
    BY <1>1, <1>2

LEMMA InitTame == Init => TameInv
  <1> SUFFICES ASSUME Init PROVE TameInv
    OBVIOUS
  <1>1. <<>> \in Seq(SUBSET Edits) /\ DOMAIN <<>> = {}
    BY EmptySeq, LenProperties
  <1>2. TypeOK
    <2>1. byHand \in 0..MaxUserEdits
      BY UserAssumption DEF Init
    <2>2. history \in Seq(SUBSET Edits)
      BY <1>1 DEF Init
    <2>3. next \in Nat \ {0} /\ depth \in Nat
      BY DEF Init
    <2>4. dirty \in BOOLEAN
      BY DEF Init
    <2> QED
      BY <2>1, <2>2, <2>3, <2>4 DEF Init, TypeOK
  <1>3. InHistory = {} /\ UserEdits = {}
    BY <1>1 DEF Init, InHistory, UserEdits
  <1> QED
    BY <1>2, <1>3 DEF Init, TameInv

\* The user's own edit becomes an undo point of its own.
LEMMA UserStep ==
  ASSUME TameInv, UserEdit
  PROVE  TameInv'
  <1> DEFINE e == <<User, byHand + 1>>
  <1>1. depth = 0 /\ history' = Append(history, {e}) /\ block' = block /\ block = {}
    BY DEF UserEdit, TameInv
  <1>2. {e} \in SUBSET Edits /\ byHand' \in 0..MaxUserEdits /\ history \in Seq(SUBSET Edits)
    BY UserAssumption DEF UserEdit, TameInv, TypeOK, Edits, User
  <1>3. history' \in Seq(SUBSET Edits) /\ InHistory' = InHistory \cup {e}
    BY <1>1, <1>2, AppendedEdits DEF InHistory
  <1>4. UserEdits' = UserEdits \cup {e}
    <2>1. byHand \in Nat /\ byHand' = byHand + 1
      BY UserAssumption DEF UserEdit, TameInv, TypeOK
    <2>2. 1..byHand' = (1..byHand) \cup {byHand + 1}
      BY <2>1
    <2> QED
      BY <2>2 DEF UserEdits
  <1>5. UNCHANGED <<depth, job, capable, pass, pc, next, dirty, stepErr, reply>>
    BY DEF UserEdit, callVars
  <1>6. TypeOK'
    BY <1>1, <1>2, <1>3, <1>5 DEF TameInv, TypeOK
  <1> QED
    BY <1>1, <1>3, <1>4, <1>5, <1>6 DEF TameInv, UserEdit

\* The steps that leave the undo history and the user alone.
LEMMA QuietStep ==
  ASSUME TameInv, Call \/ DryRun \/ Invalid \/ BeginTxn \/ Accept \/ Decline
  PROVE  TameInv'
  <1>1. UNCHANGED <<history, block, byHand, job>>
    BY DEF Call, DryRun, Invalid, BeginTxn, Accept, Decline, Answer, undoVars, callVars
  <1>2. InHistory' = InHistory /\ UserEdits' = UserEdits
    BY <1>1 DEF InHistory, UserEdits
  <1> USE <1>1, <1>2 DEF TameInv, TypeOK, undoVars, callVars, Answer
  <1>a. CASE Call
    BY <1>a DEF Call
  <1>b. CASE DryRun
    BY <1>b DEF DryRun
  <1>c. CASE Invalid
    BY <1>c DEF Invalid
  <1>d. CASE BeginTxn
    <2>1. depth' = 1 /\ pc' = "apply" /\ dirty' = FALSE /\ block = {} /\ stepErr' = "none" /\ next' = 1
          /\ UNCHANGED <<capable, pass, reply>>
      BY <1>d DEF BeginTxn
    <2>2. dirty' \in BOOLEAN
      BY <2>1
    <2>3. next' \in Nat \ {0} /\ depth' \in Nat
      BY <2>1
    <2>4. dirty' <=> block' # {}
      BY <2>1, <1>1
    <2>5. TypeOK'
      BY <2>1, <2>2, <2>3
    <2>6. /\ depth' = 1 /\ pc' = "apply" /\ block' = block /\ reply' = reply
          /\ pc # "done"
      BY <2>1, <1>d DEF BeginTxn
    <2>7. UserEdits' \subseteq InHistory' /\ (reply' \notin {"ok", "kept"} => InHistory' \subseteq UserEdits')
      BY <2>6
    <2> HIDE DEF TypeOK
    <2> QED
      BY <2>4, <2>5, <2>6, <2>7
  <1>e. CASE Accept
    BY <1>e DEF Accept
  <1>f. CASE Decline
    BY <1>f DEF Decline
  <1> QED
    BY <1>a, <1>b, <1>c, <1>d, <1>e, <1>f

\* A statement that follows the convention marks the transaction dirty exactly
\* when it puts an edit into the block; no other kind of statement occurs.
LEMMA StatementStep ==
  ASSUME Tame, TameInv, StepReturns \/ StepErrs \/ StepThrows \/ StepUnwinds
  PROVE  TameInv'
  <1>1. pc = "apply" /\ next \in DOMAIN job.script
    BY LenProperties, ScriptsAssumption
       DEF StepReturns, StepErrs, StepThrows, StepUnwinds, At, Looping, TameInv, TypeOK, Jobs
  <1>2. Does \in {"edit", "error", "gated"}
    BY <1>1 DEF Tame, Does, TameInv, TypeOK, Jobs
  <1>3. UNCHANGED <<history, depth, byHand, job, capable, pass, pc, reply>>
    BY <1>2 DEF StepReturns, StepErrs, StepThrows, StepUnwinds, At, Does, callVars
  <1>4. InHistory' = InHistory /\ UserEdits' = UserEdits
    BY <1>3 DEF InHistory, UserEdits
  <1>5. MyEdit \in Edits /\ MyEdit[1] # User /\ next' = next + 1 /\ next' \in Nat \ {0}
    BY DEF MyEdit, Edits, User, TameInv, TypeOK, StepReturns, StepErrs, StepThrows,
           StepUnwinds, Advance
  <1>6. CASE StepReturns
    <2>1. block' = block \cup {MyEdit} /\ dirty' = TRUE /\ stepErr' = stepErr
      BY <1>2, <1>6 DEF StepReturns, At, Does
    <2>2. TypeOK'
      BY <2>1, <1>3, <1>5 DEF TameInv, TypeOK
    <2> QED
      BY <2>1, <2>2, <1>1, <1>3, <1>4, <1>5 DEF TameInv
  <1>7. CASE StepErrs
    <2>1. block' = block /\ dirty' = dirty /\ stepErr' = Does
      BY <1>2, <1>7 DEF StepErrs, At, Does
    <2>2. TypeOK'
      BY <2>1, <1>2, <1>3, <1>5 DEF TameInv, TypeOK, Behaviours
    <2> QED
      BY <2>1, <2>2, <1>1, <1>3, <1>4 DEF TameInv
  <1>8. ~StepThrows /\ ~StepUnwinds
    BY <1>2 DEF StepThrows, StepUnwinds, At, Does
  <1> QED
    BY <1>6, <1>7, <1>8

\* A rollback, asked for or by the destructor, leaves the history as it was.
LEMMA RollbackStep ==
  ASSUME TameInv, StepElicits \/ Rollback
  PROVE  TameInv'
  <1>1. pc = "apply" /\ EndBlock(dirty)
    BY DEF StepElicits, Rollback, At, Ended
  <1>2. depth = 1 /\ (dirty <=> block # {}) /\ history \in Seq(SUBSET Edits)
        /\ block \in SUBSET Edits
    BY <1>1 DEF TameInv, TypeOK
  <1>3. depth' = 0 /\ block' = {} /\ history' = history
    <2>1. depth' = 0 /\ block' = {}
      BY <1>1, <1>2 DEF EndBlock
    <2>2. history' = IF dirty THEN Popped(Closed(history, block)) ELSE Closed(history, block)
      BY <1>1, <1>2 DEF EndBlock
    <2>3. CASE block = {}
      BY <1>2, <2>1, <2>2, <2>3 DEF Closed
    <2>4. CASE block # {}
      BY <1>2, <2>1, <2>2, <2>4, UndoClosedBlock
    <2> QED
      BY <2>1, <2>3, <2>4
  <1>4. UNCHANGED <<byHand, job, capable, pass, next, dirty, stepErr>>
    BY DEF StepElicits, Rollback, callVars
  <1>5. InHistory' = InHistory /\ UserEdits' = UserEdits
    BY <1>3, <1>4 DEF InHistory, UserEdits
  <1>6. \/ pc' = "asking" /\ reply' = reply
        \/ pc' = "done" /\ reply' = "rolledBack"
    BY DEF StepElicits, Rollback, Answer
  <1>7. TypeOK'
    BY <1>3, <1>4, <1>6 DEF TameInv, TypeOK
  <1> QED
    BY <1>1, <1>3, <1>4, <1>5, <1>6, <1>7 DEF TameInv

\* A commit adds the block as one undo point on top.
LEMMA CommitStep ==
  ASSUME TameInv, Commit
  PROVE  TameInv'
  <1>1. pc = "apply" /\ EndBlock(FALSE)
    BY DEF Commit, Ended
  <1>2. depth = 1 /\ history \in Seq(SUBSET Edits) /\ block \in SUBSET Edits
    BY <1>1 DEF TameInv, TypeOK
  <1>3. depth' = 0 /\ block' = {} /\ history' = Closed(history, block)
    <2>1. depth' = 0 /\ block' = {}
      BY <1>1, <1>2 DEF EndBlock
    <2>2. history' = IF FALSE THEN Popped(Closed(history, block)) ELSE Closed(history, block)
      BY <1>1, <1>2 DEF EndBlock
    <2> QED
      BY <2>1, <2>2
  <1>4. history' \in Seq(SUBSET Edits) /\ InHistory \subseteq InHistory'
    <2>1. /\ Closed(history, block) \in Seq(SUBSET Edits)
          /\ UNION {Closed(history, block)[k] : k \in DOMAIN Closed(history, block)}
               = InHistory \cup block
      BY <1>2, ClosedEdits DEF InHistory
    <2>2. InHistory' = InHistory \cup block
      BY <1>3, <2>1 DEF InHistory
    <2> QED
      BY <1>3, <2>1, <2>2
  <1>5. UNCHANGED <<byHand, job, capable, pass, next, dirty, stepErr>>
    BY DEF Commit, callVars
  <1>6. UserEdits' = UserEdits
    BY <1>5 DEF UserEdits
  <1>7. pc' = "done" /\ reply' \in {"ok", "kept"}
    BY DEF Commit, Answer
  <1>8. TypeOK'
    BY <1>3, <1>4, <1>5, <1>7 DEF TameInv, TypeOK
  <1> QED
    BY <1>3, <1>4, <1>6, <1>7, <1>8 DEF TameInv

LEMMA NextTame ==
  ASSUME Tame, TameInv, [Next]_vars
  PROVE  TameInv'
  <1>1. CASE UNCHANGED vars
    BY <1>1 DEF vars, TameInv, TypeOK, InHistory, UserEdits
  <1>2. CASE Next
    BY <1>2, UserStep, QuietStep, StatementStep, RollbackStep, CommitStep DEF Next
  <1> QED
    BY <1>1, <1>2

\* No step changes the script.
LEMMA ScriptStays == [Next]_vars => job' = job
  BY DEF Next, vars, callVars, UserEdit, Call, DryRun, Invalid, BeginTxn, StepReturns, StepErrs,
         StepThrows, StepUnwinds, StepElicits, Commit, Rollback, Accept, Decline

\* Undo and redo of points keep the history a sequence of sets of edits.
LEMMA HistoryStays ==
  ASSUME NEW h \in Seq(SUBSET Edits), NEW b \in SUBSET Edits
  PROVE  Popped(h) \in Seq(SUBSET Edits) /\ Append(h, b) \in Seq(SUBSET Edits) /\ Closed(h, b) \in Seq(SUBSET Edits)
  <1>1. Append(h, b) \in Seq(SUBSET Edits)
    BY AppendProperties
  <1>2. Popped(h) \in Seq(SUBSET Edits)
    <2>1. CASE h = <<>>
      BY <2>1 DEF Popped
    <2>2. CASE h # <<>>
      <3>1. Len(h) \in Nat /\ Len(h) # 0 /\ \A i \in 1..Len(h) : h[i] \in SUBSET Edits
        BY <2>2
      <3>2. \A i \in 1..(Len(h) - 1) : h[i] \in SUBSET Edits
        BY <3>1
      <3>3. SubSeq(h, 1, Len(h) - 1) \in Seq(SUBSET Edits)
        BY <3>1, <3>2, SubSeqProperties
      <3> QED
        BY <2>2, <3>3 DEF Popped
    <2> QED
      BY <2>1, <2>2
  <1> QED
    BY <1>1, <1>2 DEF Closed

\* Closing a block, whether it is undone or not, keeps the types of the undo history.
LEMMA BlockTypes ==
  ASSUME TypeOK, NEW undo \in BOOLEAN, EndBlock(undo), depth > 0
  PROVE  history' \in Seq(SUBSET Edits) /\ block' \subseteq Edits /\ depth' \in Nat
  <1>1. history \in Seq(SUBSET Edits) /\ block \in SUBSET Edits /\ depth \in Nat
    BY DEF TypeOK
  <1>2. Closed(history, block) \in Seq(SUBSET Edits)
    BY <1>1, HistoryStays
  <1>3. Popped(history) \in Seq(SUBSET Edits) /\ Popped(Closed(history, block)) \in Seq(SUBSET Edits)
    BY <1>1, <1>2, HistoryStays
  <1> QED
    BY <1>1, <1>2, <1>3 DEF EndBlock

\* The types hold for every script, and the transaction's block stays open while
\* its statements run, whatever blocks they leak.
LEMMA TypesStay ==
  ASSUME TypeOK, pc = "apply" => depth > 0, [Next]_vars
  PROVE  TypeOK' /\ (pc = "apply" => depth > 0)'

  <1>1. history \in Seq(SUBSET Edits) /\ block \in SUBSET Edits /\ depth \in Nat /\ byHand \in Nat
        /\ pass \in {1, 2} /\ next \in Nat \ {0} /\ MaxUserEdits \in Nat
    BY UserAssumption DEF TypeOK
  <1>2. <<User, byHand + 1>> \in Edits /\ MyEdit \in Edits
    BY <1>1 DEF Edits, User, MyEdit
  <1>3. CASE UNCHANGED vars
    BY <1>3 DEF vars, TypeOK
  <1>4. CASE UserEdit
    <2>1. Append(history, {<<User, byHand + 1>>}) \in Seq(SUBSET Edits)
      BY <1>1, <1>2, HistoryStays
    <2>2. history' \in Seq(SUBSET Edits) /\ block' \subseteq Edits
      BY <1>1, <1>2, <1>4, <2>1 DEF UserEdit
    <2>3. byHand' \in 0..MaxUserEdits
      BY <1>1, <1>4 DEF UserEdit
    <2> QED
      BY <1>4, <2>2, <2>3 DEF UserEdit, TypeOK, callVars
  <1>5. CASE Call \/ DryRun \/ Invalid \/ BeginTxn \/ Accept \/ Decline
    <2>1. UNCHANGED <<history, block, byHand, job>> /\ depth' \in {depth, depth + 1}
          /\ pc' \in {"preflight", "apply", "done"} /\ (pc' = "apply" => depth' = depth + 1)
          /\ capable' \in {capable, FALSE} /\ pass' \in {pass, 2} /\ next' \in {next, 1}
      BY <1>5 DEF Call, DryRun, Invalid, BeginTxn, Accept, Decline, Answer, undoVars, callVars
    <2>2. dirty' \in {dirty, FALSE} /\ stepErr' \in {stepErr, "none"}
          /\ reply' \in {reply, "preview", "invalid", "declined"}
      BY <1>5 DEF Call, DryRun, Invalid, BeginTxn, Accept, Decline, Answer
    <2>3. dirty' \in BOOLEAN /\ capable' \in BOOLEAN
      BY <2>1, <2>2 DEF TypeOK
    <2> QED
      <3>1. (pc = "apply" => depth > 0)' /\ depth' \in Nat
        BY <1>1, <2>1
      <3>2. reply' \in {"none", "preview", "invalid", "ok", "rolledBack", "kept", "declined"}
            /\ stepErr' \in Behaviours \cup {"none"}
        BY <2>2 DEF TypeOK
      <3>3. pass' \in {1, 2} /\ next' \in Nat \ {0}
        BY <1>1, <2>1
      <3> QED
        BY <1>1, <2>1, <2>3, <3>1, <3>2, <3>3 DEF TypeOK
  <1>6. CASE StepReturns \/ StepErrs \/ StepThrows \/ StepUnwinds
    <2>1. Popped(history) \in Seq(SUBSET Edits)
      BY <1>1, HistoryStays
    <2>2. history' \in Seq(SUBSET Edits) /\ block' \subseteq Edits
      BY <1>1, <1>2, <1>6, <2>1 DEF StepReturns, StepErrs, StepThrows, StepUnwinds
    <2>3. Does \in Behaviours \cup {"none"}
      BY <1>6 DEF StepReturns, StepErrs, StepThrows, StepUnwinds, At, Does, Behaviours
    <2>4. UNCHANGED <<byHand, job, capable, pass, pc, reply>> /\ next' = next + 1
          /\ dirty' \in BOOLEAN /\ stepErr' \in {stepErr, Does} /\ depth' \in {depth, depth + 1}
      BY <1>6 DEF StepReturns, StepErrs, StepThrows, StepUnwinds, callVars, Advance, TypeOK
    <2> QED
      BY <1>1, <2>2, <2>3, <2>4 DEF TypeOK
  <1>7. CASE StepElicits \/ Commit \/ Rollback
    <2>1. dirty \in BOOLEAN /\ depth > 0
      BY <1>7 DEF StepElicits, Commit, Rollback, Ended, At, TypeOK
    <2>2. EndBlock(dirty) \/ EndBlock(FALSE)
      BY <1>7 DEF StepElicits, Commit, Rollback
    <2>3. history' \in Seq(SUBSET Edits) /\ block' \subseteq Edits /\ depth' \in Nat
      BY <2>1, <2>2, BlockTypes
    <2>4. UNCHANGED <<byHand, job, capable, pass, next, dirty, stepErr>> /\ pc' \in {"asking", "done"}
          /\ reply' \in {reply, "ok", "kept", "rolledBack"}
      BY <1>7 DEF StepElicits, Commit, Rollback, Answer, callVars
    <2> QED
      BY <2>3, <2>4 DEF TypeOK
  <1> QED
    BY <1>3, <1>4, <1>5, <1>6, <1>7 DEF Next

\* Under the convention the open block and its dirty flag agree in every state of
\* every script; whatever the tools do, the types are right.
THEOREM ConventionHolds == Spec => []ConventionInv
  <1>1. Init => ConventionInv
    <2>1. Init => pc # "apply"
      BY DEF Init
    <2>2. TameInv => TypeOK
      BY DEF TameInv
    <2> QED
      BY <2>1, <2>2, InitTame DEF ConventionInv
  <1>2. ConventionInv /\ [Next]_vars => ConventionInv'
    <2> SUFFICES ASSUME ConventionInv, [Next]_vars
                 PROVE  ConventionInv'
      OBVIOUS
    <2>1. TypeOK' /\ (pc = "apply" => depth > 0)'
      BY TypesStay DEF ConventionInv
    <2>2. Tame' => Tame
      BY ScriptStays DEF Tame
    <2>3. Tame' => TameInv'
      BY <2>2, NextTame DEF ConventionInv
    <2> QED
      BY <2>1, <2>3 DEF ConventionInv
  <1> QED
    BY <1>1, <1>2, PTL DEF Spec

\* Under the convention no rollback takes back what the user has done: the undo
\* of a rollback always meets the block of its own transaction.
THEOREM UserIsSafe == Spec => []TameKeepsUserEdits
  <1>1. ConventionInv => TameKeepsUserEdits
    BY DEF ConventionInv, TameInv, TameKeepsUserEdits, UserEditsKept, Project
  <1> QED
    BY <1>1, ConventionHolds, PTL

\* Under the convention a script is all or nothing: refused, previewed, rolled
\* back, declined or waiting for its human, it has left no edit.
THEOREM AllOrNothing == Spec => []TameIsAtomic
  <1>1. ConventionInv => TameIsAtomic
    <2> SUFFICES ASSUME TameInv,
                        pc = "asking" \/ reply \in {"preview", "invalid", "rolledBack", "declined"}
                 PROVE  RunEdits = {}
      BY DEF NothingPartial, TameIsAtomic, ConventionInv
    <2>1. pc # "apply" /\ reply \notin {"ok", "kept"}
      BY DEF TameInv
    <2>2. block = {} /\ InHistory \subseteq UserEdits
      BY <2>1 DEF TameInv
    <2> QED
      BY <2>2 DEF RunEdits, Project
  <1> QED
    BY <1>1, ConventionHolds, PTL

-----------------------------------------------------------------------------
(* What a run reports as applied. *)

\* No tool throws out of a transaction of its own.
NoUnwinding == \A k \in DOMAIN job.script : job.script[k].does # "editThrow"

\* The statements of this pass that have returned with an edit.
Applied == {e \in {pass} \X (1..(next - 1)) : job.script[e[2]].does = "edit"}

\* The edits of this pass are in the open block, and then in the project.
KeepInv ==
    NoUnwinding =>
      /\ pc = "apply" => Applied \subseteq block
      /\ reply \in {"ok", "kept"} => pc = "done" /\ Applied \subseteq Project

\* A statement adds its edit to the block, and to what was applied.
LEMMA StatementKeeps ==
  ASSUME TypeOK, KeepInv, StepReturns \/ StepErrs \/ StepThrows \/ StepUnwinds
  PROVE  KeepInv'
  <1> SUFFICES ASSUME NoUnwinding PROVE Applied' \subseteq block' /\ reply' \notin {"ok", "kept"}
    BY ScriptStays DEF KeepInv, NoUnwinding, Next
  <1>1. pc = "apply" /\ next \in DOMAIN job.script /\ next \in Nat \ {0}
    BY LenProperties, ScriptsAssumption
       DEF StepReturns, StepErrs, StepThrows, StepUnwinds, At, Looping, TypeOK, Jobs
  <1>2. ~StepUnwinds
    BY <1>1 DEF NoUnwinding, StepUnwinds, At
  <1>3. UNCHANGED <<job, pass, reply>> /\ next' = next + 1 /\ block \subseteq block'
    BY <1>2 DEF StepReturns, StepErrs, StepThrows, callVars, Advance
  <1>4. Does = "edit" => MyEdit \in block'
    BY <1>2 DEF StepReturns, StepErrs, StepThrows, At, Does
  <1>5. Applied' \subseteq Applied \cup (IF Does = "edit" THEN {MyEdit} ELSE {})
    <2>1. 1..(next' - 1) = (1..(next - 1)) \cup {next}
      BY <1>1, <1>3
    <2> QED
      BY <2>1, <1>3 DEF Applied, Does, MyEdit
  <1> QED
    BY <1>1, <1>3, <1>4, <1>5 DEF KeepInv

\* A commit moves the block into the history, or leaves it in a block that was leaked.
LEMMA CommitKeeps ==
  ASSUME TypeOK, KeepInv, Commit
  PROVE  KeepInv'
  <1> SUFFICES ASSUME NoUnwinding PROVE pc' = "done" /\ Applied' \subseteq Project'
    BY ScriptStays DEF KeepInv, NoUnwinding, Commit, callVars, Answer
  <1>1. pc = "apply" /\ pc' = "done" /\ EndBlock(FALSE) /\ UNCHANGED <<job, pass, next>>
    BY DEF Commit, Ended, Answer, callVars
  <1>2. Applied' = Applied /\ Applied \subseteq block
    BY <1>1 DEF KeepInv, Applied
  <1>3. history \in Seq(SUBSET Edits) /\ block \in SUBSET Edits
    BY DEF TypeOK
  <1>4. block \subseteq Project'
    <2>1. CASE depth = 1
      <3>1. history' = IF FALSE THEN Popped(Closed(history, block)) ELSE Closed(history, block)
        BY <1>1, <2>1 DEF EndBlock
      <3>2. InHistory' = InHistory \cup block
        BY <1>3, <3>1, ClosedEdits DEF InHistory
      <3> QED
        BY <3>2 DEF Project
    <2>2. CASE depth # 1
      BY <1>1, <2>2 DEF EndBlock, Project
    <2> QED
      BY <2>1, <2>2
  <1> QED
    BY <1>1, <1>2, <1>4

\* The user's edits take nothing away.
LEMMA UserKeeps ==
  ASSUME TypeOK, KeepInv, UserEdit
  PROVE  KeepInv'
  <1>1. UNCHANGED <<job, pass, next, pc, reply>> /\ pc # "apply"
    BY DEF UserEdit, callVars
  <1>2. Applied' = Applied /\ NoUnwinding' = NoUnwinding
    BY <1>1 DEF Applied, NoUnwinding
  <1>3. Project \subseteq Project'
    <2>1. CASE depth = 0
      <3>1. block' = block /\ history' = Append(history, {<<User, byHand + 1>>})
        BY <2>1 DEF UserEdit
      <3>2. history \in Seq(SUBSET Edits) /\ {<<User, byHand + 1>>} \in SUBSET Edits
        BY UserAssumption DEF TypeOK, Edits, User
      <3>3. InHistory \subseteq InHistory'
        BY <3>1, <3>2, AppendedEdits DEF InHistory
      <3> QED
        BY <3>1, <3>3 DEF Project
    <2>2. CASE depth # 0
      BY <2>2 DEF UserEdit, Project, InHistory
    <2> QED
      BY <2>1, <2>2
  <1> QED
    BY <1>1, <1>2, <1>3 DEF KeepInv

\* The other steps apply nothing and report nothing as applied.
LEMMA OthersKeep ==
  ASSUME TypeOK, KeepInv, pc # "done" \/ reply \notin {"ok", "kept"},
         Call \/ DryRun \/ Invalid \/ BeginTxn \/ StepElicits \/ Rollback \/ Accept \/ Decline
  PROVE  KeepInv'
  <1> SUFFICES ASSUME NoUnwinding'
               PROVE  /\ pc' = "apply" => Applied' \subseteq block'
                      /\ reply' \notin {"ok", "kept"}
    BY DEF KeepInv
  <1>1. NoUnwinding
    BY DEF NoUnwinding, Call, DryRun, Invalid, BeginTxn, StepElicits, Rollback, Accept, Decline, callVars
  <1>2. reply' \notin {"ok", "kept"}
    BY <1>1 DEF KeepInv, Call, DryRun, Invalid, BeginTxn, StepElicits, Rollback, Accept, Decline, Answer
  <1>3. CASE BeginTxn
    <2>1. 1..(next' - 1) = {}
      BY <1>3 DEF BeginTxn
    <2> QED
      BY <2>1, <1>2 DEF Applied
  <1>4. ~BeginTxn => pc' # "apply"
    BY DEF Call, DryRun, Invalid, StepElicits, Rollback, Accept, Decline, Answer
  <1> QED
    BY <1>2, <1>3, <1>4

\* What run_dsl reports as applied is in the project: a commit, or a run that is not
\* atomic and failed, loses no edit of a step that returned its result, as long as no
\* tool unwinds a transaction of its own inside the script's.
THEOREM AppliedStays == Spec => []AppliedIsKept
  <1>1. Init => KeepInv
    BY DEF Init, KeepInv
  <1>2. ConventionInv /\ KeepInv /\ [Next]_vars => KeepInv'
    <2> SUFFICES ASSUME TypeOK, KeepInv, [Next]_vars PROVE KeepInv'
      BY DEF ConventionInv
    <2>1. CASE UNCHANGED vars
      BY <2>1 DEF vars, KeepInv, NoUnwinding, Applied, Project, InHistory
    <2>2. CASE Call \/ DryRun \/ Invalid \/ BeginTxn \/ StepElicits \/ Rollback \/ Accept \/ Decline
      <3>1. pc # "done"
        BY <2>2 DEF Call, DryRun, Invalid, BeginTxn, StepElicits, Rollback, Accept, Decline, At, Ended
      <3> QED
        BY <2>2, <3>1, OthersKeep
    <2> QED
      BY <2>1, <2>2, StatementKeeps, CommitKeeps, UserKeeps DEF Next
  <1>3. ConventionInv /\ KeepInv => AppliedIsKept
    BY DEF ConventionInv, KeepInv, AppliedIsKept, NoUnwinding, Applied, TypeOK
  <1> QED
    BY <1>1, <1>2, <1>3, ConventionHolds, PTL DEF Spec

-----------------------------------------------------------------------------
(* Undo points. *)

\* No tool leaks a block, and none hides an edit behind an error it returns.
Careful == \A k \in DOMAIN job.script : job.script[k].does \notin {"leak", "editError"}

\* The undo points that hold more than the user's own edits.
RunPoints == {k \in DOMAIN history : history[k] \ UserEdits # {}}

\* The one open block is the transaction's, an edit in it is known to be there, and
\* only a run that has ended has made an undo point.
Points ==
    /\ depth = IF pc = "apply" THEN 1 ELSE 0
    /\ pc # "apply" => block = {}
    /\ block # {} => dirty
    /\ pc # "done" => RunPoints = {}
    /\ \A k, l \in RunPoints : k = l

PointInv == Careful => Points

\* A user's edit is an undo point of the user's.
LEMMA UserPoints ==
  ASSUME TypeOK, PointInv, UserEdit
  PROVE  PointInv'
  <1> SUFFICES ASSUME Careful' PROVE Points'
    BY DEF PointInv
  <1>1. UNCHANGED <<depth, job, pc, dirty>> /\ Careful
    BY DEF UserEdit, callVars, Careful
  <1>2. depth = 0 /\ block' = block /\ history' = Append(history, {<<User, byHand + 1>>}) /\ Points
    BY <1>1 DEF UserEdit, PointInv, Points
  <1>3. UserEdits' = UserEdits \cup {<<User, byHand + 1>>}
    <2>1. byHand \in Nat /\ byHand' = byHand + 1
      BY UserAssumption DEF UserEdit, TypeOK
    <2>2. 1..byHand' = (1..byHand) \cup {byHand + 1}
      BY <2>1
    <2> QED
      BY <2>2 DEF UserEdits
  <1>4. history \in Seq(SUBSET Edits) /\ {<<User, byHand + 1>>} \in SUBSET Edits
    BY UserAssumption DEF TypeOK, Edits, User
  <1>5. RunPoints' \subseteq RunPoints
    <2>1. /\ DOMAIN history' = DOMAIN history \cup {Len(history) + 1}
          /\ \A k \in DOMAIN history : history'[k] = history[k]
          /\ history'[Len(history) + 1] = {<<User, byHand + 1>>}
      BY <1>2, <1>4, AppendedPoints
    <2> QED
      BY <1>3, <2>1 DEF RunPoints
  <1> QED
    BY <1>1, <1>2, <1>5 DEF Points

\* The steps that leave the history, the block and the user's edits alone.
LEMMA QuietPoints ==
  ASSUME TypeOK, PointInv, Call \/ DryRun \/ Invalid \/ BeginTxn \/ Accept \/ Decline
  PROVE  PointInv'
  <1> SUFFICES ASSUME Careful' PROVE Points'
    BY DEF PointInv
  <1>1. UNCHANGED <<history, block, byHand, job>> /\ pc # "done" /\ pc # "apply"
    BY DEF Call, DryRun, Invalid, BeginTxn, Accept, Decline, Answer, undoVars, callVars
  <1>2. Points
    BY <1>1 DEF PointInv, Careful
  <1>3. RunPoints' = {} /\ block' = {} /\ depth = 0
    BY <1>1, <1>2 DEF Points, RunPoints, UserEdits
  <1>4. CASE BeginTxn
    <2>1. depth' = 1 /\ pc' = "apply"
      BY <1>3, <1>4 DEF BeginTxn
    <2> QED
      BY <1>3, <2>1 DEF Points
  <1>5. CASE Call \/ DryRun \/ Invalid \/ Accept \/ Decline
    <2>1. depth' = 0 /\ pc' # "apply"
      BY <1>3, <1>5 DEF Call, DryRun, Invalid, Accept, Decline, Answer, undoVars
    <2> QED
      BY <1>3, <2>1 DEF Points
  <1> QED
    BY <1>4, <1>5

\* Taking the last point back, or leaving the history alone, makes no run point.
LEMMA PoppedPoints ==
  ASSUME NEW h \in Seq(SUBSET Edits)
  PROVE  /\ DOMAIN Popped(h) \subseteq DOMAIN h
         /\ \A k \in DOMAIN Popped(h) : Popped(h)[k] = h[k]
  <1>1. CASE h = <<>>
    BY <1>1 DEF Popped
  <1>2. CASE h # <<>>
    <2>1. Len(h) \in Nat /\ Len(h) # 0 /\ DOMAIN h = 1..Len(h)
          /\ \A k \in 1..Len(h) : h[k] \in SUBSET Edits
      BY <1>2, LenProperties
    <2>2. \A k \in 1..(Len(h) - 1) : h[k] \in SUBSET Edits
      BY <2>1
    <2>3. /\ Len(SubSeq(h, 1, Len(h) - 1)) = Len(h) - 1
          /\ SubSeq(h, 1, Len(h) - 1) \in Seq(SUBSET Edits)
          /\ \A k \in 1..(Len(h) - 1) : SubSeq(h, 1, Len(h) - 1)[k] = h[k]
      BY <2>1, <2>2, SubSeqProperties
    <2>4. DOMAIN SubSeq(h, 1, Len(h) - 1) = 1..(Len(h) - 1)
      BY <2>3, LenProperties
    <2> QED
      BY <1>2, <2>1, <2>3, <2>4 DEF Popped
  <1> QED
    BY <1>1, <1>2

\* A statement of a careful tool edits the block and says so; at most it loses a point.
LEMMA StatementPoints ==
  ASSUME TypeOK, PointInv, StepReturns \/ StepErrs \/ StepThrows \/ StepUnwinds
  PROVE  PointInv'
  <1> SUFFICES ASSUME Careful' PROVE Points'
    BY DEF PointInv
  <1>1. pc = "apply" /\ next \in DOMAIN job.script
    BY LenProperties, ScriptsAssumption
       DEF StepReturns, StepErrs, StepThrows, StepUnwinds, At, Looping, TypeOK, Jobs
  <1>2. UNCHANGED <<byHand, job, pc>> /\ Careful
    BY DEF StepReturns, StepErrs, StepThrows, StepUnwinds, callVars, Careful
  <1>3. Does \notin {"leak", "editError"} /\ Points
    BY <1>1, <1>2 DEF Careful, PointInv, Does
  <1>4. depth' = depth /\ history' \in {history, Popped(history)}
    BY <1>3 DEF StepReturns, StepErrs, StepThrows, StepUnwinds, callVars
  <1>5. block' # {} => dirty'
    BY <1>3 DEF StepReturns, StepErrs, StepThrows, StepUnwinds, Points
  <1>6. RunPoints' = {}
    <2>1. RunPoints = {} /\ UserEdits' = UserEdits /\ history \in Seq(SUBSET Edits)
      BY <1>1, <1>2, <1>3 DEF Points, UserEdits, TypeOK
    <2> QED
      BY <1>4, <2>1, PoppedPoints DEF RunPoints
  <1> QED
    BY <1>1, <1>2, <1>3, <1>4, <1>5, <1>6 DEF Points

\* The end of the block: a commit makes one point of it, a rollback none.
LEMMA EndPoints ==
  ASSUME TypeOK, PointInv, StepElicits \/ Commit \/ Rollback
  PROVE  PointInv'
  <1> SUFFICES ASSUME Careful' PROVE Points'
    BY DEF PointInv
  <1>1. pc = "apply" /\ pc' \in {"asking", "done"} /\ UNCHANGED <<byHand, job, dirty>>
    BY DEF StepElicits, Commit, Rollback, At, Ended, Answer, callVars
  <1>2. Points
    BY <1>1 DEF PointInv, Careful
  <1>3. depth = 1 /\ (block # {} => dirty) /\ RunPoints = {} /\ UserEdits' = UserEdits
        /\ history \in Seq(SUBSET Edits) /\ block \in SUBSET Edits
    BY <1>1, <1>2 DEF Points, UserEdits, TypeOK
  <1>4. CASE Commit
    <2>1. depth' = 0 /\ block' = {} /\ pc' = "done"
          /\ history' = IF FALSE THEN Popped(Closed(history, block)) ELSE Closed(history, block)
      BY <1>3, <1>4 DEF Commit, EndBlock, Answer
    <2>2. RunPoints' \subseteq {Len(history) + 1}
      <3>1. CASE block = {}
        BY <1>3, <2>1, <3>1 DEF Closed, RunPoints
      <3>2. CASE block # {}
        <4>1. history' = Append(history, block)
          BY <2>1, <3>2 DEF Closed
        <4> QED
          BY <1>3, <4>1, AppendedPoints DEF RunPoints
      <3> QED
        BY <3>1, <3>2
    <2> QED
      BY <2>1, <2>2 DEF Points
  <1>5. CASE StepElicits \/ Rollback
    <2>1. EndBlock(dirty)
      BY <1>5 DEF StepElicits, Rollback
    <2>2. depth' = 0 /\ block' = {}
          /\ history' = IF dirty THEN Popped(Closed(history, block)) ELSE Closed(history, block)
      BY <1>3, <2>1 DEF EndBlock
    <2>3. history' \in {history, Popped(history)}
      <3>1. CASE block = {}
        BY <2>2, <3>1 DEF Closed
      <3>2. CASE block # {}
        BY <1>3, <2>2, <3>2, UndoClosedBlock
      <3> QED
        BY <3>1, <3>2
    <2>4. RunPoints' = {}
      BY <1>3, <2>3, PoppedPoints DEF RunPoints
    <2> QED
      BY <1>1, <2>2, <2>4 DEF Points
  <1> QED
    BY <1>4, <1>5

\* One undo point reverts the whole script: a run adds at most one and leaves no block
\* open, whatever its tools throw and read, unless one leaks a block or hides its edit
\* behind an error it returns (UndoTransaction, session.run_dsl).
THEOREM OnePointPerRun == Spec => []OneUndoPoint
  <1>1. Init => PointInv
    <2>1. DOMAIN <<>> = {}
      BY EmptySeq, LenProperties
    <2> QED
      BY <2>1 DEF Init, PointInv, Points, RunPoints
  <1>2. ConventionInv /\ PointInv /\ [Next]_vars => PointInv'
    <2> SUFFICES ASSUME TypeOK, PointInv, [Next]_vars PROVE PointInv'
      BY DEF ConventionInv
    <2>1. CASE UNCHANGED vars
      BY <2>1 DEF vars, PointInv, Careful, Points, RunPoints, UserEdits
    <2> QED
      BY <2>1, UserPoints, QuietPoints, StatementPoints, EndPoints DEF Next
  <1>3. PointInv => OneUndoPoint
    <2> SUFFICES ASSUME Points, pc \in {"asking", "done"}
                 PROVE  Cardinality(RunPoints) <= 1 /\ block = {} /\ depth = 0
      BY DEF PointInv, OneUndoPoint, RunPoints, Careful
    <2>1. CASE RunPoints = {}
      BY <2>1, FS_EmptySet DEF Points
    <2>2. CASE RunPoints # {}
      <3>1. PICK k \in RunPoints : RunPoints = {k}
        BY <2>2 DEF Points
      <3> QED
        BY <3>1, FS_Singleton DEF Points
    <2> QED
      BY <2>1, <2>2
  <1> QED
    BY <1>1, <1>2, <1>3, ConventionHolds, PTL DEF Spec
=============================================================================
