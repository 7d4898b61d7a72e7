------------------------------- MODULE RunDsl -------------------------------
(***************************************************************************)
(* session.run_dsl and UndoTransaction: a script of tool calls is applied  *)
(* inside one REAPER undo block, committed or rolled back as a whole.      *)
(*                                                                         *)
(* The project is the set of edits in effect.  REAPER's undo history, as   *)
(* composite_support.h uses it: blocks nest, only the outermost End makes  *)
(* an undo point, an empty block makes none, and DoUndo pops the last one. *)
(* A tool is abstracted to how its handler edits, returns or throws.       *)
(***************************************************************************)
EXTENDS Naturals, Sequences, FiniteSets

CONSTANTS
    Scripts,        \* the statement sequences a client may send
    MaxUserEdits    \* edits the user makes by hand

\* How a tool's handler may end, and what it has edited by then:
\*   edit, read          returns a result, with and without edits
\*   error, editError    returns makeError (or an unresolved $ref), ditto
\*   throw, editThrow    throws before any edit, throws out of its own dirty
\*                       UndoTransaction
\*   leak                throws between Undo_BeginBlock2 and Undo_EndBlock2, before
\*                       or after its edit
\*   gated               calls requireElicitation
Behaviours == {"edit", "read", "error", "editError", "throw", "editThrow", "leak", "gated"}

\* preview: what the dry run of the statement says; "none" when there is none.
Steps == [does : Behaviours, preview : {"none", "ok", "error"}]

ASSUME ScriptsAssumption == Scripts \subseteq Seq(Steps)
ASSUME UserAssumption == MaxUserEdits \in Nat

\* An edit is named by its author (0 the user, 1 and 2 the passes) and a number.
User  == 0
Edits == (0..2) \X Nat

VARIABLES
    history,    \* REAPER's undo points, the oldest first, each a set of edits
    block,      \* edits since the outermost Undo_BeginBlock2
    depth,      \* open undo blocks
    byHand,     \* number of edits the user has made
    job,        \* the request: script, dryRun, atomic, stopOnError
    capable,    \* elicitationCapableFlag
    pass,       \* 1, and 2 when the call is made again after an accept
    pc,         \* idle, preflight, apply, asking, done
    next,       \* the statement to run
    dirty,      \* UndoTransaction::dirty_
    stepErr,    \* what the last failing step did, "none" while none failed
    reply       \* the result

vars == <<history, block, depth, byHand, job, capable, pass, pc, next, dirty, stepErr, reply>>

undoVars == <<history, block, depth>>
callVars == <<job, capable, pass>>

Jobs == [script : Scripts, dryRun : BOOLEAN, atomic : BOOLEAN, stopOnError : BOOLEAN]

TypeOK ==
    /\ history \in Seq(SUBSET Edits)
    /\ block \subseteq Edits
    /\ depth \in Nat
    /\ byHand \in 0..MaxUserEdits
    /\ job \in Jobs
    /\ capable \in BOOLEAN
    /\ pass \in {1, 2}
    /\ pc \in {"idle", "preflight", "apply", "asking", "done"}
    /\ next \in Nat \ {0}
    /\ dirty \in BOOLEAN
    /\ stepErr \in Behaviours \cup {"none"}
    /\ reply \in {"none", "preview", "invalid", "ok", "rolledBack", "kept", "declined"}

Init ==
    /\ history = <<>>
    /\ block = {}
    /\ depth = 0
    /\ byHand = 0
    /\ job \in Jobs
    /\ capable \in BOOLEAN
    /\ pass = 1
    /\ pc = "idle"
    /\ next = 1
    /\ dirty = FALSE
    /\ stepErr = "none"
    /\ reply = "none"

InHistory == UNION {history[k] : k \in DOMAIN history}
Project   == InHistory \cup block

-----------------------------------------------------------------------------
(* REAPER. *)

Closed(h, b) == IF b = {} THEN h ELSE Append(h, b)
Popped(h)    == IF h = <<>> THEN h ELSE SubSeq(h, 1, Len(h) - 1)

\* Undo_EndBlock2, and Undo_DoUndo2 after it if undo holds.  What DoUndo does
\* inside a block that is still open is REAPER's business: nothing, the open
\* block's edits, or the last undo point.
EndBlock(undo) ==
    /\ depth' = depth - 1
    /\ IF depth = 1
       THEN /\ block' = {}
            /\ history' = IF undo THEN Popped(Closed(history, block)) ELSE Closed(history, block)
       ELSE \/ UNCHANGED <<history, block>>
            \/ undo /\ block' = {} /\ UNCHANGED history
            \/ undo /\ history' = Popped(history) /\ UNCHANGED block

\* The user works between the calls.
UserEdit ==
    /\ pc \in {"idle", "asking", "done"}
    /\ byHand < MaxUserEdits
    /\ byHand' = byHand + 1
    /\ IF depth = 0
       THEN history' = Append(history, {<<User, byHand + 1>>}) /\ UNCHANGED block
       ELSE block' = block \cup {<<User, byHand + 1>>} /\ UNCHANGED history
    /\ UNCHANGED <<depth, callVars, pc, next, dirty, stepErr, reply>>

-----------------------------------------------------------------------------
(* The handler up to the apply loop. *)

Call ==
    /\ pc = "idle"
    /\ pc' = "preflight"
    /\ UNCHANGED <<undoVars, byHand, callVars, next, dirty, stepErr, reply>>

PreviewFails == \E k \in DOMAIN job.script : job.script[k].preview = "error"

Answer(r) == pc' = "done" /\ reply' = r

DryRun ==
    /\ pc = "preflight"
    /\ job.dryRun
    /\ Answer("preview")
    /\ UNCHANGED <<undoVars, byHand, callVars, next, dirty, stepErr>>

Invalid ==
    /\ pc = "preflight"
    /\ ~job.dryRun
    /\ PreviewFails
    /\ Answer("invalid")
    /\ UNCHANGED <<undoVars, byHand, callVars, next, dirty, stepErr>>

\* The UndoTransaction of the whole script.
BeginTxn ==
    /\ pc = "preflight"
    /\ ~job.dryRun
    /\ ~PreviewFails
    /\ depth' = depth + 1
    /\ dirty' = FALSE
    /\ pc' = "apply"
    /\ next' = 1
    /\ stepErr' = "none"
    /\ UNCHANGED <<history, block, byHand, callVars, reply>>

-----------------------------------------------------------------------------
(* One statement of the apply loop. *)

Looping == next <= Len(job.script) /\ ~(stepErr # "none" /\ job.stopOnError)

At(behaviours) ==
    /\ pc = "apply"
    /\ Looping
    /\ job.script[next].does \in behaviours

Does == job.script[next].does

MyEdit == <<pass, next>>

Advance == next' = next + 1

\* Mutant: a step that returned is not recorded in the transaction.
StepReturns_Unmarked ==
    /\ At({"edit", "read"})
    /\ block' = IF Does = "edit" THEN block \cup {MyEdit} ELSE block
    /\ Advance
    /\ UNCHANGED <<history, depth, byHand, callVars, pc, dirty, stepErr, reply>>

\* Mutant: the outer block is not there and each step makes its own undo point.
StepReturns_OwnPoint ==
    /\ At({"edit", "read"})
    /\ history' = IF Does = "edit" THEN Append(history, {MyEdit}) ELSE history
    /\ dirty' = TRUE
    /\ Advance
    /\ UNCHANGED <<block, depth, byHand, callVars, pc, stepErr, reply>>

\* `if (!isError(res)) txn.markDirty()`: also for a step that only read.
StepReturns ==
    /\ At({"edit", "read"})
    /\ block' = IF Does = "edit" THEN block \cup {MyEdit} ELSE block
    /\ dirty' = TRUE
    /\ Advance
    /\ UNCHANGED <<history, depth, byHand, callVars, pc, stepErr, reply>>

\* Mutant: every failed step marks the transaction dirty, to be safe.
StepErrs_Marks ==
    /\ At({"error", "editError"}) \/ (At({"gated"}) /\ ~capable)
    /\ block' = IF Does = "editError" THEN block \cup {MyEdit} ELSE block
    /\ dirty' = TRUE
    /\ stepErr' = Does
    /\ Advance
    /\ UNCHANGED <<history, depth, byHand, callVars, pc, reply>>

\* A returned error leaves the transaction as it was; a gated verb that may not
\* elicit returns confirmation_required.
StepErrs ==
    /\ At({"error", "editError"}) \/ (At({"gated"}) /\ ~capable)
    /\ block' = IF Does = "editError" THEN block \cup {MyEdit} ELSE block
    /\ stepErr' = Does
    /\ Advance
    /\ UNCHANGED <<history, depth, byHand, callVars, pc, dirty, reply>>

\* catch (std::exception): dirty, whatever was edited.
StepThrows ==
    /\ At({"throw", "leak"})
    /\ depth' = IF Does = "leak" THEN depth + 1 ELSE depth
    /\ \/ UNCHANGED block
       \/ Does = "leak" /\ block' = block \cup {MyEdit}
    /\ dirty' = TRUE
    /\ stepErr' = Does
    /\ Advance
    /\ UNCHANGED <<history, byHand, callVars, pc, reply>>

\* The step's own UndoTransaction, dirty, unwinds inside this one: End closes
\* nothing and DoUndo meets an open block.
StepUnwinds ==
    /\ At({"editThrow"})
    /\ \/ block' = block \cup {MyEdit} /\ UNCHANGED history
       \/ block' = {} /\ UNCHANGED history
       \/ block' = block \cup {MyEdit} /\ history' = Popped(history)
    /\ dirty' = TRUE
    /\ stepErr' = Does
    /\ Advance
    /\ UNCHANGED <<depth, byHand, callVars, pc, reply>>

\* ElicitationRequest is no std::exception: it unwinds the script, and the
\* transaction's destructor rolls back.
StepElicits ==
    /\ At({"gated"})
    /\ capable
    /\ EndBlock(dirty)
    /\ pc' = "asking"
    /\ UNCHANGED <<byHand, callVars, next, dirty, stepErr, reply>>

-----------------------------------------------------------------------------
(* After the loop, and after the human's answer. *)

Ended == pc = "apply" /\ ~Looping

\* Mutant: a run that failed is rolled back although it is not atomic.
Commit_UndoesFailed ==
    /\ Ended
    /\ stepErr = "none" \/ ~job.atomic
    /\ EndBlock(dirty /\ stepErr # "none")
    /\ Answer(IF stepErr = "none" THEN "ok" ELSE "kept")
    /\ UNCHANGED <<byHand, callVars, next, dirty, stepErr>>

Commit ==
    /\ Ended
    /\ stepErr = "none" \/ ~job.atomic
    /\ EndBlock(FALSE)
    /\ Answer(IF stepErr = "none" THEN "ok" ELSE "kept")
    /\ UNCHANGED <<byHand, callVars, next, dirty, stepErr>>

Rollback ==
    /\ Ended
    /\ stepErr # "none" /\ job.atomic
    /\ EndBlock(dirty)
    /\ Answer("rolledBack")
    /\ UNCHANGED <<byHand, callVars, next, dirty, stepErr>>

\* The transport makes the call again with confirm:true beside script - run_dsl
\* has no such argument - and without an elicitation scope.
Accept ==
    /\ pc = "asking"
    /\ pass' = 2
    /\ capable' = FALSE
    /\ pc' = "preflight"
    /\ UNCHANGED <<undoVars, byHand, job, next, dirty, stepErr, reply>>

Decline ==
    /\ pc = "asking"
    /\ Answer("declined")
    /\ UNCHANGED <<undoVars, byHand, callVars, next, dirty, stepErr>>

-----------------------------------------------------------------------------
Next ==
    \/ UserEdit \/ Call \/ DryRun \/ Invalid \/ BeginTxn
    \/ StepReturns \/ StepErrs \/ StepThrows \/ StepUnwinds \/ StepElicits
    \/ Commit \/ Rollback \/ Accept \/ Decline

Spec == Init /\ [][Next]_vars

-----------------------------------------------------------------------------
(* Properties. *)

UserEdits == {<<User, k>> : k \in 1..byHand}
RunEdits  == Project \ UserEdits

\* The codebase convention: a tool that returns a result has edited, one that
\* returns an error has not, and none throws.
Tame == \A k \in DOMAIN job.script : job.script[k].does \in {"edit", "error", "gated"}

\* A rollback never takes back what the user had done ("we never Undo_DoUndo2 an
\* empty block, which would pop an unrelated prior action",
\* composite_support.h 215-217).
UserEditsKept == UserEdits \subseteq Project

\* So it is for the scripts that follow the convention.
TameKeepsUserEdits == Tame => UserEditsKept

\* A refused, previewed, rolled back or declined script, and one that waits for
\* the human, has changed nothing (tools_session.cpp 13-18; elicitation.h 13).
NothingPartial ==
    pc = "asking" \/ reply \in {"preview", "invalid", "rolledBack", "declined"} => RunEdits = {}

TameIsAtomic == Tame => NothingPartial

\* "One undo point reverts the whole script": a run adds at most one undo point
\* and leaves no block open, unless a tool leaked one or hid its edit behind an error.
OneUndoPoint ==
    pc \in {"asking", "done"}
      /\ (\A k \in DOMAIN job.script : job.script[k].does \notin {"leak", "editError"}) =>
      /\ Cardinality({k \in DOMAIN history : history[k] \ UserEdits # {}}) <= 1
      /\ block = {}
      /\ depth = 0

\* A run that says ok, or that it kept what was applied before the failure, has:
\* no block on the way lost the edits of a step that returned its result.
AppliedIsKept ==
    reply \in {"ok", "kept"} /\ (\A k \in DOMAIN job.script : job.script[k].does # "editThrow") =>
      \A k \in 1..(next - 1) : job.script[k].does = "edit" => <<pass, k>> \in Project

\* The inductive invariant, of the types for every script and, under the convention:
\* the one open block is the transaction's, and its dirty flag tells whether the block
\* holds an edit.  While no run has succeeded the history holds the user's edits alone.
TameInv ==
    /\ TypeOK
    /\ depth = IF pc = "apply" THEN 1 ELSE 0
    /\ pc # "apply" => block = {}
    /\ pc = "apply" => (dirty <=> block # {})
    /\ User \notin {e[1] : e \in block}
    /\ UserEdits \subseteq InHistory
    /\ reply \notin {"ok", "kept"} => InHistory \subseteq UserEdits
    /\ pc # "done" <=> reply = "none"

ConventionInv == TypeOK /\ (pc = "apply" => depth > 0) /\ (Tame => TameInv)
=============================================================================
