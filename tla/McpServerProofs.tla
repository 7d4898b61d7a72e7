-------------------------- MODULE McpServerProofs --------------------------
(***************************************************************************)
(* Proofs about McpServer, for every set of calls, every set of requests   *)
(* and answers and every size of the thread pool.                          *)
(***************************************************************************)
EXTENDS McpServer, SequenceTheorems, TLAPS

LEMMA JobFacts ==
    /\ \A c \in Calls, p \in Phases : Job(c, p) \in Jobs
    /\ \A c \in Calls : Job(c, "validate") \in Jobs /\ Job(c, "mutate") \in Jobs
    /\ \A c, d \in Calls, p, q \in Phases : Job(c, p) = Job(d, q) <=> c = d /\ p = q
    /\ \A j \in Jobs : j.call \in Calls /\ j.phase \in Phases /\ j = Job(j.call, j.phase)
    /\ NoJob \notin Jobs
  BY DEF Job, Jobs, Phases, NoJob

\* What Submit does to the queue: the old jobs keep their places, the new one is last.
LEMMA SubmitFacts ==
  ASSUME NEW q \in Seq(Jobs), NEW j \in Jobs
  PROVE  /\ Append(q, j) \in Seq(Jobs)
         /\ Len(Append(q, j)) = Len(q) + 1
         /\ \A i \in 1..Len(q) : Append(q, j)[i] = q[i]
         /\ Append(q, j)[Len(q) + 1] = j
  OBVIOUS

\* What PopJob does to the queue: every other job moves one place to the front.
LEMMA PopFacts ==
  ASSUME NEW q \in Seq(Jobs), q # <<>>
  PROVE  /\ Tail(q) \in Seq(Jobs)
         /\ Head(q) \in Jobs
         /\ Head(q) = q[1]
         /\ Len(q) > 0
         /\ Len(Tail(q)) = Len(q) - 1
         /\ \A i \in 1..(Len(q) - 1) : Tail(q)[i] = q[i + 1]
  OBVIOUS

LEMMA EmptyQueue == <<>> \in Seq(Jobs) /\ Len(<<>>) = 0
  OBVIOUS

LEMMA InitTypeOK == Init => TypeOK
  <1> SUFFICES ASSUME Init PROVE TypeOK
    OBVIOUS
  <1> QED
    BY EmptyQueue DEF Init, TypeOK, Project, Stages, Replies, AnswerMsg

\* A thread's own steps keep every variable in its type.
LEMMA ThreadTypeOK ==
  ASSUME TypeOK, NEW c \in Calls, Thread(c) \/ Client(c)
  PROVE  TypeOK'
  <1> USE JobFacts, SaysAssumption DEF TypeOK, callVars, mainVars, askVars, Finish, Goto, Stages, Replies,
              Refusals, Results
  <1>1. CASE TakeCall(c)
    BY <1>1, SubmitFacts DEF TakeCall, Submit
  <1>2. CASE ValidateTimeout(c)
    BY <1>2 DEF ValidateTimeout
  <1>3. CASE ValidateReply(c)
    BY <1>3 DEF ValidateReply, Ready
  <1>4. CASE BeginElicitation(c)
    BY <1>4 DEF BeginElicitation
  <1>5. CASE WritePrompt(c)
    BY <1>5 DEF WritePrompt
  <1>6. CASE WritePromptFails(c)
    BY <1>6 DEF WritePromptFails
  <1>7. CASE PollMiss(c)
    BY <1>7 DEF PollMiss
  <1>7a. CASE MissedBeat(c)
    BY <1>7a DEF MissedBeat
  <1>7b. CASE MissedShutdown(c)
    BY <1>7b DEF MissedShutdown
  <1>7c. CASE MissedTimeout(c)
    BY <1>7c DEF MissedTimeout
  <1>7d. CASE MissedBeatFails(c)
    BY <1>7d DEF MissedBeatFails
  <1>7e. CASE StreamDropped(c)
    BY <1>7e DEF StreamDropped
  <1>8. CASE AnswerRefuses(c)
    BY <1>8 DEF AnswerRefuses, Refusal
  <1>9. CASE AnswerAccepts(c)
    BY <1>9, SubmitFacts DEF AnswerAccepts, Submit
  <1>10. CASE MutateTimeout(c)
    BY <1>10 DEF MutateTimeout
  <1>11. CASE MutateReply(c)
    BY <1>11 DEF MutateReply, Ready
  <1>12. CASE Post(c)
    BY <1>12 DEF Post
  <1>13. CASE Disconnect(c)
    BY <1>13 DEF Disconnect
  <1>14. ASSUME NEW s \in Says, PostAnswer(c, s) PROVE TypeOK'
    BY <1>14 DEF PostAnswer, AnswerMsg
  <1> QED
    BY <1>1, <1>2, <1>3, <1>4, <1>5, <1>6, <1>7, <1>7a, <1>7b, <1>7c, <1>7d, <1>7e, <1>8, <1>9, <1>10, <1>11, <1>12, <1>13,
       <1>14 DEF Thread, Stream, Client

LEMMA RunJobTypeOK ==
  ASSUME TypeOK, RunJob
  PROVE  TypeOK'
  <1> USE DEF TypeOK, callVars, mainVars, askVars, Resolve, Results
  <1>1. current \in Jobs /\ current.call \in Calls /\ request[current.call].want \in Contents
    BY JobFacts, RequestsAssumption DEF RunJob, RunPlain, RunNoEdit, RunGate, RunGated,
       RequestShape
  <1>2. ASSUME NEW r \in Results, Resolve(r)
        PROVE  /\ future' \in [Jobs -> {"none", "queued"} \cup Results]
               /\ current' \in Jobs \cup {NoJob}
               /\ UNCHANGED <<callVars, stage, queue, askVars, reply, clientElicitation, host>>
    BY <1>1, <1>2
  <1>3. ASSUME Change(current.call) \/ NoChange
        PROVE  content' \in Project /\ applied' \in [Calls -> Nat]
    BY <1>1, <1>3 DEF Change, NoChange, Project
  <1> HIDE DEF Resolve, Results
  <1>4. \E r \in Results : Resolve(r)
    BY DEF RunJob, RunPlain, RunNoEdit, RunGate, RunGated, Results
  <1>5. Change(current.call) \/ NoChange
    BY DEF RunJob, RunPlain, RunNoEdit, RunGate, RunGated
  <1> QED
    BY <1>2, <1>3, <1>4, <1>5

LEMMA NextTypeOK == TypeOK /\ [Next]_vars => TypeOK'
  <1> SUFFICES ASSUME TypeOK, [Next]_vars PROVE TypeOK'
    OBVIOUS
  <1> USE DEF TypeOK, callVars, mainVars, askVars
  <1>1. ASSUME NEW c \in Calls, Client(c) \/ Thread(c) PROVE TypeOK'
    BY <1>1, ThreadTypeOK
  <1>2. ASSUME NEW a \in AnswerMsg, DeliverLookup(a) PROVE TypeOK'
    BY <1>2 DEF DeliverLookup
  <1>3. ASSUME NEW a \in AnswerMsg, Settle(a) PROVE TypeOK'
    BY <1>3 DEF Settle, AnswerMsg
  <1>4. CASE Initialize
    BY <1>4 DEF Initialize
  <1>5. CASE PopJob
    BY <1>5, PopFacts DEF PopJob
  <1>6. CASE RunJob
    BY <1>6, RunJobTypeOK
  <1>7. CASE UserEdit
    BY <1>7 DEF UserEdit
  <1>8. CASE BeginStop \/ Unload
    BY <1>8, EmptyQueue DEF BeginStop, Unload
  <1>9. CASE Unloaded \/ UNCHANGED vars
    BY <1>9 DEF Unloaded, vars
  <1> QED
    BY <1>1, <1>2, <1>3, <1>4, <1>5, <1>6, <1>7, <1>8, <1>9 DEF Next, Main

\* Every reachable state is well typed, whatever the calls, the answers and the pool.
THEOREM TypeCorrect == Spec => []TypeOK
  BY InitTypeOK, NextTypeOK, PTL DEF Spec
-----------------------------------------------------------------------------
\* Steps that leave the queue and the futures alone keep the queue's invariant.
LEMMA JobsInvUnchanged ==
  ASSUME JobsInv, UNCHANGED <<queue, current, future>>
  PROVE  JobsInv'
  BY DEF JobsInv

\* The steps of a connection thread and of its client that submit no job.
LEMMA ThreadInv ==
  ASSUME IInv, NEW c \in Calls, Thread(c) \/ Client(c),
         ~TakeCall(c), ~AnswerAccepts(c), ~\E s \in Says : PostAnswer(c, s)
  PROVE  JobsInv' /\ StageInv' /\ EditInv' /\ SlotInv'
  <1> USE JobFacts DEF IInv, TypeOK, callVars, mainVars, askVars, Finish, Goto, Streaming, InHandler,
              Refusals, Results
  <1>1. CASE ValidateTimeout(c)
    <2>1. UNCHANGED <<queue, current, future>>
      BY <1>1 DEF ValidateTimeout
    <2>2. JobsInv'
      BY <2>1, JobsInvUnchanged
    <2>3. StageInv'
      BY <1>1 DEF ValidateTimeout, StageInv, Ready
    <2>4. EditInv'
      BY <1>1 DEF ValidateTimeout, EditInv
    <2>5. SlotInv'
      BY <1>1 DEF ValidateTimeout, SlotInv, StageInv
    <2> QED
      BY <2>2, <2>3, <2>4, <2>5
  <1>2. CASE ValidateReply(c)
    <2>1. UNCHANGED <<queue, current, future>>
      BY <1>2 DEF ValidateReply
    <2>2. JobsInv'
      BY <2>1, JobsInvUnchanged
    <2>3. StageInv'
      BY <1>2 DEF ValidateReply, StageInv, Ready
    <2>4. EditInv'
      BY <1>2 DEF ValidateReply, EditInv
    <2>5. SlotInv'
      BY <1>2 DEF ValidateReply, SlotInv, StageInv
    <2> QED
      BY <2>2, <2>3, <2>4, <2>5
  <1>3. CASE BeginElicitation(c)
    <2>1. UNCHANGED <<queue, current, future>>
      BY <1>3 DEF BeginElicitation
    <2>2. JobsInv'
      BY <2>1, JobsInvUnchanged
    <2>3. StageInv'
      BY <1>3 DEF BeginElicitation, StageInv
    <2>4. EditInv'
      BY <1>3 DEF BeginElicitation, EditInv
    <2>5. SlotInv'
      BY <1>3 DEF BeginElicitation, SlotInv, StageInv
    <2> QED
      BY <2>2, <2>3, <2>4, <2>5
  <1>4. CASE WritePrompt(c)
    <2>1. UNCHANGED <<queue, current, future>>
      BY <1>4 DEF WritePrompt
    <2>2. JobsInv'
      BY <2>1, JobsInvUnchanged
    <2>3. StageInv'
      BY <1>4 DEF WritePrompt, StageInv
    <2>4. EditInv'
      BY <1>4 DEF WritePrompt, EditInv
    <2>5. SlotInv'
      BY <1>4 DEF WritePrompt, SlotInv, StageInv
    <2> QED
      BY <2>2, <2>3, <2>4, <2>5
  <1>5. CASE WritePromptFails(c)
    <2>1. UNCHANGED <<queue, current, future>>
      BY <1>5 DEF WritePromptFails
    <2>2. JobsInv'
      BY <2>1, JobsInvUnchanged
    <2>3. StageInv'
      BY <1>5 DEF WritePromptFails, StageInv
    <2>4. EditInv'
      BY <1>5 DEF WritePromptFails, EditInv
    <2>5. SlotInv'
      BY <1>5 DEF WritePromptFails, SlotInv, StageInv
    <2> QED
      BY <2>2, <2>3, <2>4, <2>5
  <1>6. CASE PollMiss(c)
    <2>1. UNCHANGED <<queue, current, future>>
      BY <1>6 DEF PollMiss
    <2>2. JobsInv'
      BY <2>1, JobsInvUnchanged
    <2>3. StageInv'
      BY <1>6 DEF PollMiss, StageInv
    <2>4. EditInv'
      BY <1>6 DEF PollMiss, EditInv
    <2>5. SlotInv'
      BY <1>6 DEF PollMiss, SlotInv, StageInv
    <2> QED
      BY <2>2, <2>3, <2>4, <2>5
  <1>7. CASE MissedShutdown(c)
    <2>1. UNCHANGED <<queue, current, future>>
      BY <1>7 DEF MissedShutdown
    <2>2. JobsInv'
      BY <2>1, JobsInvUnchanged
    <2>3. StageInv'
      BY <1>7 DEF MissedShutdown, StageInv
    <2>4. EditInv'
      BY <1>7 DEF MissedShutdown, EditInv
    <2>5. SlotInv'
      BY <1>7 DEF MissedShutdown, SlotInv, StageInv
    <2> QED
      BY <2>2, <2>3, <2>4, <2>5
  <1>8. CASE MissedTimeout(c)
    <2>1. UNCHANGED <<queue, current, future>>
      BY <1>8 DEF MissedTimeout
    <2>2. JobsInv'
      BY <2>1, JobsInvUnchanged
    <2>3. StageInv'
      BY <1>8 DEF MissedTimeout, StageInv
    <2>4. EditInv'
      BY <1>8 DEF MissedTimeout, EditInv
    <2>5. SlotInv'
      BY <1>8 DEF MissedTimeout, SlotInv, StageInv
    <2> QED
      BY <2>2, <2>3, <2>4, <2>5
  <1>9. CASE MissedBeat(c)
    <2>1. UNCHANGED <<queue, current, future>>
      BY <1>9 DEF MissedBeat
    <2>2. JobsInv'
      BY <2>1, JobsInvUnchanged
    <2>3. StageInv'
      BY <1>9 DEF MissedBeat, StageInv
    <2>4. EditInv'
      BY <1>9 DEF MissedBeat, EditInv
    <2>5. SlotInv'
      BY <1>9 DEF MissedBeat, SlotInv, StageInv
    <2> QED
      BY <2>2, <2>3, <2>4, <2>5
  <1>10. CASE MissedBeatFails(c)
    <2>1. UNCHANGED <<queue, current, future>>
      BY <1>10 DEF MissedBeatFails
    <2>2. JobsInv'
      BY <2>1, JobsInvUnchanged
    <2>3. StageInv'
      BY <1>10 DEF MissedBeatFails, StageInv
    <2>4. EditInv'
      BY <1>10 DEF MissedBeatFails, EditInv
    <2>5. SlotInv'
      BY <1>10 DEF MissedBeatFails, SlotInv, StageInv
    <2> QED
      BY <2>2, <2>3, <2>4, <2>5
  <1>11. CASE StreamDropped(c)
    <2>1. UNCHANGED <<queue, current, future>>
      BY <1>11 DEF StreamDropped
    <2>2. JobsInv'
      BY <2>1, JobsInvUnchanged
    <2>3. StageInv'
      BY <1>11 DEF StreamDropped, StageInv
    <2>4. EditInv'
      BY <1>11 DEF StreamDropped, EditInv
    <2>5. SlotInv'
      BY <1>11 DEF StreamDropped, SlotInv, StageInv
    <2> QED
      BY <2>2, <2>3, <2>4, <2>5
  <1>12. CASE AnswerRefuses(c)
    <2>1. UNCHANGED <<queue, current, future>>
      BY <1>12 DEF AnswerRefuses
    <2>2. JobsInv'
      BY <2>1, JobsInvUnchanged
    <2>3. StageInv'
      BY <1>12 DEF AnswerRefuses, StageInv, Refusal
    <2>4. EditInv'
      BY <1>12 DEF AnswerRefuses, EditInv
    <2>5. SlotInv'
      BY <1>12 DEF AnswerRefuses, SlotInv, StageInv
    <2> QED
      BY <2>2, <2>3, <2>4, <2>5
  <1>13. CASE MutateTimeout(c)
    <2>1. UNCHANGED <<queue, current, future>>
      BY <1>13 DEF MutateTimeout
    <2>2. JobsInv'
      BY <2>1, JobsInvUnchanged
    <2>3. StageInv'
      BY <1>13 DEF MutateTimeout, StageInv, Ready
    <2>4. EditInv'
      BY <1>13 DEF MutateTimeout, EditInv
    <2>5. SlotInv'
      BY <1>13 DEF MutateTimeout, SlotInv, StageInv
    <2> QED
      BY <2>2, <2>3, <2>4, <2>5
  <1>14. CASE MutateReply(c)
    <2>1. UNCHANGED <<queue, current, future>>
      BY <1>14 DEF MutateReply
    <2>2. JobsInv'
      BY <2>1, JobsInvUnchanged
    <2>3. StageInv'
      BY <1>14 DEF MutateReply, StageInv, Ready
    <2>4. EditInv'
      BY <1>14 DEF MutateReply, EditInv
    <2>5. SlotInv'
      BY <1>14 DEF MutateReply, SlotInv, StageInv
    <2> QED
      BY <2>2, <2>3, <2>4, <2>5
  <1>15. CASE Post(c)
    <2>1. UNCHANGED <<queue, current, future>>
      BY <1>15 DEF Post
    <2>2. JobsInv'
      BY <2>1, JobsInvUnchanged
    <2>3. StageInv'
      BY <1>15 DEF Post, StageInv
    <2>4. EditInv'
      BY <1>15 DEF Post, EditInv
    <2>5. SlotInv'
      BY <1>15 DEF Post, SlotInv, StageInv
    <2> QED
      BY <2>2, <2>3, <2>4, <2>5
  <1>16. CASE Disconnect(c)
    <2>1. UNCHANGED <<queue, current, future>>
      BY <1>16 DEF Disconnect
    <2>2. JobsInv'
      BY <2>1, JobsInvUnchanged
    <2>3. StageInv'
      BY <1>16 DEF Disconnect, StageInv
    <2>4. EditInv'
      BY <1>16 DEF Disconnect, EditInv
    <2>5. SlotInv'
      BY <1>16 DEF Disconnect, SlotInv, StageInv
    <2> QED
      BY <2>2, <2>3, <2>4, <2>5
  <1> QED
    BY <1>1, <1>2, <1>3, <1>4, <1>5, <1>6, <1>7, <1>8, <1>9, <1>10, <1>11, <1>12, <1>13, <1>14, <1>15, <1>16
       DEF Thread, Stream, Client

\* Submitting a job that has no future yet keeps the queue's invariant.
LEMMA SubmitInv ==
  ASSUME TypeOK, JobsInv, NEW j \in Jobs, future[j] = "none", Submit(j), UNCHANGED current
  PROVE  JobsInv'
  <1> USE DEF TypeOK, JobsInv, Submit
  <1>1. \A i \in 1..Len(queue) : queue[i] \in Jobs /\ queue[i] # j
    OBVIOUS
  <1>2. /\ Len(queue') = Len(queue) + 1
        /\ \A i \in 1..Len(queue) : queue'[i] = queue[i]
        /\ queue'[Len(queue) + 1] = j
    BY SubmitFacts
  <1>3. \A i \in 1..Len(queue') : i \in 1..Len(queue) \/ i = Len(queue) + 1
    BY <1>2
  <1>4. future'[j] = "queued" /\ \A k \in Jobs : k # j => future'[k] = future[k]
    OBVIOUS
  <1>5. current # NoJob => current \in Jobs /\ current # j
    OBVIOUS
  <1>6. \A i \in 1..Len(queue') : future'[queue'[i]] = "queued"
    BY <1>1, <1>2, <1>3, <1>4
  <1>7. \A i, k \in 1..Len(queue') : queue'[i] = queue'[k] => i = k
    BY <1>1, <1>2, <1>3
  <1>8. current' # NoJob => /\ future'[current'] = "queued"
                            /\ \A i \in 1..Len(queue') : queue'[i] # current'
    BY <1>2, <1>3, <1>4, <1>5
  <1> HIDE DEF TypeOK, Submit
  <1> QED
    BY <1>6, <1>7, <1>8

LEMMA TakeCallInv ==
  ASSUME IInv, NEW c \in Calls, TakeCall(c)
  PROVE  JobsInv' /\ StageInv' /\ EditInv' /\ SlotInv'
  <1> USE JobFacts DEF IInv, TypeOK, callVars, mainVars, askVars, Goto, Streaming, TakeCall
  <1>1. future[Job(c, "validate")] = "none"
    BY DEF StageInv
  <1>2. JobsInv'
    BY <1>1, SubmitInv
  <1>3. future' = [future EXCEPT ![Job(c, "validate")] = "queued"]
    BY DEF Submit
  <1>4. StageInv'
    <2>1. ASSUME NEW d \in Calls, d # c
          PROVE  /\ stage'[d] = stage[d] /\ reply'[d] = reply[d] /\ slot'[d] = slot[d]
                 /\ \A p \in Phases : future'[Job(d, p)] = future[Job(d, p)]
      BY <2>1, <1>3 DEF Phases
    <2>2. reply'[c] = "none" /\ slot'[c] = slot[c]
      BY DEF StageInv
    <2>3. \A p \in Phases : future'[Job(c, p)] =
               IF p = "validate" THEN "queued" ELSE future[Job(c, p)]
      BY <1>3 DEF Phases
    <2> QED
      BY <1>1, <2>1, <2>2, <2>3 DEF StageInv, Results, Refusals, Phases
  <1>5. EditInv'
    BY <1>1, <1>3 DEF EditInv, NoEdit
  <1>6. SlotInv'
    BY <1>1, <1>3 DEF SlotInv
  <1> QED
    BY <1>2, <1>4, <1>5, <1>6

LEMMA AnswerAcceptsInv ==
  ASSUME IInv, NEW c \in Calls, AnswerAccepts(c)
  PROVE  JobsInv' /\ StageInv' /\ EditInv' /\ SlotInv'
  <1> USE JobFacts DEF IInv, TypeOK, callVars, mainVars, askVars, Goto, Streaming, InHandler, AnswerAccepts
  <1>1. future[Job(c, "mutate")] = "none" /\ future[Job(c, "validate")] = "elicit"
    BY DEF StageInv
  <1>2. JobsInv'
    BY <1>1, SubmitInv
  <1>3. future' = [future EXCEPT ![Job(c, "mutate")] = "queued"]
    BY DEF Submit
  <1>4. StageInv'
    <2>1. ASSUME NEW d \in Calls, d # c
          PROVE  /\ stage'[d] = stage[d] /\ reply'[d] = reply[d] /\ slot'[d] = slot[d]
                 /\ \A p \in Phases : future'[Job(d, p)] = future[Job(d, p)]
      BY <2>1, <1>3 DEF Phases
    <2>2. reply'[c] = "none" /\ slot'[c] = slot[c]
      BY DEF StageInv
    <2>3. \A p \in Phases : future'[Job(c, p)] =
               IF p = "mutate" THEN "queued" ELSE future[Job(c, p)]
      BY <1>3 DEF Phases
    <2> QED
      BY <1>1, <2>1, <2>2, <2>3 DEF StageInv, Proceed, Results, Refusals, Phases
  <1>5. EditInv'
    BY <1>1, <1>3 DEF EditInv, NoEdit
  <1>6. SlotInv'
    BY <1>1, <1>3 DEF SlotInv
  <1> QED
    BY <1>2, <1>4, <1>5, <1>6

\* The answers: they touch nothing but the slot and its messages.
LEMMA AnswerInv ==
  ASSUME IInv, NEW a \in AnswerMsg,
         DeliverLookup(a) \/ Settle(a) \/ PostAnswer(a.call, a.says)
  PROVE  JobsInv' /\ StageInv' /\ EditInv' /\ SlotInv'
  <1> USE JobFacts, SaysAssumption DEF IInv, TypeOK, callVars, mainVars, askVars, AnswerMsg
  <1>1. a.call \in Calls /\ a.says \in Says
    OBVIOUS
  <1>2. UNCHANGED <<queue, current, future, stage, reply, applied, request, pending, host>>
    BY DEF DeliverLookup, Settle, PostAnswer
  <1>3. JobsInv'
    BY <1>2, JobsInvUnchanged
  <1>4. \A c \in Calls : slot'[c] = slot[c] \/ (slot[c] \notin Answers /\ c = a.call /\ a \in held)
    BY <1>1 DEF DeliverLookup, Settle, PostAnswer
  <1>5. StageInv'
    BY <1>2, <1>4 DEF StageInv, Answers
  <1>6. EditInv'
    BY <1>2 DEF EditInv
  <1>7. SlotInv'
    <2>1. CASE DeliverLookup(a)
      BY <2>1, <1>1 DEF DeliverLookup, SlotInv
    <2>2. CASE Settle(a)
      <3>1. \A c \in Calls : slot'[c] # slot[c] => slot[c] \notin {"none", "created"}
                                               /\ slot'[c] \in Answers
        BY <2>2, <1>1 DEF Settle, SlotInv
      <3>2. /\ posted' = posted /\ held' \subseteq held
            /\ UNCHANGED <<future, stage, pending, host>>
        BY <2>2 DEF Settle
      <3>3. \A d \in AnswerMsg : d \in posted' \cup held' =>
                 d.call \in Calls /\ slot'[d.call] \notin {"none", "created"}
        <4> TAKE d \in AnswerMsg
        <4> HAVE d \in posted' \cup held'
        <4>1. d \in posted \cup held /\ d.call \in Calls
          BY <3>2
        <4>2. slot[d.call] \notin {"none", "created"}
          BY <4>1 DEF SlotInv
        <4>3. slot'[d.call] = slot[d.call] \/ slot'[d.call] \in Answers
          BY <3>1, <4>1
        <4> QED
          BY <4>1, <4>2, <4>3 DEF Answers
      <3>4. posted' \cup held' \subseteq AnswerMsg
        BY <3>2
      <3>5. \A c \in Calls :
              /\ slot'[c] # "none" => slot[c] # "none"
              /\ slot[c] \in {"none", "created"} => slot'[c] = slot[c]
        BY <3>1
      <3> QED
        BY <3>2, <3>3, <3>4, <3>5 DEF SlotInv
    <2>3. CASE PostAnswer(a.call, a.says)
      BY <2>3, <1>1 DEF PostAnswer, SlotInv
    <2> QED
      BY <2>1, <2>2, <2>3
  <1> QED
    BY <1>3, <1>5, <1>6, <1>7

\* Resolving the current job keeps the queue's invariant: it is not in the queue.
LEMMA ResolveInv ==
  ASSUME TypeOK, JobsInv, current # NoJob, NEW r \in Results, Resolve(r)
  PROVE  JobsInv'
  <1> USE DEF TypeOK, JobsInv, Resolve
  <1>1. \A i \in 1..Len(queue) : queue[i] \in Jobs /\ queue[i] # current
    OBVIOUS
  <1>2. \A k \in Jobs : k # current => future'[k] = future[k]
    OBVIOUS
  <1>3. queue' = queue /\ current' = NoJob
    OBVIOUS
  <1>4. /\ \A i \in 1..Len(queue) : future[queue[i]] = "queued"
        /\ \A i, k \in 1..Len(queue) : queue[i] = queue[k] => i = k
    OBVIOUS
  <1> USE DEF JobsInv
  <1> HIDE DEF TypeOK, Resolve
  <1> QED
    BY <1>1, <1>2, <1>3, <1>4

LEMMA PopJobInv ==
  ASSUME IInv, PopJob
  PROVE  JobsInv' /\ StageInv' /\ EditInv' /\ SlotInv'
  <1> USE DEF IInv, TypeOK, callVars, askVars, PopJob
  <1>1. JobsInv'
    <2>1. \A i \in 1..Len(queue') : queue'[i] = queue[i + 1] /\ i + 1 \in 1..Len(queue)
      BY PopFacts
    <2>2. current' = queue[1] /\ 1 \in 1..Len(queue)
      BY PopFacts
    <2> QED
      BY <2>1, <2>2 DEF JobsInv
  <1>2. StageInv' /\ EditInv' /\ SlotInv'
    BY DEF StageInv, EditInv, SlotInv
  <1> QED
    BY <1>1, <1>2

\* A handler resolves its own unresolved job and edits for its own call only.
LEMMA RunJobShape ==
  ASSUME IInv, RunJob
  PROVE  /\ current \in Jobs /\ current # NoJob
         /\ future[current] = "queued"
         /\ \E r \in Results :
              /\ Resolve(r)
              /\ \/ r = "applied" /\ Change(current.call)
                 \/ r = "threw" /\ request[current.call].verb = "plain" /\ Change(current.call)
                 \/ r # "applied" /\ NoChange
              /\ r = "elicit" => current.phase = "validate"
  <1>1. current # NoJob /\ current \in Jobs
    BY DEF RunJob, RunPlain, RunNoEdit, RunGate, RunGated, IInv, TypeOK
  <1>2. future[current] = "queued"
    BY <1>1 DEF IInv, JobsInv
  <1>3. CASE RunPlain
    BY <1>1, <1>2, <1>3 DEF RunPlain, Results
  <1>4. CASE RunNoEdit
    BY <1>1, <1>2, <1>4 DEF RunNoEdit, Results
  <1>5. CASE RunGate
    BY <1>1, <1>2, <1>5 DEF RunGate, Results, ScopeCapable
  <1>6. CASE RunGated
    BY <1>1, <1>2, <1>6 DEF RunGated, Results
  <1> QED
    BY <1>3, <1>4, <1>5, <1>6 DEF RunJob

LEMMA RunJobInv ==
  ASSUME IInv, RunJob
  PROVE  JobsInv' /\ StageInv' /\ EditInv' /\ SlotInv'
  <1>1. /\ current \in Jobs /\ current # NoJob
        /\ future[current] = "queued"
    BY RunJobShape
  <1>2. PICK r \in Results :
          /\ Resolve(r)
          /\ \/ r = "applied" /\ Change(current.call)
             \/ r = "threw" /\ request[current.call].verb = "plain" /\ Change(current.call)
             \/ r # "applied" /\ NoChange
          /\ r = "elicit" => current.phase = "validate"
    BY RunJobShape
  <1> DEFINE c == current.call
             p == current.phase
  <1>3. c \in Calls /\ p \in {"validate", "mutate"} /\ current = Job(c, p)
    BY <1>1, JobFacts DEF Phases
  <1>4. /\ future'[Job(c, p)] = r
        /\ \A d \in Calls, q \in Phases : (d # c \/ q # p) =>
              future'[Job(d, q)] = future[Job(d, q)]
    BY <1>1, <1>2, <1>3, JobFacts DEF Resolve, IInv, TypeOK, Phases
  <1>5. UNCHANGED <<request, stage, queue, pending, slot, posted, held, reply, host>>
    BY <1>2 DEF Resolve, callVars, askVars
  <1>6. \A d \in Calls : d # c => applied'[d] = applied[d]
    BY <1>2 DEF Change, NoChange, IInv, TypeOK
  <1>7. \/ applied'[c] = applied[c] + 1
           /\ (r = "applied" \/ (r = "threw" /\ request[c].verb = "plain"))
        \/ applied'[c] = applied[c] /\ r # "applied"
    BY <1>2, <1>3 DEF Change, NoChange, IInv, TypeOK
  <1>8. applied[c] = 0
    <2>1. CASE p = "validate"
      BY <1>1, <1>3, <2>1 DEF IInv, StageInv, EditInv, NoEdit
    <2>2. CASE p = "mutate"
      BY <1>1, <1>3, <2>2 DEF IInv, StageInv, EditInv, NoEdit
    <2> QED
      BY <1>3, <2>1, <2>2
  <1>9. r \notin {"none", "queued"} /\ (r \in NoEdit => r # "threw" /\ r # "applied")
    BY DEF Results, NoEdit
  <1> HIDE DEF c, p
  <1>10. JobsInv'
    BY <1>1, <1>2, ResolveInv DEF IInv
  <1>11. StageInv'
    <2>1. ASSUME NEW d \in Calls, d # c
          PROVE  /\ future'[Job(d, "validate")] = future[Job(d, "validate")]
                 /\ future'[Job(d, "mutate")] = future[Job(d, "mutate")]
      BY <1>4, <2>1 DEF Phases
    <2>2. CASE p = "validate"
      <3>1. /\ future[Job(c, "validate")] = "queued" /\ future'[Job(c, "validate")] = r
            /\ future'[Job(c, "mutate")] = future[Job(c, "mutate")]
        BY <1>1, <1>3, <1>4, <2>2 DEF Phases
      <3> QED
        BY <1>3, <1>5, <1>9, <2>1, <3>1 DEF IInv, StageInv, Results, Streaming
    <2>3. CASE p = "mutate"
      <3>1. /\ future[Job(c, "mutate")] = "queued" /\ future'[Job(c, "mutate")] = r
            /\ future'[Job(c, "validate")] = future[Job(c, "validate")]
        BY <1>1, <1>3, <1>4, <2>3 DEF Phases
      <3> QED
        BY <1>3, <1>5, <1>9, <2>1, <3>1 DEF IInv, StageInv, Results, Streaming
    <2> QED
      BY <1>3, <2>2, <2>3
  <1>12. EditInv'
    <2>1. ASSUME NEW d \in Calls, d # c
          PROVE  /\ future'[Job(d, "validate")] = future[Job(d, "validate")]
                 /\ future'[Job(d, "mutate")] = future[Job(d, "mutate")]
      BY <1>4, <2>1 DEF Phases
    <2>2. CASE p = "validate"
      <3>1. /\ future[Job(c, "validate")] = "queued" /\ future'[Job(c, "validate")] = r
            /\ future'[Job(c, "mutate")] = "none"
        BY <1>1, <1>3, <1>4, <2>2 DEF Phases, IInv, StageInv
      <3> QED
        BY <1>3, <1>5, <1>6, <1>7, <1>8, <1>9, <2>1, <3>1 DEF IInv, EditInv
    <2>3. CASE p = "mutate"
      <3>1. /\ future[Job(c, "mutate")] = "queued" /\ future'[Job(c, "mutate")] = r
            /\ future'[Job(c, "validate")] = "elicit"
        BY <1>1, <1>3, <1>4, <2>3 DEF Phases, IInv, StageInv
      <3> QED
        BY <1>3, <1>5, <1>6, <1>7, <1>8, <1>9, <2>1, <3>1 DEF IInv, EditInv
    <2> QED
      BY <1>3, <2>2, <2>3
  <1>13. SlotInv'
    <2>1. \A d \in Calls : future[Job(d, "validate")] = "elicit" =>
                             future'[Job(d, "validate")] = "elicit"
      BY <1>1, <1>3, <1>4 DEF Phases
    <2> QED
      BY <1>5, <2>1 DEF IInv, SlotInv
  <1> QED
    BY <1>10, <1>11, <1>12, <1>13

LEMMA UnloadInv ==
  ASSUME IInv, Unload
  PROVE  JobsInv' /\ StageInv' /\ EditInv' /\ SlotInv'
  <1> USE DEF IInv, TypeOK, callVars, mainVars, askVars, Unload
  <1>1. JobsInv'
    BY EmptyQueue DEF JobsInv
  <1>2. StageInv' /\ EditInv'
    BY DEF StageInv, EditInv
  <1>3. \A c \in Calls : stage[c] \notin Streaming \cup InHandler
    BY DEF BusyThreads, InHandler
  <1>4. SlotInv'
    BY <1>3 DEF SlotInv
  <1> QED
    BY <1>1, <1>2, <1>4

LEMMA InitIInv == Init => IInv
  <1> SUFFICES ASSUME Init PROVE IInv
    OBVIOUS
  <1>1. \A c \in Calls : future[Job(c, "validate")] = "none" /\ future[Job(c, "mutate")] = "none"
    BY JobFacts DEF Init
  <1>2. JobsInv
    BY EmptyQueue DEF Init, JobsInv
  <1>3. StageInv /\ EditInv /\ SlotInv
    BY <1>1 DEF Init, StageInv, EditInv, SlotInv, NoEdit, Streaming, Results, Refusals
  <1> QED
    BY <1>2, <1>3, InitTypeOK DEF IInv

LEMMA NextIInv == IInv /\ [Next]_vars => IInv'
  <1> SUFFICES ASSUME IInv, [Next]_vars PROVE IInv'
    OBVIOUS
  <1>1. TypeOK'
    BY NextTypeOK DEF IInv
  <1> DEFINE Goal == JobsInv' /\ StageInv' /\ EditInv' /\ SlotInv'
  <1> SUFFICES Goal
    BY <1>1 DEF IInv
  <1>2. ASSUME NEW c \in Calls, Client(c) \/ Thread(c) PROVE Goal
    <2>1. CASE TakeCall(c)
      BY <2>1, TakeCallInv
    <2>2. CASE AnswerAccepts(c)
      BY <2>2, AnswerAcceptsInv
    <2>3. ASSUME NEW s \in Says, PostAnswer(c, s) PROVE Goal
      <3>1. [call |-> c, says |-> s] \in AnswerMsg
        BY DEF AnswerMsg
      <3> QED
        BY <2>3, <3>1, AnswerInv
    <2> QED
      BY <1>2, <2>1, <2>2, <2>3, ThreadInv
  <1>3. ASSUME NEW a \in AnswerMsg, DeliverLookup(a) \/ Settle(a) PROVE Goal
    BY <1>3, AnswerInv
  <1>4. CASE Initialize \/ UserEdit \/ BeginStop
    <2>1. UNCHANGED <<queue, current, future, stage, reply, applied, request, pending, slot,
                      posted, held>> /\ (host' = "unloaded" => host = "unloaded")
      BY <1>4 DEF Initialize, UserEdit, BeginStop, callVars, mainVars, askVars
    <2>2. JobsInv'
      BY <2>1, JobsInvUnchanged DEF IInv
    <2>3. StageInv' /\ EditInv' /\ SlotInv'
      BY <2>1 DEF IInv, StageInv, EditInv, SlotInv
    <2> QED
      BY <2>2, <2>3
  <1>5. CASE PopJob
    BY <1>5, PopJobInv
  <1>6. CASE RunJob
    BY <1>6, RunJobInv
  <1>7. CASE Unload
    BY <1>7, UnloadInv
  <1>8. CASE Unloaded \/ UNCHANGED vars
    BY <1>8 DEF Unloaded, vars, IInv, JobsInv, StageInv, EditInv, SlotInv
  <1> QED
    BY <1>2, <1>3, <1>4, <1>5, <1>6, <1>7, <1>8 DEF Next, Main

\* The inductive invariant holds in every reachable state.
THEOREM Invariance == Spec => []IInv
  BY InitIInv, NextIInv, PTL DEF Spec

-----------------------------------------------------------------------------
(* The safety properties. *)

LEMMA ReplyTellsTruthInv == IInv => ReplyTellsTruth
  <1> SUFFICES ASSUME IInv, NEW c \in Calls
               PROVE  /\ reply[c] = "applied" => applied[c] = 1
                      /\ reply[c] \in Refusals \cup {"unchanged", "preview",
                                                     "confirmationRequired", "closed"}
                           => applied[c] = 0
                      /\ reply[c] = "threw" /\ request[c].verb # "plain" => applied[c] = 0
    BY DEF ReplyTellsTruth
  <1> DEFINE v == future[Job(c, "validate")]
             m == future[Job(c, "mutate")]
  <1>1. /\ m # "none" => v = "elicit"
        /\ reply[c] \in Results => reply[c] = m \/ (reply[c] = v /\ m = "none")
        /\ reply[c] \in Refusals \cup {"closed"} => v = "elicit" /\ m = "none"
    BY DEF IInv, StageInv
  <1>2. /\ v \in NoEdit /\ m \in NoEdit => applied[c] = 0
        /\ v = "applied" \/ m = "applied" => applied[c] = 1
        /\ request[c].verb # "plain" /\ v # "applied" /\ m # "applied" => applied[c] = 0
    BY DEF IInv, EditInv
  <1> HIDE DEF v, m
  <1> QED
    BY <1>1, <1>2 DEF Results, NoEdit

\* What a client is told of its call is true and stays true.
THEOREM RepliesAreTrue == Spec => []ReplyTellsTruth
  BY Invariance, ReplyTellsTruthInv, PTL

\* No call changes the project twice.
THEOREM EditsOnce == Spec => []AtMostOnce
  <1>1. IInv => AtMostOnce
    BY DEF IInv, EditInv, AtMostOnce
  <1> QED
    BY <1>1, Invariance, PTL

\* A waiting stream always finds its slot in the registry.
THEOREM SlotIsFound == Spec => []PollFindsSlot
  <1>1. IInv => PollFindsSlot
    BY DEF IInv, SlotInv, PollFindsSlot
  <1> QED
    BY <1>1, Invariance, PTL

\* Only the handler of a call counts an edit of that call.
LEMMA EditIsRunJob ==
  ASSUME [Next]_vars, applied' # applied
  PROVE  RunJob
  <1>1. \A c \in Calls : Client(c) \/ Thread(c) => applied' = applied
    BY DEF Client, Thread, Stream, Post, PostAnswer, Disconnect, TakeCall, ValidateTimeout,
       ValidateReply, BeginElicitation, WritePrompt, WritePromptFails, PollMiss,
       MissedShutdown, MissedTimeout, MissedBeat, MissedBeatFails, StreamDropped,
       AnswerRefuses, AnswerAccepts, MutateTimeout, MutateReply, mainVars
  <1>2. \A a \in AnswerMsg : DeliverLookup(a) \/ Settle(a) => applied' = applied
    BY DEF DeliverLookup, Settle, mainVars
  <1>3. Initialize \/ PopJob \/ UserEdit \/ BeginStop \/ Unload \/ Unloaded \/ UNCHANGED vars
          => applied' = applied
    BY DEF Initialize, PopJob, UserEdit, BeginStop, Unload, Unloaded, mainVars, vars
  <1> QED
    BY <1>1, <1>2, <1>3 DEF Next, Main

\* An unconfirmed destructive edit was accepted by the human of this very call.
THEOREM ConsentComesFirst == Spec => NoChangeWithoutConsent
  <1> DEFINE A == \A c \in Calls :
                    /\ applied'[c] # applied[c]
                    /\ Destructive(request[c], content)
                    /\ request[c].mode = "ask"
                    => slot[c] = "accept" /\ reply[c] \notin Refusals
  <1>1. IInv /\ [Next]_vars => [A]_vars
    <2> SUFFICES ASSUME IInv, [Next]_vars, NEW c \in Calls, applied'[c] # applied[c],
                        Destructive(request[c], content), request[c].mode = "ask"
                 PROVE  slot[c] = "accept" /\ reply[c] \notin Refusals
      OBVIOUS
    <2>1. RunJob
      BY EditIsRunJob
    <2>2. current \in Jobs /\ future[current] = "queued"
      BY <2>1, RunJobShape
    <2>3. current.call = c
      BY <2>1, RunJobShape DEF Change, NoChange, IInv, TypeOK
    <2>4. current.phase = "mutate"
      <3>1. request[c].verb # "plain"
        BY DEF Destructive
      <3>2. RunGated
        <4>1. ~NoChange
          BY DEF NoChange
        <4> QED
          BY <2>1, <2>3, <3>1, <4>1 DEF RunJob, RunPlain, RunNoEdit, RunGate
      <3> QED
        BY <2>3, <3>2 DEF RunGated, Confirmed
    <2>5. future[Job(c, "mutate")] = "queued"
      BY <2>2, <2>3, <2>4, JobFacts
    <2> QED
      BY <2>5 DEF IInv, StageInv
  <1> QED
    BY <1>1, Invariance, PTL DEF Spec, NoChangeWithoutConsent

\* The first answer that settles a slot stays: no later answer, and no step of the
\* call's own thread, replaces it.
THEOREM FirstAnswerStays == Spec => FirstAnswerWins
  <1> DEFINE A == \A c \in Calls : slot[c] \in Answers => slot'[c] = slot[c]
  <1>1. IInv /\ [Next]_vars => [A]_vars
    <2> SUFFICES ASSUME IInv, Next, NEW c \in Calls, slot[c] \in Answers
                 PROVE  slot'[c] = slot[c]
      OBVIOUS
    <2>1. slot \in [Calls -> {"none", "created", "open"} \cup Says]
          /\ slot[c] \notin {"none", "created"}
      BY DEF IInv, TypeOK, Answers
    <2>2. ASSUME NEW d \in Calls, Client(d) \/ Thread(d) PROVE slot'[c] = slot[c]
      <3>1. CASE UNCHANGED slot
        BY <3>1
      <3>2. CASE BeginElicitation(d) \/ WritePrompt(d)
        <4>1. d # c
          BY <2>1, <3>2 DEF BeginElicitation, WritePrompt, IInv, SlotInv
        <4> QED
          BY <2>1, <3>2, <4>1 DEF BeginElicitation, WritePrompt
      <3>3. UNCHANGED slot \/ BeginElicitation(d) \/ WritePrompt(d)
        BY <2>2 DEF Client, Post, PostAnswer, Disconnect, Thread, Stream, TakeCall, ValidateTimeout,
               ValidateReply, WritePromptFails, PollMiss, MissedShutdown, MissedTimeout, MissedBeat,
               MissedBeatFails, StreamDropped, AnswerRefuses, AnswerAccepts, MutateTimeout,
               MutateReply, askVars
      <3> QED
        BY <3>1, <3>2, <3>3
    <2>3. ASSUME NEW a \in AnswerMsg, DeliverLookup(a) \/ Settle(a) PROVE slot'[c] = slot[c]
      BY <2>1, <2>3 DEF DeliverLookup, Settle, AnswerMsg
    <2>4. CASE Initialize \/ Main
      BY <2>4 DEF Initialize, Main, PopJob, RunJob, RunPlain, RunNoEdit, RunGate, RunGated, Resolve,
             UserEdit, BeginStop, Unload, Unloaded, askVars, vars
    <2> QED
      BY <2>2, <2>3, <2>4 DEF Next
  <1> QED
    BY <1>1, Invariance, PTL DEF Spec, FirstAnswerWins

\* A slot that has settled on "accept" sends its waiting stream to the mutation: the
\* slot is still the registry's (SlotInv), so the poll neither misses nor refuses.  The
\* stream only ends otherwise when the client or the server is gone.
THEOREM AcceptIsHonoured == Spec => AcceptHonoured
  <1> DEFINE A == \A c \in Calls :
                    stage[c] = "awaiting" /\ slot[c] = "accept" /\ stage'[c] # "awaiting"
                      => stage'[c] = "mutating" \/ reply'[c] = "closed"
  <1>1. IInv /\ [Next]_vars => [A]_vars
    <2> SUFFICES ASSUME IInv, Next, NEW c \in Calls, stage[c] = "awaiting", slot[c] = "accept",
                        stage'[c] # "awaiting"
                 PROVE  stage'[c] = "mutating" \/ reply'[c] = "closed"
      OBVIOUS
    <2>1. stage \in [Calls -> Stages] /\ reply \in [Calls -> Replies \cup {"none"}]
      BY DEF IInv, TypeOK
    <2>2. Settled(c)
      BY DEF Settled, Answers
    <2>3. Proceed(c)
      BY DEF IInv, SlotInv, Proceed, Streaming
    <2>4. ASSUME NEW d \in Calls, Client(d) \/ Thread(d)
          PROVE  stage'[c] = "mutating" \/ reply'[c] = "closed"
      <3>1. d = c
        BY <2>1, <2>4 DEF Client, Post, PostAnswer, Disconnect, Thread, Stream, TakeCall, ValidateTimeout,
               ValidateReply, BeginElicitation, WritePrompt, WritePromptFails, PollMiss, MissedShutdown,
               MissedTimeout, MissedBeat, MissedBeatFails, StreamDropped, AnswerRefuses, AnswerAccepts,
               MutateTimeout, MutateReply, Goto, Finish
      <3>2. StreamDropped(c) \/ AnswerAccepts(c)
        BY <2>2, <2>3, <2>4, <3>1 DEF Client, Post, PostAnswer, Disconnect, Thread, Stream, TakeCall,
               ValidateTimeout, ValidateReply, BeginElicitation, WritePrompt, WritePromptFails, PollMiss,
               MissedShutdown, MissedTimeout, MissedBeat, MissedBeatFails, AnswerRefuses, MutateTimeout,
               MutateReply
      <3> QED
        BY <2>1, <3>2 DEF StreamDropped, AnswerAccepts, Goto, Finish, Stages
    <2>5. ASSUME NEW a \in AnswerMsg, DeliverLookup(a) \/ Settle(a) PROVE FALSE
      BY <2>5 DEF DeliverLookup, Settle
    <2>6. CASE Initialize \/ Main
      BY <2>6 DEF Initialize, Main, PopJob, RunJob, RunPlain, RunNoEdit, RunGate, RunGated, Resolve,
             UserEdit, BeginStop, Unload, Unloaded, vars
    <2> QED
      BY <2>4, <2>5, <2>6 DEF Next
  <1> QED
    BY <1>1, Invariance, PTL DEF Spec, AcceptHonoured

-----------------------------------------------------------------------------
(* The refinement of CallContract. *)

\* How the mapped state of one call follows from the invariant.
LEMMA BarFacts ==
  ASSUME IInv, NEW c \in Calls
  PROVE  /\ applied[c] \in {0, 1}
         /\ Void(c) => applied[c] = 0 /\ stage[c] = "done"
         /\ reply[c] = "none" => stage[c] # "done" /\ ~Void(c)
         /\ reply[c] = "applied" => applied[c] = 1 /\ ~Void(c)
         /\ stage[c] = "unsent" => applied[c] = 0 /\ reply[c] = "none"
  <1>1. reply[c] = "none" <=> stage[c] # "done"
    BY DEF IInv, StageInv
  <1>2. "none" \notin SaysNotApplied /\ "applied" \notin SaysNotApplied
    BY DEF SaysNotApplied, Refusals
  <1>3. Void(c) => applied[c] = 0
    BY ReplyTellsTruthInv DEF ReplyTellsTruth, Void, SaysNotApplied
  <1>4. Void(c) => reply[c] # "none" /\ reply[c] # "applied"
    BY <1>2 DEF Void
  <1>5. reply[c] = "applied" => applied[c] = 1
    BY ReplyTellsTruthInv DEF ReplyTellsTruth
  <1>6. applied[c] \in {0, 1}
    BY DEF IInv, EditInv
  <1>7. stage[c] = "unsent" => applied[c] = 0
    BY DEF IInv, StageInv, EditInv, NoEdit
  <1> QED
    BY <1>1, <1>3, <1>4, <1>5, <1>6, <1>7

\* A step that leaves the variables of the mapping alone is a stutter of the contract.
LEMMA BarUnchanged ==
  ASSUME UNCHANGED <<applied, reply, stage, slot, request>>
  PROVE  UNCHANGED <<FateBar, ConsentBar, ToldBar>>
  BY DEF FateBar, ConsentBar, ToldBar, Void

\* A step that concerns one call moves only that call's entries of the mapping.
LEMMA BarAt ==
  ASSUME TypeOK, TypeOK', NEW c \in Calls, request' = request,
         \A d \in Calls : d # c => /\ applied'[d] = applied[d] /\ reply'[d] = reply[d]
                                   /\ stage'[d] = stage[d] /\ slot'[d] = slot[d]
  PROVE  /\ FateBar' = [FateBar EXCEPT ![c] = FateBar'[c]]
         /\ ConsentBar' = [ConsentBar EXCEPT ![c] = ConsentBar'[c]]
         /\ ToldBar' = [ToldBar EXCEPT ![c] = ToldBar'[c]]
  <1>1. \A d \in Calls : d # c => (Void(d)' <=> Void(d))
    BY DEF Void
  <1>2. \A d \in Calls : d # c => FateBar'[d] = FateBar[d]
    BY <1>1 DEF FateBar
  <1>3. \A d \in Calls : d # c => ConsentBar'[d] = ConsentBar[d]
    BY DEF ConsentBar
  <1>4. \A d \in Calls : d # c => ToldBar'[d] = ToldBar[d]
    BY <1>1 DEF ToldBar
  <1>5. /\ FateBar = [d \in Calls |-> FateBar[d]] /\ FateBar' = [d \in Calls |-> FateBar'[d]]
        /\ ConsentBar = [d \in Calls |-> ConsentBar[d]]
        /\ ConsentBar' = [d \in Calls |-> ConsentBar'[d]]
        /\ ToldBar = [d \in Calls |-> ToldBar[d]] /\ ToldBar' = [d \in Calls |-> ToldBar'[d]]
    BY DEF FateBar, ConsentBar, ToldBar
  <1> HIDE DEF FateBar, ConsentBar, ToldBar
  <1> QED
    BY <1>2, <1>3, <1>4, <1>5

\* Writing the result of a call tells its client what the contract allows.
LEMMA FinishTells ==
  ASSUME IInv, IInv', NEW c \in Calls, NEW r \in Replies, Finish(c, r),
         reply[c] = "none", stage[c] # "unsent", UNCHANGED <<slot, applied, request>>
  PROVE  Contract!Step(c)
  <1>1. /\ reply'[c] = r /\ stage'[c] = "done"
        /\ \A d \in Calls : d # c => reply'[d] = reply[d] /\ stage'[d] = stage[d]
    BY DEF Finish, Goto, IInv, TypeOK
  <1>2. /\ FateBar' = [FateBar EXCEPT ![c] = FateBar'[c]]
        /\ ConsentBar' = ConsentBar
        /\ ToldBar' = [ToldBar EXCEPT ![c] = ToldBar'[c]]
    <2>1. ConsentBar' = ConsentBar
      BY DEF ConsentBar
    <2> QED
      BY <1>1, <2>1, BarAt DEF IInv
  <1>3. ToldBar[c] = "nothing" /\ ~Void(c)
    BY BarFacts DEF ToldBar
  <1>4. /\ FateBar[c] = IF applied[c] > 0 THEN "applied" ELSE "open"
        /\ applied[c] \in {0, 1}
    BY <1>3, BarFacts DEF FateBar
  <1>5. r # "none"
    BY DEF Replies, Results, Refusals
  <1>6. FateBar = [d \in Calls |-> FateBar[d]] /\ ToldBar = [d \in Calls |-> ToldBar[d]]
    BY DEF FateBar, ToldBar
  <1>7. /\ Void(c)' => applied'[c] = 0
        /\ r = "applied" => applied'[c] = 1 /\ ~Void(c)'
    <2>1. ReplyTellsTruth'
      BY ReplyTellsTruthInv, PTL
    <2>2. Void(c)' => applied'[c] = 0
      BY <2>1 DEF ReplyTellsTruth, Void, SaysNotApplied
    <2>3. r = "applied" => applied'[c] = 1
      BY <1>1, <2>1 DEF ReplyTellsTruth
    <2>4. r = "applied" => ~Void(c)'
      BY <1>1 DEF Void, SaysNotApplied, Refusals
    <2> QED
      BY <2>2, <2>3, <2>4
  <1>8. CASE r = "applied"
    <2>1. ToldBar'[c] = "applied" /\ FateBar'[c] = "applied" /\ FateBar[c] = "applied"
      BY <1>1, <1>4, <1>7, <1>8 DEF ToldBar, FateBar
    <2>2. FateBar' = FateBar
      BY <1>2, <1>6, <2>1
    <2> QED
      BY <1>2, <1>3, <2>1, <2>2 DEF Contract!Step, Contract!TellApplied
  <1>9. CASE r # "applied" /\ Void(c)'
    <2>1. ToldBar'[c] = "notApplied" /\ FateBar'[c] = "void" /\ FateBar[c] = "open"
      BY <1>1, <1>4, <1>5, <1>7, <1>9 DEF ToldBar, FateBar
    <2> QED
      BY <1>2, <1>3, <2>1 DEF Contract!Step, Contract!TellNotApplied
  <1>10. CASE r # "applied" /\ ~Void(c)'
    <2>1. ToldBar'[c] = "unknown" /\ FateBar'[c] = FateBar[c]
      BY <1>1, <1>4, <1>5, <1>10 DEF ToldBar, FateBar
    <2>2. FateBar' = FateBar
      BY <1>2, <1>6, <2>1
    <2> QED
      BY <1>2, <1>3, <1>4, <2>1, <2>2 DEF Contract!Step, Contract!TellUnknown
  <1> QED
    BY <1>8, <1>9, <1>10

\* The steps of a connection thread and of its client.
LEMMA ThreadSimulates ==
  ASSUME IInv, IInv', NEW c \in Calls, Client(c) \/ Thread(c)
  PROVE  Contract!Step(c) \/ UNCHANGED <<FateBar, ConsentBar, ToldBar>>
  <1> USE DEF callVars, mainVars, askVars
  <1>1. /\ stage[c] = "done" <=> reply[c] # "none"
        /\ future[Job(c, "validate")] \in {"none", "queued"} \cup Results
        /\ future[Job(c, "mutate")] \in {"none", "queued"} \cup Results
    BY JobFacts DEF IInv, StageInv, TypeOK
  <1>2. ASSUME NEW r \in Replies, Finish(c, r), stage[c] \notin {"unsent", "done"},
               UNCHANGED <<slot, applied, request>>
        PROVE  Contract!Step(c)
    BY <1>1, <1>2, FinishTells
  <1>3. CASE ValidateTimeout(c) \/ MutateTimeout(c)
    BY <1>2, <1>3 DEF ValidateTimeout, MutateTimeout, Replies
  <1>4. CASE ValidateReply(c)
    BY <1>1, <1>2, <1>4 DEF ValidateReply, Ready, Replies
  <1>5. CASE MutateReply(c)
    BY <1>1, <1>2, <1>5 DEF MutateReply, Ready, Replies
  <1>6. CASE WritePromptFails(c) \/ MissedShutdown(c)
    BY <1>2, <1>6 DEF WritePromptFails, MissedShutdown, Replies
  <1>7. CASE MissedTimeout(c) \/ MissedBeatFails(c) \/ StreamDropped(c)
    BY <1>2, <1>7 DEF MissedTimeout, MissedBeatFails, StreamDropped, Replies, Refusals
  <1>8. CASE AnswerRefuses(c)
    BY <1>2, <1>8 DEF AnswerRefuses, Refusal, Replies, Refusals
  <1>9. CASE Disconnect(c) \/ \E s \in Says : PostAnswer(c, s)
    BY <1>9, BarUnchanged DEF Disconnect, PostAnswer
  <1>10. ASSUME NEW s \in Stages, Goto(c, s), stage[c] \notin {"unsent", "done"}, s # "unsent",
                UNCHANGED <<slot, applied, request, reply>>
         PROVE  UNCHANGED <<FateBar, ConsentBar, ToldBar>>
    <2>1. \A d \in Calls : (stage'[d] = "unsent" <=> stage[d] = "unsent") /\ (Void(d)' <=> Void(d))
      BY <1>10 DEF Goto, IInv, TypeOK, Void
    <2> QED
      BY <1>10, <2>1 DEF FateBar, ConsentBar, ToldBar
  <1>11. CASE TakeCall(c)
    BY <1>10, <1>11 DEF TakeCall, Stages
  <1>12. CASE PollMiss(c) \/ MissedBeat(c)
    BY <1>10, <1>12 DEF PollMiss, MissedBeat, Stages
  <1>13. CASE AnswerAccepts(c)
    BY <1>10, <1>13 DEF AnswerAccepts, Stages
  <1>14. CASE Post(c)
    <2>1. /\ stage[c] = "unsent" /\ stage'[c] = "arrived"
          /\ \A d \in Calls : d # c => stage'[d] = stage[d]
          /\ UNCHANGED <<slot, applied, request, reply>>
      BY <1>14 DEF Post, Goto, IInv, TypeOK
    <2>2. /\ applied[c] = 0 /\ ~Void(c) /\ ~Void(c)'
      <3>1. ~Void(c) /\ applied[c] = 0
        BY <2>1, BarFacts
      <3> QED
        BY <2>1, <3>1 DEF Void
    <2>3. FateBar[c] = "unsent" /\ FateBar'[c] = "open"
      BY <2>1, <2>2 DEF FateBar
    <2>4. FateBar' = [FateBar EXCEPT ![c] = "open"]
      BY <2>1, <2>3, BarAt DEF IInv
    <2>5. ConsentBar' = ConsentBar /\ ToldBar' = ToldBar
      BY <2>1 DEF ConsentBar, ToldBar, Void
    <2> QED
      BY <2>3, <2>4, <2>5 DEF Contract!Step, Contract!Send
  <1>15. CASE BeginElicitation(c)
    <2>1. /\ stage[c] = "validating" /\ stage'[c] = "prompting"
          /\ slot[c] = "none" /\ slot'[c] = "created"
          /\ \A d \in Calls : d # c => stage'[d] = stage[d] /\ slot'[d] = slot[d]
          /\ UNCHANGED <<applied, request, reply>>
      BY <1>15 DEF BeginElicitation, Goto, IInv, TypeOK, SlotInv
    <2>2. applied[c] = 0 /\ reply[c] = "none" /\ ~Void(c)
      <3>1. future[Job(c, "validate")] = "elicit" /\ future[Job(c, "mutate")] = "none"
        BY <1>15 DEF BeginElicitation, IInv, StageInv
      <3> QED
        BY <2>1, <3>1, <1>1, BarFacts DEF IInv, EditInv, NoEdit
    <2>3. FateBar[c] = "open" /\ ToldBar[c] = "nothing" /\ ConsentBar[c] = "notAsked"
          /\ ConsentBar'[c] = "asked"
      BY <2>1, <2>2 DEF FateBar, ToldBar, ConsentBar
    <2>4. ConsentBar' = [ConsentBar EXCEPT ![c] = "asked"]
      BY <2>1, <2>3, BarAt DEF IInv
    <2>5. \A d \in Calls : (stage'[d] = "unsent" <=> stage[d] = "unsent") /\ (Void(d)' <=> Void(d))
      BY <2>1 DEF Void
    <2>6. FateBar' = FateBar /\ ToldBar' = ToldBar
      BY <2>1, <2>5 DEF FateBar, ToldBar
    <2> QED
      BY <2>3, <2>4, <2>6 DEF Contract!Step, Contract!Ask
  <1>16. CASE WritePrompt(c)
    <2>1. /\ stage[c] = "prompting" /\ stage'[c] = "awaiting"
          /\ slot[c] = "created" /\ slot'[c] = "open"
          /\ \A d \in Calls : d # c => stage'[d] = stage[d] /\ slot'[d] = slot[d]
          /\ UNCHANGED <<applied, request, reply>>
      BY <1>16 DEF WritePrompt, Goto, IInv, TypeOK, SlotInv
    <2>2. \A d \in Calls : (stage'[d] = "unsent" <=> stage[d] = "unsent") /\ (Void(d)' <=> Void(d))
      BY <2>1 DEF Void
    <2>3. FateBar' = FateBar /\ ToldBar' = ToldBar
      BY <2>1, <2>2 DEF FateBar, ToldBar
    <2>4. ConsentBar' = ConsentBar
      BY <2>1 DEF ConsentBar
    <2> QED
      BY <2>3, <2>4
  <1> QED
    BY <1>3, <1>4, <1>5, <1>6, <1>7, <1>8, <1>9, <1>11, <1>12, <1>13, <1>14, <1>15, <1>16
       DEF Client, Thread, Stream

\* An answer that settles a slot is the contract's Answer, also when it comes too late.
LEMMA SettleSimulates ==
  ASSUME IInv, IInv', NEW a \in AnswerMsg, Settle(a)
  PROVE  Contract!Step(a.call) \/ UNCHANGED <<FateBar, ConsentBar, ToldBar>>
  <1>1. a.call \in Calls /\ a.says \in Answers
    BY SaysAssumption DEF AnswerMsg
  <1>2. UNCHANGED <<applied, reply, stage, request>>
    BY DEF Settle, callVars, mainVars
  <1>3. FateBar' = FateBar /\ ToldBar' = ToldBar
    BY <1>2 DEF FateBar, ToldBar, Void
  <1>4. CASE slot[a.call] \in Answers
    BY <1>2, <1>4, BarUnchanged DEF Settle
  <1>5. CASE slot[a.call] \notin Answers
    <2>1. /\ slot'[a.call] = a.says
          /\ \A d \in Calls : d # a.call => slot'[d] = slot[d]
      BY <1>1, <1>5 DEF Settle, IInv, TypeOK
    <2>2. slot[a.call] = "open"
      BY <1>1, <1>5, SaysAssumption DEF Settle, IInv, TypeOK, SlotInv
    <2>3. ConsentBar[a.call] = "asked" /\ ConsentBar'[a.call] \in {"granted", "refused"}
      BY <1>1, <2>1, <2>2 DEF ConsentBar, Answers
    <2>4. ConsentBar' = [ConsentBar EXCEPT ![a.call] = ConsentBar'[a.call]]
      BY <1>1, <1>2, <2>1, BarAt DEF IInv
    <2> QED
      BY <1>3, <2>3, <2>4 DEF Contract!Step, Contract!Answer
  <1> QED
    BY <1>4, <1>5

\* A handler's edit is the contract's Apply.
LEMMA RunJobSimulates ==
  ASSUME IInv, IInv', RunJob
  PROVE  (\E c \in Calls : Contract!Step(c)) \/ UNCHANGED <<FateBar, ConsentBar, ToldBar>>
  <1>1. /\ current \in Jobs /\ current.call \in Calls
        /\ future[current] = "queued" /\ current = Job(current.call, current.phase)
        /\ current.phase \in {"validate", "mutate"}
    BY RunJobShape, JobFacts DEF Phases
  <1>2. UNCHANGED <<reply, stage, slot, request>> /\ (Change(current.call) \/ NoChange)
    BY RunJobShape DEF Resolve, callVars, askVars
  <1>3. CASE NoChange
    BY <1>2, <1>3, BarUnchanged DEF NoChange
  <1>4. CASE Change(current.call)
    <2>0. PICK c \in Calls : c = current.call
      BY <1>1
    <2>1. /\ applied'[c] = applied[c] + 1
          /\ \A d \in Calls : d # c => applied'[d] = applied[d]
      BY <2>0, <1>1, <1>4 DEF Change, IInv, TypeOK
    <2>2. applied[c] = 0 /\ applied'[c] = 1
      BY <2>0, <1>1, <2>1 DEF IInv, EditInv
    <2>3. ~Void(c) /\ ~Void(c)' /\ stage[c] # "unsent"
      <3>1. ~Void(c)'
        <4>1. ReplyTellsTruth'
          BY ReplyTellsTruthInv, PTL
        <4> QED
          BY <2>0, <1>1, <2>2, <4>1 DEF ReplyTellsTruth, Void, SaysNotApplied
      <3>2. stage[c] # "unsent"
        BY <2>0, <1>1 DEF IInv, StageInv
      <3> QED
        BY <1>2, <3>1, <3>2 DEF Void
    <2>4. ConsentBar[c] \in {"notAsked", "granted"}
      <3>1. CASE current.phase = "validate"
        BY <2>0, <1>1, <3>1 DEF IInv, SlotInv, ConsentBar
      <3>2. CASE current.phase = "mutate"
        BY <2>0, <1>1, <3>2 DEF IInv, StageInv, ConsentBar
      <3> QED
        BY <2>0, <1>1, <3>1, <3>2
    <2>5. FateBar[c] = "open" /\ FateBar'[c] = "applied"
      BY <2>0, <1>1, <2>2, <2>3 DEF FateBar
    <2>6. FateBar' = [FateBar EXCEPT ![c] = "applied"]
      BY <2>0, <1>1, <1>2, <2>1, <2>5, BarAt DEF IInv
    <2>7. ConsentBar' = ConsentBar /\ ToldBar' = ToldBar
      BY <1>2 DEF ConsentBar, ToldBar, Void
    <2>8. Contract!Apply(c)
      BY <2>4, <2>5, <2>6, <2>7 DEF Contract!Apply
    <2> QED
      BY <2>0, <1>1, <2>8 DEF Contract!Step
  <1> QED
    BY <1>2, <1>3, <1>4

LEMMA InitSimulates == Init => Contract!Init
  BY DEF Init, Contract!Init, FateBar, ConsentBar, ToldBar, Void, SaysNotApplied, Refusals

LEMMA NextSimulates ==
  IInv /\ IInv' /\ [Next]_vars => [Contract!Next]_(Contract!cvars)
  <1> SUFFICES ASSUME IInv, IInv', [Next]_vars
               PROVE  (\E c \in Calls : Contract!Step(c))
                        \/ UNCHANGED <<FateBar, ConsentBar, ToldBar>>
    BY DEF Contract!Next, Contract!cvars
  <1>1. ASSUME NEW c \in Calls, Client(c) \/ Thread(c)
        PROVE  Contract!Step(c) \/ UNCHANGED <<FateBar, ConsentBar, ToldBar>>
    BY <1>1, ThreadSimulates
  <1>2. ASSUME NEW a \in AnswerMsg, Settle(a)
        PROVE  (\E c \in Calls : Contract!Step(c)) \/ UNCHANGED <<FateBar, ConsentBar, ToldBar>>
    BY <1>2, SettleSimulates DEF AnswerMsg
  <1>3. ASSUME NEW a \in AnswerMsg, DeliverLookup(a)
        PROVE  UNCHANGED <<FateBar, ConsentBar, ToldBar>>
    BY <1>3, BarUnchanged DEF DeliverLookup, callVars, mainVars
  <1>4. CASE RunJob
    BY <1>4, RunJobSimulates
  <1>5. CASE Initialize \/ PopJob \/ UserEdit
    BY <1>5, BarUnchanged DEF Initialize, PopJob, UserEdit, callVars, mainVars, askVars
  <1>6. CASE BeginStop \/ Unload \/ Unloaded \/ UNCHANGED vars
    BY <1>6, BarUnchanged DEF BeginStop, Unload, Unloaded, callVars, mainVars, askVars, vars
  <1> QED
    BY <1>1, <1>2, <1>3, <1>4, <1>5, <1>6 DEF Next, Main

\* The call lanes implement the contract: consent, at most one edit, final replies.
THEOREM Refinement == Spec => ImplementsContract
  BY InitSimulates, NextSimulates, Invariance, PTL DEF Spec, ImplementsContract, Contract!Spec

=============================================================================
