----------------------------- MODULE McpServer -----------------------------
(***************************************************************************)
(* The tools/call lanes of the MCP server: HTTP worker threads that accept *)
(* calls, marshal them onto REAPER's main thread through MainThreadQueue,  *)
(* wait for the answer with a time limit, and - for a destructive verb     *)
(* that needs the human's OK - hold an SSE stream open while the           *)
(* ElicitationRegistry waits for the client's answer.                      *)
(*                                                                         *)
(* Time is abstract: every wait_for may expire at any moment at which its  *)
(* condition is still false.  The project is abstracted to the content of  *)
(* the one place the calls write to, which the user may edit as well.      *)
(***************************************************************************)
EXTENDS Naturals, Sequences, FiniteSets

CONSTANTS
    Calls,      \* tools/call requests, each with its own JSON-RPC id
    Contents,   \* the project contents a call may propose
    Empty,      \* the content of a project without tracks
    Requests,   \* the requests the clients send
    Says,       \* the answers a client gives to an elicitation
    PoolSize    \* worker threads of the HTTP server

Verbs == {"plain", "replace", "setup"}
Answers == {"accept", "acceptUnconfirmed", "decline", "cancel", "error"}

\* lane: a single message ("http") or a member of a batch array ("batch").
\* verb: an ungated mutation, a chunk verb (track.set_state_chunk,
\*       track.patch_state) or spatial.setup_immersive_session.
\* mode: the dryRun / confirm arguments; want: the proposed content.
RequestShape == [lane : {"http", "batch"}, verb : Verbs,
                 mode : {"ask", "confirmed", "dryRun"}, want : Contents]

ASSUME ContentsAssumption == Empty \notin Contents
ASSUME RequestsAssumption == Requests # {} /\ Requests \subseteq RequestShape
ASSUME SaysAssumption == Says \subseteq Answers
ASSUME PoolAssumption == PoolSize \in Nat \ {0}

VARIABLES
    request,            \* what each call asks for
    capable,            \* the value of the handler's ElicitationScope, per call
    stage,              \* where the connection thread of each call is
    queue,              \* MainThreadQueue::queue_
    current,            \* the job the main thread is running, or NoJob
    future,             \* the shared state of each job's std::future
    pending,            \* keys of ElicitationRegistry::pending_
    slot,               \* the Slot of each call's elicitation
    posted,             \* answers on the wire, no thread has taken them yet
    held,               \* answers whose thread has looked the slot up
    reply,              \* the result written for each call
    connected,          \* calls whose client still reads the response
    clientElicitation,  \* McpServer::clientElicitation_
    host,               \* the extension: loaded, stopping, unloaded
    content,            \* the project
    applied             \* how often each call has changed the project

vars == <<request, capable, stage, queue, current, future, pending, slot, posted,
          held, reply, connected, clientElicitation, host, content, applied>>

callVars == <<request, capable, connected>>
mainVars == <<current, content, applied>>
askVars  == <<pending, slot, posted, held>>

Phases == {"validate", "mutate"}
Jobs   == [call : Calls, phase : Phases]
NoJob  == [call |-> "none", phase |-> "none"]
Job(c, p) == [call |-> c, phase |-> p]

Results   == {"applied", "unchanged", "preview", "confirmationRequired", "threw", "elicit"}
Refusals  == {"declined", "cancelled", "clientError", "promptTimeout"}
Replies   == Results \cup Refusals \cup {"callTimeout", "mutationTimeout", "closed"}
Stages    == {"unsent", "arrived", "validating", "prompting", "awaiting", "missed",
              "mutating", "done"}
Streaming == {"prompting", "awaiting", "missed"}
InHandler == Streaming \cup {"validating", "mutating"}
Project   == Contents \cup {Empty}
AnswerMsg == [call : Calls, says : Says]

TypeOK ==
    /\ request \in [Calls -> Requests]
    /\ capable \in [Calls -> BOOLEAN]
    /\ stage \in [Calls -> Stages]
    /\ queue \in Seq(Jobs)
    /\ current \in Jobs \cup {NoJob}
    /\ future \in [Jobs -> {"none", "queued"} \cup Results]
    /\ pending \subseteq Calls
    /\ slot \in [Calls -> {"none", "created", "open"} \cup Says]
    /\ posted \subseteq AnswerMsg
    /\ held \subseteq AnswerMsg
    /\ reply \in [Calls -> Replies \cup {"none"}]
    /\ connected \subseteq Calls
    /\ clientElicitation \in BOOLEAN
    /\ host \in {"loaded", "stopping", "unloaded"}
    /\ content \in Project
    /\ applied \in [Calls -> Nat]

Init ==
    /\ request \in [Calls -> Requests]
    /\ capable = [c \in Calls |-> FALSE]
    /\ stage = [c \in Calls |-> "unsent"]
    /\ queue = <<>>
    /\ current = NoJob
    /\ future = [j \in Jobs |-> "none"]
    /\ pending = {}
    /\ slot = [c \in Calls |-> "none"]
    /\ posted = {}
    /\ held = {}
    /\ reply = [c \in Calls |-> "none"]
    /\ connected = Calls
    /\ clientElicitation = FALSE
    /\ host = "loaded"
    /\ content \in Project
    /\ applied = [c \in Calls |-> 0]

BusyThreads == {c \in Calls : stage[c] \in InHandler}
FreeThread  == Cardinality(BusyThreads) + Cardinality(held) < PoolSize

Goto(c, s) == stage' = [stage EXCEPT ![c] = s]

Finish(c, r) == Goto(c, "done") /\ reply' = [reply EXCEPT ![c] = r]

\* MainThreadQueue::submit: append under the mutex and hand out the future.
Submit(j) ==
    /\ queue' = Append(queue, j)
    /\ future' = [future EXCEPT ![j] = "queued"]

Ready(j) == future[j] \notin {"none", "queued"}

-----------------------------------------------------------------------------
(* Clients. *)

Post(c) ==
    /\ host = "loaded"
    /\ stage[c] = "unsent"
    /\ Goto(c, "arrived")
    /\ UNCHANGED <<callVars, queue, future, askVars, reply, clientElicitation, host, mainVars>>

\* A client that has read elicitation/create answers it, perhaps more than once
\* and perhaps too late: the answer is a POST of its own.
PostAnswer(c, s) ==
    /\ host = "loaded"
    /\ slot[c] \notin {"none", "created"}
    /\ posted' = posted \cup {[call |-> c, says |-> s]}
    /\ UNCHANGED <<callVars, stage, queue, future, pending, slot, held, reply,
                   clientElicitation, host, mainVars>>

Disconnect(c) ==
    /\ c \in connected
    /\ stage[c] \notin {"unsent", "done"}
    /\ connected' = connected \ {c}
    /\ UNCHANGED <<request, capable, stage, queue, future, askVars, reply,
                   clientElicitation, host, mainVars>>

\* handleInitialize: any session's handshake overwrites the one flag.
Initialize ==
    /\ host = "loaded"
    /\ FreeThread
    /\ clientElicitation' \in BOOLEAN
    /\ UNCHANGED <<callVars, stage, queue, future, askVars, reply, host, mainVars>>

-----------------------------------------------------------------------------
(* The connection thread of a call. *)

\* The POST route picks the lane; the batch lane runs the handler without an
\* ElicitationScope, so the main thread's flag stays FALSE for it.
TakeCall(c) ==
    /\ host = "loaded"
    /\ stage[c] = "arrived"
    /\ FreeThread
    /\ capable' = [capable EXCEPT ![c] = request[c].lane = "http" /\ clientElicitation]
    /\ Submit(Job(c, "validate"))
    /\ Goto(c, "validating")
    /\ UNCHANGED <<request, connected, askVars, reply, clientElicitation, host, mainVars>>

\* Mutant: wait_for in a loop, without an overall limit.
ValidateTimeout_NoLimit(c) ==
    /\ stage[c] = "validating"
    /\ ~Ready(Job(c, "validate"))
    /\ UNCHANGED vars

ValidateTimeout(c) ==
    /\ stage[c] = "validating"
    /\ ~Ready(Job(c, "validate"))
    /\ Finish(c, "callTimeout")
    /\ UNCHANGED <<callVars, queue, future, askVars, clientElicitation, host, mainVars>>

ValidateReply(c) ==
    /\ stage[c] = "validating"
    /\ Ready(Job(c, "validate"))
    /\ future[Job(c, "validate")] # "elicit"
    /\ Finish(c, future[Job(c, "validate")])
    /\ UNCHANGED <<callVars, queue, future, askVars, clientElicitation, host, mainVars>>

\* The handler threw ElicitationRequest: create the slot, answer with a stream.
BeginElicitation(c) ==
    /\ stage[c] = "validating"
    /\ future[Job(c, "validate")] = "elicit"
    /\ pending' = pending \cup {c}
    /\ slot' = [slot EXCEPT ![c] = "created"]
    /\ Goto(c, "prompting")
    /\ UNCHANGED <<callVars, queue, future, posted, held, reply, clientElicitation, host,
                   mainVars>>

\* Phase 0 of the content provider.  A write to a client that has gone away
\* may still succeed into the socket buffer.
WritePrompt(c) ==
    /\ stage[c] = "prompting"
    /\ slot' = [slot EXCEPT ![c] = "open"]
    /\ Goto(c, "awaiting")
    /\ UNCHANGED <<callVars, queue, future, pending, posted, held, reply, clientElicitation,
                   host, mainVars>>

WritePromptFails(c) ==
    /\ stage[c] = "prompting"
    /\ c \notin connected
    /\ pending' = pending \ {c}
    /\ Finish(c, "closed")
    /\ UNCHANGED <<callVars, queue, future, slot, posted, held, clientElicitation, host,
                   mainVars>>

\* Mutant: the wait predicate forgets slot->done.
Settled_NotDone(c) == c \notin pending

Settled(c) == c \notin pending \/ slot[c] \in Answers

\* Mutant: wait(), which removes the slot after the slice, in place of poll().
PollMiss_Wait(c) ==
    /\ stage[c] = "awaiting"
    /\ ~Settled(c)
    /\ pending' = pending \ {c}
    /\ Goto(c, "missed")
    /\ UNCHANGED <<callVars, queue, future, slot, posted, held, reply, clientElicitation,
                   host, mainVars>>

PollMiss(c) ==
    /\ stage[c] = "awaiting"
    /\ ~Settled(c)
    /\ Goto(c, "missed")
    /\ UNCHANGED <<callVars, queue, future, askVars, reply, clientElicitation, host, mainVars>>

MissedShutdown(c) ==
    /\ stage[c] = "missed"
    /\ host # "loaded"
    /\ pending' = pending \ {c}
    /\ Finish(c, "closed")
    /\ UNCHANGED <<callVars, queue, future, slot, posted, held, clientElicitation, host,
                   mainVars>>

MissedTimeout(c) ==
    /\ stage[c] = "missed"
    /\ host = "loaded"
    /\ pending' = pending \ {c}
    /\ Finish(c, "promptTimeout")
    /\ UNCHANGED <<callVars, queue, future, slot, posted, held, clientElicitation, host,
                   mainVars>>

MissedBeat(c) ==
    /\ stage[c] = "missed"
    /\ host = "loaded"
    /\ Goto(c, "awaiting")
    /\ UNCHANGED <<callVars, queue, future, askVars, reply, clientElicitation, host, mainVars>>

\* `return sink.write(kBeat, ...)`: the provider ends without remove().
MissedBeatFails(c) ==
    /\ stage[c] = "missed"
    /\ host = "loaded"
    /\ c \notin connected
    /\ Finish(c, "closed")
    /\ UNCHANGED <<callVars, queue, future, askVars, clientElicitation, host, mainVars>>

\* The HTTP library stops asking a provider for content once its peer is gone
\* or the server is shutting down; nothing is told to the registry.
StreamDropped(c) ==
    /\ stage[c] \in {"prompting", "awaiting"}
    /\ c \notin connected \/ host # "loaded"
    /\ Finish(c, "closed")
    /\ UNCHANGED <<callVars, queue, future, askVars, clientElicitation, host, mainVars>>

\* Mutant: content.confirm is not looked at.
Proceed_AnyAccept(c) == c \in pending /\ slot[c] \in {"accept", "acceptUnconfirmed"}

\* action == "accept" && (no confirm member || confirm)
Proceed(c) == c \in pending /\ slot[c] = "accept"

Refusal(c) ==
    IF c \in pending /\ slot[c] = "decline" THEN "declined"
    ELSE IF c \in pending /\ slot[c] = "error" THEN "clientError" ELSE "cancelled"

AnswerRefuses(c) ==
    /\ stage[c] = "awaiting"
    /\ Settled(c)
    /\ ~Proceed(c)
    /\ pending' = pending \ {c}
    /\ Finish(c, Refusal(c))
    /\ UNCHANGED <<callVars, queue, future, slot, posted, held, clientElicitation, host,
                   mainVars>>

\* Re-marshal the mutation with confirm:true folded into the arguments.
AnswerAccepts(c) ==
    /\ stage[c] = "awaiting"
    /\ Settled(c)
    /\ Proceed(c)
    /\ pending' = pending \ {c}
    /\ Submit(Job(c, "mutate"))
    /\ Goto(c, "mutating")
    /\ UNCHANGED <<callVars, slot, posted, held, reply, clientElicitation, host, mainVars>>

\* Mutant: the second time limit claims that nothing was changed.
MutateTimeout_Claims(c) ==
    /\ stage[c] = "mutating"
    /\ ~Ready(Job(c, "mutate"))
    /\ Finish(c, "promptTimeout")
    /\ UNCHANGED <<callVars, queue, future, askVars, clientElicitation, host, mainVars>>

\* Mutant: the mutation is submitted again when its wait expires.
MutateTimeout_Retry(c) ==
    /\ stage[c] = "mutating"
    /\ ~Ready(Job(c, "mutate"))
    /\ Submit(Job(c, "mutate"))
    /\ UNCHANGED <<callVars, stage, reply, askVars, clientElicitation, host, mainVars>>

MutateTimeout(c) ==
    /\ stage[c] = "mutating"
    /\ ~Ready(Job(c, "mutate"))
    /\ Finish(c, "mutationTimeout")
    /\ UNCHANGED <<callVars, queue, future, askVars, clientElicitation, host, mainVars>>

MutateReply(c) ==
    /\ stage[c] = "mutating"
    /\ Ready(Job(c, "mutate"))
    /\ Finish(c, future[Job(c, "mutate")])
    /\ UNCHANGED <<callVars, queue, future, askVars, clientElicitation, host, mainVars>>

-----------------------------------------------------------------------------
(* The thread of an answer: ElicitationRegistry::deliver. *)

\* lookup() under mu_; an unknown id is a no-op.
DeliverLookup(a) ==
    /\ host = "loaded"
    /\ a \in posted
    /\ FreeThread
    /\ posted' = posted \ {a}
    /\ held' = IF a.call \in pending THEN held \cup {a} ELSE held
    /\ UNCHANGED <<callVars, stage, queue, future, pending, slot, reply, clientElicitation,
                   host, mainVars>>

\* Mutant: settle() without the check of slot->done.
Settle_LastWins(a) ==
    /\ a \in held
    /\ held' = held \ {a}
    /\ slot' = [slot EXCEPT ![a.call] = a.says]
    /\ UNCHANGED <<callVars, stage, queue, future, pending, posted, reply, clientElicitation,
                   host, mainVars>>

\* settle(): under the slot's own mutex, the first answer wins.
Settle(a) ==
    /\ a \in held
    /\ held' = held \ {a}
    /\ slot' = IF slot[a.call] \in Answers THEN slot ELSE [slot EXCEPT ![a.call] = a.says]
    /\ UNCHANGED <<callVars, stage, queue, future, pending, posted, reply, clientElicitation,
                   host, mainVars>>

-----------------------------------------------------------------------------
(* The main thread: drainMainThread, the handlers, the user, shutDown. *)

\* Mutant: the last job of a tick is left behind.
PopJob_LeavesOne ==
    /\ host = "loaded"
    /\ current = NoJob
    /\ Len(queue) > 1
    /\ current' = Head(queue)
    /\ queue' = Tail(queue)
    /\ UNCHANGED <<callVars, stage, future, askVars, reply, clientElicitation, host, content,
                   applied>>

PopJob ==
    /\ host = "loaded"
    /\ current = NoJob
    /\ queue # <<>>
    /\ current' = Head(queue)
    /\ queue' = Tail(queue)
    /\ UNCHANGED <<callVars, stage, future, askVars, reply, clientElicitation, host, content,
                   applied>>

Confirmed(j) == j.phase = "mutate" \/ request[j.call].mode = "confirmed"
ScopeCapable(j) == j.phase = "validate" /\ capable[j.call]

\* The gate of each destructive verb: set_state_chunk and patch_state ask when
\* the proposal differs from the current chunk, setup_immersive_session when
\* the project has tracks.
Destructive(r, p) ==
    \/ r.verb = "replace" /\ p # r.want
    \/ r.verb = "setup" /\ p # Empty

Resolve(r) ==
    /\ future' = [future EXCEPT ![current] = r]
    /\ current' = NoJob
    /\ UNCHANGED <<callVars, stage, queue, askVars, reply, clientElicitation, host>>

Change(c) ==
    /\ content' = request[c].want
    /\ applied' = [applied EXCEPT ![c] = @ + 1]

NoChange == UNCHANGED <<content, applied>>

\* An ungated verb edits, or throws before or after its edit.
RunPlain ==
    /\ current # NoJob
    /\ request[current.call].verb = "plain"
    /\ \/ Resolve("applied") /\ Change(current.call)
       \/ Resolve("threw") /\ (Change(current.call) \/ NoChange)

\* A gated verb that has nothing to do or only previews.
RunNoEdit ==
    /\ current # NoJob
    /\ LET r == request[current.call] IN
         \/ r.verb = "replace" /\ r.want = content /\ Resolve("unchanged")
         \/ r.verb = "replace" /\ r.want # content /\ r.mode = "dryRun" /\ Resolve("preview")
         \/ r.verb = "setup" /\ r.mode = "dryRun" /\ Resolve("preview")
    /\ NoChange

\* requireElicitation: throw when the scope says so, else fall through to the
\* confirmation_required result.
RunGate ==
    /\ current # NoJob
    /\ request[current.call].mode # "dryRun"
    /\ Destructive(request[current.call], content)
    /\ ~Confirmed(current)
    /\ Resolve(IF ScopeCapable(current) THEN "elicit" ELSE "confirmationRequired")
    /\ NoChange

\* The gate is open: apply in one UndoTransaction, or throw and roll back.
RunGated ==
    /\ current # NoJob
    /\ LET r == request[current.call] IN
         /\ r.verb # "plain"
         /\ r.mode # "dryRun"
         /\ r.verb = "replace" => r.want # content
         /\ Destructive(r, content) => Confirmed(current)
    /\ \/ Resolve("applied") /\ Change(current.call)
       \/ Resolve("threw") /\ NoChange

RunJob == RunPlain \/ RunNoEdit \/ RunGate \/ RunGated

\* The user edits the project between two jobs.
UserEdit ==
    /\ current = NoJob
    /\ host = "loaded"
    /\ content' \in Project \ {content}
    /\ UNCHANGED <<callVars, stage, queue, current, future, askVars, reply, clientElicitation,
                   host, applied>>

\* shutDown: unregister timer and csurf_inst, then running_ = false and stop
\* the listener.  It runs on the main thread, so no job is in progress.
BeginStop ==
    /\ host = "loaded"
    /\ current = NoJob
    /\ host' = "stopping"
    /\ UNCHANGED <<callVars, stage, queue, future, askVars, reply, clientElicitation, mainVars>>

\* worker_.join() waits for every handler; then everything is destroyed.
Unload ==
    /\ host = "stopping"
    /\ BusyThreads = {}
    /\ held = {}
    /\ host' = "unloaded"
    /\ queue' = <<>>
    /\ pending' = {}
    /\ posted' = {}
    /\ UNCHANGED <<callVars, stage, future, slot, held, reply, clientElicitation, mainVars>>

Unloaded == host = "unloaded" /\ UNCHANGED vars

-----------------------------------------------------------------------------
Stream(c) ==
    \/ BeginElicitation(c) \/ WritePrompt(c) \/ WritePromptFails(c)
    \/ PollMiss(c) \/ MissedShutdown(c) \/ MissedTimeout(c) \/ MissedBeat(c)
    \/ MissedBeatFails(c) \/ StreamDropped(c) \/ AnswerRefuses(c) \/ AnswerAccepts(c)

Thread(c) ==
    \/ TakeCall(c) \/ ValidateTimeout(c) \/ ValidateReply(c) \/ Stream(c)
    \/ MutateTimeout(c) \/ MutateReply(c)

Client(c) == Post(c) \/ Disconnect(c) \/ \E s \in Says : PostAnswer(c, s)

Main == PopJob \/ RunJob \/ UserEdit \/ BeginStop \/ Unload \/ Unloaded

Next ==
    \/ \E c \in Calls : Client(c) \/ Thread(c)
    \/ \E a \in AnswerMsg : DeliverLookup(a) \/ Settle(a)
    \/ Initialize
    \/ Main

Spec == Init /\ [][Next]_vars

\* A thread inside a handler keeps running and each of its waits expires; the
\* pool's FIFO reaches every request for which threads keep coming free; the
\* clock reaches elicitationTimeoutMs; REAPER pumps the main thread, whose
\* handlers return; the joined threads let shutDown finish.
Fairness ==
    /\ \A c \in Calls :
         /\ SF_vars(TakeCall(c))
         /\ WF_vars(ValidateTimeout(c) \/ ValidateReply(c) \/ BeginElicitation(c))
         /\ WF_vars(WritePrompt(c) \/ PollMiss(c) \/ AnswerRefuses(c) \/ AnswerAccepts(c))
         /\ WF_vars(MissedShutdown(c) \/ MissedTimeout(c) \/ MissedBeat(c))
         /\ SF_vars(MissedTimeout(c))
         /\ WF_vars(MutateTimeout(c) \/ MutateReply(c))
    /\ \A a \in AnswerMsg : SF_vars(DeliverLookup(a)) /\ WF_vars(Settle(a))
    /\ WF_vars(PopJob)
    /\ WF_vars(RunJob)
    /\ WF_vars(Unload)

FairSpec == Spec /\ Fairness
-----------------------------------------------------------------------------
(* Properties. *)

\* A destructive edit that the request did not confirm itself is only ever made
\* after the human accepted this call's own prompt, and never on a call that was
\* told it changed nothing (elicitation.h 10-18, handleToolsCallHttp).
NoChangeWithoutConsent ==
    [][\A c \in Calls :
         /\ applied'[c] # applied[c]
         /\ Destructive(request[c], content)
         /\ request[c].mode = "ask"
         => slot[c] = "accept" /\ reply[c] \notin Refusals]_vars

\* What a client is told about its call stays true: "applied" means once, a
\* refusal, a preview, an unchanged proposal, a request for confirmation, a
\* gated verb that threw and a stream that closed mean never - also later, when
\* abandoned jobs still leave the queue.
ReplyTellsTruth ==
    \A c \in Calls :
      /\ reply[c] = "applied" => applied[c] = 1
      /\ reply[c] \in Refusals \cup {"unchanged", "preview", "confirmationRequired", "closed"}
           => applied[c] = 0
      /\ reply[c] = "threw" /\ request[c].verb # "plain" => applied[c] = 0

\* Validation, elicitation and the re-submitted mutation never change the
\* project twice for one call, whatever times out in between.
AtMostOnce == \A c \in Calls : applied[c] <= 1

\* poll() of a waiting stream always finds its slot: the "missing id resolves as
\* Cancelled" case of the registry is never what a waiting human runs into.
PollFindsSlot == \A c \in Calls : stage[c] \in Streaming => c \in pending

\* Two answer POSTs that raced through lookup() cannot overrule one another.
FirstAnswerWins == [][\A c \in Calls : slot[c] \in Answers => slot'[c] = slot[c]]_vars

\* Every call that reached the server ends, though REAPER may not pump, no human
\* may answer and all threads may be held by prompts; the exception is a request
\* no thread had taken when the listener stopped.
EveryCallEnds ==
    \A c \in Calls : stage[c] # "unsent" ~>
        (stage[c] = "done" \/ (stage[c] = "arrived" /\ host # "loaded"))

\* An accept that has settled while the stream polls is acted on: the stream
\* leaves its wait for the mutation, or because the server or the client is gone,
\* and never for a time-out, a refusal or another slice of waiting.
AcceptHonoured ==
    [][\A c \in Calls :
         stage[c] = "awaiting" /\ slot[c] = "accept" /\ stage'[c] # "awaiting"
           => stage'[c] = "mutating" \/ reply'[c] = "closed"]_vars

\* A submitted job is run, also when its caller has stopped waiting for it.
JobRuns == \A j \in Jobs : future[j] = "queued" ~> (Ready(j) \/ host # "loaded")

\* shutDown joins threads that wait for the main thread, which no longer drains
\* the queue: the wait limits break the cycle.
ShutdownEnds == host = "stopping" ~> host = "unloaded"
-----------------------------------------------------------------------------
(* The contract of CallContract, as a function of this state. *)

SaysNotApplied == Refusals \cup {"unchanged", "preview", "confirmationRequired", "closed"}

\* A plain verb that threw may have changed the project before it threw.
Void(c) ==
    reply[c] \in SaysNotApplied \/ (reply[c] = "threw" /\ request[c].verb # "plain")

FateBar == [c \in Calls |->
    IF applied[c] > 0 THEN "applied"
    ELSE IF Void(c) THEN "void"
    ELSE IF stage[c] = "unsent" THEN "unsent" ELSE "open"]

ConsentBar == [c \in Calls |->
    IF slot[c] = "none" THEN "notAsked"
    ELSE IF slot[c] \in {"created", "open"} THEN "asked"
    ELSE IF slot[c] = "accept" THEN "granted" ELSE "refused"]

ToldBar == [c \in Calls |->
    IF reply[c] = "none" THEN "nothing"
    ELSE IF reply[c] = "applied" THEN "applied"
    ELSE IF Void(c) THEN "notApplied" ELSE "unknown"]

Contract == INSTANCE CallContract WITH
                fate <- FateBar, consent <- ConsentBar, told <- ToldBar

\* The lanes, the queue and the elicitation protocol implement the contract.
ImplementsContract == Contract!Spec
-----------------------------------------------------------------------------
(* The inductive invariant behind the safety properties. *)

\* Every job of the queue is unresolved and is in the queue, or in the hands of
\* the main thread, once.
JobsInv ==
    /\ \A i \in 1..Len(queue) : future[queue[i]] = "queued"
    /\ \A i, k \in 1..Len(queue) : queue[i] = queue[k] => i = k
    /\ current # NoJob =>
         /\ future[current] = "queued"
         /\ \A i \in 1..Len(queue) : queue[i] # current

\* Results of a job that has not edited, for any verb.
NoEdit == {"none", "queued", "unchanged", "preview", "confirmationRequired", "elicit"}

StageInv ==
    \A c \in Calls :
      LET v == future[Job(c, "validate")]
          m == future[Job(c, "mutate")]
      IN  /\ stage[c] \in {"unsent", "arrived"} => v = "none"
          /\ stage[c] \in Streaming => v = "elicit" /\ m = "none"
          /\ m # "none" => v = "elicit" /\ slot[c] = "accept" /\ stage[c] \in {"mutating", "done"}
          /\ stage[c] = "done" <=> reply[c] # "none"
          /\ reply[c] \in Results => reply[c] = m \/ (reply[c] = v /\ m = "none" /\ v # "elicit")
          /\ reply[c] \in Refusals \cup {"closed"} => v = "elicit" /\ m = "none"

\* How often a call has edited follows from the results of its two jobs.
EditInv ==
    \A c \in Calls :
      LET v == future[Job(c, "validate")]
          m == future[Job(c, "mutate")]
      IN  /\ applied[c] \in {0, 1}
          /\ v \in NoEdit /\ m \in NoEdit => applied[c] = 0
          /\ v = "applied" \/ m = "applied" => applied[c] = 1
          /\ request[c].verb # "plain" /\ v # "applied" /\ m # "applied" => applied[c] = 0

\* A slot exists only after its call's handler threw, is found by its stream and
\* is answered only by clients that have seen its id; no thread outlives the server.
SlotInv ==
    /\ \A c \in Calls :
         /\ slot[c] # "none" => future[Job(c, "validate")] = "elicit"
         /\ stage[c] = "validating" => slot[c] = "none"
         /\ stage[c] = "prompting" => slot[c] = "created"
         /\ stage[c] \in Streaming => c \in pending
         /\ stage[c] \in InHandler => host # "unloaded"
    /\ \A a \in posted \cup held : slot[a.call] \notin {"none", "created"}

IInv == TypeOK /\ JobsInv /\ StageInv /\ EditInv /\ SlotInv
=============================================================================
