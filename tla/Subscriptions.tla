--------------------------- MODULE Subscriptions ---------------------------
(***************************************************************************)
(* Push notifications: REAPER's Set* callbacks mark resource URIs dirty in *)
(* the SubscriptionHub (main thread); GET /mcp streams (HTTP threads)      *)
(* drain the hub and write notifications/resources/updated; the client     *)
(* re-reads what it is told of through the main-thread queue.              *)
(*                                                                         *)
(* The contents of a resource are abstracted to whether the client's last  *)
(* read of it is still current.                                            *)
(***************************************************************************)
EXTENDS Naturals, FiniteSets

CONSTANTS
    Uris,       \* the resources the client may watch
    Edits,      \* the changes the project goes through
    Streams,    \* GET /mcp connections, each used once
    MaxDrops,   \* connections the client may lose
    Resends     \* REAPER reports every track again after a track list change

State == "reaper://project/state"
Graph == "reaper://routing/graph"
Chunk == "reaper://track/0/chunk"
Events == {"TrackList", "PlayState", "Track", "MasterTrack"}

ASSUME UrisAssumption == Uris \subseteq {State, Graph, Chunk}
ASSUME EditsAssumption == Edits \subseteq Events
ASSUME DropsAssumption == MaxDrops \in Nat
ASSUME ResendsAssumption == Resends \in BOOLEAN

VARIABLES
    subscribed,     \* SubscriptionHub::subscribed_
    dirty,          \* SubscriptionHub::dirty_
    events,         \* callbacks REAPER has still to make
    stream,         \* idle, open or closed, per GET connection
    peer,           \* streams whose client still reads them
    batch,          \* drained URIs a stream has still to write
    fresh,          \* resources whose last answered read is current
    toRead,         \* resources the client knows it has to read
    reading,        \* resources/read jobs: none, queued, abandoned
    drops           \* connections lost so far

vars == <<subscribed, dirty, events, stream, peer, batch, fresh, toRead, reading, drops>>
hubVars == <<subscribed, dirty>>
sseVars == <<stream, peer, batch, drops>>
readVars == <<fresh, toRead, reading>>

\* The types; and the hub keeps no mark for a resource nobody watches, so that
\* an update pending when the client unsubscribed (subscription_hub.h 45-49) is
\* not delivered to a later subscription.
TypeOK ==
    /\ subscribed \subseteq Uris
    /\ dirty \subseteq subscribed
    /\ events \subseteq Events
    /\ stream \in [Streams -> {"idle", "open", "closed"}]
    /\ peer \subseteq Streams
    /\ batch \in [Streams -> SUBSET Uris]
    /\ fresh \subseteq Uris
    /\ toRead \subseteq Uris
    /\ reading \in [Uris -> {"none", "queued", "abandoned"}]
    /\ drops \in 0..MaxDrops

Init ==
    /\ subscribed = {}
    /\ dirty = {}
    /\ events = {}
    /\ stream = [s \in Streams |-> "idle"]
    /\ peer = {}
    /\ batch = [s \in Streams |-> {}]
    /\ fresh = {}
    /\ toRead = {}
    /\ reading = [u \in Uris |-> "none"]
    /\ drops = 0

-----------------------------------------------------------------------------
(* The main thread. *)

\* urisForEvent: track-scoped events name the snapshot and that track's chunk,
\* the master track has no chunk resource.
UrisForEvent(e) ==
    IF e = "TrackList" THEN {State, Graph}
    ELSE IF e = "Track" THEN {State, Chunk} ELSE {State}

\* What an edit really changes: with a track added, removed or moved the chunk
\* at a given index is another track's.
Changes(e) == IF e = "TrackList" THEN Uris ELSE UrisForEvent(e)

Reported(e) == IF e = "TrackList" /\ Resends THEN {e, "Track"} ELSE {e}

\* The user, or a tool, edits the project; REAPER then calls the surface.
Edit(e) ==
    /\ fresh' = fresh \ Changes(e)
    /\ events' = events \cup Reported(e)
    /\ UNCHANGED <<hubVars, sseVars, toRead, reading>>

\* SubscriptionHub::markDirty for each URI of the event.
Callback(e) ==
    /\ e \in events
    /\ events' = events \ {e}
    /\ dirty' = dirty \cup (UrisForEvent(e) \cap subscribed)
    /\ UNCHANGED <<subscribed, sseVars, readVars>>

\* A read job runs; an answer that comes after the time limit is lost.
RunRead(u) ==
    /\ reading[u] # "none"
    /\ fresh' = IF reading[u] = "queued" THEN fresh \cup {u} ELSE fresh
    /\ reading' = [reading EXCEPT ![u] = "none"]
    /\ UNCHANGED <<hubVars, events, sseVars, toRead>>

-----------------------------------------------------------------------------
(* Requests of the client. *)

\* A client subscribes first and reads the resource then.
Subscribe(u) ==
    /\ subscribed' = subscribed \cup {u}
    /\ toRead' = toRead \cup {u}
    /\ UNCHANGED <<dirty, events, sseVars, fresh, reading>>

\* Mutant: the pending mark survives.
Unsubscribe_KeepsMark(u) ==
    /\ subscribed' = subscribed \ {u}
    /\ toRead' = toRead \ {u}
    /\ UNCHANGED <<dirty, events, sseVars, fresh, reading>>

Unsubscribe(u) ==
    /\ subscribed' = subscribed \ {u}
    /\ dirty' = dirty \ {u}
    /\ toRead' = toRead \ {u}
    /\ UNCHANGED <<events, sseVars, fresh, reading>>

RequestRead(u) ==
    /\ u \in toRead
    /\ reading[u] = "none"
    /\ toRead' = toRead \ {u}
    /\ reading' = [reading EXCEPT ![u] = "queued"]
    /\ UNCHANGED <<hubVars, events, sseVars, fresh>>

\* handleResourcesRead gives up after callTimeoutMs; the client asks again.
ReadTimeout(u) ==
    /\ reading[u] = "queued"
    /\ reading' = [reading EXCEPT ![u] = "abandoned"]
    /\ toRead' = toRead \cup {u}
    /\ UNCHANGED <<hubVars, events, sseVars, fresh>>

-----------------------------------------------------------------------------
(* The GET /mcp streams. *)

\* The client holds one stream, and opens the next when it has lost the last.
Connect(s) ==
    /\ stream[s] = "idle"
    /\ peer = {}
    /\ stream' = [stream EXCEPT ![s] = "open"]
    /\ peer' = {s}
    /\ UNCHANGED <<hubVars, events, batch, readVars, drops>>

\* The connection is lost; the server's thread does not know it yet.
Drop(s) ==
    /\ s \in peer
    /\ drops < MaxDrops
    /\ drops' = drops + 1
    /\ peer' = peer \ {s}
    /\ UNCHANGED <<hubVars, events, stream, batch, readVars>>

\* Mutant: the pending set is copied and cleared under two separate locks, and
\* a mark made in between is cleared unseen.
Drain_Forgets(s) ==
    /\ stream[s] = "open"
    /\ batch[s] = {}
    /\ batch' = [batch EXCEPT ![s] = IF events = {} THEN dirty \cap subscribed ELSE {}]
    /\ dirty' = {}
    /\ UNCHANGED <<subscribed, events, stream, peer, readVars, drops>>

\* drainUpdated: everything pending, at once, to one stream.
Drain(s) ==
    /\ stream[s] = "open"
    /\ batch[s] = {}
    /\ batch' = [batch EXCEPT ![s] = dirty \cap subscribed]
    /\ dirty' = {}
    /\ UNCHANGED <<subscribed, events, stream, peer, readVars, drops>>

\* One frame reaches the client, which then knows that it has to read again.
Write(s) ==
    /\ stream[s] = "open"
    /\ s \in peer
    /\ \E u \in batch[s] :
         /\ batch' = [batch EXCEPT ![s] = @ \ {u}]
         /\ toRead' = IF u \in subscribed THEN toRead \cup {u} ELSE toRead
    /\ UNCHANGED <<hubVars, events, stream, peer, fresh, reading, drops>>

\* A frame to a lost client disappears in the socket buffer ...
WriteLost(s) ==
    /\ stream[s] = "open"
    /\ s \notin peer
    /\ \E u \in batch[s] : batch' = [batch EXCEPT ![s] = @ \ {u}]
    /\ UNCHANGED <<hubVars, events, stream, peer, readVars, drops>>

\* ... or the write fails and the stream ends with what it had drained.
WriteFails(s) ==
    /\ stream[s] = "open"
    /\ s \notin peer
    /\ stream' = [stream EXCEPT ![s] = "closed"]
    /\ batch' = [batch EXCEPT ![s] = {}]
    /\ UNCHANGED <<hubVars, events, peer, readVars, drops>>

-----------------------------------------------------------------------------
Next ==
    \/ \E e \in Edits : Edit(e)
    \/ \E e \in Events : Callback(e)
    \/ \E u \in Uris : RunRead(u) \/ Subscribe(u) \/ Unsubscribe(u) \/ RequestRead(u)
                       \/ ReadTimeout(u)
    \/ \E s \in Streams : Connect(s) \/ Drop(s) \/ Drain(s) \/ Write(s) \/ WriteLost(s)
                          \/ WriteFails(s)

Spec == Init /\ [][Next]_vars

\* REAPER makes its callbacks and pumps the queue (often enough within the time
\* limit), a stream's thread polls and writes, the client reads what it must.
Fairness ==
    /\ \A e \in Events : WF_vars(Callback(e))
    /\ \A u \in Uris : SF_vars(reading[u] = "queued" /\ RunRead(u)) /\ WF_vars(RunRead(u))
                       /\ SF_vars(RequestRead(u))
    /\ \A s \in Streams : WF_vars(Connect(s)) /\ WF_vars(Drain(s)) /\ WF_vars(WriteFails(s))
                          /\ WF_vars(Write(s))

FairSpec == Spec /\ Fairness

-----------------------------------------------------------------------------
(* Properties. *)

\* What is on its way to the client: callbacks, marks, drained frames, reads.
OnItsWay ==
    (UNION {UrisForEvent(e) : e \in events}) \cup dirty \cup (UNION {batch[s] : s \in Streams})
      \cup toRead \cup {u \in Uris : reading[u] = "queued"}

\* What the client watches is current, or the client is going to be told of it.
\* This is what the comment on drainUpdated (subscription_hub.h 71-74) promises
\* to a client that reconnects.
NoMissedUpdate == \A u \in subscribed : u \in fresh \cup OnItsWay

\* No callback, mark, frame or read is lost between REAPER and the client, as
\* long as no connection is.
NothingLost == drops = 0 => NoMissedUpdate

\* As long as no connection was lost, every open stream has its client, and what a
\* stream has drained is about to be written.
Attended ==
    drops = 0 => \A s \in Streams : /\ stream[s] = "open" => s \in peer
                                    /\ batch[s] # {} => stream[s] = "open"

\* The inductive invariant: with it, no step can lose what is on its way.
IInv == TypeOK /\ Attended /\ NothingLost

\* A watched resource that changed becomes known to a client that stays connected.
EventuallyFresh ==
    \A u \in Uris : u \in subscribed ~> (u \in fresh \/ u \notin subscribed \/ drops > 0)
=============================================================================
