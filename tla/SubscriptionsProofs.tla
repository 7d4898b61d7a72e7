------------------------- MODULE SubscriptionsProofs ------------------------
(***************************************************************************)
(* Proofs about Subscriptions, for every set of resources, streams and     *)
(* edits.                                                                  *)
(***************************************************************************)
EXTENDS Subscriptions, TLAPS

LEMMA InitHolds == Init => IInv
  BY DropsAssumption DEF Init, IInv, TypeOK, Attended, NothingLost, NoMissedUpdate

-----------------------------------------------------------------------------
(* Type correctness. *)

\* What REAPER reports are events the hub knows.
LEMMA ReportsAreEvents == \A e \in Events : Reported(e) \subseteq Events
  BY DEF Reported, Events

LEMMA MainThreadTypes ==
  ASSUME TypeOK, \/ \E e \in Edits : Edit(e)
                 \/ \E e \in Events : Callback(e)
                 \/ \E u \in Uris : RunRead(u)
  PROVE  TypeOK'
  <1>1. ASSUME NEW e \in Edits, Edit(e) PROVE TypeOK'
    <2>1. events' \subseteq Events
      BY <1>1, EditsAssumption, ReportsAreEvents DEF Edit, TypeOK
    <2> QED
      BY <1>1, <2>1 DEF Edit, TypeOK, hubVars, sseVars
  <1>2. ASSUME NEW e \in Events, Callback(e) PROVE TypeOK'
    BY <1>2 DEF Callback, TypeOK, sseVars, readVars
  <1>3. ASSUME NEW u \in Uris, RunRead(u) PROVE TypeOK'
    BY <1>3 DEF RunRead, TypeOK, hubVars, sseVars
  <1> QED
    BY <1>1, <1>2, <1>3

LEMMA ClientTypes ==
  ASSUME TypeOK, NEW u \in Uris,
         Subscribe(u) \/ Unsubscribe(u) \/ RequestRead(u) \/ ReadTimeout(u)
  PROVE  TypeOK'
  <1>1. CASE Subscribe(u)
    BY <1>1 DEF Subscribe, TypeOK, sseVars
  <1>2. CASE Unsubscribe(u)
    BY <1>2 DEF Unsubscribe, TypeOK, sseVars
  <1>3. CASE RequestRead(u) \/ ReadTimeout(u)
    BY <1>3 DEF RequestRead, ReadTimeout, TypeOK, hubVars, sseVars
  <1> QED
    BY <1>1, <1>2, <1>3

LEMMA StreamTypes ==
  ASSUME TypeOK, NEW s \in Streams,
         Connect(s) \/ Drop(s) \/ Drain(s) \/ Write(s) \/ WriteLost(s) \/ WriteFails(s)
  PROVE  TypeOK'
  <1>1. CASE Connect(s)
    BY <1>1 DEF Connect, TypeOK, hubVars, readVars
  <1>2. CASE Drop(s)
    <2>1. drops' \in 0..MaxDrops
      BY <1>2, DropsAssumption DEF Drop, TypeOK
    <2> QED
      BY <1>2, <2>1 DEF Drop, TypeOK, hubVars, readVars
  <1>3. CASE Drain(s)
    BY <1>3 DEF Drain, TypeOK, readVars
  <1>4. CASE Write(s)
    BY <1>4 DEF Write, TypeOK, hubVars
  <1>5. CASE WriteLost(s) \/ WriteFails(s)
    BY <1>5 DEF WriteLost, WriteFails, TypeOK, hubVars, readVars
  <1> QED
    BY <1>1, <1>2, <1>3, <1>4, <1>5

LEMMA TypesStay == TypeOK /\ [Next]_vars => TypeOK'
  <1> SUFFICES ASSUME TypeOK, [Next]_vars PROVE TypeOK'
    OBVIOUS
  <1>1. CASE UNCHANGED vars
    BY <1>1 DEF vars, TypeOK
  <1> QED
    BY <1>1, MainThreadTypes, ClientTypes, StreamTypes DEF Next

\* Type correctness; and the hub keeps no mark for a resource nobody watches
\* (SubscriptionHub::unsubscribe, markDirty).
THEOREM TypeCorrect == Spec => []TypeOK
  <1>1. Init => TypeOK
    BY InitHolds DEF IInv
  <1> QED
    BY <1>1, TypesStay, PTL DEF Spec

-----------------------------------------------------------------------------
(* Streams and their clients. *)

LEMMA AttendedStays ==
  ASSUME TypeOK, Attended, [Next]_vars
  PROVE  Attended'
  <1> SUFFICES ASSUME drops' = 0, NEW s \in Streams
               PROVE  /\ stream'[s] = "open" => s \in peer'
                      /\ batch'[s] # {} => stream'[s] = "open"
    BY DEF Attended
  <1> USE DEF TypeOK, Attended
  <1>1. CASE UNCHANGED sseVars
    BY <1>1 DEF sseVars
  <1>2. ASSUME NEW t \in Streams, Drop(t) PROVE FALSE
    BY <1>2 DEF Drop
  <1>3. ASSUME NEW t \in Streams, Connect(t)
        PROVE  (stream'[s] = "open" => s \in peer') /\ (batch'[s] # {} => stream'[s] = "open")
    <2>1. UNCHANGED <<batch, drops>> /\ stream[t] = "idle" /\ peer = {} /\ peer' = {t}
          /\ stream' = [stream EXCEPT ![t] = "open"]
      BY <1>3 DEF Connect
    <2>2. stream[s] # "open" /\ batch[s] = {}
      BY <2>1
    <2> QED
      BY <2>1, <2>2
  <1>4. ASSUME NEW t \in Streams, Drain(t) \/ Write(t) \/ WriteLost(t)
        PROVE  (stream'[s] = "open" => s \in peer') /\ (batch'[s] # {} => stream'[s] = "open")
    <2>1. UNCHANGED <<stream, peer, drops>> /\ stream[t] = "open"
      BY <1>4 DEF Drain, Write, WriteLost
    <2>2. \A r \in Streams : r # t => batch'[r] = batch[r]
      BY <1>4 DEF Drain, Write, WriteLost
    <2> QED
      BY <2>1, <2>2
  <1>5. ASSUME NEW t \in Streams, WriteFails(t)
        PROVE  (stream'[s] = "open" => s \in peer') /\ (batch'[s] # {} => stream'[s] = "open")
    BY <1>5 DEF WriteFails
  <1>6. CASE \/ \E e \in Edits : Edit(e)
             \/ \E e \in Events : Callback(e)
             \/ \E u \in Uris : RunRead(u) \/ Subscribe(u) \/ Unsubscribe(u) \/ RequestRead(u)
                                \/ ReadTimeout(u)
    BY <1>1, <1>6 DEF Edit, Callback, RunRead, Subscribe, Unsubscribe, RequestRead, ReadTimeout
  <1>7. CASE UNCHANGED vars
    BY <1>1, <1>7 DEF vars, sseVars
  <1> QED
    BY <1>2, <1>3, <1>4, <1>5, <1>6, <1>7 DEF Next

-----------------------------------------------------------------------------
(* Nothing is lost. *)

\* Where a resource may be on its way, place by place.
LEMMA Way ==
  ASSUME NEW u
  PROVE  u \in OnItsWay <=> \/ \E e \in events : u \in UrisForEvent(e)
                            \/ u \in dirty
                            \/ \E s \in Streams : u \in batch[s]
                            \/ u \in toRead
                            \/ u \in Uris /\ reading[u] = "queued"
  BY DEF OnItsWay

\* The same after a step.
LEMMA WayNext ==
  ASSUME NEW u
  PROVE  (u \in OnItsWay)' <=> \/ \E e \in events' : u \in UrisForEvent(e)
                               \/ u \in dirty'
                               \/ \E s \in Streams : u \in batch'[s]
                               \/ u \in toRead'
                               \/ u \in Uris /\ reading'[u] = "queued"
  BY DEF OnItsWay

\* What an edit changes is reported, if REAPER reports every track after a change of
\* the list of tracks.
LEMMA ChangesAreReported ==
  ASSUME Resends, NEW e \in Events
  PROVE  \A u \in Uris : u \in Changes(e) => \E r \in Reported(e) : u \in UrisForEvent(r)
  <1>1. CASE e = "TrackList"
    BY <1>1, UrisAssumption DEF Changes, Reported, UrisForEvent
  <1>2. CASE e # "TrackList"
    BY <1>2 DEF Changes, Reported
  <1> QED
    BY <1>1, <1>2

\* REAPER's side: an edit is reported, a callback marks, a read that is answered is current.
LEMMA MainThreadKeeps ==
  ASSUME Resends, TypeOK, NoMissedUpdate,
         \/ \E e \in Edits : Edit(e)
         \/ \E e \in Events : Callback(e)
         \/ \E u \in Uris : RunRead(u)
  PROVE  NoMissedUpdate'
  <1> SUFFICES ASSUME NEW u \in subscribed' PROVE u \in fresh' \/ (u \in OnItsWay)'
    BY DEF NoMissedUpdate
  <1>0. u \in subscribed /\ u \in Uris
    BY DEF Edit, Callback, RunRead, hubVars, TypeOK
  <1>1. u \in fresh \/ u \in OnItsWay
    BY <1>0 DEF NoMissedUpdate
  <1>2. ASSUME NEW e \in Edits, Edit(e) PROVE u \in fresh' \/ (u \in OnItsWay)'
    <2>1. UNCHANGED <<dirty, batch, toRead, reading>> /\ fresh' = fresh \ Changes(e)
          /\ events' = events \cup Reported(e)
      BY <1>2 DEF Edit, hubVars, sseVars
    <2>2. CASE u \in OnItsWay
      BY <2>1, <2>2, Way, WayNext
    <2>3. CASE u \in fresh /\ u \in Changes(e)
      BY <2>1, <2>3, <1>0, EditsAssumption, ChangesAreReported, WayNext
    <2>4. CASE u \in fresh /\ u \notin Changes(e)
      BY <2>1, <2>4
    <2> QED
      BY <1>1, <2>2, <2>3, <2>4
  <1>3. ASSUME NEW e \in Events, Callback(e) PROVE u \in fresh' \/ (u \in OnItsWay)'
    <2>1. UNCHANGED <<batch, toRead, reading, fresh>> /\ events' = events \ {e}
          /\ dirty' = dirty \cup (UrisForEvent(e) \cap subscribed)
      BY <1>3 DEF Callback, sseVars, readVars
    <2> QED
      BY <1>0, <1>1, <2>1, Way, WayNext
  <1>4. ASSUME NEW v \in Uris, RunRead(v) PROVE u \in fresh' \/ (u \in OnItsWay)'
    <2>1. /\ UNCHANGED <<dirty, events, batch, toRead>>
          /\ fresh' = IF reading[v] = "queued" THEN fresh \cup {v} ELSE fresh
          /\ reading' = [reading EXCEPT ![v] = "none"]
      BY <1>4 DEF RunRead, hubVars, sseVars
    <2>2. reading'[u] = reading[u] \/ (u = v /\ reading'[u] = "none")
      BY <2>1, <1>0 DEF TypeOK
    <2> QED
      BY <1>0, <1>1, <2>1, <2>2, Way, WayNext
  <1> QED
    BY <1>2, <1>3, <1>4

\* The client's side: a subscription is followed by a read, a read that is late is
\* asked for again.
LEMMA ClientKeeps ==
  ASSUME TypeOK, NoMissedUpdate, NEW v \in Uris,
         Subscribe(v) \/ Unsubscribe(v) \/ RequestRead(v) \/ ReadTimeout(v)
  PROVE  NoMissedUpdate'
  <1> SUFFICES ASSUME NEW u \in subscribed' PROVE u \in fresh' \/ (u \in OnItsWay)'
    BY DEF NoMissedUpdate
  <1>1. CASE Subscribe(v)
    <2>1. UNCHANGED <<dirty, events, batch, fresh, reading>> /\ subscribed' = subscribed \cup {v}
          /\ toRead' = toRead \cup {v}
      BY <1>1 DEF Subscribe, sseVars
    <2> QED
      BY <2>1, Way, WayNext DEF NoMissedUpdate
  <1>2. CASE Unsubscribe(v)
    <2>1. UNCHANGED <<events, batch, fresh, reading>> /\ subscribed' = subscribed \ {v}
          /\ toRead' = toRead \ {v} /\ dirty' = dirty \ {v}
      BY <1>2 DEF Unsubscribe, sseVars
    <2> QED
      BY <2>1, Way, WayNext DEF NoMissedUpdate
  <1>3. CASE RequestRead(v)
    <2>1. UNCHANGED <<subscribed, dirty, events, batch, fresh>> /\ toRead' = toRead \ {v}
          /\ reading' = [reading EXCEPT ![v] = "queued"]
      BY <1>3 DEF RequestRead, hubVars, sseVars
    <2>2. reading'[v] = "queued" /\ \A w \in Uris : w # v => reading'[w] = reading[w]
      BY <2>1 DEF TypeOK
    <2> QED
      BY <2>1, <2>2, Way, WayNext DEF NoMissedUpdate
  <1>4. CASE ReadTimeout(v)
    <2>1. UNCHANGED <<subscribed, dirty, events, batch, fresh>> /\ toRead' = toRead \cup {v}
          /\ reading' = [reading EXCEPT ![v] = "abandoned"]
      BY <1>4 DEF ReadTimeout, hubVars, sseVars
    <2>2. \A w \in Uris : w # v => reading'[w] = reading[w]
      BY <2>1 DEF TypeOK
    <2> QED
      BY <2>1, <2>2, Way, WayNext DEF NoMissedUpdate
  <1> QED
    BY <1>1, <1>2, <1>3, <1>4

\* The streams: what is marked is drained by one of them, what is drained is told.
LEMMA StreamKeeps ==
  ASSUME TypeOK, NoMissedUpdate, NEW t \in Streams,
         Connect(t) \/ Drain(t) \/ Write(t)
  PROVE  NoMissedUpdate'
  <1> SUFFICES ASSUME NEW u \in subscribed' PROVE u \in fresh' \/ (u \in OnItsWay)'
    BY DEF NoMissedUpdate
  <1>0. u \in subscribed /\ UNCHANGED <<subscribed, events, fresh, reading>>
    BY DEF Connect, Drain, Write, hubVars, readVars
  <1>1. u \in fresh \/ u \in OnItsWay
    BY <1>0 DEF NoMissedUpdate
  <1>2. CASE Connect(t)
    BY <1>0, <1>1, <1>2, Way, WayNext DEF Connect, hubVars, readVars
  <1>3. CASE Drain(t)
    <2>1. UNCHANGED toRead /\ batch[t] = {} /\ batch'[t] = dirty \cap subscribed
          /\ \A s \in Streams : s # t => batch'[s] = batch[s]
      BY <1>3 DEF Drain, TypeOK, readVars
    <2> QED
      BY <1>0, <1>1, <2>1, Way, WayNext
  <1>4. CASE Write(t)
    <2>1. PICK v \in batch[t] : /\ batch' = [batch EXCEPT ![t] = @ \ {v}]
                                /\ toRead' = IF v \in subscribed THEN toRead \cup {v} ELSE toRead
      BY <1>4 DEF Write
    <2>2. UNCHANGED dirty /\ batch'[t] = batch[t] \ {v}
          /\ \A s \in Streams : s # t => batch'[s] = batch[s]
      BY <1>4, <2>1 DEF Write, TypeOK, hubVars
    <2> QED
      BY <1>0, <1>1, <2>1, <2>2, Way, WayNext
  <1> QED
    BY <1>2, <1>3, <1>4

LEMMA NothingLostStays ==
  ASSUME Resends, IInv, [Next]_vars
  PROVE  NothingLost'
  <1> SUFFICES ASSUME drops' = 0 PROVE NoMissedUpdate'
    BY DEF NothingLost
  <1>1. drops = 0 \/ \E t \in Streams : Drop(t)
    BY DEF Next, Edit, Callback, RunRead, Subscribe, Unsubscribe, RequestRead, ReadTimeout, Connect,
           Drain, Write, WriteLost, WriteFails, sseVars, vars
  <1>2. ASSUME NEW t \in Streams, Drop(t) PROVE FALSE
    BY <1>2 DEF Drop, IInv, TypeOK
  <1>3. NoMissedUpdate
    BY <1>1, <1>2 DEF IInv, NothingLost
  <1>4. ASSUME NEW t \in Streams, WriteLost(t) \/ WriteFails(t) PROVE FALSE
    BY <1>1, <1>2, <1>4 DEF WriteLost, WriteFails, IInv, Attended
  <1>5. CASE UNCHANGED vars
    BY <1>3, <1>5 DEF vars, NoMissedUpdate, OnItsWay
  <1> QED
    BY <1>2, <1>3, <1>4, <1>5, MainThreadKeeps, ClientKeeps, StreamKeeps DEF Next, IInv

\* What is on its way stays on its way: the inductive invariant of the hub, the streams
\* and a client that keeps its connection.
THEOREM Invariance == Resends => (Spec => []IInv)
  <1> SUFFICES ASSUME Resends PROVE Spec => []IInv
    OBVIOUS
  <1>1. Init => IInv
    BY InitHolds
  <1>2. IInv /\ [Next]_vars => IInv'
    BY TypesStay, AttendedStays, NothingLostStays DEF IInv
  <1> QED
    BY <1>1, <1>2, PTL DEF Spec

\* If REAPER reports every track after a change of the list of tracks, no callback, mark,
\* frame or read is lost between REAPER and a client that keeps its connection: what it
\* watches is current or on its way (SubscriptionHub::drainUpdated, ReaperControlSurface).
THEOREM NothingIsLost == Resends => (Spec => []NothingLost)
  <1> SUFFICES ASSUME Resends PROVE Spec => []NothingLost
    OBVIOUS
  <1>1. IInv => NothingLost
    BY DEF IInv
  <1> QED
    BY <1>1, Invariance, PTL
=============================================================================
