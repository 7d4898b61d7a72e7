--------------------------- MODULE HeadTrackProofs ---------------------------
(***************************************************************************)
(* Proofs about HeadTrack, for every set of axes and any number of         *)
(* datagrams and sessions.                                                 *)
(***************************************************************************)
EXTENDS HeadTrack, TLAPS

LEMMA InitHandOver == Init => HandOver
  BY DEF Init, HandOver, MainInv, OneWorker, TickInv, NoLostMove, SessionInv, Rest

\* The tracker, the user, and the steps of the worker that touch no shared state
\* but the socket's buffer.
LEMMA QuietStep ==
  ASSUME HandOver,
         \/ \E axes \in (SUBSET Axes) \ {{}} : Send(axes)
         \/ DeleteTrack \/ MoveRotator \/ WorkerTop \/ RecvNothing
         \/ \E d \in inbox : Recv(d)
  PROVE  HandOver'
  <1> USE DEF HandOver, workerVars, mainVars, fxVars
  <1>1. ASSUME NEW axes \in (SUBSET Axes) \ {{}}, Send(axes) PROVE HandOver'
    <2>1. UNCHANGED <<running, sock, orient, dirty, session, worker, fd, msg, main, starting, local,
                      param, moved, trackValid, stray>>
          /\ sent' = sent + 1
          /\ (sock = 0 => inbox' = inbox)
          /\ (sock # 0 => inbox' = inbox \cup {[session |-> sock, n |-> sent + 1, axes |-> axes]})
      BY <1>1 DEF Send
    <2>2. MainInv' /\ OneWorker' /\ TickInv' /\ NoLostMove'
      BY <2>1 DEF MainInv, OneWorker, TickInv, NoLostMove, Underway
    <2>3. sent' \in Nat /\ sent + 1 # 0
      BY <2>1 DEF SessionInv
    <2>4. \A d \in inbox' : Current(d)'
      BY <2>1, <2>3 DEF SessionInv, Current
    <2>5. SessionInv'
      BY <2>1, <2>3, <2>4 DEF SessionInv, Current, OfSession
    <2> QED
      BY <2>2, <2>5
  <1>2. CASE DeleteTrack \/ MoveRotator
    <2>1. UNCHANGED <<running, sock, orient, dirty, session, inbox, sent, worker, fd, msg, main,
                      starting, local, param, stray>>
          /\ (moved' \/ ~trackValid')
      BY <1>2 DEF DeleteTrack, MoveRotator
    <2>2. MainInv' /\ OneWorker' /\ TickInv' /\ NoLostMove'
      BY <2>1 DEF MainInv, OneWorker, TickInv, NoLostMove
    <2>3. SessionInv'
      BY <2>1 DEF SessionInv, Current, OfSession
    <2> QED
      BY <2>2, <2>3
  <1>3. CASE WorkerTop \/ RecvNothing
    <2>1. UNCHANGED <<running, sock, orient, dirty, session, inbox, sent, msg, main, starting,
                      local, param, moved, trackValid, stray>>
          /\ worker \in {"top", "recv"} /\ worker' \in {"top", "recv", "none"}
      BY <1>3 DEF WorkerTop, RecvNothing
    <2>2. MainInv' /\ OneWorker' /\ TickInv' /\ NoLostMove'
      BY <2>1 DEF MainInv, OneWorker, TickInv, NoLostMove, Underway
    <2>3. SessionInv'
      BY <2>1 DEF SessionInv, Current, OfSession
    <2> QED
      BY <2>2, <2>3
  <1>4. ASSUME NEW d \in inbox, Recv(d) PROVE HandOver'
    <2>1. UNCHANGED <<running, sock, orient, dirty, session, sent, fd, main, starting,
                      local, param, moved, trackValid, stray>>
          /\ worker = "recv" /\ worker' = "got" /\ msg' = d /\ inbox' = inbox \ {d}
      BY <1>4 DEF Recv
    <2>2. MainInv' /\ OneWorker' /\ TickInv' /\ NoLostMove'
      BY <2>1 DEF MainInv, OneWorker, TickInv, NoLostMove, Underway
    <2>3. SessionInv'
      BY <2>1 DEF SessionInv, Current, OfSession
    <2> QED
      BY <2>2, <2>3
  <1> QED
    BY <1>1, <1>2, <1>3, <1>4

\* Storing and marking: what the next tick will find.
LEMMA StoreStep ==
  ASSUME HandOver, Store \/ Mark
  PROVE  HandOver'
  <1> USE DEF HandOver, mainVars, fxVars
  <1>1. CASE Store
    <2>1. UNCHANGED <<running, sock, dirty, session, inbox, sent, msg, main, starting,
                      local, param, moved, trackValid, stray>>
          /\ worker = "got" /\ worker' = "stored"
          /\ orient' = [a \in Axes |-> IF a \in msg.axes THEN [session |-> msg.session, n |-> msg.n]
                                       ELSE orient[a]]
      BY <1>1 DEF Store
    <2>2. MainInv' /\ OneWorker' /\ TickInv' /\ NoLostMove'
      BY <2>1 DEF MainInv, OneWorker, TickInv, NoLostMove, Underway
    <2>3. Current(msg) /\ \A a \in Axes : orient[a] = Rest \/ orient[a].session = session
      BY <2>1 DEF SessionInv
    <2>4. \A a \in Axes : orient'[a] = Rest \/ orient'[a].session = session
      BY <2>1, <2>3 DEF Current
    <2>5. \E a \in Axes : orient'[a] # Rest
      <3>0. msg.axes \in SUBSET Axes /\ msg.axes # {}
        BY <2>3 DEF Current
      <3>1. PICK a \in Axes : a \in msg.axes
        BY <3>0
      <3>2. orient'[a] = [session |-> msg.session, n |-> msg.n] /\ msg.n # 0
        BY <2>1, <2>3, <3>1 DEF Current
      <3> QED
        BY <3>2 DEF Rest
    <2>6. SessionInv'
      BY <2>1, <2>4, <2>5 DEF SessionInv, Current, OfSession
    <2> QED
      BY <2>2, <2>6
  <1>2. CASE Mark
    <2>1. UNCHANGED <<running, sock, orient, session, inbox, sent, msg, main, starting,
                      local, param, moved, trackValid, stray>>
          /\ worker = "stored" /\ worker' = "top" /\ dirty' = TRUE
      BY <1>2 DEF Mark
    <2>2. MainInv' /\ OneWorker' /\ TickInv' /\ NoLostMove'
      BY <2>1 DEF MainInv, OneWorker, TickInv, NoLostMove, Underway
    <2>3. SessionInv'
      BY <2>1 DEF SessionInv, Current, OfSession
    <2> QED
      BY <2>2, <2>3
  <1> QED
    BY <1>1, <1>2

\* One tick of applyOnMainThread: the flag is taken before the copy is made, so
\* that an orientation stored later raises it again.
LEMMA ApplyStep ==
  ASSUME HandOver, Apply
  PROVE  HandOver'
  <1> USE DEF HandOver, workerVars, fxVars
  <1>1. CASE Take
    <2>1. UNCHANGED <<running, sock, orient, session, inbox, sent, worker, fd, msg, starting,
                      local, param, moved, trackValid, stray>>
          /\ running /\ dirty /\ dirty' = FALSE /\ main' = "copy"
      BY <1>1 DEF Take
    <2>2. MainInv' /\ OneWorker' /\ TickInv' /\ NoLostMove'
      BY <2>1 DEF MainInv, OneWorker, TickInv, NoLostMove, Underway
    <2>3. SessionInv'
      BY <2>1 DEF SessionInv, Current, OfSession
    <2> QED
      BY <2>2, <2>3
  <1>2. CASE Copy
    <2>1. UNCHANGED <<running, sock, orient, dirty, session, inbox, sent, worker, fd, msg, starting,
                      param, moved, trackValid, stray>>
          /\ main = "copy" /\ main' = "write" /\ local' = orient
      BY <1>2 DEF Copy
    <2>2. MainInv' /\ OneWorker' /\ TickInv' /\ NoLostMove'
      BY <2>1 DEF MainInv, OneWorker, TickInv, NoLostMove, Underway
    <2>3. SessionInv'
      BY <2>1 DEF SessionInv, Current, OfSession
    <2> QED
      BY <2>2, <2>3
  <1>3. CASE WriteStops
    <2>1. UNCHANGED <<sock, orient, dirty, session, inbox, sent, worker, fd, msg,
                      local, param, moved, trackValid, stray>>
          /\ main = "write" /\ main' = "close" /\ running' = FALSE
      BY <1>3 DEF WriteStops
    <2>2. MainInv' /\ OneWorker' /\ TickInv' /\ NoLostMove'
      BY <2>1 DEF MainInv, OneWorker, TickInv, NoLostMove
    <2>3. SessionInv'
      BY <2>1 DEF SessionInv, Current, OfSession
    <2> QED
      BY <2>2, <2>3
  <1>4. CASE Write
    <2>1. UNCHANGED <<running, sock, orient, dirty, session, inbox, sent, worker, fd, msg, starting,
                      local, moved, trackValid>>
          /\ main = "write" /\ main' = "idle" /\ (~moved => param' = local)
      BY <1>4 DEF Write
    <2>2. MainInv' /\ OneWorker' /\ TickInv'
      BY <2>1 DEF MainInv, OneWorker, TickInv
    <2>3. NoLostMove'
      BY <2>1 DEF TickInv, NoLostMove, Underway
    <2>4. SessionInv'
      BY <2>1 DEF SessionInv, Current, OfSession
    <2> QED
      BY <2>2, <2>3, <2>4
  <1> QED
    BY <1>1, <1>2, <1>3, <1>4 DEF Apply

\* stop(): the flag, the socket, the join; start(): the same, then a session that
\* begins with nothing stored and nothing marked.
LEMMA LifecycleStep ==
  ASSUME HandOver, Lifecycle
  PROVE  HandOver'
  <1> USE DEF HandOver, workerVars, fxVars
  <1>1. CASE Stop(TRUE) \/ Stop(FALSE)
    <2>1. UNCHANGED <<sock, orient, dirty, session, inbox, sent, worker, fd, msg,
                      local, param, moved, trackValid, stray>>
          /\ main' = "close" /\ running' = FALSE
      BY <1>1 DEF Stop
    <2>2. MainInv' /\ OneWorker' /\ TickInv' /\ NoLostMove'
      BY <2>1 DEF MainInv, OneWorker, TickInv, NoLostMove
    <2>3. SessionInv'
      BY <2>1 DEF SessionInv, Current, OfSession
    <2> QED
      BY <2>2, <2>3
  <1>2. CASE CloseSocket
    <2>1. UNCHANGED <<running, orient, dirty, session, sent, worker, fd, msg, starting,
                      local, param, moved, trackValid, stray>>
          /\ main = "close" /\ main' = "join" /\ sock' = 0 /\ inbox' = {}
      BY <1>2 DEF CloseSocket
    <2>2. MainInv' /\ OneWorker' /\ TickInv' /\ NoLostMove'
      BY <2>1 DEF MainInv, OneWorker, TickInv, NoLostMove
    <2>3. SessionInv'
      BY <2>1 DEF SessionInv, Current, OfSession
    <2> QED
      BY <2>2, <2>3
  <1>3. CASE Join \/ OpenFails
    <2>1. UNCHANGED <<running, sock, orient, dirty, session, inbox, sent, worker, fd, msg, starting,
                      local, param, moved, trackValid, stray>>
          /\ main \in {"join", "open"} /\ main' \in {"open", "idle"}
          /\ (main = "join" => worker = "none")
      BY <1>3 DEF Join, OpenFails
    <2>2. MainInv' /\ OneWorker' /\ TickInv' /\ NoLostMove'
      BY <2>1 DEF MainInv, OneWorker, TickInv, NoLostMove
    <2>3. SessionInv'
      BY <2>1 DEF SessionInv, Current, OfSession
    <2> QED
      BY <2>2, <2>3
  <1>4. CASE Open
    <2>1. UNCHANGED <<inbox, sent, fd, msg, starting, local, stray>>
          /\ main = "open" /\ main' = "idle" /\ worker' = "top" /\ running' = TRUE
          /\ dirty' = FALSE /\ sock' = session' /\ orient' = [a \in Axes |-> Rest]
      BY <1>4 DEF Open
    <2>2. MainInv' /\ OneWorker' /\ TickInv' /\ NoLostMove'
      BY <2>1 DEF MainInv, OneWorker, TickInv, NoLostMove
    <2>3. inbox' = {}
      BY <2>1 DEF MainInv
    <2>4. SessionInv'
      BY <2>1, <2>3 DEF SessionInv
    <2> QED
      BY <2>2, <2>4
  <1> QED
    BY <1>1, <1>2, <1>3, <1>4 DEF Lifecycle

LEMMA NextHandOver == HandOver /\ [Next]_vars => HandOver'
  <1> SUFFICES ASSUME HandOver, [Next]_vars PROVE HandOver'
    OBVIOUS
  <1>1. CASE UNCHANGED vars
    BY <1>1 DEF vars, HandOver, MainInv, OneWorker, TickInv, NoLostMove, Underway, SessionInv, Current,
                OfSession
  <1>2. CASE Next
    BY <1>2, QuietStep, StoreStep, ApplyStep, LifecycleStep DEF Next, Worker
  <1> QED
    BY <1>1, <1>2

\* The types hold, and no session is started beyond the bound.
LEMMA InitTypes == Init => TypeOK /\ StartInv
  <1> SUFFICES ASSUME Init PROVE TypeOK /\ StartInv
    OBVIOUS
  <1>1. Rest \in Angles /\ NoMsg \in Datagrams /\ 0 \in 0..MaxStarts /\ 0 \in 0..MaxSent
    BY BoundsAssumption DEF Rest, Angles, NoMsg, Datagrams
  <1>2. [a \in Axes |-> Rest] \in [Axes -> Angles] /\ [a \in Axes |-> Manual] \in [Axes -> Angles \cup {Manual}]
    BY <1>1
  <1>3. StartInv
    BY DEF Init, StartInv
  <1> QED
    BY <1>1, <1>2, <1>3 DEF Init, TypeOK

LEMMA TypesStay ==
  ASSUME TypeOK, StartInv, [Next]_vars
  PROVE  TypeOK' /\ StartInv'
  <1> USE DEF workerVars, mainVars, fxVars
  <1>1. CASE UNCHANGED vars
    BY <1>1 DEF vars, TypeOK, StartInv
  <1>2. ASSUME NEW axes \in (SUBSET Axes) \ {{}}, Send(axes) PROVE TypeOK' /\ StartInv'
    <2>1. UNCHANGED <<running, sock, orient, dirty, session, worker, fd, msg, main, starting, local,
                      param, moved, trackValid, stray>> /\ sent' \in 0..MaxSent
      BY <1>2, BoundsAssumption DEF Send, TypeOK
    <2>2. [session |-> sock, n |-> sent + 1, axes |-> axes] \in Datagrams
      BY <1>2, <2>1, BoundsAssumption DEF Datagrams, TypeOK, Send
    <2>3. inbox' \subseteq Datagrams
      BY <1>2, <2>2 DEF Send, TypeOK
    <2> QED
      BY <2>1, <2>3 DEF TypeOK, StartInv
  <1>3. CASE DeleteTrack \/ MoveRotator
    BY <1>3 DEF DeleteTrack, MoveRotator, TypeOK, StartInv
  <1>4. CASE WorkerTop \/ RecvNothing \/ Mark
    <2>1. CASE WorkerTop
      <3>1. worker' \in {"recv", "none"} /\ fd' \in 0..MaxStarts
        BY <2>1 DEF WorkerTop, TypeOK
      <3>2. UNCHANGED <<running, sock, orient, dirty, session, inbox, sent, msg, main, starting, local,
                        param, moved, trackValid, stray>>
        BY <2>1 DEF WorkerTop
      <3> QED
        BY <3>1, <3>2 DEF TypeOK, StartInv
    <2>2. CASE RecvNothing
      BY <2>2 DEF RecvNothing, TypeOK, StartInv
    <2>3. CASE Mark
      <3>1. dirty' \in BOOLEAN /\ worker' = "top"
        BY <2>3 DEF Mark
      <3>2. UNCHANGED <<running, sock, orient, session, inbox, sent, fd, msg, main, starting, local,
                        param, moved, trackValid, stray>>
        BY <2>3 DEF Mark
      <3> QED
        BY <3>1, <3>2 DEF TypeOK, StartInv
    <2> QED
      BY <1>4, <2>1, <2>2, <2>3
  <1>5. ASSUME NEW d \in inbox, Recv(d) PROVE TypeOK' /\ StartInv'
    BY <1>5 DEF Recv, TypeOK, StartInv
  <1>6. CASE Store
    <2>1. [session |-> msg.session, n |-> msg.n] \in Angles
      BY DEF TypeOK, Datagrams, Angles
    <2>2. orient' \in [Axes -> Angles]
      BY <1>6, <2>1 DEF Store, TypeOK
    <2> QED
      BY <1>6, <2>2 DEF Store, TypeOK, StartInv
  <1>7. CASE Apply
    BY <1>7, ZenonT(60) DEF Apply, Take, Copy, WriteStops, Write, TypeOK, StartInv
  <1>8. CASE Stop(TRUE) \/ Stop(FALSE)
    BY <1>8 DEF Stop, TypeOK, StartInv
  <1>9. CASE CloseSocket \/ Join \/ OpenFails
    BY <1>9, BoundsAssumption DEF CloseSocket, Join, OpenFails, TypeOK, StartInv
  <1>10. CASE Open
    <2>1. session' \in 0..MaxStarts /\ sock' \in 0..MaxStarts
      BY <1>10, BoundsAssumption DEF Open, TypeOK, StartInv
    <2>2. orient' \in [Axes -> Angles] /\ param' \in [Axes -> Angles \cup {Manual}]
      BY <1>10, BoundsAssumption DEF Open, FreshTarget, Rest, Angles
    <2>3. UNCHANGED <<inbox, sent, fd, msg, starting, local, stray>> /\ main' = "idle" /\ worker' = "top"
          /\ running' \in BOOLEAN /\ dirty' \in BOOLEAN /\ moved' \in BOOLEAN /\ trackValid' \in BOOLEAN
      BY <1>10 DEF Open, FreshTarget
    <2> QED
      BY <2>1, <2>2, <2>3 DEF TypeOK, StartInv
  <1> QED
    BY <1>1, <1>2, <1>3, <1>4, <1>5, <1>6, <1>7, <1>8, <1>9, <1>10 DEF Next, Worker, Lifecycle

\* The conjuncts of IInv hold in every state of every session.
THEOREM Invariance == Spec => []IInv
  <1>1. Init => IInv
    BY InitTypes, InitHandOver DEF IInv
  <1>2. IInv /\ [Next]_vars => IInv'
    BY TypesStay, NextHandOver DEF IInv
  <1> QED
    BY <1>1, <1>2, PTL DEF Spec

\* Coalescing never loses the latest orientation, and once stop() has joined the
\* worker no thread of the old session is left.
THEOREM NothingLost == Spec => [](NoLostMove /\ OneWorker)
  <1>1. IInv => NoLostMove /\ OneWorker
    BY DEF IInv, HandOver
  <1> QED
    BY <1>1, Invariance, PTL

\* The rotator is only moved to where a datagram of the present session put it.
THEOREM MovesAreTracked == Spec => OnlyTrackedMoves
  <1> DEFINE A == main = "write" /\ param' # param =>
                    /\ \A a \in Axes : param'[a] = Rest \/ param'[a].session = session
                    /\ \E a \in Axes : param'[a] # Rest
  <1>1. IInv /\ [Next]_vars => [A]_vars
    <2> SUFFICES ASSUME IInv, Next, main = "write", param' # param
                 PROVE  /\ \A a \in Axes : param'[a] = Rest \/ param'[a].session = session
                        /\ \E a \in Axes : param'[a] # Rest
      OBVIOUS
    <2>1. param' = local
      BY DEF Next, Send, DeleteTrack, MoveRotator, Worker, WorkerTop, RecvNothing, Recv, Store, Mark,
             Apply, Take, Copy, WriteStops, Write, Lifecycle, Stop, CloseSocket, Join, OpenFails,
             Open, FreshTarget, workerVars, mainVars, fxVars
    <2>2. OfSession(local)
      BY DEF IInv, HandOver, SessionInv
    <2> QED
      BY <2>1, <2>2 DEF OfSession
  <1>2. Spec => [][A]_vars
    BY <1>1, Invariance, PTL DEF Spec
  <1> QED
    BY <1>2 DEF OnlyTrackedMoves
=============================================================================
