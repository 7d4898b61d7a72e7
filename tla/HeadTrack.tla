------------------------------ MODULE HeadTrack ------------------------------
(***************************************************************************)
(* HeadTrackBridge: a worker thread receives OSC datagrams on a UDP socket *)
(* and stores the head orientation per axis; the main thread coalesces it  *)
(* into one write of the rotator's parameters per tick of Run().  start()  *)
(* and stop() replace the socket and the thread while datagrams arrive.    *)
(*                                                                         *)
(* An angle is abstracted to the datagram that set it: a record of the     *)
(* listener session the datagram was sent to and its number.  The axes a   *)
(* message names stand for what mapOscToOrientation finds in it; a message *)
(* without an orientation is received and has no effect.                   *)
(***************************************************************************)
EXTENDS Naturals

CONSTANTS
    Axes,           \* yaw, pitch and roll, or some of them
    MaxSent,        \* datagrams the tracker sends
    MaxStarts       \* calls of start() that succeed

ASSUME AxesAssumption == Axes # {}
ASSUME BoundsAssumption == MaxSent \in Nat /\ MaxStarts \in Nat

VARIABLES
    running,        \* running_
    sock,           \* sock_: the session of the open socket, 0 for none
    orient,         \* orient_
    dirty,          \* dirty_
    session,        \* calls of start() that bound a socket
    inbox,          \* datagrams in the socket's buffer
    sent,           \* datagrams sent so far
    worker,         \* none, top, recv, got, stored
    fd,             \* the socket the worker has loaded
    msg,            \* the datagram the worker has decoded
    main,           \* idle, copy, write, close, join, open
    starting,       \* the stop in progress is the first half of a start()
    local,          \* applyOnMainThread's copy of orient_
    param,          \* the parameters of the rotator that start() was given
    moved,          \* the rotator is no longer the effect at index target_.fx
    trackValid,     \* ValidatePtr2 of target_.track
    stray           \* another effect's parameters were written

vars == <<running, sock, orient, dirty, session, inbox, sent, worker, fd, msg, main, starting,
          local, param, moved, trackValid, stray>>

workerVars == <<worker, fd, msg>>
fxVars     == <<param, moved, trackValid, stray>>
mainVars   == <<main, starting, local>>

Angles == [session : 0..MaxStarts, n : 0..MaxSent]
Rest   == [session |-> 0, n |-> 0]          \* HeadOrientation{}
Manual == [session |-> 0, n |-> 1]          \* what the user had set by hand
NoMsg  == [session |-> 0, n |-> 0, axes |-> {}]
Datagrams == [session : 0..MaxStarts, n : 0..MaxSent, axes : SUBSET Axes]

TypeOK ==
    /\ running \in BOOLEAN
    /\ sock \in 0..MaxStarts
    /\ orient \in [Axes -> Angles]
    /\ dirty \in BOOLEAN
    /\ session \in 0..MaxStarts
    /\ inbox \subseteq Datagrams
    /\ sent \in 0..MaxSent
    /\ worker \in {"none", "top", "recv", "got", "stored"}
    /\ fd \in 0..MaxStarts
    /\ msg \in Datagrams
    /\ main \in {"idle", "copy", "write", "close", "join", "open"}
    /\ starting \in BOOLEAN
    /\ local \in [Axes -> Angles]
    /\ param \in [Axes -> Angles \cup {Manual}]
    /\ moved \in BOOLEAN
    /\ trackValid \in BOOLEAN
    /\ stray \in BOOLEAN

Init ==
    /\ running = FALSE
    /\ sock = 0
    /\ orient = [a \in Axes |-> Rest]
    /\ dirty = FALSE
    /\ session = 0
    /\ inbox = {}
    /\ sent = 0
    /\ worker = "none"
    /\ fd = 0
    /\ msg = NoMsg
    /\ main = "idle"
    /\ starting = FALSE
    /\ local = [a \in Axes |-> Rest]
    /\ param = [a \in Axes |-> Manual]
    /\ moved = FALSE
    /\ trackValid = TRUE
    /\ stray = FALSE

-----------------------------------------------------------------------------
(* The tracker and the user. *)

\* UDP: a datagram for a closed socket is lost.
Send(axes) ==
    /\ sent < MaxSent
    /\ sent' = sent + 1
    /\ inbox' = IF sock = 0 THEN inbox
                ELSE inbox \cup {[session |-> sock, n |-> sent + 1, axes |-> axes]}
    /\ UNCHANGED <<running, sock, orient, dirty, session, workerVars, mainVars, fxVars>>

\* Between two main-thread calls the user may delete the monitor track or move
\* the rotator in its chain.
DeleteTrack ==
    /\ main = "idle"
    /\ trackValid
    /\ trackValid' = FALSE
    /\ UNCHANGED <<running, sock, orient, dirty, session, inbox, sent, workerVars, mainVars,
                   param, moved, stray>>

MoveRotator ==
    /\ main = "idle"
    /\ ~moved
    /\ moved' = TRUE
    /\ UNCHANGED <<running, sock, orient, dirty, session, inbox, sent, workerVars, mainVars,
                   param, trackValid, stray>>

-----------------------------------------------------------------------------
(* recvLoop: the worker thread. *)

\* while (running_) { s = sock_; if (s < 0) break; ...
WorkerTop ==
    /\ worker = "top"
    /\ worker' = IF running /\ sock # 0 THEN "recv" ELSE "none"
    /\ fd' = sock
    /\ UNCHANGED <<running, sock, orient, dirty, session, inbox, sent, msg, mainVars, fxVars>>

\* Mutant: recvfrom is called again at once, without another look at running_.
RecvNothing_Retries ==
    /\ worker = "recv"
    /\ UNCHANGED vars

\* recvfrom timed out or failed, or what came was no orientation.
RecvNothing ==
    /\ worker = "recv"
    /\ worker' = "top"
    /\ UNCHANGED <<running, sock, orient, dirty, session, inbox, sent, fd, msg, mainVars, fxVars>>

Recv(d) ==
    /\ worker = "recv"
    /\ sock = fd
    /\ d \in inbox
    /\ inbox' = inbox \ {d}
    /\ msg' = d
    /\ worker' = "got"
    /\ UNCHANGED <<running, sock, orient, dirty, session, sent, fd, mainVars, fxVars>>

\* Under m_, only the axes of this datagram; the others keep what they have.
Store ==
    /\ worker = "got"
    /\ orient' = [a \in Axes |-> IF a \in msg.axes THEN [session |-> msg.session, n |-> msg.n]
                                 ELSE orient[a]]
    /\ worker' = "stored"
    /\ UNCHANGED <<running, sock, dirty, session, inbox, sent, fd, msg, mainVars, fxVars>>

\* dirty_.store(true), outside the mutex.
Mark ==
    /\ worker = "stored"
    /\ dirty' = TRUE
    /\ worker' = "top"
    /\ UNCHANGED <<running, sock, orient, session, inbox, sent, fd, msg, mainVars, fxVars>>

-----------------------------------------------------------------------------
(* applyOnMainThread. *)

\* if (!running_) return; if (!dirty_.exchange(false)) return;
Take ==
    /\ main = "idle"
    /\ running
    /\ dirty
    /\ dirty' = FALSE
    /\ main' = "copy"
    /\ UNCHANGED <<running, sock, orient, session, inbox, sent, workerVars, starting, local, fxVars>>

\* Under m_: t = target_; o = orient_.
Copy ==
    /\ main = "copy"
    /\ local' = orient
    /\ main' = "write"
    /\ UNCHANGED <<running, sock, orient, dirty, session, inbox, sent, workerVars, starting, fxVars>>

\* ValidatePtr2 fails: stop().
WriteStops ==
    /\ main = "write"
    /\ ~trackValid
    /\ running' = FALSE
    /\ starting' = FALSE
    /\ main' = "close"
    /\ UNCHANGED <<sock, orient, dirty, session, inbox, sent, workerVars, local, fxVars>>

\* Mutant: the flag is cleared when the write is done, instead of when it is taken.
Write_ClearsDirty ==
    /\ main = "write"
    /\ trackValid
    /\ IF moved THEN stray' = TRUE /\ UNCHANGED param ELSE param' = local /\ UNCHANGED stray
    /\ dirty' = FALSE
    /\ main' = "idle"
    /\ UNCHANGED <<running, sock, orient, session, inbox, sent, workerVars, starting, local,
                   moved, trackValid>>

\* TrackFX_SetParam on the three parameters of the effect at target_.fx.
Write ==
    /\ main = "write"
    /\ trackValid
    /\ IF moved THEN stray' = TRUE /\ UNCHANGED param ELSE param' = local /\ UNCHANGED stray
    /\ main' = "idle"
    /\ UNCHANGED <<running, sock, orient, dirty, session, inbox, sent, workerVars, starting, local,
                   moved, trackValid>>

-----------------------------------------------------------------------------
(* start() and stop(), on the main thread. *)

\* spatial.stop_head_tracking and shutDown, or the first line of start().
Stop(restart) ==
    /\ main = "idle"
    /\ restart => session < MaxStarts
    /\ running' = FALSE
    /\ starting' = restart
    /\ main' = "close"
    /\ UNCHANGED <<sock, orient, dirty, session, inbox, sent, workerVars, local, fxVars>>

\* sock_.exchange(-1), shutdown, close: what is in the buffer is gone.
CloseSocket ==
    /\ main = "close"
    /\ sock' = 0
    /\ inbox' = {}
    /\ main' = "join"
    /\ UNCHANGED <<running, orient, dirty, session, sent, workerVars, starting, local, fxVars>>

\* if (thread_.joinable()) thread_.join();
Join ==
    /\ main = "join"
    /\ worker = "none"
    /\ main' = IF starting THEN "open" ELSE "idle"
    /\ UNCHANGED <<running, sock, orient, dirty, session, inbox, sent, workerVars, starting, local,
                   fxVars>>

\* Both bind() calls fail: the bridge stays stopped.
OpenFails ==
    /\ main = "open"
    /\ main' = "idle"
    /\ UNCHANGED <<running, sock, orient, dirty, session, inbox, sent, workerVars, starting, local,
                   fxVars>>

\* add_binaural_monitor has just made the track and its rotator.
FreshTarget ==
    /\ param' = [a \in Axes |-> Manual]
    /\ moved' = FALSE
    /\ trackValid' = TRUE

\* Mutant: dirty_ keeps the mark of the session before.
Open_KeepsDirty ==
    /\ main = "open"
    /\ FreshTarget
    /\ orient' = [a \in Axes |-> Rest]
    /\ session' = session + 1
    /\ sock' = session'
    /\ running' = TRUE
    /\ worker' = "top"
    /\ main' = "idle"
    /\ UNCHANGED <<dirty, inbox, sent, fd, msg, starting, local, stray>>

\* The bound socket, a fresh orientation and a new thread.
Open ==
    /\ main = "open"
    /\ FreshTarget
    /\ orient' = [a \in Axes |-> Rest]
    /\ session' = session + 1
    /\ sock' = session'
    /\ dirty' = FALSE
    /\ running' = TRUE
    /\ worker' = "top"
    /\ main' = "idle"
    /\ UNCHANGED <<inbox, sent, fd, msg, starting, local, stray>>

-----------------------------------------------------------------------------
Worker == WorkerTop \/ RecvNothing \/ (\E d \in inbox : Recv(d)) \/ Store \/ Mark

Apply == Take \/ Copy \/ WriteStops \/ Write

Lifecycle == Stop(TRUE) \/ Stop(FALSE) \/ CloseSocket \/ Join \/ OpenFails \/ Open

Next ==
    \/ \E axes \in (SUBSET Axes) \ {{}} : Send(axes)
    \/ DeleteTrack \/ MoveRotator
    \/ Worker \/ Apply \/ Lifecycle

Spec == Init /\ [][Next]_vars

\* Both threads are scheduled, recvfrom times out after 200 ms but delivers what
\* has arrived, and REAPER calls Run().
Fairness ==
    /\ WF_vars(Worker)
    /\ SF_vars(\E d \in inbox : Recv(d))
    /\ WF_vars(Take \/ Copy \/ WriteStops \/ Write)
    /\ WF_vars(CloseSocket \/ Join \/ OpenFails \/ Open)

FairSpec == Spec /\ Fairness
-----------------------------------------------------------------------------
(* Properties. *)

\* Coalescing loses no movement: an orientation the rotator does not show yet is
\* marked, or the worker is about to mark it, or this tick is applying it.
Underway(a) ==
    \/ dirty
    \/ worker = "stored"
    \/ main = "copy"
    \/ main = "write" /\ local[a] = orient[a]

NoLostMove ==
    running /\ ~moved /\ trackValid =>
      \A a \in Axes : orient[a] \in {Rest, param[a]} \/ Underway(a)

\* The rotator only ever moves because a datagram of the present session arrived:
\* a restart neither replays the old orientation nor snaps the scene to the front.
OnlyTrackedMoves ==
    [][main = "write" /\ param' # param =>
         /\ \A a \in Axes : param'[a] = Rest \/ param'[a].session = session
         /\ \E a \in Axes : param'[a] # Rest]_vars

\* Once stop() has returned, and while a new socket is opened, no thread of the
\* old session is left that could still store or mark.
OneWorker == main \in {"idle", "open"} /\ ~running => worker = "none" /\ sock = 0

\* "it writes the three rotator params" (head_track_bridge.h 19-22).
WritesRotatorOnly == ~stray

\* stop() on the main thread returns: the worker it joins leaves its loop.
StopReturns == main = "join" ~> main # "join"

\* What the tracker says last is what the rotator shows, while it is listened to.
Tracks ==
    \A a \in Axes, n \in 1..MaxSent :
      (orient[a].n = n /\ running) ~>
        (orient[a].n # n \/ ~running \/ param[a] = orient[a] \/ moved)
-----------------------------------------------------------------------------
(* The inductive invariant behind the safety properties. *)

MainInv ==
    /\ main \in {"copy", "write"} => running
    /\ main \in {"close", "join", "open"} => ~running
    /\ main \in {"join", "open"} => sock = 0 /\ inbox = {}

\* What a tick writes is the latest orientation, or another tick is due.
TickInv ==
    main = "write" => \A a \in Axes : dirty \/ worker = "stored" \/ local[a] = orient[a]

OfSession(o) ==
    /\ \A a \in Axes : o[a] = Rest \/ o[a].session = session
    /\ \E a \in Axes : o[a] # Rest

\* Every datagram, stored angle and mark is of the present session.
Current(d) == d.session = session /\ d.n # 0 /\ d.axes \in (SUBSET Axes) \ {{}}

SessionInv ==
    /\ sent \in Nat
    /\ sock \in {0, session}
    /\ \A d \in inbox : Current(d)
    /\ worker = "got" => Current(msg)
    /\ \A a \in Axes : orient[a] = Rest \/ orient[a].session = session
    /\ dirty \/ worker = "stored" \/ main = "copy" => OfSession(orient)
    /\ main = "write" => OfSession(local)

HandOver == MainInv /\ OneWorker /\ TickInv /\ NoLostMove /\ SessionInv

\* A start() in progress will succeed once more at most as often as is bounded.
StartInv == main \in {"close", "join", "open"} /\ (starting \/ main = "open") => starting /\ session < MaxStarts

IInv == TypeOK /\ StartInv /\ HandOver
=============================================================================
