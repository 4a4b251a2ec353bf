------------------------------ MODULE Manager -------------------------------
(***************************************************************************)
(* The room manager (internal/domain/service/manager.go) seen from one     *)
(* document: admission of joining connections, coalesced materialization   *)
(* off the lock, owner deletion (CloseDeleted, driven by the lifecycle     *)
(* consumer, which redelivers what is not acknowledged) and graceful       *)
(* shutdown (Close).  The steps are the critical sections of Manager.mu    *)
(* and the channel operations between them; everything a goroutine read    *)
(* under the lock and uses later (the delete epoch, the room) is state.    *)
(*                                                                         *)
(* A room is reduced to what admission and teardown see of it: lifecycle,  *)
(* command channel, occupancy, idle timer.  Module Room has the rest.      *)
(***************************************************************************)
EXTENDS Naturals, Sequences, FiniteSets

CONSTANTS
  Joiners,       \* the connections that call Join, once each
  QueueCap,      \* capacity of a room's command channel
  MaxRooms,      \* bound: rooms ever materialized
  MaxEvents,     \* bound: deliveries of delete events for this document
  MaxOther,      \* bound: deletions of other documents
  Disturbances   \* what else may happen: a subset of {"shutdown", "abandon"}

ASSUME ManagerAssumption ==
  /\ IsFiniteSet(Joiners) /\ 0 \notin Joiners /\ "none" \notin Joiners
  /\ QueueCap \in Nat \ {0} /\ MaxRooms \in Nat /\ MaxEvents \in Nat /\ MaxOther \in Nat
  /\ Disturbances \subseteq {"shutdown", "abandon"}

VARIABLES
  epoch,     \* m.deleteEpoch
  tomb,      \* m.deleteTombstones[id]: the delivery that set it, 0 for none
  timers,    \* deliveries whose tombstone has not reached its expiry
  closed,    \* m.closed
  reg,       \* m.rooms[id], 0 for none
  flight,    \* the singleflight execution: the joiner that leads it, or "none"
  state,     \* per room: its lifecycle
  flushes,   \* per room: its teardown has a flush to run first
  cmds,      \* per room: its command channel
  occupants, \* per room: its members
  idle,      \* per room: the idle timer is armed
  jpc,       \* per joiner: where its Join is
  jepoch,    \* per joiner: the delete epoch it captured
  jroom,     \* per joiner: the room it was handed
  tries,     \* per joiner: attempts used
  exists,    \* the owner still has the document's row (external)
  event,     \* the delete event: none, pending, handling, waiting, acked
  target,    \* the room the delivery being handled is closing
  events,    \* deliveries so far
  others,    \* deletions of other documents so far
  down,      \* shutdown: no, draining, finished
  drain      \* the rooms Close snapshotted

registry == <<epoch, tomb, timers, closed, reg, flight>>
roomVars == <<state, flushes, cmds, occupants, idle>>
joinVars == <<jpc, jepoch, jroom, tries>>
ownerVars == <<exists, event, target, events, others>>
downVars == <<down, drain>>
vars == <<registry, roomVars, joinVars, ownerVars, downVars>>

Rooms == 1..MaxRooms
None == 0

\* lifecycle_state.go: legalTransition.
States == {"none", "materializing", "active", "draining", "released", "closed"}
Commands == [kind : {"join", "leave"}, who : Joiners \cup {None}]
              \cup {[kind |-> "close", who |-> None], [kind |-> "closeDeleted", who |-> None]}
Cmd(k, j) == [kind |-> k, who |-> j]

Fresh == {i \in Rooms : state[i] = "none"}
NextRoom == CHOOSE i \in Fresh : \A k \in Fresh : i <= k

Init ==
  /\ epoch = 0 /\ tomb = 0 /\ timers = {} /\ closed = FALSE /\ reg = None
  /\ flight = "none"
  /\ state = [i \in Rooms |-> "none"]
  /\ flushes = [i \in Rooms |-> FALSE]
  /\ cmds = [i \in Rooms |-> <<>>]
  /\ occupants = [i \in Rooms |-> {}]
  /\ idle = [i \in Rooms |-> FALSE]
  /\ jpc = [j \in Joiners |-> "start"]
  /\ jepoch = [j \in Joiners |-> 0]
  /\ jroom = [j \in Joiners |-> None]
  /\ tries = [j \in Joiners |-> 0]
  /\ exists = TRUE /\ event = "none" /\ target = None /\ events = 0 /\ others = 0
  /\ down = "no" /\ drain = {}

-----------------------------------------------------------------------------
(* Join                                                                    *)

To(j, place) == jpc' = [jpc EXCEPT ![j] = place]

\* authorizeSession: a denial and an error both end the join before any room.
Authorize(j) ==
  /\ jpc[j] = "start"
  /\ To(j, "gate") \/ To(j, "refused")
  /\ UNCHANGED <<registry, roomVars, jepoch, jroom, tries, ownerVars, downVars>>

\* The tombstone check and the epoch capture, one critical section.
Gate(j) ==
  /\ jpc[j] = "gate"
  /\ IF tomb # 0 THEN To(j, "refused") /\ UNCHANGED jepoch
     ELSE To(j, "lookup") /\ jepoch' = [jepoch EXCEPT ![j] = epoch]
  /\ UNCHANGED <<registry, roomVars, jroom, tries, ownerVars, downVars>>

\* requireDocument: a missing row, a row not migrated yet and a store error all
\* refuse.
RequireDocument(j) ==
  /\ jpc[j] = "lookup"
  /\ (exists /\ To(j, "acquire")) \/ To(j, "refused")
  /\ UNCHANGED <<registry, roomVars, jepoch, jroom, tries, ownerVars, downVars>>

\* acquire: the body of singleflight up to newRoom, or waiting behind another
\* caller's execution of it.
AcquireFound(j) ==
  /\ jpc[j] = "acquire" /\ flight = "none" /\ reg # None
  /\ To(j, "check")
  /\ jroom' = [jroom EXCEPT ![j] = reg]
  /\ UNCHANGED <<registry, roomVars, jepoch, tries, ownerVars, downVars>>

AcquireShutDown(j) ==
  /\ jpc[j] = "acquire" /\ flight = "none" /\ reg = None /\ closed
  /\ To(j, "refused")
  /\ UNCHANGED <<registry, roomVars, jepoch, jroom, tries, ownerVars, downVars>>

AcquireLeads(j) ==
  /\ jpc[j] = "acquire" /\ flight = "none" /\ reg = None /\ ~closed /\ Fresh # {}
  /\ flight' = j
  /\ state' = [state EXCEPT ![NextRoom] = "materializing"]
  /\ To(j, "inflight")
  /\ UNCHANGED <<epoch, tomb, timers, closed, reg, flushes, cmds, occupants, idle,
                 jepoch, jroom, tries, ownerVars, downVars>>

AcquireFollows(j) ==
  /\ jpc[j] = "acquire" /\ flight # "none"
  /\ To(j, "inflight")
  /\ UNCHANGED <<registry, roomVars, jepoch, jroom, tries, ownerVars, downVars>>

Materializing == CHOOSE i \in Rooms : state[i] = "materializing"
EndFlight(place, room) ==
  /\ flight' = "none"
  /\ jpc' = [j \in Joiners |-> IF jpc[j] = "inflight" THEN place ELSE jpc[j]]
  /\ jroom' = [j \in Joiners |-> IF jpc[j] = "inflight" THEN room ELSE jroom[j]]

\* Mutant: the epoch is not read again before the room is registered.
RegistersUnlessClosed == ~closed
\* Mutant: the shutdown flag is not read again before the room is registered.
RegistersUnlessDeleted == epoch = jepoch[flight]

\* May the room just materialized be registered? Decided under the lock.
MayRegister == epoch = jepoch[flight] /\ ~closed

\* newRoom succeeded and the room may be registered: it starts serving.
FlightRegisters ==
  /\ flight # "none" /\ MayRegister
  /\ LET i == Materializing IN
     /\ reg' = i
     /\ state' = [state EXCEPT ![i] = "active"]
     /\ EndFlight("check", i)
  /\ UNCHANGED <<epoch, tomb, timers, closed, flushes, cmds, occupants, idle, jepoch,
                 tries, ownerVars, downVars>>

\* newRoom failed, or its room must not be registered and is torn down at once;
\* the error is shared by every caller behind the flight.
FlightFails ==
  /\ flight # "none"
  /\ state' = [state EXCEPT ![Materializing] = "closed"]
  /\ EndFlight("refused", None)
  /\ UNCHANGED <<epoch, tomb, timers, closed, reg, flushes, cmds, occupants, idle, jepoch,
                 tries, ownerVars, downVars>>

HasSpace(i) == Len(cmds[i]) < QueueCap

Post(i, c) == cmds' = [cmds EXCEPT ![i] = Append(@, c)]

\* Mutant: the stale caller just goes away.
CheckEpochSilently(j) ==
  /\ jpc[j] = "check"
  /\ To(j, IF epoch = jepoch[j] THEN "enter" ELSE "refused")
  /\ UNCHANGED <<registry, roomVars, jepoch, jroom, tries, ownerVars, downVars>>

\* The per-caller epoch check. A stale caller leaves the room it was handed, so
\* that an empty one is put on the idle clock.
CheckEpoch(j) ==
  /\ jpc[j] = "check"
  /\ IF epoch = jepoch[j] THEN To(j, "enter") /\ UNCHANGED cmds
     ELSE /\ To(j, "refused")
          /\ \/ state[jroom[j]] = "active" /\ HasSpace(jroom[j]) /\ Post(jroom[j], Cmd("leave", None))
             \/ ~(state[jroom[j]] = "active" /\ HasSpace(jroom[j])) /\ UNCHANGED cmds
  /\ UNCHANGED <<registry, state, flushes, occupants, idle, jepoch, jroom, tries, ownerVars, downVars>>

\* The two attempts of Join.
Retry(j) ==
  /\ tries' = [tries EXCEPT ![j] = @ + 1]
  /\ To(j, IF tries[j] = 0 THEN "acquire" ELSE "refused")

\* Enqueueing cmdJoin: refused by a room that left Active, or by a full channel
\* past the deadline.
EnterRoom(j) ==
  /\ jpc[j] = "enter"
  /\ IF state[jroom[j]] = "active" /\ HasSpace(jroom[j])
     THEN Post(jroom[j], Cmd("join", j)) /\ To(j, "waiting") /\ UNCHANGED tries
     ELSE Retry(j) /\ UNCHANGED cmds
  /\ UNCHANGED <<registry, state, flushes, occupants, idle, jepoch, jroom, ownerVars, downVars>>

\* Join returns its session.
JoinAnswered(j) ==
  /\ jpc[j] = "answered"
  /\ To(j, "in")
  /\ UNCHANGED <<registry, roomVars, jepoch, jroom, tries, ownerVars, downVars>>

\* room.done closed while the join waited; with an answer there too, the select
\* may still choose this.
RoomWentAway(j) ==
  /\ jpc[j] \in {"waiting", "answered"} /\ state[jroom[j]] \in {"released", "closed"}
  /\ Retry(j)
  /\ UNCHANGED <<registry, roomVars, jepoch, jroom, ownerVars, downVars>>

\* Session.Leave: dropped by a room that does not take it.
Leave(j) ==
  /\ jpc[j] = "in"
  /\ To(j, "gone")
  /\ \/ state[jroom[j]] = "active" /\ HasSpace(jroom[j]) /\ Post(jroom[j], Cmd("leave", j))
     \/ ~(state[jroom[j]] = "active" /\ HasSpace(jroom[j])) /\ UNCHANGED cmds
  /\ UNCHANGED <<registry, state, flushes, occupants, idle, jepoch, jroom, tries, ownerVars, downVars>>

-----------------------------------------------------------------------------
(* The rooms, as the manager sees them                                     *)

Serving(i, kind) == state[i] = "active" /\ cmds[i] # <<>> /\ Head(cmds[i]).kind = kind
Take(i) == cmds' = [cmds EXCEPT ![i] = Tail(@)]

HandleJoin(i) ==
  /\ Serving(i, "join")
  /\ LET j == Head(cmds[i]).who IN
     /\ occupants' = [occupants EXCEPT ![i] = @ \cup {j}]
     /\ To(j, "answered")
  /\ idle' = [idle EXCEPT ![i] = FALSE]
  /\ Take(i)
  /\ UNCHANGED <<registry, state, flushes, jepoch, jroom, tries, ownerVars, downVars>>

HandleLeave(i) ==
  /\ Serving(i, "leave")
  /\ occupants' = [occupants EXCEPT ![i] = @ \ {Head(cmds[i]).who}]
  /\ idle' = [idle EXCEPT ![i] = @ \/ occupants'[i] = {}]
  /\ Take(i)
  /\ UNCHANGED <<registry, state, flushes, joinVars, ownerVars, downVars>>

\* cmdClose and cmdCloseDeleted begin the teardown; only cmdClose flushes.
HandleClose(i) ==
  /\ Serving(i, "close") \/ Serving(i, "closeDeleted")
  /\ state' = [state EXCEPT ![i] = "draining"]
  /\ flushes' = [flushes EXCEPT ![i] = Head(cmds[i]).kind = "close"]
  /\ Take(i)
  /\ UNCHANGED <<registry, occupants, idle, joinVars, ownerVars, downVars>>

\* releaseIfEmpty, after a flush that ran while the room was still active.
IdleRelease(i) ==
  /\ state[i] = "active" /\ idle[i]
  /\ idle' = [idle EXCEPT ![i] = FALSE]
  /\ state' = IF occupants[i] = {} THEN [state EXCEPT ![i] = "draining"] ELSE state
  /\ UNCHANGED <<registry, flushes, cmds, occupants, joinVars, ownerVars, downVars>>

\* An escalation or a panic tears the room down.
Abandon(i) ==
  /\ "abandon" \in Disturbances
  /\ state[i] = "active"
  /\ state' = [state EXCEPT ![i] = "draining"]
  /\ UNCHANGED <<registry, flushes, cmds, occupants, idle, joinVars, ownerVars, downVars>>

\* teardown up to close(done): the members are ended, the flush is over.
Release(i) ==
  /\ state[i] = "draining"
  /\ state' = [state EXCEPT ![i] = "released"]
  /\ flushes' = [flushes EXCEPT ![i] = FALSE]
  /\ occupants' = [occupants EXCEPT ![i] = {}]
  /\ UNCHANGED <<registry, cmds, idle, joinVars, ownerVars, downVars>>

\* Mutant: the registry forgets a room before its teardown has finished.
RemoveWhileDraining(i) ==
  /\ state[i] \in {"draining", "released"} /\ reg = i
  /\ reg' = None
  /\ state' = IF state[i] = "released" THEN [state EXCEPT ![i] = "closed"] ELSE state
  /\ UNCHANGED <<epoch, tomb, timers, closed, flight, flushes, cmds, occupants, idle,
                 joinVars, ownerVars, downVars>>

\* onReleased, then Closed: remove only if it is still the registered instance.
Remove(i) ==
  /\ state[i] = "released"
  /\ reg' = IF reg = i THEN None ELSE reg
  /\ state' = [state EXCEPT ![i] = "closed"]
  /\ UNCHANGED <<epoch, tomb, timers, closed, flight, flushes, cmds, occupants, idle,
                 joinVars, ownerVars, downVars>>

-----------------------------------------------------------------------------
(* Owner deletion: the lifecycle consumer and CloseDeleted                 *)

\* The owner deletes the document: the event is confirmed by the broker before
\* the cascade that removes the row starts.
OwnerDeletes ==
  /\ event = "none" /\ MaxEvents > 0
  /\ event' = "pending"
  /\ UNCHANGED <<registry, roomVars, joinVars, exists, target, events, others, downVars>>

RowRemoved ==
  /\ event # "none" /\ exists
  /\ exists' = FALSE
  /\ UNCHANGED <<registry, roomVars, joinVars, event, target, events, others, downVars>>

\* A delivery: the critical section of CloseDeleted.
Deliver ==
  /\ event = "pending" /\ events < MaxEvents
  /\ epoch' = epoch + 1
  /\ events' = events + 1
  /\ tomb' = events'
  /\ timers' = timers \cup {events'}
  /\ target' = reg
  /\ event' = "handling"
  /\ UNCHANGED <<closed, reg, flight, roomVars, joinVars, exists, others, downVars>>

\* A refusal while the room is still active is transient, and requeued.
RefusalIsTransient == state[target] = "active"

\* The rest of CloseDeleted: hand the room the command, or conclude.
PostCloseDeleted ==
  /\ event = "handling"
  /\ IF target = None THEN event' = "acked" /\ UNCHANGED cmds
     ELSE IF state[target] = "active" /\ HasSpace(target)
     THEN Post(target, Cmd("closeDeleted", None)) /\ event' = "waiting"
     ELSE event' = (IF RefusalIsTransient THEN "pending" ELSE "acked") /\ UNCHANGED cmds
  /\ UNCHANGED <<registry, state, flushes, occupants, idle, joinVars, exists, target, events,
                 others, downVars>>

\* Mutant: only the answer to the command itself is waited for.
CloseDeletedAnswered ==
  /\ event = "waiting" /\ state[target] \in {"released", "closed"}
  /\ \A k \in 1..Len(cmds[target]) : cmds[target][k].kind # "closeDeleted"
  /\ event' = "acked"
  /\ UNCHANGED <<registry, roomVars, joinVars, exists, target, events, others, downVars>>

\* done2 is answered after teardown, or room.done closed.
CloseDeletedDone ==
  /\ event = "waiting" /\ state[target] \in {"released", "closed"}
  /\ event' = "acked"
  /\ UNCHANGED <<registry, roomVars, joinVars, exists, target, events, others, downVars>>

\* The handler's deadline elapses first: requeue.
CloseDeletedTimesOut ==
  /\ event = "waiting" /\ events < MaxEvents
  /\ event' = "pending"
  /\ UNCHANGED <<registry, roomVars, joinVars, exists, target, events, others, downVars>>

\* An acknowledged event may be delivered again.
Redelivered ==
  /\ event = "acked" /\ events < MaxEvents
  /\ event' = "pending"
  /\ UNCHANGED <<registry, roomVars, joinVars, exists, target, events, others, downVars>>

\* The expiry set by the g-th delivery: it removes its own tombstone only. A Join
\* that meets the expired entry first removes the same one.
Expire(g) ==
  /\ g \in timers /\ \A h \in timers : g <= h
  /\ timers' = timers \ {g}
  /\ tomb' = IF tomb = g THEN 0 ELSE tomb
  /\ UNCHANGED <<epoch, closed, reg, flight, roomVars, joinVars, ownerVars, downVars>>

\* CloseDeleted of another document moves the manager-wide epoch.
OtherDeleted ==
  /\ others < MaxOther
  /\ others' = others + 1
  /\ epoch' = epoch + 1
  /\ UNCHANGED <<tomb, timers, closed, reg, flight, roomVars, joinVars, exists, event, target,
                 events, downVars>>

-----------------------------------------------------------------------------
(* Close                                                                   *)

BeginShutdown ==
  /\ "shutdown" \in Disturbances
  /\ down = "no"
  /\ closed' = TRUE
  /\ drain' = {reg} \ {None}
  /\ down' = "draining"
  /\ UNCHANGED <<epoch, tomb, timers, reg, flight, roomVars, joinVars, ownerVars>>

\* One goroutine per room posts cmdClose; a room that left Active refuses it.
SignalClose(i) ==
  /\ down = "draining" /\ i \in drain
  /\ state[i] = "active" /\ HasSpace(i)
  /\ \A k \in 1..Len(cmds[i]) : cmds[i][k].kind # "close"
  /\ Post(i, Cmd("close", None))
  /\ UNCHANGED <<registry, state, flushes, occupants, idle, joinVars, ownerVars, downVars>>

\* Every snapshotted room is done.
FinishShutdown ==
  /\ down = "draining"
  /\ \A i \in drain : state[i] \in {"released", "closed"}
  /\ down' = "finished"
  /\ UNCHANGED <<registry, roomVars, joinVars, ownerVars, drain>>

\* The shutdown deadline: the drain gives up on the rooms that are left.
ShutdownTimesOut ==
  /\ down = "draining"
  /\ down' = "timedOut"
  /\ UNCHANGED <<registry, roomVars, joinVars, ownerVars, drain>>

-----------------------------------------------------------------------------
JoinStep(j) ==
  \/ Authorize(j) \/ Gate(j) \/ RequireDocument(j)
  \/ AcquireFound(j) \/ AcquireShutDown(j) \/ AcquireLeads(j) \/ AcquireFollows(j)
  \/ CheckEpoch(j) \/ EnterRoom(j) \/ JoinAnswered(j) \/ RoomWentAway(j)

LoopStep(i) == HandleJoin(i) \/ HandleLeave(i) \/ HandleClose(i) \/ Release(i) \/ Remove(i)

FlightStep == FlightRegisters \/ FlightFails

DeleteStep == Deliver \/ PostCloseDeleted \/ CloseDeletedDone

Shutdown == BeginShutdown \/ FinishShutdown \/ ShutdownTimesOut \/ \E i \in Rooms : SignalClose(i)

Next ==
  \/ \E j \in Joiners : JoinStep(j) \/ Leave(j)
  \/ FlightStep
  \/ \E i \in Rooms : LoopStep(i) \/ IdleRelease(i) \/ Abandon(i)
  \/ OwnerDeletes \/ RowRemoved \/ DeleteStep \/ CloseDeletedTimesOut \/ Redelivered
  \/ \E g \in timers : Expire(g)
  \/ OtherDeleted
  \/ Shutdown

Spec == Init /\ [][Next]_vars

\* Goroutines are scheduled, run loops serve their channel and timers, backend
\* calls end, and the broker redelivers. Clients, the owner and expiry owe nothing.
Fairness ==
  /\ \A j \in Joiners : WF_vars(JoinStep(j))
  /\ WF_vars(FlightStep)
  /\ \A i \in Rooms : WF_vars(LoopStep(i)) /\ WF_vars(IdleRelease(i)) /\ WF_vars(SignalClose(i))
  /\ WF_vars(DeleteStep) /\ WF_vars(FinishShutdown)

FairSpec == Spec /\ Fairness

-----------------------------------------------------------------------------
(* Properties                                                              *)

Live == {i \in Rooms : state[i] \in {"materializing", "active", "draining"}}

\* One writer per document: while a room loads, serves or still flushes, no other
\* room of the document exists (singleflight, registration, remove last).
OneLiveRoom == \A i, k \in Live : i = k

\* An owner delete is final: once its event was acknowledged, and until the
\* tombstone of the last delivery expires, no room of the document serves, not
\* even one whose join read the row before the event (deleteEpoch, tombstone).
NoResurrection ==
  event = "acked" /\ events \in timers => \A i \in Rooms : state[i] # "active"

\* No room is leaked: a serving room that is empty either has its idle timer
\* running, or a command or a joiner on the way that will see to it.
EmptyRoomIsWatched ==
  \A i \in Rooms : state[i] = "active" /\ occupants[i] = {} =>
     \/ idle[i]
     \/ cmds[i] # <<>>
     \/ \E j \in Joiners : jroom[j] = i /\ jpc[j] \in {"check", "enter"}

\* Shutdown misses no room: after Close took its snapshot every room that serves is
\* one that Close waits for, until its deadline.
ShutdownMissesNobody ==
  closed => \A i \in Rooms : state[i] = "active" => i \in drain

\* Nobody waits for a room that is gone: Join, CloseDeleted and Close return without
\* their deadlines, also when the room they wait for ends, by escalation, idleness
\* or shutdown, without having run their command.
CallersReturn ==
  /\ \A j \in Joiners : (jpc[j] = "waiting") ~> (jpc[j] # "waiting")
  /\ (event = "waiting") ~> (event # "waiting")
  /\ (down = "draining") ~> (down # "draining")
=============================================================================
