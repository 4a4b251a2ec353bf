------------------------------ MODULE RedisHub ------------------------------
(***************************************************************************)
(* The cross-pod hub (internal/adapter/outbound/hub/redis/hub.go) for one  *)
(* document on one pod, with the rooms that subscribe to it (newRoom,      *)
(* teardown and the peer queue in room.go).                                *)
(*                                                                         *)
(* A pump is one Redis subscription and the goroutine draining it; it is   *)
(* named after the room whose Subscribe started it, because starting runs  *)
(* off the hub's lock and two Subscribes may each start one.  The pump     *)
(* calls the rooms' handlers, a handler parks while its room's peer queue  *)
(* is full, and stopping a pump waits for its goroutine.                   *)
(*                                                                         *)
(* Publish changes no state of the hub: what other pods publish is an      *)
(* action here, and a pod's own publishes come back and are discarded by   *)
(* their instance id (dispatchRemote).                                     *)
(***************************************************************************)
EXTENDS Naturals, Sequences, FiniteSets

CONSTANTS
  Rooms,     \* the rooms that subscribe, once each
  PeerCap,   \* capacity of a room's peer queue (256 in the code)
  Messages,  \* bound: the messages other pods publish, once each
  MaxShared  \* bound: how many of them when rooms subscribe at any time

ASSUME HubAssumption ==
  /\ PeerCap \in Nat \ {0} /\ MaxShared \in Nat
  /\ IsFiniteSet(Rooms) /\ "none" \notin Rooms

Channels == {"doc", "awareness"}
Free == "none"

VARIABLES
  serial,    \* fixed. TRUE: as the Manager opens rooms, one at a time (see
             \* Serialised); FALSE: as the hub's interface allows, at any time
  closed,    \* h.closed
  subs,      \* h.subs[doc]
  installed, \* h.pumps[doc], Free for none
  refs,      \* refs of the installed pump
  closer,    \* Hub.Close: no, or the pump it waits for, or done
  room,      \* per room: where it is, see RoomStates
  waits,     \* per room: the pump whose end it waits for, Free for none
  peers,     \* per room: its peer queue
  pump,      \* per pump: none, starting, running, cancelled, done
  confirmed, \* per pump: the channels Redis confirmed
  buffer,    \* per pump: messages received and not dispatched yet
  work,      \* per pump: the message being dispatched and who still gets it
  published, \* messages published so far
  owed,      \* history, per room: what was published while it was subscribed
  got        \* history, per room: what its handler accepted

hubVars == <<serial, closed, subs, installed, refs, closer>>
roomVars == <<room, waits, peers, got>>
pumpVars == <<pump, confirmed, buffer, work>>
vars == <<hubVars, roomVars, pumpVars, published, owed>>

\* starting: in startPump; losing, failing: Subscribe waits for a pump to stop;
\* open: serving; cancelled: teardown cancelled the room's context; leaving: its
\* subscription is being closed.
RoomStates == {"idle", "starting", "losing", "failing", "failed", "open", "cancelled",
               "leaving", "gone"}
NoWork == [msg |-> {}, to |-> {}]

Init ==
  /\ serial \in BOOLEAN
  /\ closed = FALSE /\ subs = {} /\ installed = Free /\ refs = 0 /\ closer = "no"
  /\ room = [s \in Rooms |-> "idle"]
  /\ waits = [s \in Rooms |-> Free]
  /\ peers = [s \in Rooms |-> <<>>]
  /\ pump = [s \in Rooms |-> "none"]
  /\ confirmed = [s \in Rooms |-> {}]
  /\ buffer = [s \in Rooms |-> <<>>]
  /\ work = [s \in Rooms |-> NoWork]
  /\ published = {}
  /\ owed = [s \in Rooms |-> {}]
  /\ got = [s \in Rooms |-> {}]

-----------------------------------------------------------------------------
(* Subscribe                                                               *)

To(s, place) == room' = [room EXCEPT ![s] = place]

\* acquire's singleflight, and remove only after teardown: the next room of a
\* document subscribes when the previous one has let go of its subscription.
Serialised(s) == \A o \in Rooms \ {s} : room[o] \in {"idle", "failed", "gone"}

\* The first critical section: register, and share a pump that is there.
Subscribe(s) ==
  /\ room[s] = "idle"
  /\ serial => Serialised(s)
  /\ IF closed
     THEN To(s, "failed") /\ UNCHANGED <<subs, refs, pump>>
     ELSE /\ subs' = subs \cup {s}
          /\ IF installed # Free
             THEN refs' = refs + 1 /\ To(s, "open") /\ UNCHANGED pump
             ELSE /\ To(s, "starting")
                  /\ pump' = [pump EXCEPT ![s] = "starting"]
                  /\ UNCHANGED refs
  /\ UNCHANGED <<serial, closed, installed, closer, waits, peers, got, confirmed, buffer, work,
                 published, owed>>

\* Redis registers one channel of a SUBSCRIBE and confirms it.
Confirm(s, ch) ==
  /\ pump[s] = "starting" /\ ch \notin confirmed[s]
  /\ ch = "awareness" => "doc" \in confirmed[s]
  /\ confirmed' = [confirmed EXCEPT ![s] = @ \cup {ch}]
  /\ UNCHANGED <<hubVars, roomVars, pump, buffer, work, published, owed>>

\* Mutant: the first confirmation is taken for both.
SomeConfirmed(s) == confirmed[s] # {}

\* awaitSubscribed: every channel.
AllConfirmed(s) == confirmed[s] = Channels

\* startPump returns: the goroutine starts, with what arrived early first.
PumpStarts(s) ==
  /\ pump[s] = "starting" /\ AllConfirmed(s)
  /\ pump' = [pump EXCEPT ![s] = "running"]
  /\ UNCHANGED <<hubVars, roomVars, confirmed, buffer, work, published, owed>>

\* pump.stop, its first half: the goroutine is told, Redis forgets the channels.
Stop(p) ==
  /\ pump' = [pump EXCEPT ![p] = "cancelled"]
  /\ confirmed' = [confirmed EXCEPT ![p] = {}]
  /\ UNCHANGED <<buffer, work>>

\* Dropping one reference leaves none.
LastRef == refs - 1 <= 0

\* removeSubscriber: unregister s and, with the last one, stop the pump; the
\* caller then waits for that pump.
RemoveSubscriber(s) ==
  IF s \notin subs
  THEN UNCHANGED <<subs, refs, installed, waits>>
  ELSE /\ subs' = subs \ {s}
       /\ refs' = IF installed = Free THEN refs ELSE refs - 1
       /\ installed' = IF installed # Free /\ LastRef THEN Free ELSE installed
       /\ waits' = IF installed # Free /\ LastRef THEN [waits EXCEPT ![s] = installed] ELSE waits

StopsPump(s) == s \in subs /\ installed # Free /\ LastRef

\* startPump fails or times out: its half-open subscription is closed, and the
\* subscriber is removed again.
StartFails(s) ==
  /\ pump[s] = "starting"
  /\ RemoveSubscriber(s)
  /\ LET ended == {s} \cup (IF StopsPump(s) THEN {installed} ELSE {})
     IN /\ pump' = [p \in Rooms |-> IF p = s THEN "done"
                                    ELSE IF p \in ended THEN "cancelled" ELSE pump[p]]
        /\ confirmed' = [p \in Rooms |-> IF p \in ended THEN {} ELSE confirmed[p]]
        /\ buffer' = [buffer EXCEPT ![s] = <<>>]
  /\ To(s, "failing")
  /\ UNCHANGED <<serial, closed, closer, peers, got, work, published, owed>>

\* Mutant: a fresh pump is given one reference.
InstallWithOneRef(s) == installed' = s /\ refs' = 1

InstallPump(s) == installed' = s /\ refs' = Cardinality(subs)

\* A pump that is not installed is stopped, and Subscribe waits for it.
Yield(s) == Stop(s) /\ waits' = [waits EXCEPT ![s] = s]

\* The second critical section: refuse after Close, keep a pump that won the race
\* and stop this one, or install it with the references there are.
Install(s) ==
  /\ room[s] = "starting" /\ pump[s] = "running"
  /\ \/ /\ closed
        /\ Yield(s)
        /\ To(s, "failing")
        /\ UNCHANGED <<installed, refs>>
     \/ /\ ~closed /\ installed # Free
        /\ refs' = Cardinality(subs)
        /\ Yield(s)
        /\ To(s, "losing")
        /\ UNCHANGED installed
     \/ /\ ~closed /\ installed = Free
        /\ InstallPump(s)
        /\ To(s, "open")
        /\ UNCHANGED <<waits, pumpVars>>
  /\ UNCHANGED <<serial, closed, subs, closer, peers, got, published, owed>>

Stopped(s) == waits[s] # Free => pump[waits[s]] = "done"

\* Subscribe returns once the pump it stopped is done.
SubscribeReturns(s) ==
  /\ room[s] \in {"losing", "failing"} /\ Stopped(s)
  /\ To(s, IF room[s] = "losing" THEN "open" ELSE "failed")
  /\ UNCHANGED <<hubVars, waits, peers, got, pumpVars, published, owed>>

-----------------------------------------------------------------------------
(* The pump and the rooms' handlers                                        *)

\* Another pod publishes.
RemotePublish(m, ch) ==
  /\ m \notin published
  /\ serial \/ Cardinality(published) < MaxShared
  /\ published' = published \cup {m}
  /\ buffer' = [p \in Rooms |-> IF ch \in confirmed[p] THEN Append(buffer[p], m) ELSE buffer[p]]
  /\ owed' = [s \in Rooms |-> IF room[s] = "open" THEN owed[s] \cup {m} ELSE owed[s]]
  /\ UNCHANGED <<hubVars, roomVars, pump, confirmed, work>>

\* dispatchRemote: the targets are snapshotted under the lock. A cancelled pump
\* may still pick a message over its cancelled context.
Dispatch(p) ==
  /\ pump[p] \in {"running", "cancelled"} /\ work[p] = NoWork /\ buffer[p] # <<>>
  /\ work' = [work EXCEPT ![p] = IF subs = {} THEN NoWork
                                 ELSE [msg |-> {Head(buffer[p])}, to |-> subs]]
  /\ buffer' = [buffer EXCEPT ![p] = Tail(@)]
  /\ UNCHANGED <<hubVars, roomVars, pump, confirmed, published, owed>>

\* Mutant: teardown closes the subscription before it cancels the context.
ContextDoneLate(s) == room[s] = "gone"

\* roomCtx is cancelled.
ContextDone(s) == room[s] \in {"cancelled", "leaving", "gone", "failed"}

SlotFree(s) == Len(peers[s]) < PeerCap

\* One handler call: a slot in the peer queue, or the cancelled context; with
\* neither it is parked.
Handle(p, s) ==
  /\ s \in work[p].to
  /\ \/ /\ SlotFree(s)
        /\ peers' = [peers EXCEPT ![s] = Append(@, work[p].msg)]
        /\ got' = [got EXCEPT ![s] = @ \cup work[p].msg]
     \/ ContextDone(s) /\ UNCHANGED <<peers, got>>
  /\ work' = [work EXCEPT ![p] = IF @.to = {s} THEN NoWork ELSE [@ EXCEPT !.to = @ \ {s}]]
  /\ UNCHANGED <<hubVars, room, waits, pump, confirmed, buffer, published, owed>>

PumpEnds(p) ==
  /\ pump[p] = "cancelled" /\ work[p] = NoWork
  /\ pump' = [pump EXCEPT ![p] = "done"]
  /\ buffer' = [buffer EXCEPT ![p] = <<>>]
  /\ UNCHANGED <<hubVars, roomVars, confirmed, work, published, owed>>

\* The run loop takes a peer update.
Drain(s) ==
  /\ room[s] = "open" /\ peers[s] # <<>>
  /\ peers' = [peers EXCEPT ![s] = Tail(@)]
  /\ UNCHANGED <<hubVars, room, waits, got, pumpVars, published, owed>>

-----------------------------------------------------------------------------
(* Teardown of a room and Close of the hub                                 *)

\* teardown: the loop stops draining, and the context is cancelled first ...
CancelContext(s) ==
  /\ room[s] = "open"
  /\ To(s, "cancelled")
  /\ UNCHANGED <<hubVars, waits, peers, got, pumpVars, published, owed>>

\* ... then the subscription is closed, which may stop the pump ...
CancelSub(s) ==
  /\ room[s] = "cancelled"
  /\ RemoveSubscriber(s)
  /\ IF StopsPump(s) THEN Stop(installed) ELSE UNCHANGED pumpVars
  /\ To(s, "leaving")
  /\ UNCHANGED <<serial, closed, closer, peers, got, published, owed>>

\* ... and waits for its goroutine.
TeardownReturns(s) ==
  /\ room[s] = "leaving" /\ Stopped(s)
  /\ To(s, "gone")
  /\ UNCHANGED <<hubVars, waits, peers, got, pumpVars, published, owed>>

CloseHub ==
  /\ closer = "no"
  /\ closed' = TRUE
  /\ subs' = {}
  /\ installed' = Free
  /\ closer' = IF installed = Free THEN "done" ELSE installed
  /\ IF installed = Free THEN UNCHANGED pumpVars ELSE Stop(installed)
  /\ UNCHANGED <<serial, refs, roomVars, published, owed>>

CloseHubReturns ==
  /\ closer \notin {"no", "done"} /\ pump[closer] = "done"
  /\ closer' = "done"
  /\ UNCHANGED <<serial, closed, subs, installed, refs, roomVars, pumpVars, published, owed>>

-----------------------------------------------------------------------------
PumpStep(p) == Dispatch(p) \/ PumpEnds(p) \/ \E s \in Rooms : Handle(p, s)

RoomStep(s) ==
  \/ PumpStarts(s) \/ Install(s) \/ SubscribeReturns(s)
  \/ CancelSub(s) \/ TeardownReturns(s)

Next ==
  \/ \E s \in Rooms : Subscribe(s) \/ StartFails(s) \/ RoomStep(s) \/ Drain(s) \/ CancelContext(s)
  \/ \E s \in Rooms : PumpStep(s)
  \/ \E s \in Rooms, ch \in Channels : Confirm(s, ch)
  \/ \E m \in Messages, ch \in Channels : RemotePublish(m, ch)
  \/ CloseHub \/ CloseHubReturns

Spec == Init /\ [][Next]_vars

\* Goroutines are scheduled and run loops drain their peer queue. Redis and the
\* other pods owe nothing.
Fairness ==
  \A s \in Rooms : WF_vars(PumpStep(s)) /\ WF_vars(RoomStep(s)) /\ WF_vars(Drain(s))

FairSpec == Spec /\ Fairness

-----------------------------------------------------------------------------
(* Properties                                                              *)

\* A room whose Subscribe returned is served: a pump is installed, running, and
\* confirmed on both channels, until the room or the hub is closed.
SubscribedIsServed ==
  \A s \in Rooms : room[s] = "open" /\ ~closed =>
     installed # Free /\ pump[installed] = "running" /\ confirmed[installed] = Channels

\* What other pods publish once a room subscribed reaches the room, as long as it
\* and the hub stay open. Rooms are opened one at a time.
PublishedArrives ==
  \A s \in Rooms : \A m \in Messages :
     (serial /\ m \in owed[s]) ~> (m \in got[s] \/ room[s] # "open" \/ closed)

\* Tearing a room down never deadlocks with the pump: not even when the pump is
\* parked on the room's full peer queue. Rooms are opened one at a time.
TeardownEnds == \A s \in Rooms : (serial /\ room[s] = "cancelled") ~> (room[s] = "gone")
=============================================================================
