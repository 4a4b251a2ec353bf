--------------------------- MODULE RedisHubProofs ---------------------------
(***************************************************************************)
(* Proofs about the cross-pod hub: for every number of rooms and messages, *)
(* every peer queue capacity, and rooms that subscribe at any time.        *)
(***************************************************************************)
EXTENDS RedisHub, FiniteSetTheorems, TLAPS

-----------------------------------------------------------------------------
(* The inductive invariant                                                 *)

HubTypes ==
  /\ closed \in BOOLEAN
  /\ subs \subseteq Rooms
  /\ installed \in Rooms \cup {Free}
  /\ room \in [Rooms -> RoomStates]
  /\ pump \in [Rooms -> {"none", "starting", "running", "cancelled", "done"}]
  /\ confirmed \in [Rooms -> SUBSET Channels]

\* A pump that is being started belongs to a Subscribe in progress, and one that runs
\* was confirmed on every channel.
PumpsStarted ==
  \A p \in Rooms :
    /\ pump[p] = "starting" => room[p] = "starting"
    /\ pump[p] = "running" => confirmed[p] = Channels

\* The installed pump runs, was handed over by its Subscribe, and has one reference
\* for each subscriber.
InstalledCounts ==
  ~closed /\ installed # Free =>
    /\ pump[installed] = "running"
    /\ room[installed] \notin {"idle", "starting"}
    /\ refs = Cardinality(subs)

\* A room is a subscriber from Subscribe to the end of its subscription, and once
\* its Subscribe has seen a pump there is one.
SubscribersServed ==
  /\ \A s \in subs : room[s] # "idle"
  /\ ~closed =>
       \A s \in Rooms :
         /\ room[s] \in {"starting", "open", "losing", "cancelled"} => s \in subs
         /\ room[s] \in {"open", "losing", "cancelled"} => installed # Free

\* A pump that runs is the installed one, or its Subscribe has yet to decide about it.
NoPumpLeaks ==
  \A p \in Rooms : pump[p] = "running" => p = installed \/ room[p] = "starting"

HubInv == HubTypes /\ PumpsStarted /\ InstalledCounts /\ SubscribersServed /\ NoPumpLeaks

-----------------------------------------------------------------------------
(* Reference counts                                                        *)

\* One subscriber more or less is one reference more or less, and the last reference
\* goes with the last subscriber.
LEMMA Counting ==
  ASSUME NEW S \in SUBSET Rooms, NEW s \in Rooms
  PROVE  /\ Cardinality(S) \in Nat
         /\ s \notin S => Cardinality(S \cup {s}) = Cardinality(S) + 1
         /\ s \in S => Cardinality(S \ {s}) = Cardinality(S) - 1
         /\ s \in S => (Cardinality(S) - 1 <= 0 <=> S \ {s} = {})
<1>1. IsFiniteSet(S)
  BY FS_Subset, HubAssumption
<1>2. Cardinality(S) \in Nat
  BY <1>1, FS_CardinalityType
<1>3. s \notin S => Cardinality(S \cup {s}) = Cardinality(S) + 1
  BY <1>1, FS_AddElement
<1>4. s \in S => Cardinality(S \ {s}) = Cardinality(S) - 1
  BY <1>1, FS_RemoveElement
<1>5. IsFiniteSet(S \ {s})
  BY <1>1, FS_Subset
<1>6. Cardinality(S \ {s}) \in Nat /\ (Cardinality(S \ {s}) = 0 <=> S \ {s} = {})
  BY <1>5, FS_CardinalityType, FS_EmptySet
<1> QED BY <1>2, <1>3, <1>4, <1>6

\* Removing a subscriber: its references are counted down, and the pump stays exactly
\* as long as somebody else is subscribed.
LEMMA Removal ==
  ASSUME HubInv, NEW s \in Rooms, RemoveSubscriber(s)
  PROVE  /\ subs' = subs \ {s}
         /\ installed' = IF StopsPump(s) THEN Free ELSE installed
         /\ ~closed /\ installed' # Free => refs' = Cardinality(subs')
         /\ ~closed /\ StopsPump(s) => subs' = {}
<1>1. CASE s \notin subs
  BY <1>1, subs \ {s} = subs DEF RemoveSubscriber, StopsPump, HubInv, InstalledCounts
<1>2. CASE s \in subs
  <2>1. /\ Cardinality(subs) \in Nat /\ Cardinality(subs \ {s}) = Cardinality(subs) - 1
        /\ (Cardinality(subs) - 1 <= 0 <=> subs \ {s} = {})
    BY <1>2, Counting DEF HubInv, HubTypes
  <2> QED BY <1>2, <2>1 DEF RemoveSubscriber, StopsPump, LastRef, HubInv, InstalledCounts
<1> QED BY <1>1, <1>2

-----------------------------------------------------------------------------
(* Initially, and by each action                                           *)

\* The invariant holds initially.
LEMMA HubInitInv == Init => HubInv
<1> SUFFICES ASSUME Init PROVE HubInv
  OBVIOUS
<1>1. /\ closed = FALSE /\ subs = {} /\ installed = Free
      /\ room = [s \in Rooms |-> "idle"] /\ pump = [s \in Rooms |-> "none"]
      /\ confirmed = [s \in Rooms |-> {}]
  BY DEF Init
<1>2. HubTypes
  BY <1>1 DEF HubTypes, RoomStates
<1> QED BY <1>1, <1>2 DEF HubInv, PumpsStarted, InstalledCounts, SubscribersServed, NoPumpLeaks

\* Subscribe's first critical section, and the start of its pump.
LEMMA SubscribeInv ==
  ASSUME HubInv, NEW s \in Rooms, Subscribe(s) \/ PumpStarts(s)
  PROVE  HubInv'
<1> USE DEF HubInv
<1>1. CASE Subscribe(s) /\ closed
  BY <1>1 DEF Subscribe, To, HubTypes, PumpsStarted, InstalledCounts, SubscribersServed, NoPumpLeaks,
              RoomStates
<1>2. CASE Subscribe(s) /\ ~closed /\ installed # Free
  <2>1. /\ room[s] = "idle" /\ subs' = subs \cup {s} /\ refs' = refs + 1
        /\ room' = [room EXCEPT ![s] = "open"]
        /\ UNCHANGED <<closed, installed, pump, confirmed>>
    BY <1>2 DEF Subscribe, To
  <2>2. HubTypes' /\ PumpsStarted' /\ NoPumpLeaks'
    BY <2>1 DEF HubTypes, PumpsStarted, NoPumpLeaks, RoomStates
  <2>3. s \notin subs /\ refs = Cardinality(subs)
    BY <1>2, <2>1 DEF SubscribersServed, InstalledCounts
  <2>4. refs' = Cardinality(subs')
    BY <2>1, <2>3, Counting DEF HubTypes
  <2>5. InstalledCounts'
    BY <1>2, <2>1, <2>4 DEF InstalledCounts, HubTypes
  <2>6. SubscribersServed'
    BY <1>2, <2>1 DEF SubscribersServed, HubTypes
  <2> QED BY <2>2, <2>5, <2>6
<1>3. CASE Subscribe(s) /\ ~closed /\ installed = Free
  <2>1. /\ room[s] = "idle" /\ subs' = subs \cup {s}
        /\ room' = [room EXCEPT ![s] = "starting"] /\ pump' = [pump EXCEPT ![s] = "starting"]
        /\ UNCHANGED <<closed, installed, confirmed>>
    BY <1>3 DEF Subscribe, To
  <2>2. HubTypes' /\ PumpsStarted' /\ NoPumpLeaks' /\ InstalledCounts'
    BY <1>3, <2>1 DEF HubTypes, PumpsStarted, NoPumpLeaks, RoomStates, InstalledCounts
  <2>3. SubscribersServed'
    BY <1>3, <2>1 DEF SubscribersServed, HubTypes
  <2> QED BY <2>2, <2>3
<1>4. CASE PumpStarts(s)
  <2>1. /\ pump[s] = "starting" /\ confirmed[s] = Channels
        /\ pump' = [pump EXCEPT ![s] = "running"]
        /\ UNCHANGED <<closed, subs, installed, refs, room, confirmed>>
    BY <1>4 DEF PumpStarts, AllConfirmed, hubVars, roomVars
  <2>2. HubTypes' /\ PumpsStarted' /\ NoPumpLeaks'
    BY <2>1 DEF HubTypes, PumpsStarted, NoPumpLeaks
  <2>3. InstalledCounts' /\ SubscribersServed'
    BY <2>1 DEF HubTypes, InstalledCounts, SubscribersServed
  <2> QED BY <2>2, <2>3
<1> QED BY <1>1, <1>2, <1>3, <1>4 DEF Subscribe

\* Subscribe's second critical section.
LEMMA InstallInv ==
  ASSUME HubInv, NEW s \in Rooms, Install(s)
  PROVE  HubInv'
<1> USE DEF HubInv
<1>1. /\ room[s] = "starting" /\ pump[s] = "running" /\ UNCHANGED <<closed, subs>>
      /\ \/ closed /\ Yield(s) /\ To(s, "failing") /\ UNCHANGED <<installed, refs>>
         \/ /\ ~closed /\ installed # Free
            /\ refs' = Cardinality(subs) /\ Yield(s) /\ To(s, "losing") /\ UNCHANGED installed
         \/ /\ ~closed /\ installed = Free
            /\ InstallPump(s) /\ To(s, "open") /\ UNCHANGED pumpVars
  BY DEF Install
<1>2. CASE closed
  <2>1. /\ pump' = [pump EXCEPT ![s] = "cancelled"] /\ confirmed' = [confirmed EXCEPT ![s] = {}]
        /\ room' = [room EXCEPT ![s] = "failing"] /\ UNCHANGED <<closed, subs, installed>>
    BY <1>1, <1>2 DEF Yield, Stop, To
  <2>2. HubTypes' /\ PumpsStarted' /\ NoPumpLeaks'
    BY <2>1 DEF HubTypes, PumpsStarted, NoPumpLeaks, RoomStates
  <2>3. InstalledCounts' /\ SubscribersServed'
    BY <1>2, <2>1 DEF HubTypes, InstalledCounts, SubscribersServed
  <2> QED BY <2>2, <2>3
<1>3. CASE ~closed /\ installed # Free
  <2>1. /\ pump' = [pump EXCEPT ![s] = "cancelled"] /\ confirmed' = [confirmed EXCEPT ![s] = {}]
        /\ room' = [room EXCEPT ![s] = "losing"] /\ refs' = Cardinality(subs)
        /\ UNCHANGED <<closed, subs, installed>>
    BY <1>1, <1>3 DEF Yield, Stop, To
  <2>2. installed # s /\ installed \in Rooms
    BY <1>1, <1>3 DEF InstalledCounts, HubTypes
  <2>3. HubTypes' /\ PumpsStarted' /\ NoPumpLeaks'
    BY <2>1 DEF HubTypes, PumpsStarted, NoPumpLeaks, RoomStates
  <2>4. InstalledCounts'
    BY <1>3, <2>1, <2>2 DEF HubTypes, InstalledCounts
  <2>5. SubscribersServed'
    BY <1>1, <1>3, <2>1 DEF HubTypes, SubscribersServed
  <2> QED BY <2>3, <2>4, <2>5
<1>4. CASE ~closed /\ installed = Free
  <2>1. /\ installed' = s /\ refs' = Cardinality(subs) /\ room' = [room EXCEPT ![s] = "open"]
        /\ UNCHANGED <<closed, subs, pump, confirmed>>
    BY <1>1, <1>4 DEF InstallPump, To, pumpVars
  <2>2. HubTypes' /\ PumpsStarted'
    BY <1>1, <2>1 DEF HubTypes, PumpsStarted, RoomStates
  <2>3. NoPumpLeaks'
    BY <1>4, <2>1, HubAssumption DEF HubTypes, NoPumpLeaks, Free
  <2>4. InstalledCounts'
    BY <1>1, <2>1 DEF HubTypes, InstalledCounts
  <2>5. SubscribersServed'
    BY <1>1, <1>4, <2>1, HubAssumption DEF HubTypes, SubscribersServed, Free
  <2> QED BY <2>2, <2>3, <2>4, <2>5
<1> QED BY <1>2, <1>3, <1>4

\* A subscriber is removed: its pump failed to start, or its room is torn down.
LEMMA RemoveInv ==
  ASSUME HubInv, NEW s \in Rooms, StartFails(s) \/ CancelSub(s)
  PROVE  HubInv'
<1> USE DEF HubInv
<1>1. RemoveSubscriber(s) /\ UNCHANGED closed
  BY DEF StartFails, CancelSub
<1>2. /\ subs' = subs \ {s}
      /\ installed' = IF StopsPump(s) THEN Free ELSE installed
      /\ ~closed /\ installed' # Free => refs' = Cardinality(subs')
      /\ ~closed /\ StopsPump(s) => subs' = {}
  BY <1>1, Removal
<1>3. StopsPump(s) => installed \in Rooms
  BY DEF StopsPump, HubTypes
<1>4. \E place \in {"failing", "leaving"} : room' = [room EXCEPT ![s] = place]
  BY DEF StartFails, CancelSub, To
<1>5. /\ \A p \in Rooms \ {s} :
           \/ ~(StopsPump(s) /\ p = installed) /\ pump'[p] = pump[p] /\ confirmed'[p] = confirmed[p]
           \/ StopsPump(s) /\ p = installed /\ pump'[p] = "cancelled"
      /\ \/ pump'[s] \in {"done", "cancelled"}
         \/ /\ ~(StopsPump(s) /\ s = installed)
            /\ pump'[s] = pump[s] /\ confirmed'[s] = confirmed[s] /\ room[s] = "cancelled"
      /\ pump' \in [Rooms -> {"none", "starting", "running", "cancelled", "done"}]
      /\ confirmed' \in [Rooms -> SUBSET Channels]
  <2>1. CASE StartFails(s)
    BY <1>3, <2>1 DEF StartFails, HubTypes
  <2>2. CASE CancelSub(s) /\ StopsPump(s)
    BY <1>3, <2>2 DEF CancelSub, Stop, HubTypes
  <2>3. CASE CancelSub(s) /\ ~StopsPump(s)
    BY <2>3 DEF CancelSub, pumpVars, HubTypes
  <2> QED BY <2>1, <2>2, <2>3
<1>6. HubTypes'
  BY <1>1, <1>2, <1>4, <1>5 DEF HubTypes, RoomStates
<1>7. PumpsStarted'
  BY <1>4, <1>5 DEF HubTypes, PumpsStarted
<1>8. NoPumpLeaks'
  BY <1>2, <1>4, <1>5 DEF HubTypes, NoPumpLeaks
<1>9. InstalledCounts'
  <2> SUFFICES ASSUME ~closed', installed' # Free
               PROVE  /\ pump'[installed'] = "running"
                      /\ room'[installed'] \notin {"idle", "starting"}
    BY <1>1, <1>2 DEF InstalledCounts
  <2>1. /\ ~closed /\ ~StopsPump(s) /\ installed' = installed /\ installed \in Rooms
        /\ pump[installed] = "running" /\ room[installed] \notin {"idle", "starting"}
    BY <1>1, <1>2 DEF InstalledCounts, HubTypes
  <2>2. pump'[installed] = "running"
    <3>1. CASE installed # s
      BY <1>5, <2>1, <3>1
    <3>2. CASE installed = s
      <4>1. CancelSub(s)
        BY <2>1, <3>2 DEF StartFails
      <4> QED BY <4>1, <2>1 DEF CancelSub, pumpVars
    <3> QED BY <3>1, <3>2
  <2> QED BY <1>4, <2>1, <2>2 DEF HubTypes
<1>10. SubscribersServed'
  <2>1. \A o \in Rooms \ {s} : room'[o] = room[o]
    BY <1>4 DEF HubTypes
  <2>2. room'[s] \in {"failing", "leaving"}
    BY <1>4 DEF HubTypes
  <2>3. \A o \in subs' : room'[o] # "idle"
    BY <1>2, <2>1 DEF SubscribersServed, HubTypes
  <2>4. ASSUME ~closed', NEW o \in Rooms, room'[o] \in {"starting", "open", "losing", "cancelled"}
        PROVE  o \in subs' /\ (room'[o] \in {"open", "losing", "cancelled"} => installed' # Free)
    <3>1. o # s /\ room[o] = room'[o] /\ ~closed
      BY <1>1, <2>1, <2>2, <2>4
    <3>2. o \in subs'
      BY <1>2, <2>4, <3>1 DEF SubscribersServed
    <3>3. ~StopsPump(s)
      BY <1>2, <3>1, <3>2
    <3> QED BY <1>2, <3>1, <3>2, <3>3 DEF SubscribersServed
  <2> QED BY <2>3, <2>4 DEF SubscribersServed
<1> QED BY <1>6, <1>7, <1>8, <1>9, <1>10

\* The hub closes: the pump is stopped with everybody it served.
LEMMA CloseHubInv ==
  ASSUME HubInv, CloseHub
  PROVE  HubInv'
<1> USE DEF HubInv
<1>1. closed' = TRUE /\ subs' = {} /\ installed' = Free /\ UNCHANGED room
  BY DEF CloseHub, roomVars
<1>2. CASE installed = Free
  <2>1. UNCHANGED <<pump, confirmed>>
    BY <1>2 DEF CloseHub, pumpVars
  <2> QED BY <1>1, <1>2, <2>1
          DEF HubTypes, PumpsStarted, InstalledCounts, SubscribersServed, NoPumpLeaks
<1>3. CASE installed # Free
  <2>1. /\ installed \in Rooms /\ pump' = [pump EXCEPT ![installed] = "cancelled"]
        /\ confirmed' = [confirmed EXCEPT ![installed] = {}]
    BY <1>3 DEF CloseHub, Stop, HubTypes
  <2> QED BY <1>1, <2>1
          DEF HubTypes, PumpsStarted, InstalledCounts, SubscribersServed, NoPumpLeaks
<1> QED BY <1>2, <1>3

\* Everything else: Subscribe returns, a room begins its teardown or is done with it,
\* Redis confirms, pumps dispatch and end.
LEMMA OtherInv ==
  ASSUME HubInv,
         \/ \E s \in Rooms : SubscribeReturns(s) \/ TeardownReturns(s) \/ Drain(s) \/ CancelContext(s)
         \/ \E s \in Rooms : PumpStep(s)
         \/ \E s \in Rooms, ch \in Channels : Confirm(s, ch)
         \/ \E m \in Messages, ch \in Channels : RemotePublish(m, ch)
         \/ CloseHubReturns
  PROVE  HubInv'
<1> USE DEF HubInv
<1>1. UNCHANGED <<closed, subs, installed, refs>>
  BY DEF SubscribeReturns, TeardownReturns, Drain, CancelContext, PumpStep, Dispatch, PumpEnds,
         Handle, Confirm, RemotePublish, CloseHubReturns, hubVars
<1>2. ASSUME NEW s \in Rooms, SubscribeReturns(s) \/ TeardownReturns(s) \/ CancelContext(s)
      PROVE  HubInv'
  <2>1. /\ UNCHANGED <<pump, confirmed>>
        /\ \/ /\ room[s] \in {"losing", "open"}
              /\ \E place \in {"open", "cancelled"} : room' = [room EXCEPT ![s] = place]
           \/ /\ room[s] \in {"failing", "leaving"}
              /\ \E place \in {"failed", "gone"} : room' = [room EXCEPT ![s] = place]
    BY <1>2 DEF SubscribeReturns, TeardownReturns, CancelContext, To, pumpVars
  <2>2. /\ HubTypes' /\ PumpsStarted' /\ NoPumpLeaks'
    BY <1>1, <2>1 DEF HubTypes, RoomStates, PumpsStarted, NoPumpLeaks
  <2>3. InstalledCounts' /\ SubscribersServed'
    BY <1>1, <2>1 DEF HubTypes, InstalledCounts, SubscribersServed
  <2> QED BY <2>2, <2>3
<1>3. ASSUME NEW p \in Rooms, PumpEnds(p)
      PROVE  HubInv'
  <2>1. /\ pump[p] = "cancelled" /\ pump' = [pump EXCEPT ![p] = "done"]
        /\ UNCHANGED <<room, confirmed>>
    BY <1>3 DEF PumpEnds, roomVars
  <2> QED BY <1>1, <2>1
          DEF HubTypes, PumpsStarted, InstalledCounts, SubscribersServed, NoPumpLeaks
<1>4. ASSUME NEW s \in Rooms, NEW ch \in Channels, Confirm(s, ch)
      PROVE  HubInv'
  <2>1. /\ pump[s] = "starting" /\ confirmed' = [confirmed EXCEPT ![s] = @ \cup {ch}]
        /\ UNCHANGED <<room, pump>>
    BY <1>4 DEF Confirm, roomVars
  <2> QED BY <1>1, <2>1
          DEF HubTypes, PumpsStarted, InstalledCounts, SubscribersServed, NoPumpLeaks
<1>5. ASSUME UNCHANGED <<room, pump, confirmed>>
      PROVE  HubInv'
  BY <1>1, <1>5 DEF HubTypes, PumpsStarted, InstalledCounts, SubscribersServed, NoPumpLeaks
<1>6. ASSUME NEW p \in Rooms, PumpStep(p)
      PROVE  PumpEnds(p) \/ UNCHANGED <<room, pump, confirmed>>
  BY <1>6 DEF PumpStep, Dispatch, Handle, roomVars
<1>7. ASSUME \/ \E s \in Rooms : Drain(s)
             \/ \E m \in Messages, ch \in Channels : RemotePublish(m, ch)
             \/ CloseHubReturns
      PROVE  UNCHANGED <<room, pump, confirmed>>
  BY <1>7 DEF Drain, RemotePublish, CloseHubReturns, roomVars, pumpVars
<1> QED BY <1>2, <1>3, <1>4, <1>5, <1>6, <1>7

\* Every step keeps the invariant.
LEMMA HubNextInv == HubInv /\ [Next]_vars => HubInv'
<1> SUFFICES ASSUME HubInv, [Next]_vars PROVE HubInv'
  OBVIOUS
<1>1. CASE Next
  BY <1>1, SubscribeInv, InstallInv, RemoveInv, CloseHubInv, OtherInv DEF Next, RoomStep
<1>2. CASE UNCHANGED vars
  BY <1>2 DEF vars, hubVars, roomVars, pumpVars, HubInv, HubTypes, PumpsStarted, InstalledCounts,
              SubscribersServed, NoPumpLeaks
<1> QED BY <1>1, <1>2

\* The invariant holds in every reachable state.
LEMMA HubInvariant == Spec => []HubInv
BY HubInitInv, HubNextInv, PTL DEF Spec

-----------------------------------------------------------------------------
(* The theorems                                                            *)

\* A room whose Subscribe returned has a running pump, confirmed by Redis on both
\* channels, however Subscribe, a second pump that lost the race, failing starts and
\* teardowns of other rooms interleave: the references count the subscribers.
THEOREM ServedTheorem == Spec => []SubscribedIsServed
<1>1. HubInv => SubscribedIsServed
  BY DEF HubInv, HubTypes, PumpsStarted, InstalledCounts, SubscribersServed, SubscribedIsServed
<1> QED BY <1>1, HubInvariant, PTL

\* No Redis subscription is left running that nobody would stop: a pump that runs is
\* the installed one, or the Subscribe that started it has not decided yet (Subscribe's
\* second critical section, removeSubscriber, Close).
THEOREM PumpsTheorem == Spec => []NoPumpLeaks
<1>1. HubInv => NoPumpLeaks
  BY DEF HubInv
<1> QED BY <1>1, HubInvariant, PTL
=============================================================================
