------------------------------ MODULE Deletion ------------------------------
(***************************************************************************)
(* A document's owner deletes it while this process may be serving, saving *)
(* or opening it: the composition of the checkpoint store and the room     *)
(* that saves through it (CheckpointStore), the consumer of the delete     *)
(* event (LifecycleConsumer) and, between them, Manager.CloseDeleted.      *)
(* server publishes the event with a confirm and then removes row and      *)
(* files, without waiting for the event to be handled.                     *)
(***************************************************************************)
EXTENDS CheckpointStore

CONSTANTS Events, Poison, MaxSessions

ASSUME ConsumerAssumption ==
  /\ Poison \subseteq Events
  /\ 0 \notin Events
  /\ MaxSessions \in Nat \ {0}

VARIABLES
  message, dlqUp, conns, streams, attached, session, step, hand, action, closing,
  tomb,      \* m.deleteTombstones holds the document
  ordered    \* cmdCloseDeleted is in the room's command channel

Consumer == INSTANCE LifecycleConsumer WITH serving <- Live

consumerVars == <<message, dlqUp, conns, streams, attached, session, step, hand, action, closing>>
managerVars == <<tomb, ordered>>
vars == <<storeVars, consumerVars, managerVars>>

Init ==
  /\ StoreInit
  /\ Consumer!Init
  /\ tomb = FALSE /\ ordered = FALSE

\* Manager.Join: the tombstone gate before requireDocument.
Join ==
  /\ ~tomb
  /\ RequireDocument
  /\ UNCHANGED <<consumerVars, managerVars>>

RoomStep ==
  /\ OpenStep \/ SaveStep \/ EditStep
  /\ UNCHANGED <<consumerVars, managerVars>>

\* The room is released for any other reason: idleness, escalation, a panic.
RoomEnds ==
  /\ CloseRoom
  /\ ordered' = FALSE
  /\ UNCHANGED <<consumerVars, tomb>>

\* Mutant: the close reaches only a room that is registered.
CloseDeletedKeepsAdmissions ==
  /\ Consumer!HandleDeleted
  /\ tomb' = TRUE
  /\ ordered' \in {ordered, ordered \/ Live}
  /\ UNCHANGED storeVars

\* CloseDeleted: the critical section refuses the admissions under way, whatever
\* they have read, and a live room is posted the command if its channel takes it.
CloseDeleted ==
  /\ Consumer!HandleDeleted
  /\ tomb' = TRUE
  /\ IF at \in {"admitted", "restore", "fetch"}
     THEN Vanish /\ UNCHANGED <<external, history>>
     ELSE UNCHANGED storeVars
  /\ ordered' \in {ordered, ordered \/ Live}

\* The run loop takes the command: teardown without a flush.
HandleCloseDeleted ==
  /\ ordered
  /\ CloseRoom
  /\ ordered' = FALSE
  /\ UNCHANGED <<consumerVars, tomb>>

CloseDeletedReturns ==
  /\ Consumer!CloseReturns
  /\ UNCHANGED <<storeVars, managerVars>>

\* The tombstone outlasts the owner's cascade, and every redelivery of the event
\* renews it (deleteTombstoneTTL is ten handler deadlines): it runs out once no
\* delete event is pending, or while the consumer is cut off from the broker.
TombstoneExpires ==
  /\ tomb /\ deleted
  /\ \/ step \in {"reattach", "adopt", "stopped"}
     \/ \A e \in Events \ Poison : message[e] \notin {"ready", "unacked"}
  /\ tomb' = FALSE
  /\ UNCHANGED <<storeVars, consumerVars, ordered>>

ConsumerStep ==
  /\ Consumer!Supervisor
  /\ UNCHANGED <<storeVars, managerVars>>

BrokerStep ==
  /\ Consumer!Broker
  /\ UNCHANGED <<storeVars, managerVars>>

DeadLetter == Consumer!DeadLetter /\ UNCHANGED <<storeVars, managerVars>>
PollDepths == Consumer!PollDepths /\ UNCHANGED <<storeVars, managerVars>>

\* App.Close closes the consumer first.
BeginClose == Consumer!BeginClose /\ UNCHANGED <<storeVars, managerVars>>
CloseStep == Consumer!CloseStep /\ UNCHANGED <<storeVars, managerVars>>

\* The process dies and a new one connects: tombstones and rooms are memory.
Crash ==
  /\ "crash" \in Mishaps
  /\ session < MaxSessions
  /\ Vanish
  /\ message' = [e \in Events |-> IF message[e] = "unacked" THEN "ready" ELSE message[e]]
  /\ dlqUp' = TRUE
  /\ session' = session + 1 /\ attached' = session'
  /\ conns' = {session'} /\ streams' = {session'}
  /\ step' = "consume" /\ hand' = 0 /\ action' = "none" /\ closing' = "no"
  /\ tomb' = FALSE /\ ordered' = FALSE
  /\ UNCHANGED <<external, history>>

\* server starts its cascade once a delete event is confirmed.
Cascade ==
  /\ \E e \in Events \ Poison : message[e] # "unsent"
  /\ OwnerCascade
  /\ UNCHANGED <<consumerVars, managerVars>>

Next ==
  \/ Join \/ RoomStep \/ RoomEnds
  \/ CloseDeleted \/ HandleCloseDeleted \/ CloseDeletedReturns \/ TombstoneExpires
  \/ ConsumerStep \/ BrokerStep \/ DeadLetter \/ PollDepths
  \/ BeginClose \/ CloseStep
  \/ Crash \/ Cascade

Spec == Init /\ [][Next]_vars

\* Goroutines are scheduled and remote calls end (they carry deadlines). A run
\* loop that keeps coming back to its select takes a queued command, and its
\* channel is not full at every attempt; the broker moves parked messages.
Fairness ==
  /\ WF_vars(RoomStep /\ at # "open") /\ SF_vars(HandleCloseDeleted)
  /\ SF_vars(CloseDeleted /\ ordered' = Live) /\ WF_vars(CloseDeleted) /\ WF_vars(CloseDeletedReturns)
  /\ WF_vars(ConsumerStep) /\ WF_vars(CloseStep)
  /\ WF_vars(PollDepths) /\ SF_vars(DeadLetter)

FairSpec == Spec /\ Fairness

-----------------------------------------------------------------------------
(* Properties                                                              *)

\* A delete event was acknowledged, and no other is on its way: an owner's retry may
\* publish more than one.
DeleteSettled ==
  /\ \E e \in Events \ Poison : message[e] = "acked"
  /\ \A e \in Events \ Poison : message[e] \notin {"ready", "unacked"}

\* The last delete event is acknowledged only when nothing serves the document, and
\* nothing serves it again while the tombstone of that delivery stands: a lost
\* session, a lost acknowledgement or a busy room never turns it into a no-op.
NoServiceAfterAck == DeleteSettled /\ tomb => ~Live

\* Every published event is settled, unless the consumer is closed first: a delete
\* is acknowledged once the document is closed, poison ends visible in the
\* dead-letter queue. Lost sessions, requeues, a crash and a missing dead-letter
\* queue only delay it (processOne, reattach, pollDepths).
Outcome(e) == IF e \in Poison THEN "dead" ELSE "acked"
EventsSettle == \A e \in Events : (message[e] = "ready") ~> (message[e] = Outcome(e) \/ closing # "no")

\* Close leaves no broker connection behind, also when it meets a re-attachment
\* half way (adopt).
CloseReleasesBroker == (closing = "done") ~> (conns = {} \/ closing = "no")
=============================================================================
