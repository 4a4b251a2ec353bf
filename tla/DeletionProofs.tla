--------------------------- MODULE DeletionProofs ---------------------------
(***************************************************************************)
(* Proofs about an owner delete that meets a document being opened, served *)
(* or saved: for every number of events, sessions, edits and files, and    *)
(* every combination of mishaps.                                           *)
(***************************************************************************)
EXTENDS Deletion, CheckpointStoreProofs

-----------------------------------------------------------------------------
(* The inductive invariant                                                 *)

Admitting == {"admitted", "restore", "fetch"}
MessageStates == {"unsent", "ready", "unacked", "acked", "parked", "dead"}

\* What the supervisor is processing is not settled yet, and a call of CloseDeleted
\* left its tombstone before it returned.
InHand ==
  /\ step \in {"handle", "calling", "settle"} =>
       hand \in Events /\ message[hand] \in {"ready", "unacked"}
  /\ step = "calling" => hand \notin Poison
  /\ step = "settle" => IF hand \in Poison THEN action = "reject" ELSE action \in {"ack", "requeue"}

\* The tombstone stands from CloseDeleted to the settlement, and it keeps admissions
\* out: an acknowledgement that was decided stays justified.
Gated ==
  /\ step = "calling" => tomb
  /\ step = "settle" /\ action = "ack" => tomb /\ ~Live
  /\ tomb => at \notin Admitting

DeletionInv ==
  /\ StoreInv
  /\ message \in [Events -> MessageStates] /\ tomb \in BOOLEAN
  /\ InHand /\ Gated
  /\ NoServiceAfterAck

-----------------------------------------------------------------------------
(* The store in the composition                                            *)

\* A room that vanishes, for whatever reason, leaves what it had saved.
LEMMA VanishInv == StoreInv /\ Vanish /\ UNCHANGED <<external, history>> => StoreInv'
<1> SUFFICES ASSUME StoreInv, Vanish, UNCHANGED <<external, history>> PROVE StoreInv'
  OBVIOUS
<1> USE DEF external, history, Vanish
<1>1. StoreTypeOK'
  BY DEF StoreInv, StoreTypeOK
<1> QED BY <1>1 DEF StoreInv, StoreTypeOK, Memory, Addressed, Covered, Undamaged, RestoresAcked,
                    Live, SaveSteps

\* Nothing the service does opens a document that is neither open nor being admitted.
LEMMA ClosedStaysClosed ==
  ASSUME at \notin Admitting, OpenStep \/ SaveStep \/ EditStep \/ CloseRoom
  PROVE  at' \notin Admitting /\ (Live' => Live)
<1> USE DEF Admitting, Live, SaveSteps
<1>1. CASE OpenStep
  BY <1>1 DEF OpenStep, LoadMetadata, LookUpPointer, Fetch, LoadCallFails
<1>2. CASE SaveStep
  BY <1>2 DEF SaveStep, Persist, Resolve, Rewrite, RecordLoads, Record, SaveIndex, SaveCallFails, Create,
              SaveFails, Proceed
<1>3. CASE EditStep
  BY <1>3 DEF EditStep, Edit
<1>4. CASE CloseRoom
  BY <1>4 DEF CloseRoom, Vanish
<1> QED BY <1>1, <1>2, <1>3, <1>4

-----------------------------------------------------------------------------
(* Initially, and by each action                                           *)

\* The invariant holds initially.
LEMMA DeletionInitInv == Init => DeletionInv
<1> SUFFICES ASSUME Init PROVE DeletionInv
  OBVIOUS
<1>1. StoreInv
  BY StoreInitInv DEF Init
<1> QED BY <1>1 DEF Init, Consumer!Init, DeletionInv, MessageStates, InHand, Gated, NoServiceAfterAck,
                    DeleteSettled

\* The room's own steps: admission, opening, saving, editing, its end.
LEMMA RoomInv ==
  ASSUME DeletionInv, Join \/ RoomStep \/ RoomEnds \/ HandleCloseDeleted
  PROVE  DeletionInv'
<1> USE DEF DeletionInv
<1>1. StoreInv'
  <2>1. RequireDocument \/ OpenStep \/ SaveStep \/ EditStep \/ CloseRoom
    BY DEF Join, RoomStep, RoomEnds, HandleCloseDeleted
  <2> QED BY <2>1, OpenStepInv, SaveStepInv, OtherStepInv
<1>2. UNCHANGED <<consumerVars, tomb>>
  BY DEF Join, RoomStep, RoomEnds, HandleCloseDeleted, managerVars
<1>3. tomb => at' \notin Admitting /\ (Live' => Live)
  <2>1. ASSUME tomb PROVE OpenStep \/ SaveStep \/ EditStep \/ CloseRoom
    BY <2>1 DEF Join, RoomStep, RoomEnds, HandleCloseDeleted
  <2> QED BY <2>1, ClosedStaysClosed DEF Gated
<1>4. InHand' /\ DeleteSettled' = DeleteSettled
  BY <1>2 DEF consumerVars, InHand, DeleteSettled
<1>5. Gated' /\ NoServiceAfterAck'
  BY <1>2, <1>3, <1>4 DEF consumerVars, Gated, NoServiceAfterAck
<1> QED BY <1>1, <1>2, <1>4, <1>5 DEF consumerVars

\* CloseDeleted is called: admissions are refused, the tombstone set.
LEMMA CloseDeletedInv ==
  ASSUME DeletionInv, CloseDeleted
  PROVE  DeletionInv'
<1> USE DEF DeletionInv
<1>1. /\ step = "handle" /\ step' = "calling" /\ hand \notin Poison /\ tomb' = TRUE
      /\ UNCHANGED <<message, hand, action>>
  BY DEF CloseDeleted, Consumer!HandleDeleted, Consumer!broker, Consumer!work
<1>2. StoreInv' /\ at' \notin Admitting
  <2>1. CASE at \in Admitting
    BY <2>1, VanishInv DEF CloseDeleted, Admitting, Vanish
  <2>2. CASE at \notin Admitting
    <3>1. UNCHANGED storeVars
      BY <2>2 DEF CloseDeleted, Admitting
    <3> QED BY <2>2, <3>1, StoreNextInv DEF storeVars
  <2> QED BY <2>1, <2>2
<1>3. InHand' /\ Gated'
  BY <1>1, <1>2 DEF InHand, Gated
<1>4. NoServiceAfterAck'
  BY <1>1 DEF InHand, NoServiceAfterAck, DeleteSettled
<1> QED BY <1>1, <1>2, <1>3, <1>4

\* CloseDeleted returns, and the answer decides how the event is settled.
LEMMA CloseReturnsInv ==
  ASSUME DeletionInv, CloseDeletedReturns
  PROVE  DeletionInv'
<1> USE DEF DeletionInv
<1>1. /\ step = "calling" /\ step' = "settle" /\ action' = (IF Live THEN "requeue" ELSE "ack")
      /\ UNCHANGED <<storeVars, message, hand, tomb>>
  BY DEF CloseDeletedReturns, Consumer!CloseReturns, Consumer!Decide, Consumer!broker, managerVars
<1>2. StoreInv' /\ at' = at /\ Live' = Live
  BY <1>1, StoreNextInv DEF storeVars, Live
<1>3. InHand' /\ Gated' /\ NoServiceAfterAck'
  BY <1>1, <1>2 DEF InHand, Gated, NoServiceAfterAck, DeleteSettled
<1> QED BY <1>1, <1>2, <1>3

\* The tombstone runs out only when no delivery depends on it.
LEMMA ExpiryInv ==
  ASSUME DeletionInv, TombstoneExpires
  PROVE  DeletionInv'
<1> USE DEF DeletionInv
<1>1. tomb' = FALSE /\ UNCHANGED <<storeVars, message, step, hand, action>>
  BY DEF TombstoneExpires, consumerVars
<1>2. step # "calling" /\ ~(step = "settle" /\ action = "ack")
  BY DEF TombstoneExpires, InHand
<1>3. StoreInv'
  BY <1>1, StoreNextInv
<1>4. InHand' /\ Gated' /\ NoServiceAfterAck'
  BY <1>1, <1>2 DEF InHand, Gated, NoServiceAfterAck
<1> QED BY <1>1, <1>3, <1>4

\* An event settled by the supervisor: an acknowledged delete found nothing serving.
LEMMA SettleInv ==
  ASSUME DeletionInv, ConsumerStep, Consumer!Settle
  PROVE  DeletionInv'
<1> USE DEF DeletionInv
<1>1. /\ step = "settle" /\ step' = "consume" /\ UNCHANGED <<storeVars, tomb>>
      /\ message' = IF session \in streams THEN [message EXCEPT ![hand] = Consumer!Settled(action)]
                    ELSE message
  BY DEF ConsumerStep, Consumer!Settle, managerVars
<1>2. StoreInv' /\ at' = at /\ Live' = Live
  BY <1>1, StoreNextInv DEF storeVars, Live
<1>3. Consumer!Settled(action) \in MessageStates
  BY <1>1 DEF InHand, Consumer!Settled, MessageStates
<1>4. message' \in [Events -> MessageStates]
  BY <1>1, <1>3 DEF InHand
<1>5. NoServiceAfterAck'
  <2>1. CASE session \notin streams
    BY <1>1, <1>2, <2>1 DEF NoServiceAfterAck, DeleteSettled
  <2>2. CASE session \in streams /\ hand \in Poison
    <3>1. \A e \in Events \ Poison : message'[e] = message[e]
      BY <1>1, <2>2
    <3> QED BY <1>1, <1>2, <3>1 DEF NoServiceAfterAck, DeleteSettled
  <2>3. CASE session \in streams /\ hand \notin Poison /\ action = "requeue"
    <3>1. message'[hand] = "ready" /\ hand \in Events
      BY <1>1, <2>3 DEF InHand, Consumer!Settled
    <3> QED BY <2>3, <3>1 DEF NoServiceAfterAck, DeleteSettled
  <2>4. CASE session \in streams /\ hand \notin Poison /\ action = "ack"
    BY <1>1, <1>2, <2>4 DEF Gated, NoServiceAfterAck
  <2> QED BY <1>1, <2>1, <2>2, <2>3, <2>4 DEF InHand
<1>6. InHand' /\ Gated'
  BY <1>1, <1>2 DEF InHand, Gated
<1> QED BY <1>1, <1>2, <1>4, <1>5, <1>6

\* Messages that move without being settled: published, received, returned to the
\* queue with their channel, dead-lettered.  Deletes that were pending stay pending,
\* and no step of the supervisor reaches a decision.
LEMMA MessagesMove ==
  ASSUME DeletionInv, UNCHANGED <<storeVars, tomb>>,
         message' \in [Events -> MessageStates],
         \A e \in Events : message[e] \in {"ready", "unacked"} => message'[e] \in {"ready", "unacked"},
         \A e \in Events : message'[e] = "acked" => message[e] = "acked",
         \/ step' = step /\ UNCHANGED <<hand, action>>
         \/ step' \notin {"handle", "calling", "settle"}
         \/ step' = "handle" /\ hand' \in Events /\ message'[hand'] = "unacked"
         \/ step = "handle" /\ hand \in Poison /\ step' = "settle" /\ action' = "reject" /\ hand' = hand
  PROVE  DeletionInv'
<1> USE DEF DeletionInv
<1>1. StoreInv' /\ at' = at /\ Live' = Live
  BY StoreNextInv DEF storeVars, Live
<1>2. InHand'
  BY DEF InHand
<1>3. Gated'
  BY <1>1 DEF Gated
<1>4. NoServiceAfterAck'
  BY <1>1 DEF NoServiceAfterAck, DeleteSettled
<1> QED BY <1>1, <1>2, <1>3, <1>4

\* The rest of the consumer, the broker and Close.
LEMMA ConsumerInv ==
  ASSUME DeletionInv,
         \/ ConsumerStep /\ ~Consumer!Settle
         \/ BrokerStep \/ DeadLetter \/ PollDepths \/ BeginClose \/ CloseStep
  PROVE  DeletionInv'
<1> DEFINE Pending(e) == message[e] \in {"ready", "unacked"}
<1>0. message \in [Events -> MessageStates]
  BY DEF DeletionInv
<1>1. UNCHANGED <<storeVars, tomb>>
  BY DEF ConsumerStep, BrokerStep, DeadLetter, PollDepths, BeginClose, CloseStep, managerVars
<1>2. ASSUME NEW S, Consumer!EndStreams(S)
      PROVE  /\ message' \in [Events -> MessageStates]
             /\ \A e \in Events : Pending(e) => Pending(e)'
             /\ \A e \in Events : message'[e] = "acked" => message[e] = "acked"
  BY <1>0, <1>2 DEF Consumer!EndStreams, MessageStates
<1> USE DEF Consumer!broker, Consumer!links, Consumer!work
<1>3. CASE ConsumerStep /\ ~Consumer!Settle
  <2>1. ASSUME NEW e \in Events, Consumer!Receive(e)
        PROVE  DeletionInv'
    BY <1>0, <1>1, <2>1, MessagesMove DEF Consumer!Receive, MessageStates
  <2>2. CASE Consumer!HandlePoison
    BY <1>0, <1>1, <2>2, MessagesMove DEF Consumer!HandlePoison, Consumer!Decide
  <2>3. CASE Consumer!StreamEnds \/ Consumer!OpenSession \/ Consumer!ReattachStops
    BY <1>0, <1>1, <2>3, MessagesMove
       DEF Consumer!StreamEnds, Consumer!OpenSession, Consumer!ReattachStops
  <2>4. CASE Consumer!Adopt /\ Consumer!Closed
    BY <1>1, <1>2, <2>4, MessagesMove DEF Consumer!Adopt
  <2>5. CASE Consumer!Adopt /\ ~Consumer!Closed
    BY <1>0, <1>1, <2>5, MessagesMove DEF Consumer!Adopt
  <2> QED BY <1>3, <2>1, <2>2, <2>3, <2>4, <2>5 DEF ConsumerStep, Consumer!Supervisor
<1>4. CASE BrokerStep
  <2>1. ASSUME NEW e \in Events, Consumer!Publish(e)
        PROVE  DeletionInv'
    BY <1>0, <1>1, <2>1, MessagesMove DEF Consumer!Publish, MessageStates
  <2>2. ASSUME NEW s \in Consumer!Sessions, Consumer!SessionLost(s)
        PROVE  DeletionInv'
    BY <1>1, <1>2, <2>2, MessagesMove DEF Consumer!SessionLost
  <2>3. CASE Consumer!DlqRemoved
    BY <1>0, <1>1, <2>3, MessagesMove DEF Consumer!DlqRemoved
  <2> QED BY <1>4, <2>1, <2>2, <2>3 DEF BrokerStep, Consumer!Broker
<1>5. CASE DeadLetter
  BY <1>0, <1>1, <1>5, MessagesMove DEF DeadLetter, Consumer!DeadLetter, MessageStates
<1>6. CASE PollDepths \/ BeginClose
  BY <1>0, <1>1, <1>6, MessagesMove DEF PollDepths, BeginClose, Consumer!PollDepths, Consumer!BeginClose
<1>7. CASE CloseStep
  <2>1. CASE Consumer!CloseChannel
    BY <1>1, <1>2, <2>1, MessagesMove DEF Consumer!CloseChannel
  <2>2. CASE Consumer!CloseConnection
    BY <1>0, <1>1, <2>2, MessagesMove DEF Consumer!CloseConnection
  <2> QED BY <1>7, <2>1, <2>2 DEF CloseStep, Consumer!CloseStep
<1> QED BY <1>3, <1>4, <1>5, <1>6, <1>7

\* The process dies, and the owner's cascade.
LEMMA WorldInv ==
  ASSUME DeletionInv, Crash \/ Cascade
  PROVE  DeletionInv'
<1> USE DEF DeletionInv
<1>1. CASE Crash
  <2>1. StoreInv'
    BY <1>1, VanishInv DEF Crash
  <2>2. message' \in [Events -> MessageStates] /\ tomb' = FALSE /\ step' = "consume"
    BY <1>1 DEF Crash, MessageStates
  <2> QED BY <2>1, <2>2 DEF InHand, Gated, NoServiceAfterAck
<1>2. CASE Cascade
  <2>1. StoreInv'
    BY <1>2, OtherStepInv DEF Cascade, Outside
  <2>2. UNCHANGED <<at, message, step, hand, action, tomb>>
    BY <1>2 DEF Cascade, OwnerCascade, consumerVars, managerVars
  <2> QED BY <2>1, <2>2 DEF InHand, Gated, NoServiceAfterAck, DeleteSettled, Live
<1> QED BY <1>1, <1>2

\* Every step keeps the invariant.
LEMMA DeletionNextInv == DeletionInv /\ [Next]_vars => DeletionInv'
<1> SUFFICES ASSUME DeletionInv, [Next]_vars PROVE DeletionInv'
  OBVIOUS
<1>1. CASE Next
  BY <1>1, RoomInv, CloseDeletedInv, CloseReturnsInv, ExpiryInv, SettleInv, ConsumerInv, WorldInv
     DEF Next
<1>2. CASE UNCHANGED vars
  <2>1. UNCHANGED <<storeVars, tomb, message, step, hand, action>>
    BY <1>2 DEF vars, consumerVars, managerVars
  <2> QED BY <2>1, MessagesMove DEF DeletionInv
<1> QED BY <1>1, <1>2

\* The invariant holds in every reachable state.
LEMMA DeletionInvariant == Spec => []DeletionInv
BY DeletionInitInv, DeletionNextInv, PTL DEF Spec

-----------------------------------------------------------------------------
(* The theorems                                                            *)

\* Once every published delete event is acknowledged, nothing serves the document
\* while the tombstone stands, for any number of events, sessions and redeliveries:
\* processOne acknowledges only what CloseDeleted confirmed, and the tombstone it
\* renewed keeps Join out until the event is settled.
THEOREM NoServiceTheorem == Spec => []NoServiceAfterAck
<1>1. DeletionInv => NoServiceAfterAck
  BY DEF DeletionInv
<1> QED BY <1>1, DeletionInvariant, PTL

\* The store's promises survive the composition: with delete events, refused
\* admissions, crashes and the owner's cascade, what persist reported stays
\* retrievable until the delete, and a room that serves holds it.
THEOREM StoreInComposition == Spec => [](AckedRetrievable /\ RestoresAcked)
<1>1. DeletionInv => AckedRetrievable /\ RestoresAcked
  BY DEF DeletionInv, StoreInv, Undamaged, Covered, AckedRetrievable, Retrievable
<1> QED BY <1>1, DeletionInvariant, PTL
=============================================================================
