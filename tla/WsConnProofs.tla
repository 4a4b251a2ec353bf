---------------------------- MODULE WsConnProofs ----------------------------
(***************************************************************************)
(* Proofs about one connection, for every queue depth, every length of the *)
(* initial batch and every number of frames.                               *)
(***************************************************************************)
EXTENDS WsConn, SequenceTheorems, TLAPS

\* The three forms of an item.
LEMMA ItemTypes ==
  /\ Frame \in Items
  /\ \A p \in Producers : Control(EndOf[p]) \in Items /\ End(EndOf[p]) \in Items
BY DEF Items, Codes

\* Appending to a typed queue: what offer and admitEnd do when they admit.
LEMMA AdmitType ==
  ASSUME TypeOK, Admission = "admitted", NEW item \in Items, Admit(item)
  PROVE  /\ queue' \in Seq(Items) /\ Len(queue') <= QueueCap
         /\ accepted' \in Seq(Items)
<1> DEFINE S == Items
<1>1. queue \in Seq(S) /\ accepted \in Seq(S) /\ item \in S
  BY DEF TypeOK
<1>2. queue' = Append(queue, item) /\ accepted' = Append(accepted, item)
  BY DEF Admit
<1>3. Len(queue) < QueueCap
  BY DEF Admission
<1> HIDE DEF S
<1>4. queue' \in Seq(S) /\ Len(queue') <= QueueCap /\ accepted' \in Seq(S)
  BY <1>1, <1>2, <1>3, WsConnAssumption
<1> QED BY <1>4 DEF S

\* Every step of a connection preserves its types.
LEMMA TypeStep == TypeOK /\ [Next]_vars => TypeOK'
<1> SUFFICES ASSUME TypeOK, [Next]_vars PROVE TypeOK'
  OBVIOUS
<1> USE DEF boundary, transport, serve, producers
<1>0. ASSUME NEW item \in Items, Offer(item)
      PROVE  /\ queue' \in Seq(Items) /\ Len(queue') <= QueueCap
             /\ accepted' \in Seq(Items)
  <2>1. CASE Admission = "admitted"
    BY <1>0, <2>1, AdmitType DEF Offer
  <2>2. CASE Admission # "admitted"
    BY <1>0, <2>2 DEF Offer, NotAdmitted, TypeOK
  <2> QED BY <2>1, <2>2
<1>1. ASSUME NEW p \in Producers, SendFrame(p) \/ AnnounceEnd(p) \/ FinishEnd(p) PROVE TypeOK'
  <2>1. PICK item \in Items : Offer(item)
    BY <1>1, ItemTypes DEF SendFrame, AnnounceEnd, FinishEnd, Send, CloseAfterDrain
  <2>2. /\ queue' \in Seq(Items) /\ Len(queue') <= QueueCap
        /\ accepted' \in Seq(Items)
    BY <1>0, <2>1
  <2>3. /\ ending' \in BOOLEAN
        /\ shedding' \subseteq Producers
        /\ UNCHANGED <<closed, space, transport, serve>>
    BY <1>1 DEF SendFrame, AnnounceEnd, FinishEnd, Send, CloseAfterDrain, ShedWhenFull, TypeOK
  <2>4. pc' \in [Producers -> {"idle", "announced", "over"}] /\ sends' \in [Producers -> Nat]
    <3>1. CASE SendFrame(p)
      BY <3>1 DEF SendFrame, TypeOK
    <3>2. CASE AnnounceEnd(p)
      BY <3>2 DEF AnnounceEnd, TypeOK
    <3>3. CASE FinishEnd(p)
      BY <3>3 DEF FinishEnd, TypeOK
    <3> QED BY <1>1, <3>1, <3>2, <3>3
  <2> QED BY <2>2, <2>3, <2>4 DEF TypeOK
<1>2. ASSUME NEW p \in Producers, Shed(p) PROVE TypeOK'
  BY <1>2 DEF Shed, HardClose, TypeOK
<1>4. CASE SendInitial
  <2>1. /\ queue' \in Seq(Items) /\ Len(queue') <= QueueCap
        /\ accepted' \in Seq(Items)
    BY <1>0, <1>4, ItemTypes DEF SendInitial
  <2>2. left' \in Nat /\ hs' \in {"sending", "waiting", "failed"}
    BY <1>4 DEF SendInitial, TypeOK
  <2> QED BY <1>4, <2>1, <2>2 DEF SendInitial, TypeOK
<1>5. CASE WakeForSpace \/ WakeForClosed \/ HandshakeGivesUp \/ AskToActivate \/ RoomActivates
             \/ HandshakeDone \/ ServeReturns
  <2>1. CASE ServeReturns
    BY <2>1 DEF ServeReturns, HardClose, TypeOK
  <2>2. CASE WakeForSpace
    BY <2>2 DEF WakeForSpace, TypeOK
  <2>3. CASE WakeForClosed \/ HandshakeGivesUp \/ AskToActivate \/ RoomActivates \/ HandshakeDone
    <3>1. UNCHANGED <<boundary, transport, left, pc, shedding, sends>>
      BY <2>3 DEF WakeForClosed, HandshakeGivesUp, AskToActivate, RoomActivates, HandshakeDone
    <3>2. /\ hs' \in {"sending", "waiting", "activating", "done", "failed"}
          /\ member' \in {"pending", "asked", "active"}
      BY <2>3 DEF WakeForClosed, HandshakeGivesUp, AskToActivate, RoomActivates, HandshakeDone, TypeOK
    <3> QED BY <3>1, <3>2 DEF TypeOK
  <2> QED BY <1>5, <2>1, <2>2, <2>3
<1>6. CASE WriterTakes
  <2> DEFINE S == Items
  <2>1. queue \in Seq(S) /\ queue # <<>> /\ Len(queue) <= QueueCap
    BY <1>6 DEF WriterTakes, TypeOK
  <2>2. queue' = Tail(queue) /\ hand' = <<Head(queue)>>
    BY <1>6 DEF WriterTakes
  <2> HIDE DEF S
  <2>3. queue' \in Seq(S) /\ Len(queue') <= QueueCap /\ hand' \in Seq(S) /\ Len(hand') <= 1
    BY <2>1, <2>2, WsConnAssumption
  <2> USE DEF S
  <2> QED BY <1>6, <2>3 DEF WriterTakes, TypeOK
<1>7. CASE WriterWrites \/ CloseWith
  <2> DEFINE S == Items
  <2>1. wire \in Seq(S) /\ hand \in Seq(S)
    BY DEF TypeOK
  <2>2. wire' = wire \/ wire' = wire \o hand
    BY <1>7 DEF WriterWrites, CloseWith
  <2> HIDE DEF S
  <2>3. wire' \in Seq(S)
    BY <2>1, <2>2, ConcatProperties
  <2> USE DEF S
  <2>4. CASE WriterWrites
    BY <2>3, <2>4 DEF WriterWrites, TypeOK
  <2>5. CASE CloseWith
    BY <2>3, <2>5 DEF CloseWith, TypeOK
  <2> QED BY <1>7, <2>4, <2>5
<1>8. CASE WriterStops \/ ReleaseSpace \/ WriteFails \/ WriterCloses
  <2>1. CASE WriterStops
    BY <2>1 DEF WriterStops, TypeOK
  <2>2. CASE ReleaseSpace
    BY <2>2 DEF ReleaseSpace, TypeOK
  <2>3. CASE WriteFails
    BY <2>3 DEF WriteFails, TypeOK
  <2>4. CASE WriterCloses
    BY <2>4 DEF WriterCloses, HardClose, TypeOK
  <2> QED BY <1>8, <2>1, <2>2, <2>3, <2>4
<1>9. CASE CloseNow \/ PeerGone \/ PeerStalls
  <2>1. UNCHANGED <<boundary, hand, writer, wire, producers>>
    BY <1>9 DEF CloseNow, PeerGone, PeerStalls
  <2>2. socket' \in {"open", "going", "gone"} /\ stalled' \in BOOLEAN
    BY <1>9 DEF CloseNow, PeerGone, PeerStalls, TypeOK
  <2> QED BY <2>1, <2>2 DEF TypeOK
<1>10. CASE UNCHANGED vars
  BY <1>10 DEF vars, TypeOK
<1> QED BY <1>1, <1>2, <1>4, <1>5, <1>6, <1>7, <1>8, <1>9, <1>10 DEF Next, Serve, Writer

\* The initial state is typed.
LEMMA TypeInit == Init => TypeOK
<1> SUFFICES ASSUME Init PROVE TypeOK
  OBVIOUS
<1> DEFINE S == Items
<1> HIDE DEF S
<1>1. queue \in Seq(S) /\ Len(queue) <= QueueCap /\ hand \in Seq(S) /\ Len(hand) <= 1
      /\ wire \in Seq(S) /\ accepted \in Seq(S)
  BY WsConnAssumption DEF Init
<1>2. pc \in [Producers -> {"idle", "announced", "over"}] /\ sends \in [Producers -> Nat]
  BY DEF Init
<1> USE DEF S
<1> QED BY <1>1, <1>2, WsConnAssumption DEF Init, TypeOK

\* TypeOK is an invariant: in particular the send channel never holds more than
\* its capacity, whichever goroutines race in offer and admitEnd.
THEOREM TypeCorrect == Spec => []TypeOK
BY TypeInit, TypeStep, PTL DEF Spec

-----------------------------------------------------------------------------
(* The terminal boundary                                                   *)

\* Appending an item that is not an end, or an end together with the boundary,
\* while no end was admitted, keeps the end last.
LEMMA AppendKeepsEndLast ==
  ASSUME TypeOK, EndIsLast, ~ending, NEW item \in Items, Admit(item),
         item.kind = "end" => ending'
  PROVE  EndIsLast'
<1> DEFINE S == Items
<1>1. accepted \in Seq(S) /\ item \in S
  BY DEF TypeOK
<1>2. accepted' = Append(accepted, item)
  BY DEF Admit
<1>3. \A i \in 1..Len(accepted) : accepted[i].kind # "end"
  BY DEF EndIsLast
<1> HIDE DEF S
<1>4. /\ Len(accepted') = Len(accepted) + 1
      /\ \A i \in 1..Len(accepted) : accepted'[i] = accepted[i]
      /\ accepted'[Len(accepted) + 1] = item
      /\ Len(accepted) \in Nat
  BY <1>1, <1>2
<1>5. ASSUME NEW i \in 1..Len(accepted'), accepted'[i].kind = "end"
      PROVE  i = Len(accepted') /\ ending'
  BY <1>3, <1>4, <1>5
<1> QED BY <1>5 DEF EndIsLast

\* A step that admits nothing and does not move the boundary back.
LEMMA SameKeepsEndLast ==
  ASSUME EndIsLast, accepted' = accepted, ending => ending'
  PROVE  EndIsLast'
BY DEF EndIsLast

\* No step admits anything behind an end.
LEMMA EndIsLastStep == TypeOK /\ EndIsLast /\ [Next]_vars => EndIsLast'
<1> SUFFICES ASSUME TypeOK, EndIsLast, [Next]_vars PROVE EndIsLast'
  OBVIOUS
<1> USE DEF boundary, transport, serve, producers
<1>1. ASSUME NEW item \in Items, Offer(item), item.kind = "end" /\ ~ending => ending' \/ Admission # "admitted",
             ending => ending'
      PROVE  EndIsLast'
  <2>1. CASE Admission = "admitted"
    <3>1. Admit(item) /\ ~ending
      BY <1>1, <2>1 DEF Offer, Admission
    <3> QED BY <1>1, <2>1, <3>1, AppendKeepsEndLast
  <2>2. CASE Admission # "admitted"
    BY <1>1, <2>2, SameKeepsEndLast DEF Offer, NotAdmitted
  <2> QED BY <2>1, <2>2
<1>2. ASSUME NEW p \in Producers, SendFrame(p) \/ AnnounceEnd(p) PROVE EndIsLast'
  <2>1. PICK item \in Items : Offer(item) /\ item.kind # "end"
    BY <1>2, ItemTypes DEF SendFrame, AnnounceEnd, Send, Frame, Control
  <2>2. UNCHANGED ending
    BY <1>2 DEF SendFrame, AnnounceEnd, Send
  <2> QED BY <1>1, <2>1, <2>2
<1>3. ASSUME NEW p \in Producers, FinishEnd(p) PROVE EndIsLast'
  <2>1. Offer(End(EndOf[p])) /\ ending' = (ending \/ Admission # "refusedTerminal")
    BY <1>3 DEF FinishEnd, CloseAfterDrain
  <2> QED BY <1>1, <2>1, ItemTypes
<1>4. CASE SendInitial
  BY <1>1, <1>4, ItemTypes DEF SendInitial, Frame
<1>5. ASSUME NEW p \in Producers, Shed(p) PROVE EndIsLast'
  BY <1>5, SameKeepsEndLast DEF Shed
<1>6. CASE WakeForSpace \/ WakeForClosed \/ HandshakeGivesUp \/ AskToActivate \/ RoomActivates
             \/ HandshakeDone \/ ServeReturns
  BY <1>6, SameKeepsEndLast DEF WakeForSpace, WakeForClosed, HandshakeGivesUp, AskToActivate,
     RoomActivates, HandshakeDone, ServeReturns
<1>7. CASE Writer \/ CloseNow \/ PeerGone \/ PeerStalls
  BY <1>7, SameKeepsEndLast DEF Writer, WriterTakes, WriterStops, ReleaseSpace, WriterWrites,
     WriteFails, CloseWith, WriterCloses, CloseNow, PeerGone, PeerStalls
<1>8. CASE UNCHANGED vars
  BY <1>8, SameKeepsEndLast DEF vars
<1> QED BY <1>2, <1>3, <1>4, <1>5, <1>6, <1>7, <1>8 DEF Next, Serve

\* However many producers race to end a session, at most one close intent is
\* admitted and nothing is admitted behind it (offer and admitEnd share one lock
\* and one verdict).
THEOREM EndIsLastTheorem == Spec => []EndIsLast
<1>1. Init => EndIsLast
  BY DEF Init, EndIsLast
<1> QED BY <1>1, TypeCorrect, EndIsLastStep, PTL DEF Spec

-----------------------------------------------------------------------------
(* Wakeups                                                                 *)

\* No step leaves a parked handshake with a free slot, or with a decided end, and
\* without a token, the closed channel or somebody on the way to either.
LEMMA NoLostWakeupStep == TypeOK /\ NoLostWakeup /\ [Next]_vars => NoLostWakeup'
<1> SUFFICES ASSUME TypeOK, NoLostWakeup, [Next]_vars PROVE NoLostWakeup'
  OBVIOUS
<1> USE DEF boundary, transport, serve, producers
<1>0. QueueCap \in Nat \ {0} /\ Len(queue) \in Nat
  BY WsConnAssumption DEF TypeOK
\* An offer never frees a slot; the end it decides has a slot, hence a waker, or its
\* producer is about to close.
<1>1. ASSUME NEW p \in Producers, SendFrame(p) \/ AnnounceEnd(p) PROVE NoLostWakeup'
  BY <1>0, <1>1 DEF SendFrame, AnnounceEnd, Send, Offer, ShedWhenFull, Admission, Admit,
     NotAdmitted, NoLostWakeup
<1>2. ASSUME NEW p \in Producers, FinishEnd(p) PROVE NoLostWakeup'
  BY <1>0, <1>2 DEF FinishEnd, CloseAfterDrain, Offer, ShedWhenFull, Admission, Admit,
     NotAdmitted, NoLostWakeup
<1>3. ASSUME NEW p \in Producers, Shed(p) PROVE NoLostWakeup'
  BY <1>3 DEF Shed, HardClose, NoLostWakeup
<1>4. CASE SendInitial
  BY <1>0, <1>4 DEF SendInitial, Offer, Admission, NotAdmitted, NoLostWakeup
<1>5. CASE WakeForSpace \/ WakeForClosed \/ HandshakeGivesUp \/ AskToActivate \/ RoomActivates
             \/ HandshakeDone \/ ServeReturns
  BY <1>5 DEF WakeForSpace, WakeForClosed, HandshakeGivesUp, AskToActivate, RoomActivates,
     HandshakeDone, ServeReturns, HardClose, NoLostWakeup
<1>6. CASE WriterTakes \/ ReleaseSpace
  BY <1>6 DEF WriterTakes, ReleaseSpace, NoLostWakeup
<1>7. CASE WriterStops \/ WriterWrites \/ WriteFails \/ CloseWith \/ WriterCloses
  BY <1>7 DEF WriterStops, WriterWrites, WriteFails, CloseWith, WriterCloses, HardClose, NoLostWakeup
<1>8. CASE CloseNow \/ PeerGone \/ PeerStalls \/ UNCHANGED vars
  BY <1>8 DEF CloseNow, PeerGone, PeerStalls, vars, NoLostWakeup
<1> QED BY <1>1, <1>2, <1>3, <1>4, <1>5, <1>6, <1>7, <1>8 DEF Next, Serve, Writer

\* A handshake parked on a full queue never misses its wakeup, whatever the order
\* in which the writer frees slots and announces them, ends are decided and carried
\* out, and the socket dies.
THEOREM NoLostWakeupTheorem == Spec => []NoLostWakeup
<1>1. Init => NoLostWakeup
  BY DEF Init, NoLostWakeup
<1> QED BY <1>1, TypeCorrect, NoLostWakeupStep, PTL DEF Spec

-----------------------------------------------------------------------------
(* Order and completeness of what the client reads                         *)

\* What makes the order inductive: only a writer in its loop holds an item, and the
\* writer that wrote a close has left it.
WriterHolds == hand # <<>> => writer \in {"running", "releasing"}
EndStopsWriter == \A i \in 1..Len(wire) : wire[i].kind = "end" => writer \in {"closing", "done"}

OrderInv == TypeOK /\ EndIsLast /\ InOrder /\ CloseIsComplete /\ WriterHolds /\ EndStopsWriter

\* Admitting an item behind the queue extends all that was admitted by it.
LEMMA AdmitInOrder ==
  ASSUME TypeOK, InOrder, NEW item \in Items, Admit(item), UNCHANGED <<wire, hand, writer>>
  PROVE  InOrder'
<1> DEFINE S == Items
<1>1. wire \in Seq(S) /\ hand \in Seq(S) /\ queue \in Seq(S) /\ item \in S
  BY DEF TypeOK
<1> SUFFICES ASSUME writer \in {"running", "releasing"} PROVE (wire \o hand) \o queue' = accepted'
  BY DEF InOrder
<1>2. accepted = (wire \o hand) \o queue
  BY DEF InOrder
<1>3. queue' = Append(queue, item) /\ accepted' = Append(accepted, item)
  BY DEF Admit
<1> HIDE DEF S
<1>4. wire \o hand \in Seq(S) /\ (wire \o hand) \o queue \in Seq(S) /\ <<item>> \in Seq(S)
  BY <1>1, ConcatProperties
<1>5. queue' = queue \o <<item>> /\ accepted' = accepted \o <<item>>
  BY <1>1, <1>2, <1>3, <1>4, AppendIsConcat
<1>6. ((wire \o hand) \o queue) \o <<item>> = (wire \o hand) \o (queue \o <<item>>)
  BY SMTT(20), <1>1, <1>4, ConcatAssociative
<1> QED BY <1>2, <1>5, <1>6

\* Taking the head of the queue into an empty hand changes nothing.
LEMMA TakeInOrder ==
  ASSUME TypeOK, InOrder, WriterTakes
  PROVE  InOrder'
<1> DEFINE S == Items
<1>1. wire \in Seq(S) /\ queue \in Seq(S) /\ queue # <<>> /\ hand = <<>>
  BY DEF TypeOK, WriterTakes
<1>2. accepted = (wire \o hand) \o queue /\ accepted' = accepted /\ wire' = wire
  BY DEF InOrder, WriterTakes, producers
<1>3. hand' = <<Head(queue)>> /\ queue' = Tail(queue)
  BY DEF WriterTakes
<1> SUFFICES (wire \o hand') \o queue' = accepted
  BY <1>2 DEF InOrder
<1> HIDE DEF S
<1>4. Head(queue) \in S /\ Tail(queue) \in Seq(S) /\ <<Head(queue)>> \in Seq(S)
  BY <1>1, HeadTailProperties
<1>5. (wire \o hand') \o queue' = wire \o (hand' \o queue')
  BY <1>1, <1>3, <1>4, ConcatAssociative
<1>6. hand' \o queue' = queue
  BY <1>1, <1>3, <1>4
<1>7. wire \o hand = wire
  BY <1>1, ConcatEmptySeq
<1> QED BY <1>2, <1>5, <1>6, <1>7

\* A write moves the item in hand to the wire.
LEMMA WriteInOrder ==
  ASSUME TypeOK, InOrder, WriterWrites
  PROVE  InOrder'
<1> DEFINE S == Items
<1>1. wire \in Seq(S) /\ hand \in Seq(S)
  BY DEF TypeOK
<1>2. wire' = wire \o hand /\ hand' = <<>>
      /\ UNCHANGED <<queue, accepted, writer>>
  BY DEF WriterWrites, boundary
<1> HIDE DEF S
<1>3. wire' \o hand' = wire \o hand
  BY <1>1, <1>2, ConcatProperties, ConcatEmptySeq
<1> QED BY <1>2, <1>3 DEF InOrder

\* A close that reaches the client was the last thing admitted.
LEMMA CloseWithComplete ==
  ASSUME TypeOK, EndIsLast, InOrder, WriterHolds, CloseWith
  PROVE  wire' = wire \/ wire' = accepted
<1> DEFINE S == Items
<1>1. wire \in Seq(S) /\ hand \in Seq(S) /\ queue \in Seq(S)
      /\ Len(hand) <= 1 /\ hand # <<>> /\ hand[1].kind = "end"
  BY DEF TypeOK, CloseWith
<1>2. accepted = (wire \o hand) \o queue
  BY <1>1 DEF InOrder, WriterHolds
<1> HIDE DEF S
<1>3. Len(hand) = 1 /\ Len(wire) \in Nat /\ Len(queue) \in Nat
  <2>1. Len(hand) \in Nat \ {0}
    BY <1>1, EmptySeq
  <2>2. Len(wire) \in Nat /\ Len(queue) \in Nat
    BY <1>1
  <2> DEFINE n == Len(hand)
  <2>3. n \in Nat \ {0} /\ n <= 1
    BY <1>1, <2>1
  <2> HIDE DEF n
  <2>4. n = 1
    BY <2>3
  <2> QED BY <2>2, <2>4 DEF n
<1> DEFINE out == wire \o hand
<1>4. out \in Seq(S) /\ Len(out) = Len(wire) + 1 /\ out[Len(wire) + 1] = hand[1]
  <2>1. /\ out \in Seq(S)
        /\ Len(out) = Len(wire) + Len(hand)
        /\ \A i \in 1..Len(wire) + Len(hand) :
             out[i] = IF i <= Len(wire) THEN wire[i] ELSE hand[i - Len(wire)]
    BY <1>1, ConcatProperties
  <2> HIDE DEF out
  <2> QED BY <1>3, <2>1
<1>5. Len(accepted) = Len(wire) + 1 + Len(queue) /\ accepted[Len(wire) + 1] = hand[1]
  <2> HIDE DEF out
  <2>1. /\ Len(out \o queue) = Len(out) + Len(queue)
        /\ \A i \in 1..Len(out) + Len(queue) :
             (out \o queue)[i] = IF i <= Len(out) THEN out[i] ELSE queue[i - Len(out)]
    BY <1>1, <1>4, ConcatProperties
  <2>2. accepted = out \o queue
    BY <1>2 DEF out
  <2> QED BY <1>3, <1>4, <2>1, <2>2
<1>6. Len(queue) = 0
  BY <1>1, <1>3, <1>5 DEF EndIsLast
<1>7. queue = <<>>
  BY <1>1, <1>6
<1>8. accepted = wire \o hand
  BY <1>2, <1>4, <1>7, ConcatEmptySeq
<1> QED BY <1>8 DEF CloseWith

\* A step that neither writes nor admits keeps a delivered close complete.
LEMMA SameKeepsComplete ==
  ASSUME CloseIsComplete, UNCHANGED <<wire, accepted>>
  PROVE  CloseIsComplete'
BY DEF CloseIsComplete

\* Every step preserves the order and the completeness of what the client reads.
LEMMA OrderStep == OrderInv /\ [Next]_vars => OrderInv'
<1> SUFFICES ASSUME OrderInv, [Next]_vars PROVE OrderInv'
  OBVIOUS
<1> USE DEF boundary, transport, serve, producers
<1>0. TypeOK /\ EndIsLast /\ InOrder /\ CloseIsComplete /\ WriterHolds /\ EndStopsWriter
  BY DEF OrderInv
<1>1. TypeOK' /\ EndIsLast'
  BY <1>0, TypeStep, EndIsLastStep
<1> SUFFICES InOrder' /\ CloseIsComplete' /\ WriterHolds' /\ EndStopsWriter'
  BY <1>1 DEF OrderInv
\* Steps that offer an item.
<1>2. ASSUME NEW item \in Items, Offer(item), UNCHANGED <<wire, hand, writer>>
      PROVE  InOrder' /\ CloseIsComplete' /\ WriterHolds' /\ EndStopsWriter'
  <2>1. WriterHolds' /\ EndStopsWriter'
    BY <1>0, <1>2 DEF WriterHolds, EndStopsWriter
  <2>2. CASE Admission # "admitted"
    <3>1. NotAdmitted
      BY <1>2, <2>2 DEF Offer
    <3> QED BY <1>0, <1>2, <2>1, <3>1, SameKeepsComplete DEF NotAdmitted, InOrder
  <2>3. CASE Admission = "admitted"
    <3>1. Admit(item) /\ ~ending
      BY <1>2, <2>3 DEF Offer, Admission
    <3>2. InOrder'
      BY <1>0, <1>2, <3>1, AdmitInOrder
    <3>3. \A i \in 1..Len(wire) : wire[i].kind # "end"
      BY <1>0, <3>1 DEF CloseIsComplete, EndIsLast
    <3> QED BY <1>2, <2>1, <3>2, <3>3 DEF CloseIsComplete
  <2> QED BY <2>2, <2>3
<1>3. ASSUME NEW p \in Producers, SendFrame(p) \/ AnnounceEnd(p) \/ FinishEnd(p)
      PROVE  InOrder' /\ CloseIsComplete' /\ WriterHolds' /\ EndStopsWriter'
  <2>1. CASE SendFrame(p)
    BY <1>2, <2>1, ItemTypes DEF SendFrame, Send
  <2>2. CASE AnnounceEnd(p)
    BY <1>2, <2>2, ItemTypes DEF AnnounceEnd, Send
  <2>3. CASE FinishEnd(p)
    BY <1>2, <2>3, ItemTypes DEF FinishEnd, CloseAfterDrain
  <2> QED BY <1>3, <2>1, <2>2, <2>3
<1>4. CASE SendInitial
  BY <1>2, <1>4, ItemTypes DEF SendInitial
<1>5. CASE WriterTakes
  <2>1. InOrder'
    BY <1>0, <1>5, TakeInOrder
  <2>2. CloseIsComplete' /\ EndStopsWriter'
    BY <1>0, <1>5, SameKeepsComplete DEF WriterTakes, EndStopsWriter
  <2>3. WriterHolds'
    BY <1>5 DEF WriterTakes, WriterHolds
  <2> QED BY <2>1, <2>2, <2>3
<1>6. CASE WriterWrites
  <2>1. InOrder' /\ WriterHolds'
    BY <1>0, <1>6, WriteInOrder DEF WriterWrites, WriterHolds
  <2>2. \A i \in 1..Len(wire') : wire'[i].kind # "end"
    <3> DEFINE S == Items
    <3>1. wire \in Seq(S) /\ hand \in Seq(S) /\ Len(hand) <= 1 /\ hand # <<>>
          /\ hand[1].kind # "end" /\ wire' = wire \o hand
      BY <1>0, <1>6 DEF TypeOK, WriterWrites
    <3>2. \A i \in 1..Len(wire) : wire[i].kind # "end"
      BY <1>0, <1>6 DEF WriterHolds, EndStopsWriter, WriterWrites
    <3> HIDE DEF S
    <3>3. /\ Len(wire') = Len(wire) + Len(hand)
          /\ \A i \in 1..Len(wire) + Len(hand) :
               wire'[i] = IF i <= Len(wire) THEN wire[i] ELSE hand[i - Len(wire)]
      BY <3>1, ConcatProperties
    <3>4. Len(hand) \in Nat /\ Len(wire) \in Nat
      BY <3>1
    <3>5. ASSUME NEW i \in 1..Len(wire') PROVE wire'[i].kind # "end"
      <4>1. CASE i <= Len(wire)
        BY <3>2, <3>3, <3>4, <4>1
      <4>2. CASE i > Len(wire)
        <5>1. i - Len(wire) = 1
          BY <3>1, <3>3, <3>4, <4>2
        <5> QED BY <3>1, <3>3, <3>4, <4>2, <5>1
      <4> QED BY <3>4, <4>1, <4>2
    <3> QED BY <3>5
  <2> QED BY <2>1, <2>2 DEF CloseIsComplete, EndStopsWriter
<1>7. CASE CloseWith
  <2>1. writer' = "closing" /\ hand' = <<>> /\ accepted' = accepted
    BY <1>7 DEF CloseWith
  <2>2. wire' = wire \/ wire' = accepted
    BY <1>0, <1>7, CloseWithComplete
  <2> QED BY <1>0, <2>1, <2>2 DEF InOrder, CloseIsComplete, WriterHolds, EndStopsWriter
<1>8. CASE WriterStops \/ WriteFails \/ WriterCloses
  <2>1. writer' \in {"closing", "done"} /\ hand' = <<>> /\ UNCHANGED <<wire, accepted>>
    BY <1>0, <1>8 DEF WriterStops, WriteFails, WriterCloses, WriterHolds
  <2> QED BY <1>0, <2>1 DEF InOrder, CloseIsComplete, WriterHolds, EndStopsWriter
<1>9. ASSUME UNCHANGED <<queue, accepted, wire, hand, writer>>
      PROVE  InOrder' /\ CloseIsComplete' /\ WriterHolds' /\ EndStopsWriter'
  BY <1>0, <1>9 DEF InOrder, CloseIsComplete, WriterHolds, EndStopsWriter
<1>10. CASE WakeForSpace \/ WakeForClosed \/ HandshakeGivesUp \/ AskToActivate \/ RoomActivates
              \/ HandshakeDone \/ ServeReturns
  BY <1>9, <1>10 DEF WakeForSpace, WakeForClosed, HandshakeGivesUp, AskToActivate, RoomActivates,
     HandshakeDone, ServeReturns
<1>11. CASE CloseNow \/ PeerGone \/ PeerStalls \/ UNCHANGED vars
  BY <1>9, <1>11 DEF CloseNow, PeerGone, PeerStalls, vars
<1>12. ASSUME NEW p \in Producers, Shed(p)
       PROVE  InOrder' /\ CloseIsComplete' /\ WriterHolds' /\ EndStopsWriter'
  BY <1>9, <1>12 DEF Shed
<1>13. CASE ReleaseSpace
  <2>1. UNCHANGED <<queue, accepted, wire, hand>> /\ writer = "releasing" /\ writer' = "running"
    BY <1>13 DEF ReleaseSpace
  <2> QED BY <1>0, <2>1 DEF InOrder, CloseIsComplete, WriterHolds, EndStopsWriter
<1> QED BY <1>3, <1>4, <1>5, <1>6, <1>7, <1>8, <1>10, <1>11, <1>12, <1>13 DEF Next, Serve, Writer

\* One queue and one writer keep the order of admission, and a close the client
\* reads comes after everything that was ever admitted, for every interleaving of
\* the producers, the writer and the socket's failures.
THEOREM OrderTheorem == Spec => [](InOrder /\ CloseIsComplete)
<1>1. Init => OrderInv
  <2>1. ASSUME Init PROVE EndIsLast /\ CloseIsComplete /\ WriterHolds /\ EndStopsWriter
    BY <2>1 DEF Init, EndIsLast, CloseIsComplete, WriterHolds, EndStopsWriter
  <2>2. ASSUME Init PROVE InOrder
    BY <2>2 DEF Init, InOrder
  <2> QED BY <2>1, <2>2, TypeInit DEF OrderInv
<1>2. OrderInv => InOrder /\ CloseIsComplete
  BY DEF OrderInv
<1> QED BY <1>1, <1>2, OrderStep, PTL DEF Spec

-----------------------------------------------------------------------------
(* The reason before the close                                             *)

\* What an announced end leaves behind: its control frame was admitted, or the
\* boundary has closed, or its producer closes it before it goes on, and no end of
\* this producer will be admitted.
ReasonPending ==
  \A p \in Producers : pc[p] = "announced" =>
     \/ ending \/ closed \/ p \in shedding
     \/ \E j \in 1..Len(accepted) : accepted[j] = Control(EndOf[p])

\* Whatever end was admitted, its reason was admitted before it.
ReasonAdmitted ==
  \A i \in 1..Len(accepted) : accepted[i].kind = "end" =>
     \E j \in 1..(i - 1) : accepted[j] = Control(accepted[i].code)

\* What admitting an item leaves of the history.
LEMMA AcceptedGrows ==
  ASSUME TypeOK, NEW item \in Items, Admit(item)
  PROVE  /\ Len(accepted) \in Nat /\ Len(accepted') = Len(accepted) + 1
         /\ \A i \in 1..Len(accepted) : accepted'[i] = accepted[i]
         /\ accepted'[Len(accepted) + 1] = item
<1> DEFINE S == Items
<1>1. accepted \in Seq(S) /\ item \in S
  BY DEF TypeOK
<1>2. accepted' = Append(accepted, item)
  BY DEF Admit
<1> HIDE DEF S
<1> QED BY <1>1, <1>2

\* Admitting an ordinary item, or an end whose reason is in the history.
LEMMA AdmitKeepsReasons ==
  ASSUME TypeOK, ReasonPending, ReasonAdmitted, NEW item \in Items, Admit(item),
         item.kind = "end" => \E j \in 1..Len(accepted) : accepted[j] = Control(item.code)
  PROVE  /\ ReasonAdmitted'
         /\ \A p \in Producers :
              (\E j \in 1..Len(accepted) : accepted[j] = Control(EndOf[p]))
                => \E j \in 1..Len(accepted') : accepted'[j] = Control(EndOf[p])
<1>1. /\ Len(accepted) \in Nat /\ Len(accepted') = Len(accepted) + 1
      /\ \A i \in 1..Len(accepted) : accepted'[i] = accepted[i]
      /\ accepted'[Len(accepted) + 1] = item
  BY AcceptedGrows
<1>2. ASSUME NEW i \in 1..Len(accepted'), accepted'[i].kind = "end"
      PROVE  \E j \in 1..(i - 1) : accepted'[j] = Control(accepted'[i].code)
  <2>1. CASE i \in 1..Len(accepted)
    <3>1. PICK j \in 1..(i - 1) : accepted[j] = Control(accepted[i].code)
      BY <1>1, <1>2, <2>1 DEF ReasonAdmitted
    <3>2. j \in 1..Len(accepted)
      BY <1>1, <2>1
    <3> QED BY <1>1, <2>1, <3>1, <3>2
  <2>2. CASE i = Len(accepted) + 1
    <3>1. PICK j \in 1..Len(accepted) : accepted[j] = Control(item.code)
      BY <1>1, <1>2, <2>2
    <3> QED BY <1>1, <2>2, <3>1
  <2> QED BY <1>1, <2>1, <2>2
<1>3. ReasonAdmitted'
  BY <1>2 DEF ReasonAdmitted
<1> QED BY <1>1, <1>3

\* No step admits an end before its reason.
LEMMA ReasonStep ==
  ASSUME TypeOK, ReasonPending, ReasonAdmitted, [Next]_vars
  PROVE  ReasonPending' /\ ReasonAdmitted'
<1> USE DEF boundary, transport, serve, producers
<1>1. ASSUME UNCHANGED <<accepted, pc>>, ending => ending', closed => closed',
             shedding \subseteq shedding' \/ closed'
      PROVE  ReasonPending' /\ ReasonAdmitted'
  BY <1>1 DEF ReasonPending, ReasonAdmitted
\* A frame: admitted or not, it is no end and announces nothing.
<1>2. ASSUME NEW item \in Items, item.kind # "end", Offer(item),
             ending => ending', closed => closed', shedding \subseteq shedding',
             \A p \in Producers : pc'[p] = "announced" => pc[p] = "announced"
      PROVE  ReasonPending' /\ ReasonAdmitted'
  <2>1. CASE Admit(item)
    BY <1>2, <2>1, AdmitKeepsReasons DEF ReasonPending
  <2>2. CASE NotAdmitted
    BY <1>2, <2>2 DEF NotAdmitted, ReasonPending, ReasonAdmitted
  <2> QED BY <1>2, <2>1, <2>2 DEF Offer
<1>3. Frame \in Items /\ Frame.kind # "end"
  BY ItemTypes DEF Frame
<1>4. ASSUME NEW p \in Producers, SendFrame(p) PROVE ReasonPending' /\ ReasonAdmitted'
  <2>1. \A q \in Producers : pc'[q] = "announced" => pc[q] = "announced"
    BY <1>4 DEF SendFrame, TypeOK
  <2>2. UNCHANGED <<ending, closed>> /\ shedding \subseteq shedding' /\ Offer(Frame)
    BY <1>4 DEF SendFrame, Send, ShedWhenFull
  <2> QED BY <1>2, <1>3, <2>1, <2>2
<1>5. ASSUME NEW p \in Producers, AnnounceEnd(p) PROVE ReasonPending' /\ ReasonAdmitted'
  <2> DEFINE item == Control(EndOf[p])
  <2>1. item \in Items /\ item.kind # "end"
    BY ItemTypes DEF Control
  <2>2. /\ UNCHANGED <<ending, closed>> /\ shedding \subseteq shedding'
        /\ \A q \in Producers \ {p} : pc'[q] = pc[q]
    BY <1>5 DEF AnnounceEnd, Send, ShedWhenFull, TypeOK
  <2>3. CASE Admission = "admitted"
    <3>1. Admit(item)
      BY <1>5, <2>3 DEF AnnounceEnd, Send, Offer
    <3>2. \E j \in 1..Len(accepted') : accepted'[j] = item
      <4>1. /\ Len(accepted) \in Nat /\ Len(accepted') = Len(accepted) + 1
            /\ accepted'[Len(accepted) + 1] = item
        BY <2>1, <3>1, AcceptedGrows
      <4> QED BY <4>1
    <3> HIDE DEF item
    <3>3. /\ ReasonAdmitted'
          /\ \A q \in Producers :
               (\E j \in 1..Len(accepted) : accepted[j] = Control(EndOf[q]))
                 => \E j \in 1..Len(accepted') : accepted'[j] = Control(EndOf[q])
      BY <2>1, <3>1, AdmitKeepsReasons
    <3>4. ASSUME NEW q \in Producers, pc'[q] = "announced"
          PROVE  \/ ending' \/ closed' \/ q \in shedding'
                 \/ \E j \in 1..Len(accepted') : accepted'[j] = Control(EndOf[q])
      <4>1. CASE q = p
        BY <3>2, <4>1 DEF item
      <4>2. CASE q # p
        BY <2>2, <3>3, <3>4, <4>2 DEF ReasonPending
      <4> QED BY <4>1, <4>2
    <3> QED BY <3>3, <3>4 DEF ReasonPending
  <2>4. CASE Admission # "admitted"
    <3>1. UNCHANGED accepted /\ (ending' \/ closed' \/ p \in shedding')
      BY <1>5, <2>4 DEF AnnounceEnd, Send, Offer, NotAdmitted, Admission, ShedWhenFull
    <3> QED BY <2>2, <3>1 DEF ReasonPending, ReasonAdmitted
  <2> QED BY <2>3, <2>4
<1>6. ASSUME NEW p \in Producers, FinishEnd(p) PROVE ReasonPending' /\ ReasonAdmitted'
  <2> DEFINE item == End(EndOf[p])
  <2>1. item \in Items /\ item.code = EndOf[p]
    BY ItemTypes DEF End
  <2>2. /\ pc[p] = "announced" /\ p \notin shedding
        /\ \A q \in Producers : pc'[q] = "announced" => pc[q] = "announced"
    BY <1>6 DEF FinishEnd, At, TypeOK
  <2>3. CASE Admission = "admitted"
    <3>1. Admit(item) /\ ending' /\ ~ending /\ ~closed
      BY <1>6, <2>3 DEF FinishEnd, CloseAfterDrain, Offer, Admission
    <3>2. \E j \in 1..Len(accepted) : accepted[j] = Control(EndOf[p])
      BY <2>2, <3>1 DEF ReasonPending
    <3> HIDE DEF item
    <3>3. ReasonAdmitted'
      BY <2>1, <3>1, <3>2, AdmitKeepsReasons
    <3> QED BY <3>1, <3>3 DEF ReasonPending
  <2>4. CASE Admission # "admitted"
    <3>1. UNCHANGED <<accepted, closed>> /\ (ending => ending') /\ shedding \subseteq shedding'
      BY <1>6, <2>4 DEF FinishEnd, CloseAfterDrain, Offer, NotAdmitted, ShedWhenFull
    <3> QED BY <2>2, <3>1 DEF ReasonPending, ReasonAdmitted
  <2> QED BY <2>3, <2>4
<1>7. CASE SendInitial
  BY <1>2, <1>3, <1>7 DEF SendInitial
<1>8. CASE WakeForSpace \/ WakeForClosed \/ HandshakeGivesUp \/ AskToActivate \/ RoomActivates
             \/ HandshakeDone \/ ServeReturns
  BY <1>1, <1>8 DEF WakeForSpace, WakeForClosed, HandshakeGivesUp, AskToActivate, RoomActivates,
     HandshakeDone, ServeReturns, HardClose
<1>9. CASE Writer
  BY <1>1, <1>9 DEF Writer, WriterTakes, WriterStops, ReleaseSpace, WriterWrites, WriteFails,
     CloseWith, WriterCloses, HardClose
<1>10. CASE CloseNow \/ PeerGone \/ PeerStalls \/ UNCHANGED vars
  BY <1>1, <1>10 DEF CloseNow, PeerGone, PeerStalls, vars
<1>11. ASSUME NEW p \in Producers, Shed(p) PROVE ReasonPending' /\ ReasonAdmitted'
  BY <1>1, <1>11 DEF Shed, HardClose
<1> QED BY <1>4, <1>5, <1>6, <1>7, <1>8, <1>9, <1>10, <1>11 DEF Next, Serve

\* The client reads why the session ends before the close that ends it, whichever
\* producers race: disconnect sends the control frame and only then calls
\* CloseAfterDrain, and a control the queue refused closes the connection in between.
THEOREM ReasonTheorem == Spec => []ReasonBeforeClose
<1>1. Init => ReasonPending /\ ReasonAdmitted
  BY DEF Init, ReasonPending, ReasonAdmitted
<1>2. TypeOK /\ ReasonPending /\ ReasonAdmitted /\ [Next]_vars => (ReasonPending /\ ReasonAdmitted)'
  BY ReasonStep
<1>3. CloseIsComplete /\ ReasonAdmitted => ReasonBeforeClose
  BY DEF CloseIsComplete, ReasonAdmitted, ReasonBeforeClose
<1> QED BY <1>1, <1>2, <1>3, TypeCorrect, OrderTheorem, PTL DEF Spec

=============================================================================
