----------------------------- MODULE RoomProofs -----------------------------
(***************************************************************************)
(* Proofs about one room, for every number of connections, updates, frames *)
(* and every capacity and threshold.                                       *)
(***************************************************************************)
EXTENDS Room, TLAPS

-----------------------------------------------------------------------------
(* Types                                                                   *)

\* The codes a session end may carry.
LEMMA RefusalCodeType == \A c, u : RefusalCode(c, u) \in MemberEnds \cup {None}
BY DEF RefusalCode, MemberEnds

\* A command the loop takes has a connection of its own, unless it closes the room.
LEMMA HeadType ==
  ASSUME queue \in Seq(Commands), queue # <<>>
  PROVE  /\ Head(queue) \in Commands
         /\ Tail(queue) \in Seq(Commands)
         /\ Head(queue).kind \in {"join", "activate", "leave", "message"} =>
              Head(queue).conn \in Conns
BY DEF Commands, Plain

\* What sessions put on the channel are commands.
LEMMA CommandType ==
  ASSUME NEW c \in Conns
  PROVE  /\ Plain("join", c) \in Commands
         /\ Plain("activate", c) \in Commands
         /\ Plain("leave", c) \in Commands
         /\ \A i \in Nat, l \in BOOLEAN : Message(c, i, l) \in Commands
BY DEF Commands, Plain, Message

\* Removing members (dropMember) leaves every connection a member record.
LEMMA DropMembersType ==
  ASSUME member \in [Conns -> MemberRecord], NEW STATE D
  PROVE  DropMembers(D) \in [Conns -> MemberRecord]
BY DEF DropMembers, MemberRecord, NoMember

\* Answering a set of barriers (answerBarrier) appends well-formed replies.
LEMMA AnswerType ==
  ASSUME member \in [Conns -> MemberRecord],
         replies \in [Conns -> Seq([q : Nat, kind : {"persisted", "failed"}])],
         NEW STATE S, NEW STATE kind, kind \in {"persisted", "failed"}, Answer(S, kind)
  PROVE  replies' \in [Conns -> Seq([q : Nat, kind : {"persisted", "failed"}])]
<1> DEFINE Reply == [q : Nat, kind : {"persisted", "failed"}]
           After(c) == IF c \in S \cap Reachable
                       THEN Append(replies[c], [q |-> member[c].barrier, kind |-> kind])
                       ELSE replies[c]
<1>1. ASSUME NEW c \in Conns PROVE After(c) \in Seq(Reply)
  <2>1. [q |-> member[c].barrier, kind |-> kind] \in Reply
    BY DEF MemberRecord
  <2>2. replies[c] \in Seq(Reply)
    OBVIOUS
  <2> HIDE DEF Reply
  <2> QED BY <2>1, <2>2
<1>2. replies' = [c \in Conns |-> After(c)]
  BY DEF Answer
<1> HIDE DEF After, Reply
<1>3. replies' \in [Conns -> Seq(Reply)]
  BY <1>1, <1>2
<1> QED BY <1>3 DEF Reply

\* A session's own step, or the transport's, keeps the types.
LEMMA SessionStepType ==
  ASSUME TypeOK, NEW c \in Conns, SessionStep(c)
  PROVE  TypeOK'
<1> USE DEF TypeOK, roomVars, endVars, docVars, timers, storeVars, sessVars
<1>1. CASE Activate(c)
  BY <1>1, CommandType DEF Activate, Enqueue, SessionStates
<1>2. CASE ForwardAdmitted(c)
  BY <1>2, CommandType DEF ForwardAdmitted, Enqueue, SessionStates
<1>3. CASE ForwardTimesOut(c)
  BY <1>3 DEF ForwardTimesOut, SessionStates
<1>4. CASE ForwardRefused(c)
  BY <1>4 DEF ForwardRefused, SessionStates, EndCodes, MemberEnds
<1>5. CASE Leave(c)
  <2>1. queue' \in Seq(Commands)
    <3>1. queue' = queue \/ queue' = Append(queue, Plain("leave", c))
      BY <1>5 DEF Leave, Enqueue
    <3>2. queue \in Seq(Commands)
      OBVIOUS
    <3>3. Plain("leave", c) \in Commands
      BY CommandType
    <3> HIDE DEF TypeOK
    <3> QED BY <3>1, <3>2, <3>3
  <2> QED BY <1>5, <2>1 DEF Leave, SessionStates
<1> QED BY <1>1, <1>2, <1>3, <1>4, <1>5 DEF SessionStep

\* What a client or its transport does to the room keeps the types.
LEMMA ClientType ==
  ASSUME TypeOK, NEW c \in Conns, Client(c)
  PROVE  TypeOK'
<1> USE DEF TypeOK, roomVars, endVars, docVars, timers, storeVars, sessVars
<1>1. CASE Join(c)
  BY <1>1, CommandType DEF Join, Enqueue, SessionStates
<1>2. CASE Materialize(c)
  <2>1. queue' \in Seq(Commands)
    <3> DEFINE cmd == Plain("join", c)
    <3>1. cmd \in Commands
      BY CommandType
    <3>2. queue' = <<cmd>>
      BY <1>2 DEF Materialize
    <3> HIDE DEF cmd
    <3> QED BY <3>1, <3>2
  <2>2. /\ phase' = "serve" /\ end' = None /\ flushing' = FALSE /\ dirty' = FALSE
        /\ failures' = 0 /\ doc' = stored /\ rooms' = rooms + 1
        /\ UNCHANGED <<member, saveArmed, idleArmed, stored, dropped, up, ended, sent, replies>>
    BY <1>2 DEF Materialize
  <2>3. sess' \in [Conns -> SessionStates]
    BY <1>2 DEF Materialize, SessionStates
  <2>4. phase' \in Phases /\ end' \in DocumentEnds \cup {None} /\ failures' \in Nat
    BY <2>2 DEF Phases
  <2>5. rooms' \in Nat
    BY <2>2
  <2>6. /\ flushing' \in BOOLEAN /\ dirty' \in BOOLEAN /\ saveArmed' \in BOOLEAN
        /\ idleArmed' \in BOOLEAN /\ doc' \subseteq Updates /\ stored' \subseteq Updates
    BY <2>2
  <2>7. /\ member' \in [Conns -> MemberRecord] /\ dropped' \in [Conns -> BOOLEAN]
        /\ up' \subseteq Conns /\ ended' \in [Conns -> EndCodes \cup {None}]
        /\ sent' \in [Conns -> Seq(Updates \cup {Request})]
        /\ replies' \in [Conns -> Seq([q : Nat, kind : {"persisted", "failed"}])]
    BY <2>2
  <2> QED BY <2>1, <2>3, <2>4, <2>5, <2>6, <2>7
<1>3. CASE LeaveTimesOut(c)
  BY <1>3 DEF LeaveTimesOut, SessionStates
<1>4. CASE ConnFails(c)
  BY <1>4 DEF ConnFails
<1>5. ASSUME NEW f \in Updates \cup {Request}, Forward(c, f)
      PROVE  TypeOK'
  <2>1. sent' \in [Conns -> Seq(Updates \cup {Request})]
    BY <1>5 DEF Forward
  <2>2. queue' \in Seq(Commands)
    <3> DEFINE cmd == Message(c, Len(sent[c]) + 1, dropped[c])
    <3>1. cmd \in Commands
      BY CommandType
    <3>2. queue' = queue \/ queue' = Append(queue, cmd)
      BY <1>5 DEF Forward, Enqueue
    <3>3. queue \in Seq(Commands)
      OBVIOUS
    <3> HIDE DEF cmd, TypeOK
    <3> QED BY <3>1, <3>2, <3>3
  <2> QED BY <1>5, <2>1, <2>2 DEF Forward, SessionStates
<1> QED BY <1>1, <1>2, <1>3, <1>4, <1>5 DEF Client

\* Dropping members, whoever they are, and ending one of them.
LEMMA DisconnectType ==
  ASSUME TypeOK, NEW c \in Conns, NEW STATE code, code \in MemberEnds, Disconnect(c, code)
  PROVE  member' \in [Conns -> MemberRecord] /\ ended' \in [Conns -> EndCodes \cup {None}]
<1>1. PICK D : member' = DropMembers(D)
  BY DEF Disconnect
<1>2. member' \in [Conns -> MemberRecord]
  BY <1>1, DropMembersType DEF TypeOK
<1>3. ended' \in [Conns -> EndCodes \cup {None}]
  BY DEF Disconnect, TypeOK, EndCodes
<1> QED BY <1>2, <1>3

\* The frame a message command stands for leaves the channel.
LEMMA MessageType ==
  ASSUME TypeOK, NEW c \in Conns, NEW i \in 1..Len(sent[c]), MessageFrom(c, i)
  PROVE  /\ queue' \in Seq(Commands)
         /\ i \in Nat
         /\ UNCHANGED <<phase, end, flushing, failures, stored, rooms, sess, dropped, up, sent>>
<1>1. queue \in Seq(Commands) /\ queue # <<>> /\ queue' = Tail(queue)
  BY DEF TypeOK, MessageFrom, Serving, Take
<1>2. queue' \in Seq(Commands)
  BY <1>1, HeadType
<1>3. Len(sent[c]) \in Nat
  BY DEF TypeOK
<1> QED BY <1>2, <1>3 DEF MessageFrom, KeepServing, endVars, storeVars, sessVars

\* Handling a message keeps the types.
LEMMA HandleMessageType ==
  ASSUME TypeOK, HandleMessage
  PROVE  TypeOK'
<1>0. PICK c \in Conns : \E i \in 1..Len(sent[c]) :
        \/ IgnoreMessage(c, i) \/ RateExceeded(c, i) \/ RefuseUpdate(c, i)
        \/ CandidateFailed(c, i) \/ ApplyUpdate(c, i) \/ HandleDurabilityRequest(c, i)
  BY DEF HandleMessage
<1>1. PICK i \in 1..Len(sent[c]) :
        \/ IgnoreMessage(c, i) \/ RateExceeded(c, i) \/ RefuseUpdate(c, i)
        \/ CandidateFailed(c, i) \/ ApplyUpdate(c, i) \/ HandleDurabilityRequest(c, i)
  BY <1>0
<1>2. MessageFrom(c, i) /\ ArmIdleIfEmpty
  BY <1>1 DEF IgnoreMessage, RateExceeded, RefuseUpdate, CandidateFailed, ApplyUpdate,
     HandleDurabilityRequest
<1>3. /\ queue' \in Seq(Commands)
      /\ i \in Nat
      /\ UNCHANGED <<phase, end, flushing, failures, stored, rooms, sess, dropped, up, sent>>
  BY <1>2, MessageType
<1>4. idleArmed' \in BOOLEAN
  BY <1>2 DEF ArmIdleIfEmpty, TypeOK
<1>5. SUFFICES /\ member' \in [Conns -> MemberRecord]
               /\ doc' \subseteq Updates /\ dirty' \in BOOLEAN /\ saveArmed' \in BOOLEAN
               /\ ended' \in [Conns -> EndCodes \cup {None}]
               /\ replies' \in [Conns -> Seq([q : Nat, kind : {"persisted", "failed"}])]
  BY <1>3, <1>4 DEF TypeOK
<1>6. CASE IgnoreMessage(c, i)
  BY <1>6 DEF IgnoreMessage, TypeOK
<1>7. CASE RateExceeded(c, i)
  BY <1>7, DisconnectType DEF RateExceeded, TypeOK, MemberEnds
<1>8. CASE RefuseUpdate(c, i)
  <2>1. RefusalCode(c, sent[c][i]) \in MemberEnds
    BY <1>8, RefusalCodeType DEF RefuseUpdate
  <2>2. member' \in [Conns -> MemberRecord] /\ ended' \in [Conns -> EndCodes \cup {None}]
    BY <1>8, <2>1, DisconnectType DEF RefuseUpdate
  <2>3. replies' \in [Conns -> Seq([q : Nat, kind : {"persisted", "failed"}])]
    BY <1>8, AnswerType DEF RefuseUpdate, TypeOK
  <2> QED BY <1>8, <2>2, <2>3 DEF RefuseUpdate, TypeOK
<1>9. CASE CandidateFailed(c, i)
  BY <1>9 DEF CandidateFailed, TypeOK
<1>10. CASE ApplyUpdate(c, i)
  <2>1. doc' \subseteq Updates /\ dirty' \in BOOLEAN /\ saveArmed' \in BOOLEAN
    BY <1>10, RoomAssumption DEF ApplyUpdate, ApplyToDoc, TypeOK
  <2>2. member' = member \/ \E D : member' = DropMembers(D)
    BY <1>10 DEF ApplyUpdate, ApplyToDoc
  <2>3. member' \in [Conns -> MemberRecord]
    BY <2>2, DropMembersType DEF TypeOK
  <2> QED BY <1>10, <2>1, <2>3 DEF ApplyUpdate, TypeOK
<1>11. CASE HandleDurabilityRequest(c, i)
  <2>1. \/ member' = [member EXCEPT ![c].barrier = i]
        \/ member' = member
        \/ \E D : member' = DropMembers(D)
    BY <1>11 DEF HandleDurabilityRequest
  <2>2. member' \in [Conns -> MemberRecord]
    <3>1. member \in [Conns -> MemberRecord]
      BY DEF TypeOK
    <3>2. CASE member' = [member EXCEPT ![c].barrier = i]
      BY <1>3, <3>1, <3>2 DEF MemberRecord
    <3> QED BY <2>1, <3>1, <3>2, DropMembersType
  <2>3. \/ replies' = replies
        \/ RequestOutcome(c) # "park"
           /\ replies' = [replies EXCEPT ![c] =
                            Append(@, [q |-> i, kind |-> RequestOutcome(c)])]
    BY <1>11 DEF HandleDurabilityRequest
  <2>4. replies' \in [Conns -> Seq([q : Nat, kind : {"persisted", "failed"}])]
    <3> DEFINE Reply == [q : Nat, kind : {"persisted", "failed"}]
               new == [q |-> i, kind |-> RequestOutcome(c)]
    <3>1. CASE replies' = replies
      BY <3>1 DEF TypeOK
    <3>2. CASE RequestOutcome(c) # "park" /\ replies' = [replies EXCEPT ![c] = Append(@, new)]
      <4>1. new \in Reply
        BY <1>3, <3>2 DEF RequestOutcome
      <4>2. replies \in [Conns -> Seq(Reply)]
        BY DEF TypeOK
      <4> HIDE DEF new, Reply
      <4>3. replies' \in [Conns -> Seq(Reply)]
        BY <3>2, <4>1, <4>2
      <4> QED BY <4>3 DEF Reply
    <3> QED BY <2>3, <3>1, <3>2
  <2> QED BY <1>11, <2>2, <2>4 DEF HandleDurabilityRequest, TypeOK
<1> QED BY <1>1, <1>6, <1>7, <1>8, <1>9, <1>10, <1>11

\* A flush keeps the types of what it writes.
LEMMA StoreFlushType ==
  ASSUME TypeOK, NEW o, StoreFlush(o)
  PROVE  stored' \subseteq Updates /\ dirty' \in BOOLEAN /\ failures' \in Nat
BY DEF StoreFlush, TypeOK

\* Clearing the barriers of members that keep their types keeps them.
LEMMA ClearBarriersType ==
  ASSUME NEW STATE mm, mm \in [Conns -> MemberRecord]
  PROVE  ClearBarriers(mm) \in [Conns -> MemberRecord]
BY DEF ClearBarriers, MemberRecord

\* persist keeps the types, whichever outcome the stores give it.
LEMMA PersistType ==
  ASSUME TypeOK, NEW o, Persist(o)
  PROVE  /\ stored' \subseteq Updates /\ dirty' \in BOOLEAN /\ failures' \in Nat
         /\ member' \in [Conns -> MemberRecord]
         /\ replies' \in [Conns -> Seq([q : Nat, kind : {"persisted", "failed"}])]
<1>1. stored' \subseteq Updates /\ dirty' \in BOOLEAN /\ failures' \in Nat
  BY StoreFlushType DEF Persist
<1>2. ASSUME NEW D, NEW kind \in {"persisted", "failed"}, SettleBarriers(kind, D)
      PROVE  /\ member' \in [Conns -> MemberRecord]
             /\ replies' \in [Conns -> Seq([q : Nat, kind : {"persisted", "failed"}])]
  BY <1>2, DropMembersType, ClearBarriersType, AnswerType DEF SettleBarriers, TypeOK
<1>3. CASE UNCHANGED <<member, replies>>
  BY <1>1, <1>3 DEF TypeOK
<1>4. CASE member' = DropMembers(Listeners \ Reachable) /\ UNCHANGED replies
  BY <1>1, <1>4, DropMembersType DEF TypeOK
<1>5. CASE \E D, kind : kind \in {"persisted", "failed"} /\ SettleBarriers(kind, D)
  BY <1>1, <1>2, <1>5
<1>6. \/ UNCHANGED <<member, replies>>
      \/ member' = DropMembers(Listeners \ Reachable) /\ UNCHANGED replies
      \/ \E D, kind : kind \in {"persisted", "failed"} /\ SettleBarriers(kind, D)
  BY DEF Persist
<1> QED BY <1>3, <1>4, <1>5, <1>6

\* A fired timer keeps the types.
LEMMA TimerType ==
  ASSUME TypeOK, SaveTick \/ IdleTick
  PROVE  TypeOK'
<1> USE DEF BeginTeardown, KeepServing, endVars, sessVars, Phases, DocumentEnds
<1>1. ASSUME NEW o, SaveTimerFires(o) PROVE TypeOK'
  <2>1. Persist(o)
    BY <1>1 DEF SaveTimerFires
  <2>2. phase' \in Phases /\ end' \in DocumentEnds \cup {None} /\ flushing' \in BOOLEAN
    BY <1>1 DEF SaveTimerFires, TypeOK
  <2>3. saveArmed' \in BOOLEAN
    BY <1>1 DEF SaveTimerFires
  <2>4. UNCHANGED <<queue, doc, idleArmed, rooms, sess, dropped, up, ended, sent>>
    BY <1>1 DEF SaveTimerFires
  <2> QED BY <2>1, <2>2, <2>3, <2>4, PersistType DEF TypeOK
<1>2. ASSUME NEW o, IdleTimerFires(o) PROVE TypeOK'
  <2>1. phase' \in Phases /\ end' \in DocumentEnds \cup {None} /\ flushing' \in BOOLEAN
    BY <1>2 DEF IdleTimerFires, TypeOK
  <2>2. saveArmed' \in BOOLEAN /\ idleArmed' \in BOOLEAN
    BY <1>2 DEF IdleTimerFires, TypeOK
  <2>3. UNCHANGED <<queue, doc, rooms, sess, dropped, up, ended, sent>>
    BY <1>2 DEF IdleTimerFires
  <2>4. \/ UNCHANGED <<member, dirty, failures, stored, replies>>
        \/ Persist(o)
    BY <1>2 DEF IdleTimerFires
  <2> QED BY <2>1, <2>2, <2>3, <2>4, PersistType DEF TypeOK
<1> QED BY <1>1, <1>2 DEF SaveTick, IdleTick

\* The head of the channel, taken by the loop for a command of a connection.
LEMMA ServingType ==
  ASSUME TypeOK, NEW kind, Serving(kind), Take
  PROVE  /\ queue' \in Seq(Commands)
         /\ kind \in {"join", "activate", "leave", "message"} => Head(queue).conn \in Conns
<1>1. queue \in Seq(Commands) /\ queue # <<>> /\ Head(queue).kind = kind
  BY DEF TypeOK, Serving
<1> QED BY <1>1, HeadType DEF Take

\* The other iterations of the loop, and the steps of a teardown, keep the types.
LEMMA LoopStepType ==
  ASSUME TypeOK, LoopStep
  PROVE  TypeOK'
<1> USE DEF BeginTeardown, KeepServing, endVars, docVars, timers, storeVars, sessVars
<1>1. CASE HandleJoin
  <2> DEFINE c == Head(queue).conn
  <2>1. queue' \in Seq(Commands) /\ c \in Conns
    BY <1>1, ServingType DEF HandleJoin
  <2> HIDE DEF c
  <2>2. /\ member' = member \/ member' = [member EXCEPT ![c] = NewMember]
        /\ sess' = [sess EXCEPT ![c] = "over"] \/ sess' = [sess EXCEPT ![c] = "joined"]
    BY <1>1 DEF HandleJoin, c
  <2>3. member' \in [Conns -> MemberRecord]
    <3>1. member \in [Conns -> MemberRecord] /\ NewMember \in MemberRecord
      BY DEF TypeOK, MemberRecord, NewMember
    <3>2. member' = member \/ member' = [member EXCEPT ![c] = NewMember]
      BY <2>2
    <3> QED BY <2>1, <3>1, <3>2
  <2>4. sess' \in [Conns -> SessionStates]
    BY <2>1, <2>2 DEF TypeOK, SessionStates
  <2>5. idleArmed' = FALSE
        /\ UNCHANGED <<phase, end, flushing, doc, dirty, failures, saveArmed, stored, rooms,
                       dropped, up, ended, sent, replies>>
    BY <1>1 DEF HandleJoin
  <2> QED BY <2>1, <2>3, <2>4, <2>5 DEF TypeOK
<1>2. CASE HandleActivate
  <2> DEFINE c == Head(queue).conn
             lost == (Listeners \cup {c}) \ Reachable
  <2>1. queue' \in Seq(Commands) /\ c \in Conns
    BY <1>2, ServingType DEF HandleActivate
  <2>2. \/ member' = member
        \/ member' = [DropMembers(lost) EXCEPT ![c].pending = FALSE]
    BY <1>2 DEF HandleActivate
  <2>3. sess' = sess \/ sess' = [sess EXCEPT ![c] = "open"]
    BY <1>2 DEF HandleActivate
  <2> HIDE DEF c, lost
  <2>4. DropMembers(lost) \in [Conns -> MemberRecord]
    BY DropMembersType DEF TypeOK
  <2>5. member' \in [Conns -> MemberRecord]
    <3> DEFINE kept == DropMembers(lost)
               m == [kept[c] EXCEPT !.pending = FALSE]
    <3>1. kept \in [Conns -> MemberRecord] /\ m \in MemberRecord
      BY <2>1, <2>4 DEF MemberRecord
    <3>2. member' = member \/ member' = [kept EXCEPT ![c] = m]
      BY <2>2
    <3> HIDE DEF kept, m
    <3> QED BY <2>1, <3>1, <3>2 DEF TypeOK
  <2>6. sess' \in [Conns -> SessionStates]
    BY <2>1, <2>3 DEF TypeOK, SessionStates
  <2>7. UNCHANGED <<phase, end, flushing, doc, dirty, failures, saveArmed, idleArmed, stored,
                    rooms, dropped, up, ended, sent, replies>>
    BY <1>2 DEF HandleActivate
  <2> QED BY <2>1, <2>5, <2>6, <2>7 DEF TypeOK
<1>3. CASE HandleLeave
  <2>1. queue' \in Seq(Commands)
    BY <1>3, ServingType DEF HandleLeave
  <2>2. PICK D : member' = DropMembers(D)
    BY <1>3 DEF HandleLeave
  <2>3. member' \in [Conns -> MemberRecord]
    BY <2>2, DropMembersType DEF TypeOK
  <2>4. idleArmed' \in BOOLEAN
    BY <1>3 DEF HandleLeave, ArmIdleIfEmpty, TypeOK
  <2>5. UNCHANGED <<phase, end, flushing, doc, dirty, failures, saveArmed, stored, rooms, sess,
                    dropped, up, ended, sent, replies>>
    BY <1>3 DEF HandleLeave
  <2> QED BY <2>1, <2>3, <2>4, <2>5 DEF TypeOK
<1>4. CASE HandleMessage
  BY <1>4, HandleMessageType
<1>5. CASE HandleClose
  <2>1. queue' \in Seq(Commands)
    BY <1>5, ServingType DEF HandleClose
  <2>2. phase' \in Phases /\ end' \in DocumentEnds \cup {None} /\ flushing' \in BOOLEAN
    BY <1>5 DEF HandleClose, Phases, DocumentEnds
  <2>3. UNCHANGED <<member, doc, dirty, failures, saveArmed, idleArmed, stored, rooms, sess,
                    dropped, up, ended, sent, replies>>
    BY <1>5 DEF HandleClose
  <2> QED BY <2>1, <2>2, <2>3 DEF TypeOK
<1>6. ASSUME NEW o, TeardownDrain(o) PROVE TypeOK'
  <2>1. stored' \subseteq Updates /\ dirty' \in BOOLEAN /\ failures' \in Nat
    BY <1>6, StoreFlushType DEF TeardownDrain, TypeOK
  <2>2. replies' \in [Conns -> Seq([q : Nat, kind : {"persisted", "failed"}])]
    BY <1>6, AnswerType DEF TeardownDrain, TypeOK
  <2>3. ended' \in [Conns -> EndCodes \cup {None}]
    BY <1>6 DEF TeardownDrain, TypeOK, EndCodes
  <2>4. member' \in [Conns -> MemberRecord]
    BY <1>6 DEF TeardownDrain, NoMember, MemberRecord
  <2>5. phase' \in Phases
        /\ UNCHANGED <<end, flushing, queue, doc, saveArmed, idleArmed, rooms, sess, dropped,
                       up, sent>>
    BY <1>6 DEF TeardownDrain, Phases
  <2> QED BY <2>1, <2>2, <2>3, <2>4, <2>5 DEF TypeOK
<1>7. CASE TeardownRelease
  <2>1. sess' \in [Conns -> SessionStates]
    BY <1>7 DEF TeardownRelease, SessionStates
  <2>2. phase' \in Phases /\ queue' = <<>> /\ saveArmed' = FALSE /\ idleArmed' = FALSE
        /\ UNCHANGED <<end, flushing, member, doc, dirty, failures, stored, rooms, dropped,
                       up, ended, sent, replies>>
    BY <1>7 DEF TeardownRelease, Phases
  <2>3. queue' \in Seq(Commands)
    BY <2>2
  <2> QED BY <2>1, <2>2, <2>3 DEF TypeOK
<1> QED BY <1>1, <1>2, <1>3, <1>4, <1>5, <1>6, <1>7 DEF LoopStep

\* What the environment does to a room keeps the types.
LEMMA EnvironmentType ==
  ASSUME TypeOK, Environment
  PROVE  TypeOK'
<1> USE DEF BeginTeardown, KeepServing, endVars, docVars, timers, storeVars, sessVars
<1>1. ASSUME NEW kind \in {"close", "closeDeleted"}, CloseRoom(kind) PROVE TypeOK'
  <2>1. Plain(kind, None) \in Commands
    BY DEF Commands
  <2>2. queue' = Append(queue, Plain(kind, None)) /\ queue \in Seq(Commands)
    BY <1>1 DEF CloseRoom, Enqueue, TypeOK
  <2>3. queue' \in Seq(Commands)
    <3> DEFINE cmd == Plain(kind, None)
    <3> HIDE DEF cmd
    <3> QED BY <2>1, <2>2 DEF cmd
  <2> QED BY <1>1, <2>3 DEF CloseRoom, roomVars, TypeOK
<1>2. ASSUME NEW u \in PeerUpdates, HandlePeer(u) PROVE TypeOK'
  <2>1. doc' \subseteq Updates /\ dirty' \in BOOLEAN /\ saveArmed' \in BOOLEAN
    BY <1>2, RoomAssumption DEF HandlePeer, ApplyToDoc, TypeOK
  <2>2. member' = member \/ \E D : member' = DropMembers(D)
    BY <1>2 DEF HandlePeer, ApplyToDoc
  <2>3. member' \in [Conns -> MemberRecord]
    BY <2>2, DropMembersType DEF TypeOK
  <2>4. UNCHANGED <<phase, end, flushing, queue, failures, idleArmed, stored, rooms, sess,
                    dropped, up, ended, sent, replies>>
    BY <1>2 DEF HandlePeer
  <2> QED BY <2>1, <2>3, <2>4 DEF TypeOK
<1>3. CASE HandlerPanics
  <2>1. queue' \in Seq(Commands)
    BY <1>3, ServingType DEF HandlerPanics
  <2>2. phase' \in Phases /\ end' \in DocumentEnds \cup {None} /\ flushing' \in BOOLEAN
    BY <1>3 DEF HandlerPanics, Phases, DocumentEnds
  <2>3. doc' \subseteq Updates /\ dirty' \in BOOLEAN
    <3>1. CASE UNCHANGED <<doc, dirty>>
      BY <3>1 DEF TypeOK
    <3>2. CASE \E c \in Conns : \E i \in 1..Len(sent[c]) :
                 sent[c][i] # Request /\ doc' = doc \cup {sent[c][i]} /\ dirty' = TRUE
      BY <3>2 DEF TypeOK
    <3> QED BY <1>3, <3>1, <3>2 DEF HandlerPanics
  <2>4. UNCHANGED <<member, failures, saveArmed, idleArmed, stored, rooms, sess, dropped, up,
                    ended, sent, replies>>
    BY <1>3 DEF HandlerPanics
  <2> QED BY <2>1, <2>2, <2>3, <2>4 DEF TypeOK
<1>4. CASE FlushPanics
  <2>1. phase' \in Phases
        /\ UNCHANGED <<end, flushing, queue, member, doc, dirty, failures, saveArmed,
                       idleArmed, stored, rooms, sess, dropped, up, ended, sent, replies>>
    BY <1>4 DEF FlushPanics, Phases
  <2> QED BY <2>1 DEF TypeOK
<1>5. CASE Crash
  <2>1. sess' \in [Conns -> SessionStates]
    BY <1>5 DEF Crash, SessionStates
  <2>2. member' \in [Conns -> MemberRecord]
    BY <1>5 DEF Crash, NoMember, MemberRecord
  <2>3. queue' \in Seq(Commands) /\ up' \subseteq Conns
    BY <1>5 DEF Crash, TypeOK
  <2>4. phase' \in Phases /\ end' = None /\ saveArmed' = FALSE /\ idleArmed' = FALSE
        /\ UNCHANGED <<flushing, doc, dirty, failures, stored, rooms, dropped, ended, sent,
                       replies>>
    BY <1>5 DEF Crash, Phases
  <2> QED BY <2>1, <2>2, <2>3, <2>4 DEF TypeOK
<1> QED BY <1>1, <1>2, <1>3, <1>4, <1>5 DEF Environment

\* The initial state is typed.
LEMMA TypeInit == Init => TypeOK
<1> SUFFICES ASSUME Init PROVE TypeOK
  OBVIOUS
<1>1. member \in [Conns -> MemberRecord]
  BY DEF Init, MemberRecord, OpenMember, NoMember
<1>2. sess \in [Conns -> SessionStates]
  BY DEF Init, SessionStates
<1>3. queue \in Seq(Commands)
  BY DEF Init
<1>4. /\ sent \in [Conns -> Seq(Updates \cup {Request})]
      /\ replies \in [Conns -> Seq([q : Nat, kind : {"persisted", "failed"}])]
  BY DEF Init
<1>5. /\ phase \in Phases /\ end \in DocumentEnds \cup {None} /\ flushing \in BOOLEAN
      /\ doc \subseteq Updates /\ dirty \in BOOLEAN /\ failures \in Nat
      /\ saveArmed \in BOOLEAN /\ idleArmed \in BOOLEAN /\ stored \subseteq Updates
      /\ rooms \in Nat
  BY DEF Init, Phases
<1>6. dropped \in [Conns -> BOOLEAN] /\ up \subseteq Conns /\ ended \in [Conns -> EndCodes \cup {None}]
  BY DEF Init
<1> QED BY <1>1, <1>2, <1>3, <1>4, <1>5, <1>6 DEF TypeOK

\* Every step of the room, its sessions and its environment keeps the types.
LEMMA TypeStep == TypeOK /\ [Next]_vars => TypeOK'
<1> SUFFICES ASSUME TypeOK, [Next]_vars PROVE TypeOK'
  OBVIOUS
<1>1. CASE UNCHANGED vars
  BY <1>1 DEF vars, roomVars, endVars, docVars, timers, storeVars, sessVars, TypeOK
<1>2. CASE Next
  BY <1>2, SessionStepType, ClientType, LoopStepType, TimerType, EnvironmentType DEF Next
<1> QED BY <1>1, <1>2

\* TypeOK is an invariant of the room: in particular the failure count never goes
\* below zero and no command of a session is queued without its connection.
THEOREM TypeCorrect == Spec => []TypeOK
BY TypeInit, TypeStep, PTL DEF Spec

-----------------------------------------------------------------------------
(* The document, the checkpoint store and the save timer                   *)

\* The state the flush logic reads and writes.
flushVars == <<phase, end, flushing, doc, dirty, failures, saveArmed, stored>>

\* An accepted update reaches the document of a serving room.
Lands(u) ==
  /\ Active
  /\ u \in Updates \ (SchemaBad \cup Undecodable)
  /\ doc' = doc \cup {u}
  /\ dirty' = (dirty \/ u \notin doc)
  /\ saveArmed' = (saveArmed \/ (PeriodicSave /\ dirty' /\ ~dirty))
  /\ UNCHANGED <<phase, end, flushing, failures, stored>>

\* Every step of a room either leaves the flush logic's state alone or is one of
\* the steps named here.
LEMMA StepKinds ==
  ASSUME TypeOK, [Next]_vars
  PROVE  \/ UNCHANGED flushVars
         \/ \E u : Lands(u)
         \/ \E o \in FlushOutcomes : \/ SaveTimerFires(o) \/ IdleTimerFires(o)
                                     \/ TeardownDrain(o)
         \/ HandleClose \/ HandlerPanics \/ FlushPanics \/ TeardownRelease \/ Crash
         \/ \E c \in Conns : Materialize(c)
<1> USE DEF flushVars, roomVars, endVars, docVars, timers, storeVars, sessVars, KeepServing
<1>1. ASSUME NEW c \in Conns, SessionStep(c) PROVE UNCHANGED flushVars
  BY <1>1 DEF SessionStep, Activate, ForwardAdmitted, ForwardTimesOut, ForwardRefused, Leave
<1>2. ASSUME NEW c \in Conns, Client(c), ~Materialize(c) PROVE UNCHANGED flushVars
  BY <1>2 DEF Client, Join, LeaveTimesOut, ConnFails, Forward
<1>3. CASE HandleJoin \/ HandleActivate \/ HandleLeave
  BY <1>3 DEF HandleJoin, HandleActivate, HandleLeave
<1>4. ASSUME HandleMessage PROVE UNCHANGED flushVars \/ \E u : Lands(u)
  <2>1. PICK c \in Conns : \E i \in 1..Len(sent[c]) :
          \/ IgnoreMessage(c, i) \/ RateExceeded(c, i) \/ RefuseUpdate(c, i)
          \/ CandidateFailed(c, i) \/ ApplyUpdate(c, i) \/ HandleDurabilityRequest(c, i)
    BY <1>4 DEF HandleMessage
  <2>2. PICK i \in 1..Len(sent[c]) :
          \/ IgnoreMessage(c, i) \/ RateExceeded(c, i) \/ RefuseUpdate(c, i)
          \/ CandidateFailed(c, i) \/ ApplyUpdate(c, i) \/ HandleDurabilityRequest(c, i)
    BY <2>1
  <2>3. CASE ApplyUpdate(c, i)
    <3>1. sent[c][i] \in Updates \ (SchemaBad \cup Undecodable)
      BY <2>3, RoomAssumption DEF ApplyUpdate, RefusalCode
    <3>2. Lands(sent[c][i])
      BY <2>3, <3>1 DEF ApplyUpdate, ApplyToDoc, Lands, MessageFrom, Serving
    <3> QED BY <3>2
  <2>4. CASE IgnoreMessage(c, i) \/ RateExceeded(c, i) \/ RefuseUpdate(c, i)
             \/ CandidateFailed(c, i) \/ HandleDurabilityRequest(c, i)
    BY <2>4 DEF IgnoreMessage, RateExceeded, RefuseUpdate, CandidateFailed,
       HandleDurabilityRequest, MessageFrom
  <2> QED BY <2>2, <2>3, <2>4
<1>5. ASSUME NEW u \in PeerUpdates, HandlePeer(u) PROVE Lands(u)
  BY <1>5, RoomAssumption DEF HandlePeer, ApplyToDoc, Lands
<1>6. ASSUME NEW kind \in {"close", "closeDeleted"}, CloseRoom(kind) PROVE UNCHANGED flushVars
  BY <1>6 DEF CloseRoom
<1>7. CASE UNCHANGED vars
  BY <1>7 DEF vars
<1> QED
  <2>1. CASE LoopStep
    BY <1>3, <1>4, <2>1 DEF LoopStep
  <2>2. CASE Environment
    BY <1>5, <1>6, <2>2 DEF Environment
  <2>3. CASE \E c \in Conns : SessionStep(c) \/ Client(c)
    BY <1>1, <1>2, <2>3
  <2>4. CASE SaveTick \/ IdleTick
    BY <2>4 DEF SaveTick, IdleTick
  <2> QED BY <1>7, <2>1, <2>2, <2>3, <2>4 DEF Next

\* No step makes a clean document differ from the stored one.
LEMMA CleanStep == TypeOK /\ CleanIsDurable /\ [Next]_vars => CleanIsDurable'
<1> SUFFICES ASSUME TypeOK, CleanIsDurable, [Next]_vars PROVE CleanIsDurable'
  OBVIOUS
<1> USE DEF CleanIsDurable, Active
<1>1. CASE UNCHANGED flushVars
  BY <1>1 DEF flushVars
<1>2. ASSUME NEW u, Lands(u) PROVE CleanIsDurable'
  BY <1>2 DEF Lands, TypeOK
<1>3. ASSUME NEW o, SaveTimerFires(o) PROVE CleanIsDurable'
  <2>1. StoreFlush(o) /\ doc' = doc /\ Active
    BY <1>3 DEF SaveTimerFires, Persist
  <2> QED BY <2>1 DEF StoreFlush, TypeOK
<1>4. ASSUME NEW o, IdleTimerFires(o) PROVE CleanIsDurable'
  <2>1. doc' = doc /\ Active /\ (UNCHANGED <<dirty, stored>> \/ StoreFlush(o))
    BY <1>4 DEF IdleTimerFires, Persist
  <2> QED BY <2>1 DEF StoreFlush, TypeOK
<1>5. ASSUME NEW o, TeardownDrain(o) PROVE CleanIsDurable'
  BY <1>5 DEF TeardownDrain
<1>6. CASE HandleClose \/ HandlerPanics \/ FlushPanics \/ TeardownRelease \/ Crash
  BY <1>6 DEF HandleClose, HandlerPanics, FlushPanics, TeardownRelease, Crash, BeginTeardown
<1>7. ASSUME NEW c \in Conns, Materialize(c) PROVE CleanIsDurable'
  BY <1>7 DEF Materialize
<1> QED BY <1>1, <1>2, <1>3, <1>4, <1>5, <1>6, <1>7, StepKinds

\* A serving room that is not dirty holds exactly the stored document, so the
\* immediate `persisted` of handleDurabilityRequest promises nothing the store
\* does not have, whatever saves failed, panicked or were retried before.
THEOREM CleanTheorem == Spec => []CleanIsDurable
<1>1. Init => CleanIsDurable
  BY DEF Init, CleanIsDurable
<1> QED BY <1>1, TypeCorrect, CleanStep, PTL DEF Spec

\* A failed flush that does not escalate leaves a positive failure count.
LEMMA DirtyStep ==
  ASSUME "encode" \notin Faults, TypeOK, DirtyIsScheduled, [Next]_vars
  PROVE  DirtyIsScheduled'
<1> USE DEF DirtyIsScheduled, Active
<1>0. FlushOutcomes \subseteq {"saved", "failed", "writtenButFailed"}
  BY DEF FlushOutcomes
<1>1. CASE UNCHANGED flushVars
  BY <1>1 DEF flushVars
<1>2. ASSUME NEW u, Lands(u) PROVE DirtyIsScheduled'
  BY <1>2 DEF Lands, TypeOK
<1>3. ASSUME NEW o \in FlushOutcomes, StoreFlush(o), dirty', ~Escalates(o)
      PROVE  failures' > 0
  <2>1. dirty /\ o # "saved"
    BY <1>3 DEF StoreFlush
  <2>2. o # "encodeFailed"
    BY <1>0
  <2>3. failures' = failures + 1
    BY <1>3, <2>1, <2>2 DEF StoreFlush
  <2>4. failures \in Nat
    BY DEF TypeOK
  <2> QED BY <2>3, <2>4
<1>4. ASSUME NEW o \in FlushOutcomes, SaveTimerFires(o) PROVE DirtyIsScheduled'
  <2>1. StoreFlush(o) /\ (Escalates(o) => phase' = "drain")
    BY <1>4 DEF SaveTimerFires, Persist, BeginTeardown
  <2>2. saveArmed' = (RetryArmed /\ ~Escalates(o))
    BY <1>4 DEF SaveTimerFires
  <2> QED BY <1>3, <2>1, <2>2 DEF RetryArmed
<1>5. ASSUME NEW o \in FlushOutcomes, IdleTimerFires(o) PROVE DirtyIsScheduled'
  <2>1. CASE Members # {}
    BY <1>5, <2>1 DEF IdleTimerFires, KeepServing, endVars
  <2>2. CASE Members = {}
    <3>1. StoreFlush(o) /\ (Escalates(o) => phase' = "drain")
      BY <1>5, <2>2 DEF IdleTimerFires, Persist, BeginTeardown
    <3>2. saveArmed' = (saveArmed \/ (RetryArmed /\ ~Escalates(o)))
      BY <1>5, <2>2 DEF IdleTimerFires
    <3> QED BY <1>3, <3>1, <3>2 DEF RetryArmed
  <2> QED BY <2>1, <2>2
<1>6. ASSUME NEW o, TeardownDrain(o) PROVE DirtyIsScheduled'
  BY <1>6 DEF TeardownDrain
<1>7. CASE HandleClose \/ HandlerPanics \/ FlushPanics \/ TeardownRelease \/ Crash
  BY <1>7 DEF HandleClose, HandlerPanics, FlushPanics, TeardownRelease, Crash, BeginTeardown
<1>8. ASSUME NEW c \in Conns, Materialize(c) PROVE DirtyIsScheduled'
  BY <1>8 DEF Materialize
<1> QED BY <1>1, <1>2, <1>4, <1>5, <1>6, <1>7, <1>8, StepKinds

\* As long as encoding the document does not fail, a dirty room with periodic
\* saving always has its save timer running: through failed flushes, retries,
\* idle releases and restarts (armSaveTimer, armRetryTimer, releaseIfEmpty).
THEOREM ScheduledTheorem ==
  ASSUME "encode" \notin Faults
  PROVE  Spec => []DirtyIsScheduled
<1>1. Init => DirtyIsScheduled
  BY DEF Init, DirtyIsScheduled
<1>2. TypeOK /\ DirtyIsScheduled /\ [Next]_vars => DirtyIsScheduled'
  BY DirtyStep
<1> QED BY <1>1, <1>2, TypeCorrect, PTL DEF Spec

-----------------------------------------------------------------------------
(* What is never written                                                   *)

\* Content that failed validation is only in the document of a room that panicked,
\* and that room has no flush left to run.
RefusedInv ==
  /\ RefusedNeverStored
  /\ Active \/ flushing => doc \cap (SchemaBad \cup Undecodable) = {}

\* The flush of a teardown belongs to a shutdown.
AbandonInv == phase = "drain" /\ flushing => end = "server-shutdown"

\* No step stores refused content.
LEMMA RefusedStep == TypeOK /\ RefusedInv /\ [Next]_vars => RefusedInv'
<1> SUFFICES ASSUME TypeOK, RefusedInv, [Next]_vars PROVE RefusedInv'
  OBVIOUS
<1> USE DEF RefusedInv, RefusedNeverStored, Active
<1>0. ASSUME NEW o, StoreFlush(o) PROVE stored' = stored \/ stored' = doc
  BY <1>0 DEF StoreFlush
<1>1. CASE UNCHANGED flushVars
  BY <1>1 DEF flushVars
<1>2. ASSUME NEW u, Lands(u) PROVE RefusedInv'
  BY <1>2 DEF Lands
<1>3. ASSUME NEW o, SaveTimerFires(o) PROVE RefusedInv'
  <2>1. StoreFlush(o) /\ doc' = doc /\ Active
    BY <1>3 DEF SaveTimerFires, Persist
  <2>2. stored' = stored \/ stored' = doc
    BY <1>0, <2>1
  <2> QED BY <2>1, <2>2
<1>4. ASSUME NEW o, IdleTimerFires(o) PROVE RefusedInv'
  <2>1. doc' = doc /\ Active /\ (stored' = stored \/ StoreFlush(o))
    BY <1>4 DEF IdleTimerFires, Persist
  <2>2. stored' = stored \/ stored' = doc
    BY <1>0, <2>1
  <2> QED BY <2>1, <2>2
<1>5. ASSUME NEW o, TeardownDrain(o) PROVE RefusedInv'
  <2>1. /\ UNCHANGED <<doc, flushing>> /\ phase' = "release"
        /\ stored' = stored \/ (flushing /\ StoreFlush(o))
    BY <1>5 DEF TeardownDrain
  <2>2. stored' = stored \/ (flushing /\ stored' = doc)
    BY <1>0, <2>1
  <2> QED BY <2>1, <2>2
<1>6. CASE HandleClose
  BY <1>6 DEF HandleClose, Serving, BeginTeardown, docVars, storeVars
<1>7. CASE HandlerPanics
  BY <1>7 DEF HandlerPanics, BeginTeardown, storeVars
<1>8. CASE FlushPanics \/ TeardownRelease \/ Crash
  BY <1>8 DEF FlushPanics, TeardownRelease, Crash, docVars, storeVars
<1>9. ASSUME NEW c \in Conns, Materialize(c) PROVE RefusedInv'
  BY <1>9 DEF Materialize
<1> QED BY <1>1, <1>2, <1>3, <1>4, <1>5, <1>6, <1>7, <1>8, <1>9, StepKinds

\* The checkpoint store never receives content the schema refused or the shadow
\* could not decode, even when a handler panics half way through applying it.
THEOREM RefusedTheorem == Spec => []RefusedNeverStored
<1>1. Init => RefusedInv
  BY DEF Init, RefusedInv, RefusedNeverStored
<1>2. RefusedInv => RefusedNeverStored
  BY DEF RefusedInv
<1> QED BY <1>1, <1>2, TypeCorrect, RefusedStep, PTL DEF Spec

\* Only a shutdown gives teardown a flush to run.
LEMMA AbandonStep == TypeOK /\ AbandonInv /\ [Next]_vars => AbandonInv'
<1> SUFFICES ASSUME TypeOK, AbandonInv, [Next]_vars PROVE AbandonInv'
  OBVIOUS
<1> USE DEF AbandonInv, Active, BeginTeardown, KeepServing, endVars
<1>1. CASE UNCHANGED flushVars
  BY <1>1 DEF flushVars
<1>2. ASSUME NEW u, Lands(u) PROVE AbandonInv'
  BY <1>2 DEF Lands
<1>3. ASSUME NEW o, SaveTimerFires(o) \/ IdleTimerFires(o) \/ TeardownDrain(o) PROVE AbandonInv'
  BY <1>3 DEF SaveTimerFires, IdleTimerFires, TeardownDrain
<1>4. CASE HandleClose \/ HandlerPanics \/ FlushPanics \/ TeardownRelease \/ Crash
  BY <1>4 DEF HandleClose, HandlerPanics, FlushPanics, TeardownRelease, Crash
<1>5. ASSUME NEW c \in Conns, Materialize(c) PROVE AbandonInv'
  BY <1>5 DEF Materialize
<1> QED BY <1>1, <1>2, <1>3, <1>4, <1>5, StepKinds

\* A room that began to end because its document was deleted, because a handler
\* panicked or because saving kept failing never writes the stores again.
THEOREM AbandonTheorem == Spec => NoFlushAfterAbandon
<1>1. Init => AbandonInv
  BY DEF Init, AbandonInv
<1>2. ASSUME TypeOK, AbandonInv, [Next]_vars, phase \in {"drain", "release"},
             end # "server-shutdown"
      PROVE  stored' = stored
  <2> USE DEF Active
  <2>1. CASE UNCHANGED flushVars
    BY <2>1 DEF flushVars
  <2>2. ASSUME NEW u, Lands(u) PROVE stored' = stored
    BY <2>2 DEF Lands
  <2>3. ASSUME NEW o, SaveTimerFires(o) \/ IdleTimerFires(o) \/ TeardownDrain(o)
        PROVE  stored' = stored
    BY <1>2, <2>3 DEF SaveTimerFires, IdleTimerFires, TeardownDrain, AbandonInv
  <2>4. CASE HandleClose \/ HandlerPanics \/ FlushPanics \/ TeardownRelease \/ Crash
    BY <2>4 DEF HandleClose, HandlerPanics, FlushPanics, TeardownRelease, Crash, storeVars
  <2>5. ASSUME NEW c \in Conns, Materialize(c) PROVE stored' = stored
    BY <2>5 DEF Materialize
  <2> QED BY <1>2, <2>1, <2>2, <2>3, <2>4, <2>5, StepKinds
<1>3. TypeOK /\ AbandonInv /\ [Next]_vars
        => [(phase \in {"drain", "release"} /\ end # "server-shutdown") => stored' = stored]_vars
  BY <1>2
<1> QED BY <1>1, <1>3, TypeCorrect, AbandonStep, PTL DEF Spec, NoFlushAfterAbandon

-----------------------------------------------------------------------------
(* Idle release                                                            *)

\* A teardown for idleness has nothing left to save from its first step on.
IdleInv ==
  PeriodicSave /\ phase \in {"drain", "release"} /\ end = "server-shutdown" /\ ~flushing
    => doc \subseteq stored

\* No step lets an idle release go ahead with unsaved edits.
LEMMA IdleStep ==
  ASSUME "encode" \notin Faults, TypeOK, CleanIsDurable, IdleInv, [Next]_vars
  PROVE  IdleInv'
<1> USE DEF IdleInv, Active
<1>0. FlushOutcomes \subseteq {"saved", "failed", "writtenButFailed"}
  BY DEF FlushOutcomes
<1>1. CASE UNCHANGED flushVars
  BY <1>1 DEF flushVars
<1>2. ASSUME NEW u, Lands(u) PROVE IdleInv'
  BY <1>2 DEF Lands
<1>3. ASSUME NEW o, SaveTimerFires(o) PROVE IdleInv'
  BY <1>3 DEF SaveTimerFires, BeginTeardown, KeepServing, endVars
<1>4. ASSUME NEW o \in FlushOutcomes, IdleTimerFires(o) PROVE IdleInv'
  <2>1. CASE phase' = "serve" \/ end' # "server-shutdown"
    BY <2>1
  <2>2. CASE phase' # "serve" /\ end' = "server-shutdown"
    <3>1. StoreFlush(o) /\ ~RetryArmed /\ doc' = doc
      BY <1>4, <2>2 DEF IdleTimerFires, Persist, BeginTeardown, KeepServing, endVars
    <3>2. PeriodicSave => ~dirty'
      <4>1. ASSUME PeriodicSave, dirty' PROVE FALSE
        <5>1. dirty /\ o # "saved"
          BY <3>1, <4>1 DEF StoreFlush
        <5>2. o # "encodeFailed"
          BY <1>0
        <5>3. failures' = failures + 1
          BY <3>1, <5>1, <5>2 DEF StoreFlush
        <5>4. failures \in Nat
          BY DEF TypeOK
        <5> QED BY <3>1, <4>1, <5>3, <5>4 DEF RetryArmed
      <4> QED BY <4>1
    <3>3. ~dirty' => stored' = doc
      BY <1>4, <3>1 DEF StoreFlush, CleanIsDurable, IdleTimerFires
    <3> QED BY <3>1, <3>2, <3>3
  <2> QED BY <2>1, <2>2
<1>5. ASSUME NEW o, TeardownDrain(o) PROVE IdleInv'
  BY <1>5 DEF TeardownDrain
<1>6. CASE HandleClose \/ HandlerPanics
  BY <1>6 DEF HandleClose, HandlerPanics, BeginTeardown
<1>7. CASE FlushPanics \/ TeardownRelease \/ Crash
  BY <1>7 DEF FlushPanics, TeardownRelease, Crash
<1>8. ASSUME NEW c \in Conns, Materialize(c) PROVE IdleInv'
  BY <1>8 DEF Materialize
<1> QED BY <1>1, <1>2, <1>3, <1>4, <1>5, <1>6, <1>7, <1>8, StepKinds

\* With periodic saving on and encoding reliable, releasing an idle room never
\* costs an edit: releaseIfEmpty only gives the room up once the checkpoint store
\* holds its document, however often its flushes failed before.
THEOREM IdleTheorem ==
  ASSUME "encode" \notin Faults
  PROVE  Spec => []IdleReleaseKeepsEdits
<1>1. Init => IdleInv
  BY DEF Init, IdleInv
<1>2. TypeOK /\ CleanIsDurable /\ IdleInv /\ [Next]_vars => IdleInv'
  BY IdleStep
<1>3. IdleInv => IdleReleaseKeepsEdits
  BY DEF IdleInv, IdleReleaseKeepsEdits
<1> QED BY <1>1, <1>2, <1>3, TypeCorrect, CleanTheorem, PTL DEF Spec

-----------------------------------------------------------------------------
(* Durability requests on their way through the room                       *)

\* The places in the channel that hold a message of connection c.
Messages(c) == {k \in 1..Len(queue) : queue[k].kind = "message" /\ queue[k].conn = c}

\* A connection the room holds nothing of.
Absent(c) == ~member[c].in /\ member[c].barrier = 0

\* The channel delivers the frames of a connection in the order they were sent, and
\* a frame that waits for a slot is the newest.
InOrder ==
  \A c \in Conns :
     /\ \A k \in Messages(c) : queue[k].idx \in 1..Len(sent[c])
     /\ \A k, l \in Messages(c) : k < l => queue[k].idx < queue[l].idx
     /\ sess[c] \in {"blocked", "refused"} =>
          Len(sent[c]) > 0 /\ \A k \in Messages(c) : queue[k].idx < Len(sent[c])

\* A connection joins once, before it sends anything, and leaves when it is gone.
JoinsOnce ==
  /\ \A k \in 1..Len(queue) :
        /\ queue[k].kind = "join" => sess[queue[k].conn] = "joining"
        /\ queue[k].kind = "leave" => queue[k].conn \notin Reachable
  /\ \A k, l \in 1..Len(queue) :
        queue[k].kind = "join" /\ queue[l].kind = "join" /\ queue[k].conn = queue[l].conn => k = l
  /\ \A c \in Conns : sess[c] \in {"new", "joining"} => sent[c] = <<>> /\ Absent(c)
  /\ phase \in {"release", "closed"} => \A c \in Conns : Absent(c)

ChannelInv == InOrder /\ JoinsOnce

\* Appending a command and taking the oldest one, place by place.
LEMMA ChannelAppend ==
  ASSUME TypeOK, NEW cmd \in Commands, queue' = Append(queue, cmd)
  PROVE  /\ Len(queue) \in Nat /\ Len(queue') = Len(queue) + 1
         /\ \A k \in 1..Len(queue) : queue'[k] = queue[k]
         /\ queue'[Len(queue) + 1] = cmd
<1>1. queue \in Seq(Commands)
  BY DEF TypeOK
<1> QED BY <1>1

\* What taking a command leaves of the channel.
LEMMA ChannelTail ==
  ASSUME TypeOK, queue # <<>>, Take
  PROVE  /\ Len(queue) \in Nat \ {0} /\ Len(queue') = Len(queue) - 1
         /\ \A k \in 1..Len(queue') : queue'[k] = queue[k + 1]
         /\ Head(queue) = queue[1]
<1>1. queue \in Seq(Commands)
  BY DEF TypeOK
<1> QED BY <1>1 DEF Take

\* What a place of the channel holds.
LEMMA ChannelElement ==
  ASSUME TypeOK
  PROVE  /\ Len(queue) \in Nat
         /\ \A k \in 1..Len(queue) :
              /\ queue[k].idx \in Nat
              /\ queue[k].kind \in {"join", "activate", "leave", "message"} => queue[k].conn \in Conns
<1>1. queue \in Seq(Commands)
  BY DEF TypeOK
<1>2. ASSUME NEW k \in 1..Len(queue)
      PROVE  /\ queue[k].idx \in Nat
             /\ queue[k].kind \in {"join", "activate", "leave", "message"} => queue[k].conn \in Conns
  <2>1. queue[k] \in Commands
    BY <1>1
  <2> QED BY <2>1 DEF Commands, Plain
<1> QED BY <1>1, <1>2

\* A connection never becomes reachable again.
LEMMA ReachableShrinks ==
  ASSUME TypeOK, [Next]_vars
  PROVE  Reachable' \subseteq Reachable
<1> USE RoomAssumption DEF Reachable, roomVars, sessVars, vars
<1>1. ASSUME NEW c \in Conns, SessionStep(c) PROVE Reachable' \subseteq Reachable
  BY <1>1 DEF SessionStep, Activate, ForwardAdmitted, ForwardTimesOut, ForwardRefused, Leave, TypeOK
<1>2. ASSUME NEW c \in Conns, Client(c) PROVE Reachable' \subseteq Reachable
  BY <1>2 DEF Client, Join, Materialize, LeaveTimesOut, ConnFails, Forward
<1>3. ASSUME NEW c \in Conns, NEW code \in MemberEnds, Disconnect(c, code), UNCHANGED up
      PROVE  Reachable' \subseteq Reachable
  BY <1>3 DEF Disconnect, TypeOK, MemberEnds
<1>4. CASE HandleMessage
  <2>1. PICK c \in Conns : \E i \in 1..Len(sent[c]) :
          \/ IgnoreMessage(c, i) \/ RateExceeded(c, i) \/ RefuseUpdate(c, i)
          \/ CandidateFailed(c, i) \/ ApplyUpdate(c, i) \/ HandleDurabilityRequest(c, i)
    BY <1>4 DEF HandleMessage
  <2>2. PICK i \in 1..Len(sent[c]) :
          \/ IgnoreMessage(c, i) \/ RateExceeded(c, i) \/ RefuseUpdate(c, i)
          \/ CandidateFailed(c, i) \/ ApplyUpdate(c, i) \/ HandleDurabilityRequest(c, i)
    BY <2>1
  <2>3. CASE RateExceeded(c, i)
    BY <1>3, <2>3 DEF RateExceeded, MessageFrom, MemberEnds
  <2>4. CASE RefuseUpdate(c, i)
    BY <1>3, <2>4, RefusalCodeType DEF RefuseUpdate, MessageFrom
  <2>5. CASE IgnoreMessage(c, i) \/ CandidateFailed(c, i) \/ ApplyUpdate(c, i)
             \/ HandleDurabilityRequest(c, i)
    BY <2>5 DEF IgnoreMessage, CandidateFailed, ApplyUpdate, HandleDurabilityRequest, MessageFrom
  <2> QED BY <2>2, <2>3, <2>4, <2>5
<1>5. ASSUME NEW o, TeardownDrain(o) PROVE Reachable' \subseteq Reachable
  BY <1>5 DEF TeardownDrain, TypeOK
<1>6. CASE HandleJoin \/ HandleActivate \/ HandleLeave \/ HandleClose \/ TeardownRelease
  BY <1>6 DEF HandleJoin, HandleActivate, HandleLeave, HandleClose, TeardownRelease
<1>7. CASE SaveTick \/ IdleTick
  BY <1>7 DEF SaveTick, IdleTick, SaveTimerFires, IdleTimerFires
<1>8. CASE Environment
  BY <1>8 DEF Environment, CloseRoom, HandlePeer, HandlerPanics, FlushPanics, Crash
<1> QED BY <1>1, <1>2, <1>4, <1>5, <1>6, <1>7, <1>8 DEF Next, LoopStep

-----------------------------------------------------------------------------
(* What a step does to members and answers                                 *)

\* The member keeps its request or loses it, and nobody becomes a member.
Fades(c) == (member'[c].in => member[c].in) /\ member'[c].barrier \in {0, member[c].barrier}

\* No answer, or the answer to the parked request, `persisted` only with the whole
\* document stored.
Settles(c) ==
  \/ replies'[c] = replies[c]
  \/ \E kind \in {"persisted", "failed"} :
       /\ member[c].barrier # 0 /\ member'[c].barrier = 0
       /\ replies'[c] = Append(replies[c], [q |-> member[c].barrier, kind |-> kind])
       /\ kind = "persisted" => stored' = doc

\* A parked request of c that a step removes is answered in the same step, unless the
\* client is out of reach, over its rate, or the process died.
Accounts(c) ==
  /\ member[c].barrier # 0 /\ member'[c].barrier = 0 /\ c \in Reachable
  /\ phase' # "closed" /\ ended'[c] # "update-rate-exceeded"
  => \E kind \in {"persisted", "failed"} :
       replies'[c] = Append(replies[c], [q |-> member[c].barrier, kind |-> kind])

\* Dropping members takes their requests with them and touches nobody else.
LEMMA DropEffect ==
  ASSUME TypeOK, NEW D, member' = DropMembers(D), NEW c \in Conns
  PROVE  Fades(c) /\ (c \notin D => member'[c] = member[c]) /\ (c \in D => member'[c] = NoMember)
BY DEF DropMembers, Fades, TypeOK, NoMember, MemberRecord

\* resolveBarriers and failBarriers: every parked request is answered and cleared.
LEMMA SettleEffect ==
  ASSUME TypeOK, NEW D, NEW kind \in {"persisted", "failed"}, SettleBarriers(kind, D),
         kind = "persisted" => stored' = doc, NEW c \in Conns
  PROVE  Fades(c) /\ Settles(c) /\ Accounts(c)
<1>1. member'[c] = [(IF c \in D THEN NoMember ELSE member[c]) EXCEPT !.barrier = 0]
  BY DEF SettleBarriers, ClearBarriers, DropMembers
<1>2. member'[c].barrier = 0 /\ (member'[c].in => member[c].in)
  BY <1>1 DEF NoMember, TypeOK, MemberRecord
<1>3. replies'[c] = IF c \in Waiting \cap Reachable
                    THEN Append(replies[c], [q |-> member[c].barrier, kind |-> kind])
                    ELSE replies[c]
  BY DEF SettleBarriers, Answer
<1> QED BY <1>2, <1>3 DEF Fades, Settles, Accounts, Waiting

\* A flush, whatever its outcome, answers requests only by settling them.
LEMMA PersistEffect ==
  ASSUME TypeOK, NEW o, Persist(o), NEW c \in Conns
  PROVE  Fades(c) /\ Settles(c) /\ Accounts(c)
<1>1. CASE UNCHANGED <<member, replies>>
  BY <1>1 DEF Fades, Settles, Accounts
<1>2. CASE member' = DropMembers(Listeners \ Reachable) /\ UNCHANGED replies
  <2>1. Fades(c) /\ (c \notin Listeners \ Reachable => member'[c] = member[c])
    BY <1>2, DropEffect
  <2> QED BY <1>2, <2>1 DEF Settles, Accounts
<1>3. CASE dirty /\ \E D : SettleBarriers("failed", D)
  BY <1>3, SettleEffect
<1>4. CASE dirty /\ o = "saved" /\ \E D : SettleBarriers("persisted", D)
  <2>1. stored' = doc
    BY <1>4 DEF Persist, StoreFlush
  <2> QED BY <1>4, <2>1, SettleEffect
<1>5. \/ UNCHANGED <<member, replies>>
      \/ member' = DropMembers(Listeners \ Reachable) /\ UNCHANGED replies
      \/ dirty /\ \E D : SettleBarriers("failed", D)
      \/ dirty /\ o = "saved" /\ \E D : SettleBarriers("persisted", D)
  BY DEF Persist
<1> QED BY <1>1, <1>2, <1>3, <1>4, <1>5

\* Losing members that are out of reach owes nobody an answer.
LEMMA LossEffect ==
  ASSUME TypeOK, NEW D, D \cap Reachable = {}, member' = DropMembers(D), UNCHANGED replies,
         NEW c \in Conns
  PROVE  Fades(c) /\ Settles(c) /\ Accounts(c)
<1>1. Fades(c) /\ (c \notin D => member'[c] = member[c])
  BY DropEffect
<1> QED BY <1>1 DEF Settles, Accounts

\* A request that finds the document clean, or may not be parked, is answered at once;
\* otherwise it is parked, if its client is still there to be answered.
Parks(c, i) ==
  /\ member[c].barrier = 0 /\ ~Head(queue).lost
  /\ member' = [member EXCEPT ![c].barrier = i]
  /\ UNCHANGED replies

AnswersNow(c, i) ==
  /\ \E kind \in {"persisted", "failed"} :
       /\ kind = "persisted" => ~Head(queue).lost /\ ~dirty
       /\ replies' = [replies EXCEPT ![c] = Append(@, [q |-> i, kind |-> kind])]
  /\ UNCHANGED member

\* A durability request is parked, answered at once, or its member is dropped.
LEMMA RequestEffect ==
  ASSUME TypeOK, NEW c \in Conns, NEW i \in 1..Len(sent[c]), HandleDurabilityRequest(c, i)
  PROVE  \/ Parks(c, i)
         \/ AnswersNow(c, i)
         \/ \A d \in Conns : Fades(d) /\ Settles(d) /\ Accounts(d)
<1>1. CASE RequestOutcome(c) = "park"
  BY <1>1 DEF HandleDurabilityRequest, Parks, RequestOutcome, RequestRefused
<1>2. CASE RequestOutcome(c) # "park" /\ c \in Reachable
  <2>1. RequestOutcome(c) \in {"persisted", "failed"}
    BY <1>2 DEF RequestOutcome
  <2>2. RequestOutcome(c) = "persisted" => ~Head(queue).lost /\ ~dirty
    BY DEF RequestOutcome, RequestRefused
  <2> QED BY <1>2, <2>1, <2>2 DEF HandleDurabilityRequest, AnswersNow
<1>3. CASE RequestOutcome(c) # "park" /\ c \notin Reachable
  <2>1. PICK D \in DropSets({c}) : member' = DropMembers(D)
    BY <1>3 DEF HandleDurabilityRequest
  <2>2. D \cap Reachable = {} /\ UNCHANGED replies
    BY <1>3, <2>1 DEF HandleDurabilityRequest, DropSets
  <2> QED BY <2>1, <2>2, LossEffect
<1> QED BY <1>1, <1>2, <1>3

\* The other messages: who is dropped is out of reach, over its rate, or answered.
LEMMA MessageEffect ==
  ASSUME TypeOK, NEW c \in Conns, NEW i \in 1..Len(sent[c]),
         \/ IgnoreMessage(c, i) \/ RateExceeded(c, i) \/ RefuseUpdate(c, i)
         \/ CandidateFailed(c, i) \/ ApplyUpdate(c, i),
         NEW d \in Conns
  PROVE  Fades(d) /\ Settles(d) /\ Accounts(d)
<1>1. CASE IgnoreMessage(c, i) \/ CandidateFailed(c, i)
  BY <1>1 DEF IgnoreMessage, CandidateFailed, Fades, Settles, Accounts
<1>2. CASE RateExceeded(c, i) \/ RefuseUpdate(c, i)
  <2>1. PICK D : member' = DropMembers(D) /\ c \in D /\ D \cap Reachable \subseteq {c}
    BY <1>2 DEF RateExceeded, RefuseUpdate, Disconnect
  <2>2. /\ Fades(d) /\ (d \notin D => member'[d] = member[d])
        /\ d \in D => member'[d] = NoMember
    BY <2>1, DropEffect
  <2>3. CASE RateExceeded(c, i)
    <3>1. UNCHANGED replies
      BY <2>3 DEF RateExceeded
    <3>2. c \in Reachable => ended'[c] = "update-rate-exceeded"
      BY <2>3 DEF RateExceeded, Disconnect, TypeOK
    <3> QED BY <2>1, <2>2, <3>1, <3>2 DEF Settles, Accounts
  <2>4. CASE RefuseUpdate(c, i)
    <3>1. replies'[d] = IF d \in {c} \cap Waiting \cap Reachable
                        THEN Append(replies[d], [q |-> member[d].barrier, kind |-> "failed"])
                        ELSE replies[d]
      BY <2>4 DEF RefuseUpdate, Answer
    <3>2. NoMember.barrier = 0
      BY DEF NoMember
    <3> QED BY <2>1, <2>2, <3>1, <3>2 DEF Settles, Accounts, Waiting
  <2> QED BY <1>2, <2>3, <2>4
<1>3. CASE ApplyUpdate(c, i)
  <2>1. UNCHANGED replies
    BY <1>3 DEF ApplyUpdate
  <2>2. CASE UNCHANGED member
    BY <2>1, <2>2 DEF Fades, Settles, Accounts
  <2>3. CASE \E D \in LostByBroadcast({c}) : member' = DropMembers(D)
    BY <2>1, <2>3, LossEffect DEF LostByBroadcast, DropSets
  <2> QED BY <1>3, <2>2, <2>3 DEF ApplyUpdate, ApplyToDoc
<1> QED BY <1>1, <1>2, <1>3

\* Every step that is not a request keeps members and answers in step.
LEMMA StepEffect ==
  ASSUME TypeOK, ChannelInv, [Next]_vars, ~HandleJoin,
         \A c \in Conns : \A i \in 1..Len(sent[c]) : ~HandleDurabilityRequest(c, i),
         NEW d \in Conns
  PROVE  Fades(d) /\ Settles(d) /\ Accounts(d)
<1> USE DEF roomVars, sessVars, docVars, timers, storeVars, endVars, vars
<1>0. CASE UNCHANGED <<member, replies>>
  BY <1>0 DEF Fades, Settles, Accounts
<1>1. ASSUME NEW c \in Conns, SessionStep(c) \/ Client(c) PROVE UNCHANGED <<member, replies>>
  BY <1>1 DEF SessionStep, Activate, ForwardAdmitted, ForwardTimesOut, ForwardRefused, Leave,
     Client, Join, Materialize, LeaveTimesOut, ConnFails, Forward
<1>2. CASE HandleMessage
  BY <1>2, MessageEffect DEF HandleMessage
<1>3. CASE HandleActivate
  <2> DEFINE c == Head(queue).conn
             lost == (Listeners \cup {c}) \ Reachable
  <2>1. c \in Conns
    BY <1>3, ServingType DEF HandleActivate
  <2>2. \/ member' = member
        \/ member' = [DropMembers(lost) EXCEPT ![c].pending = FALSE]
    BY <1>3 DEF HandleActivate
  <2>3. UNCHANGED replies /\ lost \cap Reachable = {}
    BY <1>3 DEF HandleActivate
  <2> HIDE DEF c, lost
  <2>4. CASE member' = [DropMembers(lost) EXCEPT ![c].pending = FALSE]
    <3>1. DropMembers(lost) \in [Conns -> MemberRecord]
      BY DropMembersType DEF TypeOK
    <3>2. /\ member'[d].barrier = DropMembers(lost)[d].barrier
          /\ member'[d].in = DropMembers(lost)[d].in
      BY <2>1, <2>4, <3>1 DEF MemberRecord
    <3>3. DropMembers(lost)[d] = IF d \in lost THEN NoMember ELSE member[d]
      BY DEF DropMembers
    <3> QED BY <2>3, <3>2, <3>3 DEF Fades, Settles, Accounts, NoMember
  <2> QED BY <1>0, <2>2, <2>3, <2>4
<1>4. CASE HandleLeave
  <2>1. Head(queue).conn \notin Reachable
    <3>1. queue # <<>> /\ Head(queue).kind = "leave" /\ Take
      BY <1>4 DEF HandleLeave, Serving
    <3> QED BY <3>1, ChannelTail DEF ChannelInv, JoinsOnce
  <2>2. PICK D : member' = DropMembers(D) /\ D \cap Reachable = {}
    BY <1>4, <2>1 DEF HandleLeave
  <2>3. UNCHANGED replies
    BY <1>4 DEF HandleLeave
  <2> QED BY <2>2, <2>3, LossEffect
<1>5. CASE HandleClose \/ TeardownRelease \/ HandlerPanics \/ FlushPanics
  BY <1>0, <1>5 DEF HandleClose, TeardownRelease, HandlerPanics, FlushPanics
<1>6. ASSUME NEW o, TeardownDrain(o) PROVE Fades(d) /\ Settles(d) /\ Accounts(d)
  <2> DEFINE kind == IF flushing /\ dirty /\ o = "saved" THEN "persisted" ELSE "failed"
  <2>1. member'[d] = NoMember
    BY <1>6 DEF TeardownDrain
  <2>2. replies'[d] = IF d \in Waiting \cap Reachable
                      THEN Append(replies[d], [q |-> member[d].barrier, kind |-> kind])
                      ELSE replies[d]
    BY <1>6 DEF TeardownDrain, Answer
  <2>3. kind \in {"persisted", "failed"} /\ (kind = "persisted" => stored' = doc)
    BY <1>6 DEF TeardownDrain, StoreFlush
  <2>4. NoMember.barrier = 0 /\ ~NoMember.in
    BY DEF NoMember
  <2> HIDE DEF kind
  <2> QED BY <2>1, <2>2, <2>3, <2>4 DEF Fades, Settles, Accounts, Waiting
<1>7. ASSUME NEW o, SaveTimerFires(o) PROVE Fades(d) /\ Settles(d) /\ Accounts(d)
  BY <1>7, PersistEffect DEF SaveTimerFires
<1>8. ASSUME NEW o, IdleTimerFires(o) PROVE Fades(d) /\ Settles(d) /\ Accounts(d)
  BY <1>0, <1>8, PersistEffect DEF IdleTimerFires
<1>9. CASE Crash
  BY <1>9 DEF Crash, Fades, Settles, Accounts, NoMember
<1>10. ASSUME NEW u, HandlePeer(u) PROVE Fades(d) /\ Settles(d) /\ Accounts(d)
  <2>1. UNCHANGED replies
    BY <1>10 DEF HandlePeer
  <2>2. CASE \E D \in LostByBroadcast({}) : member' = DropMembers(D)
    BY <2>1, <2>2, LossEffect DEF LostByBroadcast, DropSets
  <2> QED BY <1>0, <1>10, <2>1, <2>2 DEF HandlePeer, ApplyToDoc
<1>11. ASSUME NEW kind, CloseRoom(kind) PROVE UNCHANGED <<member, replies>>
  BY <1>11 DEF CloseRoom
<1>12. CASE LoopStep
  BY <1>2, <1>3, <1>4, <1>5, <1>6, <1>12 DEF LoopStep
<1>13. CASE Environment
  BY <1>0, <1>5, <1>9, <1>10, <1>11, <1>13 DEF Environment
<1>14. CASE UNCHANGED vars
  BY <1>0, <1>14
<1> QED BY <1>0, <1>1, <1>7, <1>8, <1>12, <1>13, <1>14 DEF Next, SaveTick, IdleTick

-----------------------------------------------------------------------------
(* The channel                                                             *)

Stuck == {"blocked", "refused"}

\* Nothing is sent and nobody starts to wait for a slot.
Calm == UNCHANGED sent /\ \A c \in Conns : sess'[c] \in Stuck => sess[c] \in Stuck

\* What a step that moves no frame into the channel does to it.
ChannelMoves ==
  \/ UNCHANGED queue
  \/ /\ Active /\ queue # <<>> /\ Take
     /\ Head(queue).kind = "message" /\ Active' => HandleMessage
  \/ queue' = <<>> /\ ~Active'
  \/ phase = "closed" /\ \E c \in Conns : queue' = <<Plain("join", c)>> /\ sess'[c] = "joining"
  \/ \E cmd \in Commands :
       /\ queue' = Append(queue, cmd)
       /\ cmd.kind # "message"
       /\ cmd.kind = "join" => sess[cmd.conn] = "new" /\ sess'[cmd.conn] = "joining"
       /\ cmd.kind = "leave" => cmd.conn \notin Reachable

\* A handled message is the oldest command, from the client that sent it.
LEMMA MessageSource ==
  ASSUME HandleMessage
  PROVE  \E c \in Conns : \E i \in 1..Len(sent[c]) : MessageFrom(c, i)
<1>1. ASSUME NEW c \in Conns, NEW i \in 1..Len(sent[c]),
             \/ IgnoreMessage(c, i) \/ RateExceeded(c, i) \/ RefuseUpdate(c, i)
             \/ CandidateFailed(c, i) \/ ApplyUpdate(c, i) \/ HandleDurabilityRequest(c, i)
      PROVE  MessageFrom(c, i)
  BY <1>1 DEF IgnoreMessage, RateExceeded, RefuseUpdate, CandidateFailed, ApplyUpdate,
     HandleDurabilityRequest
<1> QED BY <1>1 DEF HandleMessage

\* Steps other than a forward strand no frame and only consume the channel or end it.
LEMMA CalmSteps ==
  ASSUME TypeOK, [Next]_vars,
         \A c \in Conns : ~ForwardAdmitted(c) /\ \A f \in Updates \cup {Request} : ~Forward(c, f)
  PROVE  Calm /\ ChannelMoves
<1> USE DEF Calm, Stuck, roomVars, sessVars, vars, Enqueue
<1>1. ASSUME NEW c \in Conns, Activate(c) \/ Join(c) \/ Leave(c) PROVE Calm /\ ChannelMoves
  <2>1. /\ Plain("join", c) \in Commands /\ Plain("activate", c) \in Commands
        /\ Plain("leave", c) \in Commands
    BY CommandType
  <2>2. \A k : Plain(k, c).kind = k /\ Plain(k, c).conn = c
    BY DEF Plain
  <2>3. Calm
    BY <1>1 DEF Activate, Join, Leave, TypeOK
  <2>4. \/ UNCHANGED queue
        \/ queue' = Append(queue, Plain("join", c)) /\ sess[c] = "new" /\ sess'[c] = "joining"
        \/ queue' = Append(queue, Plain("activate", c))
        \/ queue' = Append(queue, Plain("leave", c)) /\ c \notin Reachable
    BY <1>1 DEF Activate, Join, Leave, TypeOK
  <2> QED BY <2>1, <2>2, <2>3, <2>4 DEF ChannelMoves
<1>2. ASSUME NEW c \in Conns, \/ ForwardTimesOut(c) \/ ForwardRefused(c) \/ LeaveTimesOut(c)
                              \/ ConnFails(c)
      PROVE  Calm /\ UNCHANGED queue
  BY <1>2 DEF ForwardTimesOut, ForwardRefused, LeaveTimesOut, ConnFails, TypeOK
<1>3. ASSUME NEW c \in Conns, Materialize(c) PROVE Calm /\ ChannelMoves
  BY <1>3 DEF Materialize, ChannelMoves, TypeOK
<1>4. CASE HandleJoin \/ HandleActivate \/ HandleLeave \/ HandleClose
  <2>1. Active /\ queue # <<>> /\ Take /\ Head(queue).kind # "message"
    BY <1>4 DEF HandleJoin, HandleActivate, HandleLeave, HandleClose, Serving
  <2>2. Calm
    BY <1>4 DEF HandleJoin, HandleActivate, HandleLeave, HandleClose, TypeOK
  <2> QED BY <2>1, <2>2 DEF ChannelMoves
<1>5. CASE HandleMessage \/ HandlerPanics
  <2>1. CASE HandleMessage
    <3>1. PICK c, i : MessageFrom(c, i)
      BY <2>1, MessageSource
    <3> QED BY <2>1, <3>1 DEF MessageFrom, Serving, ChannelMoves
  <2>2. CASE HandlerPanics
    BY <2>2 DEF HandlerPanics, Serving, ChannelMoves, Active, BeginTeardown
  <2> QED BY <1>5, <2>1, <2>2
<1>6. CASE SaveTick \/ IdleTick \/ (\E o \in FlushOutcomes : TeardownDrain(o))
           \/ (\E u \in PeerUpdates : HandlePeer(u)) \/ FlushPanics
  BY <1>6 DEF SaveTick, IdleTick, SaveTimerFires, IdleTimerFires, TeardownDrain, HandlePeer,
     FlushPanics, ChannelMoves
<1>7. CASE TeardownRelease \/ Crash
  BY <1>7 DEF TeardownRelease, Crash, ChannelMoves, Active
<1>8. ASSUME NEW kind \in {"close", "closeDeleted"}, CloseRoom(kind) PROVE Calm /\ ChannelMoves
  <2>1. Plain(kind, None) \in Commands /\ Plain(kind, None).kind = kind
    BY DEF Commands, Plain
  <2> QED BY <1>8, <2>1 DEF CloseRoom, ChannelMoves
<1>9. CASE UNCHANGED vars
  BY <1>9 DEF ChannelMoves
<1>10. ASSUME NEW c \in Conns, SessionStep(c) \/ Client(c) PROVE Calm /\ ChannelMoves
  BY <1>1, <1>2, <1>3, <1>10 DEF SessionStep, Client, ChannelMoves
<1>11. CASE LoopStep
  BY <1>4, <1>5, <1>6, <1>7, <1>11 DEF LoopStep
<1>12. CASE Environment
  BY <1>5, <1>6, <1>7, <1>8, <1>12 DEF Environment
<1> QED BY <1>6, <1>9, <1>10, <1>11, <1>12 DEF Next

\* The frames of every connection stay in order, whatever moves in the channel.
LEMMA OrderKept ==
  ASSUME TypeOK, InOrder, Calm, ChannelMoves
  PROVE  InOrder'
<1> SUFFICES ASSUME NEW c \in Conns
             PROVE  /\ \A k \in Messages(c)' : queue'[k].idx \in 1..Len(sent[c])
                    /\ \A k, l \in Messages(c)' : k < l => queue'[k].idx < queue'[l].idx
                    /\ sess[c] \in Stuck =>
                         Len(sent[c]) > 0 /\ \A k \in Messages(c)' : queue'[k].idx < Len(sent[c])
  BY DEF InOrder, Calm, Stuck
<1>0. /\ \A k \in Messages(c) : queue[k].idx \in 1..Len(sent[c])
      /\ \A k, l \in Messages(c) : k < l => queue[k].idx < queue[l].idx
      /\ sess[c] \in Stuck =>
           Len(sent[c]) > 0 /\ \A k \in Messages(c) : queue[k].idx < Len(sent[c])
  BY DEF InOrder, Stuck
<1> HIDE DEF Stuck
<1>1. CASE UNCHANGED queue
  BY <1>0, <1>1 DEF Messages
<1>2. CASE queue # <<>> /\ Take
  <2>1. \A k \in Messages(c)' : k + 1 \in Messages(c) /\ queue'[k] = queue[k + 1] /\ k \in Nat
    BY <1>2, ChannelTail DEF Messages
  <2> QED BY <1>0, <2>1
<1>3. CASE queue' = <<>>
  BY <1>0, <1>3 DEF Messages
<1>4. ASSUME NEW d \in Conns, queue' = <<Plain("join", d)>> PROVE Messages(c)' = {}
  BY <1>4 DEF Messages, Plain
<1>5. ASSUME NEW cmd \in Commands, cmd.kind # "message", queue' = Append(queue, cmd)
      PROVE  Messages(c)' = Messages(c) /\ \A k \in Messages(c) : queue'[k] = queue[k]
  BY <1>5, ChannelAppend DEF Messages
<1> QED BY <1>0, <1>1, <1>2, <1>3, <1>4, <1>5 DEF ChannelMoves

\* A frame the session hands over is its newest.
LEMMA ForwardOrder ==
  ASSUME TypeOK, InOrder, NEW d \in Conns,
         ForwardAdmitted(d) \/ \E f \in Updates \cup {Request} : Forward(d, f)
  PROVE  InOrder'
<1> USE DEF Stuck
<1> SUFFICES ASSUME NEW c \in Conns
             PROVE  /\ \A k \in Messages(c)' : queue'[k].idx \in 1..Len(sent'[c])
                    /\ \A k, l \in Messages(c)' : k < l => queue'[k].idx < queue'[l].idx
                    /\ sess'[c] \in Stuck =>
                         Len(sent'[c]) > 0 /\ \A k \in Messages(c)' : queue'[k].idx < Len(sent'[c])
  BY DEF InOrder
<1>0. /\ \A k \in Messages(c) : queue[k].idx \in 1..Len(sent[c])
      /\ \A k, l \in Messages(c) : k < l => queue[k].idx < queue[l].idx
      /\ sess[c] \in Stuck =>
           Len(sent[c]) > 0 /\ \A k \in Messages(c) : queue[k].idx < Len(sent[c])
      /\ Len(sent[c]) \in Nat /\ Len(queue) \in Nat
  BY DEF InOrder, TypeOK
<1>1. ASSUME NEW i \in Nat, NEW l \in BOOLEAN, queue' = Append(queue, Message(d, i, l))
      PROVE  /\ c # d => Messages(c)' = Messages(c)
             /\ c = d => Messages(c)' = Messages(c) \cup {Len(queue) + 1}
             /\ \A k \in Messages(c) : queue'[k] = queue[k] /\ k \in 1..Len(queue)
             /\ queue'[Len(queue) + 1].idx = i
  <2>1. Message(d, i, l) \in Commands
    BY CommandType
  <2>2. /\ Len(queue') = Len(queue) + 1 /\ queue'[Len(queue) + 1] = Message(d, i, l)
        /\ \A k \in 1..Len(queue) : queue'[k] = queue[k]
    BY <1>1, <2>1, ChannelAppend
  <2>3. /\ Message(d, i, l).kind = "message" /\ Message(d, i, l).conn = d
        /\ Message(d, i, l).idx = i
    BY DEF Message
  <2> QED BY <1>0, <2>2, <2>3 DEF Messages
<1>2. CASE ForwardAdmitted(d)
  <2>1. /\ queue' = Append(queue, Message(d, Len(sent[d]), dropped[d]))
        /\ UNCHANGED sent /\ sess[d] = "blocked" /\ sess' = [sess EXCEPT ![d] = "open"]
        /\ Len(sent[d]) \in Nat /\ dropped[d] \in BOOLEAN
    BY <1>2 DEF ForwardAdmitted, Enqueue, TypeOK
  <2>2. sess'[c] = IF c = d THEN "open" ELSE sess[c]
    BY <2>1 DEF TypeOK
  <2>3. CASE c = d
    BY <1>0, <1>1, <2>1, <2>2, <2>3
  <2>4. CASE c # d
    BY <1>0, <1>1, <2>1, <2>2, <2>4
  <2> QED BY <2>3, <2>4
<1>3. ASSUME NEW f \in Updates \cup {Request}, Forward(d, f)
      PROVE  /\ \A k \in Messages(c)' : queue'[k].idx \in 1..Len(sent'[c])
             /\ \A k, l \in Messages(c)' : k < l => queue'[k].idx < queue'[l].idx
             /\ sess'[c] \in Stuck =>
                  Len(sent'[c]) > 0 /\ \A k \in Messages(c)' : queue'[k].idx < Len(sent'[c])
  <2>1. /\ Len(sent'[c]) = IF c = d THEN Len(sent[c]) + 1 ELSE Len(sent[c])
        /\ Len(sent[d]) \in Nat /\ dropped[d] \in BOOLEAN /\ sess[d] = "open"
    BY <1>3 DEF Forward, TypeOK
  <2>2. CASE UNCHANGED queue
    <3>1. Messages(c)' = Messages(c)
      BY <2>2 DEF Messages
    <3>2. c # d => sess'[c] = sess[c]
      BY <1>3 DEF Forward, TypeOK
    <3> QED BY <1>0, <2>1, <2>2, <3>1, <3>2
  <2>3. CASE queue' = Append(queue, Message(d, Len(sent[d]) + 1, dropped[d])) /\ UNCHANGED sess
    <3>0. /\ c # d => Messages(c)' = Messages(c)
          /\ c = d => Messages(c)' = Messages(c) \cup {Len(queue) + 1}
          /\ \A k \in Messages(c) : queue'[k] = queue[k] /\ k \in 1..Len(queue)
          /\ queue'[Len(queue) + 1].idx = Len(sent[d]) + 1
      BY <1>1, <2>1, <2>3
    <3>1. CASE c = d
      <4>1. \A k \in Messages(c) : queue'[k].idx \in 1..Len(sent[c]) /\ k < Len(queue) + 1
        BY <1>0, <3>0
      <4>2. Len(sent'[c]) = Len(sent[c]) + 1 /\ queue'[Len(queue) + 1].idx = Len(sent[c]) + 1
        BY <2>1, <3>0, <3>1
      <4>3. \A k \in Messages(c)' : queue'[k].idx \in 1..Len(sent'[c])
        BY <1>0, <3>0, <3>1, <4>1, <4>2
      <4>4. ASSUME NEW k \in Messages(c)', NEW l \in Messages(c)', k < l
            PROVE  queue'[k].idx < queue'[l].idx
        <5>1. k \in Messages(c)
          BY <1>0, <3>0, <3>1, <4>1, <4>4
        <5>2. CASE l \in Messages(c)
          BY <1>0, <3>0, <4>4, <5>1, <5>2
        <5>3. CASE l = Len(queue) + 1
          BY <1>0, <4>1, <4>2, <5>1, <5>3
        <5> QED BY <3>0, <3>1, <5>2, <5>3
      <4>5. sess'[c] \notin Stuck
        BY <2>1, <2>3, <3>1
      <4> QED BY <4>3, <4>4, <4>5
    <3>2. CASE c # d
      BY <1>0, <2>1, <2>3, <3>0, <3>2
    <3> QED BY <3>1, <3>2
  <2> QED BY <1>3, <2>2, <2>3 DEF Forward, Enqueue
<1> QED BY <1>2, <1>3

\* Every step keeps the order of the channel.
LEMMA OrderStep ==
  ASSUME TypeOK, InOrder, [Next]_vars
  PROVE  InOrder'
BY CalmSteps, OrderKept, ForwardOrder

\* Nobody returns to a state before the join, and nobody there has sent anything. A
\* pending join ends when it is handled or the room is gone.
LEMMA FreshSteps ==
  ASSUME TypeOK, [Next]_vars, NEW c \in Conns
  PROVE  /\ sess'[c] \in {"new", "joining"} => sess[c] \in {"new", "joining"} /\ sent'[c] = sent[c]
         /\ sess[c] = "joining" /\ sess'[c] # "joining" =>
              queue' = <<>> \/ (HandleJoin /\ Head(queue).conn = c)
<1> USE DEF roomVars, sessVars, vars
<1>1. ASSUME NEW d \in Conns, SessionStep(d)
      PROVE  sent' = sent /\ sess[d] \notin {"new", "joining"}
             /\ \E st : sess' = [sess EXCEPT ![d] = st] /\ st \notin {"new", "joining"}
  BY <1>1 DEF SessionStep, Activate, ForwardAdmitted, ForwardTimesOut, ForwardRefused, Leave
<1>2. ASSUME NEW d \in Conns, LeaveTimesOut(d)
      PROVE  sent' = sent /\ sess[d] \notin {"new", "joining"}
             /\ \E st : sess' = [sess EXCEPT ![d] = st] /\ st \notin {"new", "joining"}
  BY <1>2 DEF LeaveTimesOut
<1>3. ASSUME NEW d \in Conns, Join(d) \/ Materialize(d)
      PROVE  sent' = sent /\ sess[d] = "new" /\ sess' = [sess EXCEPT ![d] = "joining"]
  BY <1>3 DEF Join, Materialize
<1>4. ASSUME NEW d \in Conns, NEW f, Forward(d, f)
      PROVE  /\ sess[d] = "open" /\ sent' = [sent EXCEPT ![d] = Append(@, f)]
             /\ sess' = sess \/ sess' = [sess EXCEPT ![d] = "blocked"]
  BY <1>4 DEF Forward
<1>5. CASE HandleJoin
  <2>1. /\ Head(queue).conn \in Conns /\ sent' = sent
        /\ \/ sess' = [sess EXCEPT ![Head(queue).conn] = "over"]
           \/ sess' = [sess EXCEPT ![Head(queue).conn] = "joined"]
    BY <1>5, ServingType DEF HandleJoin
  <2> QED BY <1>5, <2>1 DEF TypeOK
<1>6. CASE HandleActivate
  <2>1. /\ Head(queue).conn \in Conns /\ sent' = sent
        /\ \/ sess' = sess
           \/ /\ sess[Head(queue).conn] = "activating"
              /\ sess' = [sess EXCEPT ![Head(queue).conn] = "open"]
    BY <1>6, ServingType DEF HandleActivate
  <2> QED BY <2>1 DEF TypeOK
<1>7. CASE TeardownRelease \/ Crash
  BY <1>7 DEF TeardownRelease, Crash
<1>8. CASE HandleMessage
  BY <1>8, MessageSource DEF MessageFrom
<1>9. CASE UNCHANGED <<sess, sent>>
  BY <1>9
<1>10. CASE HandleLeave \/ HandleClose \/ \E o \in FlushOutcomes : TeardownDrain(o)
  BY <1>9, <1>10 DEF HandleLeave, HandleClose, TeardownDrain
<1>11. CASE SaveTick \/ IdleTick
  BY <1>9, <1>11 DEF SaveTick, IdleTick, SaveTimerFires, IdleTimerFires
<1>12. CASE Environment /\ ~Crash
  BY <1>9, <1>12 DEF Environment, CloseRoom, HandlePeer, HandlerPanics, FlushPanics
<1>13. ASSUME NEW d \in Conns, SessionStep(d) \/ Client(d)
       PROVE  /\ sess'[c] \in {"new", "joining"} => sess[c] \in {"new", "joining"} /\ sent'[c] = sent[c]
              /\ sess[c] = "joining" => sess'[c] = "joining"
  <2>1. CASE SessionStep(d)
    BY <1>1, <2>1 DEF TypeOK
  <2>2. CASE LeaveTimesOut(d)
    BY <1>2, <2>2 DEF TypeOK
  <2>3. CASE Join(d) \/ Materialize(d)
    BY <1>3, <2>3 DEF TypeOK
  <2>4. ASSUME NEW f \in Updates \cup {Request}, Forward(d, f)
        PROVE  /\ sess'[c] \in {"new", "joining"} => sess[c] \in {"new", "joining"} /\ sent'[c] = sent[c]
               /\ sess[c] = "joining" => sess'[c] = "joining"
    BY <1>4, <2>4 DEF TypeOK
  <2>5. CASE ConnFails(d)
    BY <2>5 DEF ConnFails
  <2> QED BY <1>13, <2>1, <2>2, <2>3, <2>4, <2>5 DEF Client
<1>14. CASE \E d \in Conns : SessionStep(d) \/ Client(d)
  BY <1>13, <1>14
<1>15. CASE LoopStep
  BY <1>5, <1>6, <1>7, <1>8, <1>10, <1>15 DEF LoopStep
<1>16. CASE UNCHANGED vars
  BY <1>9, <1>16
<1> QED BY <1>7, <1>11, <1>12, <1>14, <1>15, <1>16 DEF Next

\* A connection the room holds nothing of stays so until it joins.
LEMMA AbsentSteps ==
  ASSUME TypeOK, ChannelInv, [Next]_vars, NEW c \in Conns, Absent(c),
         ~(HandleJoin /\ Head(queue).conn = c)
  PROVE  Absent(c)'
<1>1. CASE HandleJoin
  <2>1. Head(queue).conn \in Conns
    BY <1>1, ServingType DEF HandleJoin
  <2> QED BY <1>1, <2>1 DEF HandleJoin, Absent, TypeOK
<1>2. ASSUME NEW d \in Conns, NEW i \in 1..Len(sent[d]), HandleDurabilityRequest(d, i)
      PROVE  Absent(c)'
  <2>1. d # c
    BY <1>2 DEF HandleDurabilityRequest, Members, Absent
  <2>2. \/ Parks(d, i) \/ AnswersNow(d, i) \/ Fades(c)
    BY <1>2, RequestEffect
  <2> QED BY <2>1, <2>2 DEF Parks, AnswersNow, Fades, Absent, TypeOK
<1>3. CASE Fades(c)
  BY <1>3 DEF Fades, Absent
<1> QED BY <1>1, <1>2, <1>3, StepEffect

\* Joins stay unique and early; a room being released holds nobody.
LEMMA JoinsStep ==
  ASSUME TypeOK, ChannelInv, [Next]_vars
  PROVE  JoinsOnce'
<1> USE DEF ChannelInv
<1>1. ASSUME NEW c \in Conns, sess'[c] \in {"new", "joining"}
      PROVE  sent'[c] = <<>> /\ Absent(c)'
  <2>1. sess[c] \in {"new", "joining"} /\ sent'[c] = sent[c]
    BY <1>1, FreshSteps
  <2>2. ~(HandleJoin /\ Head(queue).conn = c)
    BY <1>1 DEF HandleJoin, TypeOK
  <2> QED BY <2>1, <2>2, AbsentSteps DEF JoinsOnce
<1>2. ASSUME phase' \in {"release", "closed"}, NEW c \in Conns PROVE Absent(c)'
  <2> USE DEF Active
  <2>1. CASE phase \in {"release", "closed"}
    BY <2>1, AbsentSteps DEF JoinsOnce, HandleJoin, Serving
  <2>2. ASSUME NEW o, TeardownDrain(o) PROVE Absent(c)'
    BY <2>2 DEF TeardownDrain, Absent, NoMember
  <2>3. CASE Crash
    BY <2>3 DEF Crash, Absent, NoMember
  <2>4. CASE UNCHANGED flushVars
    BY <1>2, <2>1, <2>4 DEF flushVars
  <2>5. ASSUME NEW u, Lands(u) PROVE phase \in {"release", "closed"}
    BY <1>2, <2>5 DEF Lands
  <2>6. ASSUME NEW o, SaveTimerFires(o) \/ IdleTimerFires(o) PROVE FALSE
    BY <1>2, <2>6 DEF SaveTimerFires, IdleTimerFires, BeginTeardown, KeepServing, endVars
  <2>7. CASE HandleClose \/ HandlerPanics \/ FlushPanics
    BY <1>2, <2>7 DEF HandleClose, HandlerPanics, FlushPanics, BeginTeardown
  <2>8. CASE TeardownRelease
    BY <2>1, <2>8 DEF TeardownRelease
  <2>9. ASSUME NEW d \in Conns, Materialize(d) PROVE FALSE
    BY <1>2, <2>9 DEF Materialize
  <2> QED BY <2>1, <2>2, <2>3, <2>4, <2>5, <2>6, <2>7, <2>8, <2>9, StepKinds
<1>3. /\ \A k \in 1..Len(queue)' :
           /\ queue'[k].kind = "join" => sess'[queue'[k].conn] = "joining"
           /\ queue'[k].kind = "leave" => queue'[k].conn \notin Reachable'
      /\ \A k, l \in 1..Len(queue)' :
           queue'[k].kind = "join" /\ queue'[l].kind = "join" /\ queue'[k].conn = queue'[l].conn
             => k = l
  <2> USE DEF JoinsOnce
  <2>0. /\ Reachable' \subseteq Reachable /\ Len(queue) \in Nat
        /\ \A k \in 1..Len(queue) :
             queue[k].kind \in {"join", "leave"} => queue[k].conn \in Conns
    BY ReachableShrinks, ChannelElement
  <2>1. CASE queue' = <<>>
    BY <2>1
  <2>2. ASSUME NEW k \in 1..Len(queue), queue[k].kind = "join", queue' # <<>>,
               ~(HandleJoin /\ k = 1)
        PROVE  sess'[queue[k].conn] = "joining"
    <3>1. ASSUME HandleJoin, Head(queue).conn = queue[k].conn PROVE FALSE
      <4>1. queue # <<>> /\ Take /\ Head(queue).kind = "join"
        BY <3>1 DEF HandleJoin, Serving
      <4>2. Head(queue) = queue[1] /\ 1 \in 1..Len(queue)
        BY <4>1, ChannelTail
      <4> QED BY <2>2, <3>1, <4>1, <4>2
    <3> QED BY <2>0, <2>2, <3>1, FreshSteps
  <2>3. CASE queue # <<>> /\ Take
    <3>1. /\ Len(queue) \in Nat \ {0} /\ Len(queue') = Len(queue) - 1
          /\ \A k \in 1..Len(queue') : queue'[k] = queue[k + 1] /\ k + 1 \in 1..Len(queue) /\ k + 1 # 1
      BY <2>3, ChannelTail
    <3>2. ASSUME NEW k \in 1..Len(queue')
          PROVE  /\ queue'[k].kind = "join" => sess'[queue'[k].conn] = "joining"
                 /\ queue'[k].kind = "leave" => queue'[k].conn \notin Reachable'
      <4>1. queue' # <<>>
        BY <3>1
      <4>2. PICK n \in 1..Len(queue) : n = k + 1 /\ n # 1 /\ queue'[k] = queue[n]
        BY <3>1
      <4>3. queue[n].kind = "join" => sess'[queue[n].conn] = "joining"
        BY <2>2, <4>1, <4>2
      <4>4. queue[n].kind = "leave" => queue[n].conn \notin Reachable'
        BY <2>0
      <4> QED BY <4>2, <4>3, <4>4
    <3>3. ASSUME NEW k \in 1..Len(queue'), NEW l \in 1..Len(queue'), queue'[k].kind = "join",
                 queue'[l].kind = "join", queue'[k].conn = queue'[l].conn
          PROVE  k = l
      <4>1. k + 1 = l + 1
        BY <3>1, <3>3
      <4> QED BY <3>1, <4>1
    <3> QED BY <3>2, <3>3
  <2>4. CASE UNCHANGED queue /\ ~HandleJoin
    BY <2>0, <2>1, <2>2, <2>4
  <2>5. ASSUME NEW c \in Conns, queue' = <<Plain("join", c)>>, sess'[c] = "joining"
        PROVE  /\ Len(queue') = 1 /\ queue'[1].kind = "join" /\ queue'[1].conn = c
    BY <2>5 DEF Plain
  <2>6. ASSUME NEW cmd \in Commands, queue' = Append(queue, cmd), ~HandleJoin,
               cmd.kind = "join" => sess[cmd.conn] = "new" /\ sess'[cmd.conn] = "joining",
               cmd.kind = "leave" => cmd.conn \notin Reachable
        PROVE  /\ \A k \in 1..Len(queue)' :
                    /\ queue'[k].kind = "join" => sess'[queue'[k].conn] = "joining"
                    /\ queue'[k].kind = "leave" => queue'[k].conn \notin Reachable'
               /\ \A k, l \in 1..Len(queue)' :
                    queue'[k].kind = "join" /\ queue'[l].kind = "join"
                      /\ queue'[k].conn = queue'[l].conn => k = l
    <3>1. /\ Len(queue') = Len(queue) + 1 /\ queue'[Len(queue) + 1] = cmd
          /\ \A k \in 1..Len(queue) : queue'[k] = queue[k]
      BY <2>6, ChannelAppend
    <3>2. queue' # <<>>
      BY <2>0, <3>1
    <3> QED BY <2>0, <2>2, <2>6, <3>1, <3>2
  <2>7. ASSUME NEW c \in Conns, ForwardAdmitted(c) \/ \E f \in Updates \cup {Request} : Forward(c, f)
        PROVE  /\ ~HandleJoin
               /\ \/ UNCHANGED queue
                  \/ \E cmd \in Commands : cmd.kind = "message" /\ queue' = Append(queue, cmd)
    <3>1. \A i \in Nat, l \in BOOLEAN : Message(c, i, l) \in Commands
                                        /\ Message(c, i, l).kind = "message"
      BY CommandType DEF Message
    <3>2. Len(sent[c]) \in Nat /\ dropped[c] \in BOOLEAN
      BY DEF TypeOK
    <3>3. \/ UNCHANGED queue
          \/ queue' = Append(queue, Message(c, Len(sent[c]), dropped[c]))
          \/ queue' = Append(queue, Message(c, Len(sent[c]) + 1, dropped[c]))
      BY <2>7 DEF ForwardAdmitted, Forward, Enqueue
    <3>4. ~HandleJoin
      <4>1. ASSUME HandleJoin PROVE FALSE
        <5>1. queue # <<>> /\ Take
          BY <4>1 DEF HandleJoin, Serving
        <5>2. Len(queue') = Len(queue) - 1
          BY <5>1, ChannelTail
        <5>3. Len(queue') \in {Len(queue), Len(queue) + 1}
          BY <3>1, <3>2, <3>3, ChannelAppend
        <5> QED BY <2>0, <5>2, <5>3
      <4> QED BY <4>1
    <3>5. ASSUME NEW i \in Nat, queue' = Append(queue, Message(c, i, dropped[c]))
          PROVE  \E cmd \in Commands : cmd.kind = "message" /\ queue' = Append(queue, cmd)
      <4> DEFINE cmd == Message(c, i, dropped[c])
      <4>1. cmd \in Commands /\ cmd.kind = "message" /\ queue' = Append(queue, cmd)
        BY <3>1, <3>2, <3>5
      <4> HIDE DEF cmd
      <4> QED BY <4>1
    <3>6. Len(sent[c]) + 1 \in Nat
      BY <3>2
    <3> QED BY <3>2, <3>3, <3>4, <3>5, <3>6
  <2>8. ASSUME HandleJoin PROVE queue # <<>> /\ Take
    BY <2>8 DEF HandleJoin, Serving
  <2>9. CASE \E c \in Conns : ForwardAdmitted(c) \/ \E f \in Updates \cup {Request} : Forward(c, f)
    BY <2>4, <2>6, <2>7, <2>9
  <2>10. CASE ChannelMoves
    BY <2>1, <2>3, <2>4, <2>5, <2>6, <2>8, <2>10 DEF ChannelMoves
  <2> QED BY <2>9, <2>10, CalmSteps
<1> QED BY <1>1, <1>2, <1>3 DEF JoinsOnce

\* Every step keeps the channel invariant.
LEMMA ChannelStep ==
  ASSUME TypeOK, ChannelInv, [Next]_vars
  PROVE  ChannelInv'
BY OrderStep, JoinsStep DEF ChannelInv

-----------------------------------------------------------------------------
(* Frames in flight                                                        *)

\* The frames in flight, by their places in the channel.
LEMMA FlightDef ==
  ASSUME NEW c \in Conns
  PROVE  InFlight(c) = {queue[k].idx : k \in Messages(c)}
                         \cup (IF sess[c] \in Stuck THEN {Len(sent[c])} ELSE {})
BY DEF InFlight, Messages, Stuck

\* The frames of c in flight are among those it sent.
LEMMA FlightRange ==
  ASSUME TypeOK, InOrder, NEW c \in Conns
  PROVE  InFlight(c) \subseteq 1..Len(sent[c])
<1>1. Len(sent[c]) \in Nat
  BY DEF TypeOK
<1> QED BY <1>1, FlightDef DEF InOrder, Stuck

\* A step that sends nothing puts no other frame in flight.
LEMMA FlightShrinks ==
  ASSUME TypeOK, ChannelInv, [Next]_vars, NEW c \in Conns,
         \A d \in Conns : \A f \in Updates \cup {Request} : ~Forward(d, f)
  PROVE  UNCHANGED sent /\ InFlight(c)' \subseteq InFlight(c)
<1>0. InFlight(c)' = {queue'[k].idx : k \in Messages(c)'}
                       \cup (IF sess'[c] \in Stuck THEN {Len(sent'[c])} ELSE {})
  BY FlightDef DEF InFlight, Messages, Stuck
<1>1. ASSUME NEW d \in Conns, ForwardAdmitted(d) PROVE UNCHANGED sent /\ InFlight(c)' \subseteq InFlight(c)
  <2>1. /\ queue' = Append(queue, Message(d, Len(sent[d]), dropped[d]))
        /\ UNCHANGED sent /\ sess[d] = "blocked" /\ sess' = [sess EXCEPT ![d] = "open"]
        /\ Len(sent[d]) \in Nat /\ dropped[d] \in BOOLEAN
    BY <1>1 DEF ForwardAdmitted, Enqueue, TypeOK
  <2>2. Message(d, Len(sent[d]), dropped[d]) \in Commands
    BY <2>1, CommandType
  <2>3. /\ Message(d, Len(sent[d]), dropped[d]).conn = d
        /\ Message(d, Len(sent[d]), dropped[d]).idx = Len(sent[d])
    BY DEF Message
  <2>4. /\ Len(queue) \in Nat /\ Len(queue') = Len(queue) + 1
        /\ queue'[Len(queue) + 1].conn = d /\ queue'[Len(queue) + 1].idx = Len(sent[d])
        /\ \A k \in 1..Len(queue) : queue'[k] = queue[k]
    BY <2>1, <2>2, <2>3, ChannelAppend
  <2>5. \A k \in Messages(c)' : \/ k \in Messages(c) /\ queue'[k] = queue[k]
                                \/ c = d /\ queue'[k].idx = Len(sent[c])
    BY <2>4 DEF Messages
  <2>6. c = d => Len(sent[c]) \in InFlight(c)
    BY <2>1, FlightDef DEF Stuck
  <2>7. c # d => sess'[c] = sess[c]
    BY <2>1 DEF TypeOK
  <2>8. c = d => sess'[c] = "open"
    BY <2>1 DEF TypeOK
  <2>9. {queue'[k].idx : k \in Messages(c)'} \subseteq InFlight(c)
    BY <2>5, <2>6, FlightDef
  <2>10. (IF sess'[c] \in Stuck THEN {Len(sent'[c])} ELSE {}) \subseteq InFlight(c)
    BY <2>1, <2>7, <2>8, FlightDef DEF Stuck
  <2> QED BY <1>0, <2>1, <2>9, <2>10
<1>2. ASSUME Calm, ChannelMoves PROVE UNCHANGED sent /\ InFlight(c)' \subseteq InFlight(c)
  <2>1. \A k \in Messages(c)' : \E l \in Messages(c) : queue'[k] = queue[l]
    <3>1. CASE UNCHANGED queue
      BY <3>1 DEF Messages
    <3>2. CASE queue # <<>> /\ Take
      BY <3>2, ChannelTail DEF Messages
    <3>3. CASE queue' = <<>>
      BY <3>3 DEF Messages
    <3>4. ASSUME NEW d \in Conns, queue' = <<Plain("join", d)>> PROVE Messages(c)' = {}
      BY <3>4 DEF Messages, Plain
    <3>5. ASSUME NEW cmd \in Commands, cmd.kind # "message", queue' = Append(queue, cmd)
          PROVE  Messages(c)' = Messages(c) /\ \A k \in Messages(c) : queue'[k] = queue[k]
      BY <3>5, ChannelAppend DEF Messages
    <3> QED BY <1>2, <3>1, <3>2, <3>3, <3>4, <3>5 DEF ChannelMoves
  <2>2. sess'[c] \in Stuck => sess[c] \in Stuck
    BY <1>2 DEF Calm
  <2>3. UNCHANGED sent
    BY <1>2 DEF Calm
  <2> QED BY <1>0, <2>1, <2>2, <2>3, FlightDef
<1> QED BY <1>1, <1>2, CalmSteps

\* A frame that is sent is in flight or lost; nothing else takes off.
LEMMA FlightSends ==
  ASSUME TypeOK, ChannelInv, NEW d \in Conns, NEW f \in Updates \cup {Request}, Forward(d, f),
         NEW c \in Conns
  PROVE  InFlight(c)' \subseteq InFlight(c) \cup (IF c = d THEN {Len(sent[c]) + 1} ELSE {})
<1>0. InFlight(c)' = {queue'[k].idx : k \in Messages(c)'}
                       \cup (IF sess'[c] \in Stuck THEN {Len(sent'[c])} ELSE {})
  BY DEF InFlight, Messages, Stuck
<1>1. /\ Len(sent'[c]) = IF c = d THEN Len(sent[c]) + 1 ELSE Len(sent[c])
      /\ Len(sent[d]) \in Nat /\ dropped[d] \in BOOLEAN /\ sess[d] = "open"
      /\ c # d => sess'[c] = sess[c]
  BY DEF Forward, TypeOK
<1>2. CASE UNCHANGED queue
  <2>1. Messages(c)' = Messages(c)
    BY <1>2 DEF Messages
  <2> QED BY <1>0, <1>1, <1>2, <2>1, FlightDef
<1>3. CASE queue' = Append(queue, Message(d, Len(sent[d]) + 1, dropped[d]))
  <2>1. Len(sent[d]) + 1 \in Nat
    BY <1>1
  <2>2. Message(d, Len(sent[d]) + 1, dropped[d]) \in Commands
    BY <1>1, <2>1, CommandType
  <2>3. /\ Message(d, Len(sent[d]) + 1, dropped[d]).conn = d
        /\ Message(d, Len(sent[d]) + 1, dropped[d]).idx = Len(sent[d]) + 1
    BY DEF Message
  <2>4. /\ Len(queue) \in Nat /\ Len(queue') = Len(queue) + 1
        /\ queue'[Len(queue) + 1].conn = d /\ queue'[Len(queue) + 1].idx = Len(sent[d]) + 1
        /\ \A k \in 1..Len(queue) : queue'[k] = queue[k]
    BY <1>3, <2>2, <2>3, ChannelAppend
  <2>5. \A k \in Messages(c)' : \/ k \in Messages(c) /\ queue'[k] = queue[k]
                                \/ c = d /\ queue'[k].idx = Len(sent[c]) + 1
    BY <2>4 DEF Messages
  <2> QED BY <1>0, <1>1, <2>5, FlightDef
<1> QED BY <1>2, <1>3 DEF Forward, Enqueue

\* The message the loop takes is the oldest frame of its connection in flight.
LEMMA FlightLands ==
  ASSUME TypeOK, ChannelInv, NEW c \in Conns, NEW i, Serving("message"), Take,
         Head(queue).conn = c, Head(queue).idx = i, UNCHANGED <<sess, sent>>
  PROVE  /\ i \in InFlight(c)
         /\ \A f \in InFlight(c) : i <= f
         /\ \A f \in InFlight(c)' : i < f
<1>0. InFlight(c)' = {queue'[k].idx : k \in Messages(c)'}
                       \cup (IF sess[c] \in Stuck THEN {Len(sent[c])} ELSE {})
  BY DEF InFlight, Messages, Stuck
<1>1. /\ queue # <<>> /\ Head(queue) = queue[1] /\ queue[1].kind = "message"
      /\ Len(queue) \in Nat \ {0} /\ Len(queue') = Len(queue) - 1
      /\ \A k \in 1..Len(queue') : queue'[k] = queue[k + 1]
  BY ChannelTail DEF Serving
<1>2. 1 \in Messages(c) /\ queue[1].idx = i
  BY <1>1 DEF Messages
<1>3. \A k \in Messages(c)' : k + 1 \in Messages(c) /\ queue'[k] = queue[k + 1] /\ 1 < k + 1
  BY <1>1 DEF Messages
<1>4. /\ \A k \in Messages(c) : queue[k].idx \in 1..Len(sent[c]) /\ k \in Nat /\ k >= 1
      /\ \A k, l \in Messages(c) : k < l => queue[k].idx < queue[l].idx
      /\ sess[c] \in Stuck =>
           Len(sent[c]) > 0 /\ \A k \in Messages(c) : queue[k].idx < Len(sent[c])
      /\ Len(sent[c]) \in Nat
  BY DEF ChannelInv, InOrder, Stuck, TypeOK, Messages
<1>5. i \in InFlight(c)
  BY <1>2, FlightDef
<1>6. \A f \in InFlight(c)' : i < f
  BY <1>0, <1>2, <1>3, <1>4
<1>7. \A k \in Messages(c) : queue[k].idx = i \/ i < queue[k].idx
  <2> TAKE k \in Messages(c)
  <2>1. k = 1 \/ 1 < k
    BY <1>4
  <2> QED BY <1>2, <1>4, <2>1
<1>8. \A f \in InFlight(c) : i <= f
  BY <1>2, <1>4, <1>7, FlightDef
<1> QED BY <1>5, <1>6, <1>8

-----------------------------------------------------------------------------
(* Answers                                                                 *)

\* Every answer and every parked request of c is about a frame older than the ones in
\* flight, and no frame is answered twice or both answered and parked.
AnswersOf(c) ==
  /\ \A j \in 1..Len(replies[c]) :
       /\ replies[c][j].q \in 1..Len(sent[c]) /\ replies[c][j].q # member[c].barrier
       /\ \A f \in InFlight(c) : replies[c][j].q < f
  /\ \A j, k \in 1..Len(replies[c]) : replies[c][j].q = replies[c][k].q => j = k
  /\ member[c].barrier # 0 =>
       /\ member[c].barrier \in 1..Len(sent[c])
       /\ sent[c][member[c].barrier] = Request
       /\ \A f \in InFlight(c) : member[c].barrier < f

AnswerInv == \A c \in Conns : AnswersOf(c)

\* Types of one connection's history.
LEMMA HistoryType ==
  ASSUME TypeOK, NEW c \in Conns
  PROVE  /\ Len(replies[c]) \in Nat /\ Len(sent[c]) \in Nat /\ member[c].barrier \in Nat
         /\ \A j \in 1..Len(replies[c]) : replies[c][j].q \in Nat
         /\ replies[c] \in Seq([q : Nat, kind : {"persisted", "failed"}])
         /\ sent[c] \in Seq(Updates \cup {Request})
<1> DEFINE Reply == [q : Nat, kind : {"persisted", "failed"}]
<1>1. replies[c] \in Seq(Reply)
  BY DEF TypeOK
<1>2. \A j \in 1..Len(replies[c]) : replies[c][j] \in Reply
  <2> HIDE DEF Reply
  <2> QED BY <1>1
<1>3. \A j \in 1..Len(replies[c]) : replies[c][j].q \in Nat
  BY <1>2
<1> QED BY <1>1, <1>3 DEF TypeOK, MemberRecord

\* One more answer.
LEMMA ReplyAppend ==
  ASSUME TypeOK, NEW c \in Conns, NEW i \in Nat, NEW kind \in {"persisted", "failed"},
         replies'[c] = Append(replies[c], [q |-> i, kind |-> kind])
  PROVE  /\ Len(replies'[c]) = Len(replies[c]) + 1 /\ Len(replies[c]) \in Nat
         /\ \A j \in 1..Len(replies[c]) : replies'[c][j] = replies[c][j]
         /\ replies'[c][Len(replies[c]) + 1].q = i
         /\ replies'[c][Len(replies[c]) + 1].kind = kind
<1> DEFINE r == [q |-> i, kind |-> kind]
<1>1. r \in [q : Nat, kind : {"persisted", "failed"}] /\ r.q = i /\ r.kind = kind
  OBVIOUS
<1>2. replies[c] \in Seq([q : Nat, kind : {"persisted", "failed"}])
  BY DEF TypeOK
<1>3. replies'[c] = Append(replies[c], r)
  OBVIOUS
<1> HIDE DEF r
<1> QED BY <1>1, <1>2, <1>3

\* Answering a parked request, or losing it, keeps the answers in order.
LEMMA SettledAnswers ==
  ASSUME TypeOK, NEW c \in Conns, AnswersOf(c), UNCHANGED sent, InFlight(c)' \subseteq InFlight(c),
         Fades(c), Settles(c)
  PROVE  AnswersOf(c)'
<1>0. /\ Len(replies[c]) \in Nat /\ Len(sent[c]) \in Nat /\ member[c].barrier \in Nat
      /\ \A j \in 1..Len(replies[c]) : replies[c][j].q \in Nat
  BY HistoryType
<1>1. CASE replies'[c] = replies[c]
  BY <1>1 DEF AnswersOf, Fades
<1>2. ASSUME NEW kind \in {"persisted", "failed"}, member[c].barrier # 0, member'[c].barrier = 0,
             replies'[c] = Append(replies[c], [q |-> member[c].barrier, kind |-> kind])
      PROVE  AnswersOf(c)'
  <2>1. /\ Len(replies'[c]) = Len(replies[c]) + 1
        /\ \A j \in 1..Len(replies[c]) : replies'[c][j] = replies[c][j]
        /\ replies'[c][Len(replies[c]) + 1].q = member[c].barrier
    <3>1. PICK b \in Nat : b = member[c].barrier
      BY <1>0
    <3> QED BY <1>2, <3>1, ReplyAppend
  <2>2. ASSUME NEW j \in 1..Len(replies'[c])
        PROVE  \/ j \in 1..Len(replies[c]) /\ replies'[c][j].q = replies[c][j].q
               \/ j = Len(replies[c]) + 1 /\ replies'[c][j].q = member[c].barrier
    BY <1>0, <2>1
  <2>3. ASSUME NEW j \in 1..Len(replies'[c])
        PROVE  /\ replies'[c][j].q \in 1..Len(sent[c]) /\ replies'[c][j].q # 0
               /\ \A f \in InFlight(c) : replies'[c][j].q < f
    BY <1>0, <1>2, <2>2 DEF AnswersOf
  <2>4. ASSUME NEW j \in 1..Len(replies'[c]), NEW k \in 1..Len(replies'[c]),
               replies'[c][j].q = replies'[c][k].q
        PROVE  j = k
    BY <1>0, <1>2, <2>2, <2>4 DEF AnswersOf
  <2> QED BY <1>2, <2>3, <2>4 DEF AnswersOf
<1> QED BY <1>1, <1>2 DEF Settles

\* A new frame is younger than everything answered.
LEMMA SentAnswers ==
  ASSUME TypeOK, ChannelInv, NEW d \in Conns, NEW f \in Updates \cup {Request}, Forward(d, f),
         NEW c \in Conns, AnswersOf(c)
  PROVE  AnswersOf(c)'
<1>1. UNCHANGED <<member, replies>>
  BY DEF Forward, roomVars
<1>2. InFlight(c)' \subseteq InFlight(c) \cup (IF c = d THEN {Len(sent[c]) + 1} ELSE {})
  BY FlightSends
<1>3. sent'[c] = IF c = d THEN Append(sent[c], f) ELSE sent[c]
  BY DEF Forward, TypeOK
<1>4. /\ Len(sent'[c]) = IF c = d THEN Len(sent[c]) + 1 ELSE Len(sent[c])
      /\ \A j \in 1..Len(sent[c]) : sent'[c][j] = sent[c][j]
  <2> DEFINE S == Updates \cup {Request}
  <2>1. sent[c] \in Seq(S) /\ f \in S
    BY HistoryType
  <2> HIDE DEF S
  <2> QED BY <1>3, <2>1
<1>5. /\ Len(sent[c]) \in Nat /\ member[c].barrier \in Nat
      /\ \A j \in 1..Len(replies[c]) : replies[c][j].q \in Nat
  BY HistoryType
<1> QED BY <1>1, <1>2, <1>4, <1>5 DEF AnswersOf

\* A request is parked or answered when everything older has left the channel.
LEMMA RequestAnswers ==
  ASSUME TypeOK, ChannelInv, AnswerInv, NEW c \in Conns, NEW i \in 1..Len(sent[c]),
         HandleDurabilityRequest(c, i)
  PROVE  AnswerInv'
<1>1. /\ Serving("message") /\ Take /\ Head(queue).conn = c /\ Head(queue).idx = i
      /\ UNCHANGED <<sess, sent>> /\ sent[c][i] = Request
  BY DEF HandleDurabilityRequest, MessageFrom, sessVars
<1>2. /\ i \in InFlight(c) /\ \A f \in InFlight(c)' : i < f
  BY <1>1, FlightLands
<1>3. \A d \in Conns : InFlight(d)' \subseteq InFlight(d)
  <2>1. ASSUME NEW d \in Conns, NEW f, Forward(d, f) PROVE FALSE
    <3>1. Len(sent'[d]) = Len(sent[d]) + 1 /\ Len(sent[d]) \in Nat
      BY <2>1, HistoryType DEF Forward, TypeOK
    <3> QED BY <1>1, <3>1
  <2>2. Next
    BY DEF HandleDurabilityRequest, Next, LoopStep, HandleMessage
  <2> QED BY <2>1, <2>2, FlightShrinks
<1>4. CASE Parks(c, i)
  <2>1. /\ member[c].barrier = 0 /\ UNCHANGED replies
        /\ \A d \in Conns : member'[d].barrier = IF d = c THEN i ELSE member[d].barrier
    BY <1>4 DEF Parks, TypeOK, MemberRecord
  <2> SUFFICES ASSUME NEW d \in Conns PROVE AnswersOf(d)'
    BY DEF AnswerInv
  <2>2. AnswersOf(d) /\ AnswersOf(c)
    BY DEF AnswerInv
  <2>3. CASE d # c
    BY <1>1, <1>3, <2>1, <2>2, <2>3 DEF AnswersOf
  <2>4. CASE d = c
    <3>1. \A j \in 1..Len(replies[c]) : replies[c][j].q \in 1..Len(sent[c]) /\ replies[c][j].q < i
      BY <1>2, <2>2 DEF AnswersOf
    <3>2. \A j \in 1..Len(replies[c]) : replies[c][j].q # i
      BY <3>1, HistoryType
    <3>3. \A f \in InFlight(c)' : \A j \in 1..Len(replies[c]) : replies[c][j].q < f
      BY <1>3, <2>2 DEF AnswersOf
    <3> QED BY <1>1, <1>2, <2>1, <2>2, <2>4, <3>1, <3>2, <3>3 DEF AnswersOf
  <2> QED BY <2>3, <2>4
<1>5. CASE AnswersNow(c, i)
  <2>1. PICK kind \in {"persisted", "failed"} :
          replies' = [replies EXCEPT ![c] = Append(@, [q |-> i, kind |-> kind])]
    BY <1>5 DEF AnswersNow
  <2>2. /\ UNCHANGED member
        /\ replies'[c] = Append(replies[c], [q |-> i, kind |-> kind])
        /\ \A d \in Conns : d # c => replies'[d] = replies[d]
    BY <1>5, <2>1 DEF AnswersNow, TypeOK
  <2> SUFFICES ASSUME NEW d \in Conns PROVE AnswersOf(d)'
    BY DEF AnswerInv
  <2>3. AnswersOf(d) /\ AnswersOf(c)
    BY DEF AnswerInv
  <2>4. CASE d # c
    BY <1>1, <1>3, <2>2, <2>3, <2>4 DEF AnswersOf
  <2>5. CASE d = c
    <3>1. i \in Nat
      BY HistoryType
    <3>2. /\ Len(replies'[c]) = Len(replies[c]) + 1 /\ Len(replies[c]) \in Nat
          /\ \A j \in 1..Len(replies[c]) : replies'[c][j] = replies[c][j]
          /\ replies'[c][Len(replies[c]) + 1].q = i
      BY <2>2, <3>1, ReplyAppend
    <3>3. /\ \A j \in 1..Len(replies[c]) : replies[c][j].q \in 1..Len(sent[c]) /\ replies[c][j].q < i
          /\ member[c].barrier # 0 => member[c].barrier < i
      BY <1>2, <2>3 DEF AnswersOf
    <3>4. /\ \A j \in 1..Len(replies[c]) : replies[c][j].q # i
          /\ member[c].barrier # i
      BY <3>3, HistoryType
    <3>5. \A f \in InFlight(c)' : /\ \A j \in 1..Len(replies[c]) : replies[c][j].q < f
                                  /\ member[c].barrier # 0 => member[c].barrier < f
      BY <1>3, <2>3 DEF AnswersOf
    <3>6. \A j \in 1..Len(replies'[c]) : j \in 1..Len(replies[c]) \/ j = Len(replies[c]) + 1
      BY <3>2
    <3> HIDE DEF AnswerInv
    <3>7. /\ \A j \in 1..Len(replies'[c]) :
               /\ replies'[c][j].q \in 1..Len(sent[c]) /\ replies'[c][j].q # member[c].barrier
               /\ \A f \in InFlight(c)' : replies'[c][j].q < f
      BY <1>2, <2>3, <3>2, <3>3, <3>4, <3>5, <3>6 DEF AnswersOf
    <3>8. \A j, k \in 1..Len(replies'[c]) : replies'[c][j].q = replies'[c][k].q => j = k
      BY <2>3, <3>2, <3>4, <3>6 DEF AnswersOf
    <3> QED BY <1>1, <2>2, <2>3, <2>5, <3>5, <3>7, <3>8 DEF AnswersOf
  <2> QED BY <2>4, <2>5
<1>6. CASE \A d \in Conns : Fades(d) /\ Settles(d)
  BY <1>1, <1>3, <1>6, SettledAnswers DEF AnswerInv
<1> QED BY <1>4, <1>5, <1>6, RequestEffect

\* Every step keeps each answer unique and older than what is in flight.
LEMMA AnswerStep ==
  ASSUME TypeOK, ChannelInv, AnswerInv, [Next]_vars
  PROVE  AnswerInv'
<1>1. CASE \E c \in Conns : \E i \in 1..Len(sent[c]) : HandleDurabilityRequest(c, i)
  BY <1>1, RequestAnswers
<1>2. ASSUME NEW d \in Conns, NEW f \in Updates \cup {Request}, Forward(d, f) PROVE AnswerInv'
  BY <1>2, SentAnswers DEF AnswerInv
<1>3. CASE /\ ~\E c \in Conns : \E i \in 1..Len(sent[c]) : HandleDurabilityRequest(c, i)
           /\ ~\E d \in Conns : \E f \in Updates \cup {Request} : Forward(d, f)
  <2> SUFFICES ASSUME NEW c \in Conns PROVE AnswersOf(c)'
    BY DEF AnswerInv
  <2>1. AnswersOf(c) /\ UNCHANGED sent /\ InFlight(c)' \subseteq InFlight(c)
    BY <1>3, FlightShrinks DEF AnswerInv
  <2>2. CASE HandleJoin
    <3>1. UNCHANGED replies /\ member'[c].barrier \in {0, member[c].barrier}
      <4>1. Head(queue).conn \in Conns
        BY <2>2, ServingType DEF HandleJoin
      <4>2. \/ member' = member
            \/ member' = [member EXCEPT ![Head(queue).conn] = NewMember]
        BY <2>2 DEF HandleJoin
      <4>3. NewMember.barrier = 0 /\ UNCHANGED replies
        BY <2>2 DEF HandleJoin, NewMember
      <4> QED BY <4>1, <4>2, <4>3 DEF TypeOK
    <3>2. \A j \in 1..Len(replies[c]) : replies[c][j].q # 0
      BY <2>1, HistoryType DEF AnswersOf
    <3> QED BY <2>1, <3>1, <3>2 DEF AnswersOf
  <2>3. CASE Fades(c) /\ Settles(c)
    BY <2>1, <2>3, SettledAnswers
  <2> QED BY <1>3, <2>2, <2>3, StepEffect
<1> QED BY <1>1, <1>2, <1>3

-----------------------------------------------------------------------------
(* What a request may vouch for                                            *)

\* Frame j of c is in the document, or no answer vouches for it.
Got(c, j) == sent[c][j] \in doc \cup Undecodable \cup {Request}

\* Of a session that lost nothing, and of everything before a message that was not
\* marked as following a loss, a frame is in the document or still in flight.
CoverOf(c) ==
  /\ ~dropped[c] => \A j \in 1..Len(sent[c]) : Got(c, j) \/ j \in InFlight(c)
  /\ \A k \in Messages(c) : ~queue[k].lost =>
       \A j \in 1..(queue[k].idx - 1) : Got(c, j) \/ j \in InFlight(c)

\* The document holds what is stored and everything a parked request vouches for.
CoverInv ==
  /\ stored \subseteq doc
  /\ \A c \in Conns : Covers(c, member[c].barrier) \ Undecodable \subseteq doc
  /\ Active => \A c \in Members : CoverOf(c)

\* A stuck session of a serving room hands its frame over or remembers the loss.
LEMMA StuckSteps ==
  ASSUME TypeOK, ChannelInv, [Next]_vars, Active', NEW c \in Conns,
         sess[c] \in Stuck, sess'[c] \notin Stuck
  PROVE  dropped'[c] \/ ForwardAdmitted(c)
<1> USE DEF Stuck, Active, roomVars, endVars, sessVars, vars
<1>1. ASSUME NEW d \in Conns, SessionStep(d) PROVE dropped'[c] \/ ForwardAdmitted(c)
  <2>1. d = c
    BY <1>1 DEF SessionStep, Activate, ForwardAdmitted, ForwardTimesOut, ForwardRefused, Leave, TypeOK
  <2>2. CASE ForwardTimesOut(c)
    BY <2>2 DEF ForwardTimesOut, TypeOK
  <2>3. CASE ForwardRefused(c)
    BY <2>3 DEF ForwardRefused, TypeOK
  <2>4. CASE Activate(c) \/ Leave(c)
    BY <2>4 DEF Activate, Leave
  <2> QED BY <1>1, <2>1, <2>2, <2>3, <2>4 DEF SessionStep
<1>2. ASSUME NEW d \in Conns, Client(d) PROVE FALSE
  <2>1. CASE Join(d) \/ Materialize(d) \/ LeaveTimesOut(d) \/ ConnFails(d)
    BY <2>1 DEF Join, Materialize, LeaveTimesOut, ConnFails, TypeOK
  <2>2. ASSUME NEW f, Forward(d, f) PROVE FALSE
    BY <2>2 DEF Forward, TypeOK
  <2> QED BY <1>2, <2>1, <2>2 DEF Client
<1>3. ASSUME HandleJoin PROVE FALSE
  <2>1. queue # <<>> /\ Take /\ Head(queue).kind = "join" /\ Head(queue).conn \in Conns
    BY <1>3, ServingType DEF HandleJoin, Serving
  <2>2. sess[Head(queue).conn] = "joining"
    BY <2>1, ChannelTail DEF ChannelInv, JoinsOnce
  <2> QED BY <1>3, <2>1, <2>2 DEF HandleJoin, TypeOK
<1>4. ASSUME HandleActivate PROVE FALSE
  <2>1. Head(queue).conn \in Conns
    BY <1>4, ServingType DEF HandleActivate
  <2> QED BY <1>4, <2>1 DEF HandleActivate, TypeOK
<1>5. ASSUME HandleMessage PROVE FALSE
  BY <1>5, MessageSource DEF MessageFrom
<1>6. ASSUME HandleLeave \/ HandleClose \/ (\E o \in FlushOutcomes : TeardownDrain(o)) \/ TeardownRelease
      PROVE  FALSE
  BY <1>6 DEF HandleLeave, HandleClose, TeardownDrain, TeardownRelease
<1>7. ASSUME SaveTick \/ IdleTick PROVE FALSE
  BY <1>7 DEF SaveTick, IdleTick, SaveTimerFires, IdleTimerFires
<1>8. ASSUME Environment PROVE FALSE
  BY <1>8 DEF Environment, CloseRoom, HandlePeer, HandlerPanics, FlushPanics, Crash
<1> QED BY <1>1, <1>2, <1>3, <1>4, <1>5, <1>6, <1>7, <1>8 DEF Next, LoopStep

\* The channel after a step, seen from a member of a room that keeps serving: old
\* messages but for the oldest, and at most one new message, the newest frame of a
\* session with the loss flag the session has.
LEMMA MessagesKept ==
  ASSUME TypeOK, ChannelInv, [Next]_vars, Active', NEW c \in Members
  PROVE  /\ \A k \in Messages(c) :
              \/ \E l \in Messages(c)' : queue'[l] = queue[k]
              \/ k = 1 /\ HandleMessage /\ Head(queue) = queue[1]
         /\ \A l \in Messages(c)' :
              \/ \E k \in Messages(c) : queue'[l] = queue[k]
              \/ /\ queue'[l].idx = Len(sent'[c]) /\ queue'[l].lost = dropped[c]
                 /\ UNCHANGED dropped
<1>0. c \in Conns /\ ~Absent(c)
  BY DEF Members, Absent
<1>1. ASSUME UNCHANGED queue PROVE Messages(c)' = Messages(c)
  BY <1>1 DEF Messages
<1>2. CASE ChannelMoves
  <2>1. CASE /\ queue # <<>> /\ Take
             /\ Head(queue).kind = "message" /\ Active' => HandleMessage
    <3>1. /\ Len(queue) \in Nat \ {0} /\ Len(queue') = Len(queue) - 1 /\ Head(queue) = queue[1]
          /\ \A k \in 1..Len(queue') : queue'[k] = queue[k + 1]
      BY <2>1, ChannelTail
    <3>2. \A l \in Messages(c)' : l + 1 \in Messages(c) /\ queue'[l] = queue[l + 1]
      BY <3>1 DEF Messages
    <3>3. ASSUME NEW k \in Messages(c), k # 1 PROVE \E l \in Messages(c)' : queue'[l] = queue[k]
      <4>1. k - 1 \in Messages(c)' /\ queue'[k - 1] = queue[k]
        BY <3>1, <3>3 DEF Messages
      <4> QED BY <4>1
    <3>4. ASSUME 1 \in Messages(c) PROVE HandleMessage
      BY <2>1, <3>1, <3>4 DEF Messages
    <3> QED BY <2>1, <3>2, <3>3, <3>4
  <2>2. CASE phase = "closed"
    BY <1>0, <2>2 DEF ChannelInv, JoinsOnce
  <2>3. ASSUME NEW cmd \in Commands, cmd.kind # "message", queue' = Append(queue, cmd)
        PROVE  Messages(c)' = Messages(c) /\ \A k \in Messages(c) : queue'[k] = queue[k]
    BY <2>3, ChannelAppend DEF Messages
  <2> QED BY <1>1, <1>2, <2>1, <2>2, <2>3 DEF ChannelMoves
<1>3. ASSUME NEW d \in Conns, NEW i \in Nat, queue' = Append(queue, Message(d, i, dropped[d]))
      PROVE  /\ Messages(c) \subseteq Messages(c)' /\ \A k \in Messages(c) : queue'[k] = queue[k]
             /\ \A l \in Messages(c)' :
                  \/ l \in Messages(c)
                  \/ d = c /\ queue'[l].idx = i /\ queue'[l].lost = dropped[d]
  <2>0. dropped[d] \in BOOLEAN
    BY DEF TypeOK
  <2> DEFINE cmd == Message(d, i, dropped[d])
  <2>1. cmd \in Commands /\ cmd.conn = d /\ cmd.idx = i /\ cmd.lost = dropped[d]
    BY <2>0, CommandType DEF Message
  <2> HIDE DEF cmd
  <2>2. /\ Len(queue) \in Nat /\ Len(queue') = Len(queue) + 1 /\ queue'[Len(queue) + 1] = cmd
        /\ \A k \in 1..Len(queue) : queue'[k] = queue[k]
    BY <1>3, <2>1, ChannelAppend DEF cmd
  <2> QED BY <2>1, <2>2 DEF Messages
<1>4. ASSUME NEW d \in Conns, ForwardAdmitted(d)
      PROVE  /\ queue' = Append(queue, Message(d, Len(sent'[d]), dropped[d]))
             /\ UNCHANGED dropped /\ Len(sent'[d]) \in Nat
  BY <1>4, HistoryType DEF ForwardAdmitted, Enqueue
<1>5. ASSUME NEW d \in Conns, NEW f \in Updates \cup {Request}, Forward(d, f)
      PROVE  \/ UNCHANGED queue
             \/ /\ queue' = Append(queue, Message(d, Len(sent'[d]), dropped[d]))
                /\ UNCHANGED dropped /\ Len(sent'[d]) \in Nat
  <2>1. Len(sent'[d]) = Len(sent[d]) + 1 /\ Len(sent[d]) \in Nat
    BY <1>5, HistoryType DEF Forward, TypeOK
  <2> QED BY <1>5, <2>1 DEF Forward, Enqueue
<1>6. CASE \E d \in Conns : /\ queue' = Append(queue, Message(d, Len(sent'[d]), dropped[d]))
                            /\ UNCHANGED dropped /\ Len(sent'[d]) \in Nat
  <2>1. PICK d \in Conns : /\ queue' = Append(queue, Message(d, Len(sent'[d]), dropped[d]))
                           /\ UNCHANGED dropped /\ Len(sent'[d]) \in Nat
    BY <1>6
  <2>2. PICK i \in Nat : i = Len(sent'[d])
    BY <2>1
  <2>3. queue' = Append(queue, Message(d, i, dropped[d]))
    BY <2>1, <2>2
  <2>4. /\ Messages(c) \subseteq Messages(c)' /\ \A k \in Messages(c) : queue'[k] = queue[k]
        /\ \A l \in Messages(c)' :
             \/ l \in Messages(c)
             \/ d = c /\ queue'[l].idx = i /\ queue'[l].lost = dropped[d]
    BY <1>3, <2>3
  <2> QED BY <2>1, <2>2, <2>4
<1> QED BY <1>1, <1>2, <1>4, <1>5, <1>6, CalmSteps

\* The document only grows while it has members, and a flush stores all of it.
LEMMA DocSteps ==
  ASSUME TypeOK, [Next]_vars
  PROVE  /\ stored' = stored \/ stored' = doc
         /\ doc \subseteq doc' \/ (phase = "closed" /\ doc' = stored /\ UNCHANGED <<member, stored>>)
         /\ Active' => Active \/ (phase = "closed" /\ UNCHANGED member)
<1> USE DEF Active, docVars, storeVars, endVars
<1>1. CASE UNCHANGED flushVars
  BY <1>1 DEF flushVars
<1>2. CASE \E u : Lands(u)
  BY <1>2 DEF Lands
<1>3. ASSUME NEW o, SaveTimerFires(o) \/ IdleTimerFires(o) PROVE Active /\ UNCHANGED doc
                                                                /\ (stored' = stored \/ stored' = doc)
  BY <1>3 DEF SaveTimerFires, IdleTimerFires, Persist, StoreFlush
<1>4. ASSUME NEW o, TeardownDrain(o) PROVE UNCHANGED doc /\ (stored' = stored \/ stored' = doc)
                                           /\ ~Active'
  BY <1>4 DEF TeardownDrain, StoreFlush
<1>5. CASE HandleClose \/ FlushPanics \/ TeardownRelease \/ Crash
  BY <1>5 DEF HandleClose, FlushPanics, TeardownRelease, Crash, BeginTeardown
<1>6. CASE HandlerPanics
  BY <1>6 DEF HandlerPanics, BeginTeardown
<1>7. ASSUME NEW c \in Conns, Materialize(c)
      PROVE  phase = "closed" /\ doc' = stored /\ UNCHANGED <<member, stored>>
  BY <1>7 DEF Materialize
<1> QED BY <1>1, <1>2, <1>3, <1>4, <1>5, <1>6, <1>7, StepKinds

\* A session that lost a frame never forgets it.
LEMMA DroppedSteps ==
  ASSUME TypeOK, [Next]_vars, NEW c \in Conns, dropped[c]
  PROVE  dropped'[c]
<1> USE DEF roomVars, sessVars, vars
<1>1. ASSUME NEW d \in Conns, SessionStep(d) \/ Client(d) PROVE dropped'[c]
  <2>1. dropped' = dropped \/ dropped' = [dropped EXCEPT ![d] = TRUE]
    BY <1>1 DEF SessionStep, Activate, ForwardAdmitted, ForwardTimesOut, ForwardRefused, Leave,
       Client, Join, Materialize, LeaveTimesOut, ConnFails, Forward
  <2> QED BY <2>1 DEF TypeOK
<1>2. ASSUME HandleMessage PROVE dropped' = dropped
  BY <1>2, MessageSource DEF MessageFrom
<1>3. ASSUME LoopStep PROVE dropped' = dropped
  BY <1>2, <1>3 DEF LoopStep, HandleJoin, HandleActivate, HandleLeave, HandleClose, TeardownDrain,
     TeardownRelease
<1>4. ASSUME SaveTick \/ IdleTick PROVE dropped' = dropped
  BY <1>4 DEF SaveTick, IdleTick, SaveTimerFires, IdleTimerFires
<1>5. ASSUME Environment PROVE dropped' = dropped
  BY <1>5 DEF Environment, CloseRoom, HandlePeer, HandlerPanics, FlushPanics, Crash
<1> QED BY <1>1, <1>3, <1>4, <1>5 DEF Next

\* The history of what was sent only grows.
LEMMA SentSteps ==
  ASSUME TypeOK, ChannelInv, [Next]_vars, NEW c \in Conns
  PROVE  /\ \A j \in 1..Len(sent[c]) : sent'[c][j] = sent[c][j]
         /\ Len(sent[c]) \in Nat
         /\ \/ sent'[c] = sent[c]
            \/ /\ Len(sent'[c]) = Len(sent[c]) + 1 /\ sess[c] = "open"
               /\ \E f \in Updates \cup {Request} : Forward(c, f)
<1>1. ASSUME NEW d \in Conns, NEW f \in Updates \cup {Request}, Forward(d, f)
      PROVE  sent'[c] = IF c = d THEN Append(sent[c], f) ELSE sent[c]
  BY <1>1 DEF Forward, TypeOK
<1>2. sent'[c] = sent[c] \/ \E f \in Updates \cup {Request} : Forward(c, f) /\ sent'[c] = Append(sent[c], f)
  BY <1>1, FlightShrinks
<1>3. ASSUME NEW f \in Updates \cup {Request}, sent'[c] = Append(sent[c], f)
      PROVE  Len(sent'[c]) = Len(sent[c]) + 1 /\ \A j \in 1..Len(sent[c]) : sent'[c][j] = sent[c][j]
  BY <1>3, HistoryType
<1> QED BY <1>2, <1>3, HistoryType DEF Forward

\* A frame handed over without a loss is in flight.
LEMMA HandedOver ==
  ASSUME TypeOK, ChannelInv, NEW c \in Conns, ~dropped'[c],
         ForwardAdmitted(c) \/ \E f \in Updates \cup {Request} : Forward(c, f)
  PROVE  Len(sent'[c]) \in InFlight(c)'
<1>0. InFlight(c)' = {queue'[k].idx : k \in Messages(c)'}
                       \cup (IF sess'[c] \in Stuck THEN {Len(sent'[c])} ELSE {})
  BY DEF InFlight, Messages, Stuck
<1>1. ASSUME NEW i \in Nat, i = Len(sent'[c]), queue' = Append(queue, Message(c, i, dropped[c]))
      PROVE  Len(sent'[c]) \in InFlight(c)'
  <2> DEFINE cmd == Message(c, i, dropped[c])
  <2>1. cmd \in Commands /\ cmd.kind = "message" /\ cmd.conn = c /\ cmd.idx = i
    BY CommandType DEF Message, TypeOK
  <2> HIDE DEF cmd
  <2>2. Len(queue) \in Nat /\ Len(queue') = Len(queue) + 1 /\ queue'[Len(queue) + 1] = cmd
    BY <1>1, <2>1, ChannelAppend DEF cmd
  <2>3. Len(queue) + 1 \in Messages(c)'
    BY <2>1, <2>2 DEF Messages
  <2> QED BY <1>0, <1>1, <2>1, <2>2, <2>3
<1>2. CASE ForwardAdmitted(c)
  BY <1>1, <1>2, HistoryType DEF ForwardAdmitted, Enqueue
<1>3. ASSUME NEW f \in Updates \cup {Request}, Forward(c, f) PROVE Len(sent'[c]) \in InFlight(c)'
  <2>1. Len(sent'[c]) = Len(sent[c]) + 1 /\ Len(sent'[c]) \in Nat
    BY <1>3, HistoryType DEF Forward, TypeOK
  <2>2. CASE sess' = [sess EXCEPT ![c] = "blocked"]
    BY <1>0, <2>2 DEF Stuck, TypeOK
  <2>3. CASE dropped' = [dropped EXCEPT ![c] = TRUE]
    BY <2>3 DEF TypeOK
  <2>4. CASE queue' = Append(queue, Message(c, Len(sent[c]) + 1, dropped[c]))
    BY <1>1, <2>1, <2>4
  <2> QED BY <1>3, <2>2, <2>3, <2>4 DEF Forward, Enqueue
<1> QED BY <1>2, <1>3

\* A message of a member that stays one is in the document afterwards, or was nothing
\* to keep.
LEMMA HandledGot ==
  ASSUME TypeOK, ChannelInv, HandleMessage, NEW d \in Members', NEW n,
         Head(queue).conn = d, Head(queue).idx = n
  PROVE  Got(d, n)'
<1>1. PICK c \in Conns : \E i \in 1..Len(sent[c]) :
        \/ IgnoreMessage(c, i) \/ RateExceeded(c, i) \/ RefuseUpdate(c, i)
        \/ CandidateFailed(c, i) \/ ApplyUpdate(c, i) \/ HandleDurabilityRequest(c, i)
  BY DEF HandleMessage
<1>2. PICK i \in 1..Len(sent[c]) :
        \/ IgnoreMessage(c, i) \/ RateExceeded(c, i) \/ RefuseUpdate(c, i)
        \/ CandidateFailed(c, i) \/ ApplyUpdate(c, i) \/ HandleDurabilityRequest(c, i)
  BY <1>1
<1>3. MessageFrom(c, i)
  BY <1>2 DEF IgnoreMessage, RateExceeded, RefuseUpdate, CandidateFailed, ApplyUpdate,
     HandleDurabilityRequest
<1>4. d = c /\ n = i /\ sent' = sent /\ c \in Members'
  BY <1>3 DEF MessageFrom
<1>5. ~IgnoreMessage(c, i)
  BY <1>4 DEF IgnoreMessage, Members
<1>6. ~RateExceeded(c, i) /\ ~RefuseUpdate(c, i)
  <2>1. ASSUME RateExceeded(c, i) \/ RefuseUpdate(c, i) PROVE FALSE
    <3>1. PICK D : member' = DropMembers(D) /\ c \in D
      BY <2>1 DEF RateExceeded, RefuseUpdate, Disconnect
    <3>2. member'[c] = NoMember
      BY <3>1, DropEffect
    <3> QED BY <1>4, <3>2 DEF Members, NoMember
  <2> QED BY <2>1
<1>7. CASE CandidateFailed(c, i)
  BY <1>4, <1>7 DEF CandidateFailed, Got
<1>8. CASE ApplyUpdate(c, i)
  BY <1>4, <1>8 DEF ApplyUpdate, ApplyToDoc, Got
<1>9. CASE HandleDurabilityRequest(c, i)
  BY <1>4, <1>9 DEF HandleDurabilityRequest, Got
<1> QED BY <1>2, <1>4, <1>5, <1>6, <1>7, <1>8, <1>9

\* A frame of a member stays in flight until the loop takes it or the session has
\* remembered its loss.
LEMMA FlightKept ==
  ASSUME TypeOK, ChannelInv, [Next]_vars, Active', NEW c \in Members, NEW f \in InFlight(c)
  PROVE  \/ f \in InFlight(c)'
         \/ dropped'[c] /\ f = Len(sent[c])
         \/ HandleMessage /\ Head(queue).conn = c /\ Head(queue).idx = f
<1>0. c \in Conns
  BY DEF Members
<1>1. /\ InFlight(c)' = {queue'[k].idx : k \in Messages(c)'}
                          \cup (IF sess'[c] \in Stuck THEN {Len(sent'[c])} ELSE {})
      /\ InFlight(c) = {queue[k].idx : k \in Messages(c)}
                         \cup (IF sess[c] \in Stuck THEN {Len(sent[c])} ELSE {})
  BY <1>0, FlightDef DEF InFlight, Messages, Stuck
<1>2. ASSUME NEW k \in Messages(c), f = queue[k].idx
      PROVE  f \in InFlight(c)' \/ (HandleMessage /\ Head(queue).conn = c /\ Head(queue).idx = f)
  <2>1. CASE \E l \in Messages(c)' : queue'[l] = queue[k]
    BY <1>1, <1>2, <2>1
  <2>2. CASE k = 1 /\ HandleMessage /\ Head(queue) = queue[1]
    BY <1>2, <2>2 DEF Messages
  <2> QED BY <2>1, <2>2, MessagesKept
<1>3. ASSUME sess[c] \in Stuck, f = Len(sent[c])
      PROVE  f \in InFlight(c)' \/ dropped'[c]
  <2>1. sent'[c] = sent[c]
    BY <1>0, <1>3, SentSteps DEF Stuck
  <2>2. CASE sess'[c] \in Stuck
    BY <1>1, <1>3, <2>1, <2>2
  <2>3. CASE sess'[c] \notin Stuck
    <3>1. dropped'[c] \/ ForwardAdmitted(c)
      BY <1>0, <1>3, <2>3, StuckSteps
    <3> QED BY <1>0, <1>3, <2>1, <3>1, HandedOver
  <2> QED BY <2>2, <2>3
<1> QED BY <1>1, <1>2, <1>3

\* A member that a step leaves in place keeps its cover.
LEMMA CoverKept ==
  ASSUME TypeOK, ChannelInv, [Next]_vars, Active, Active', NEW c \in Members, c \in Members', CoverOf(c)
  PROVE  CoverOf(c)'
<1>0. c \in Conns
  BY DEF Members
<1>2. \A j \in 1..Len(sent[c]) : Got(c, j) => Got(c, j)'
  <2>1. doc \subseteq doc'
    BY DocSteps DEF Active
  <2> QED BY <1>0, <2>1, SentSteps DEF Got
<1>3. ASSUME NEW f \in InFlight(c)
      PROVE  f \in InFlight(c)' \/ (dropped'[c] /\ f = Len(sent[c])) \/ Got(c, f)'
  BY FlightKept, HandledGot
<1>4. ASSUME ~dropped'[c], NEW j \in 1..Len(sent'[c]) PROVE Got(c, j)' \/ j \in InFlight(c)'
  <2>1. ~dropped[c]
    BY <1>0, <1>4, DroppedSteps
  <2>2. CASE j \in 1..Len(sent[c])
    BY <1>2, <1>3, <1>4, <2>1, <2>2 DEF CoverOf
  <2>3. CASE j \notin 1..Len(sent[c])
    <3>1. j = Len(sent'[c]) /\ \E f \in Updates \cup {Request} : Forward(c, f)
      BY <1>0, <2>3, SentSteps
    <3> QED BY <1>0, <1>4, <3>1, HandedOver
  <2> QED BY <2>2, <2>3
<1>5. ASSUME NEW l \in Messages(c)', ~queue'[l].lost, NEW j \in 1..(queue'[l].idx - 1)
      PROVE  Got(c, j)' \/ j \in InFlight(c)'
  <2>1. ASSUME NEW k \in Messages(c), queue'[l] = queue[k] PROVE Got(c, j)' \/ j \in InFlight(c)'
    <3>1. queue[k].idx \in 1..Len(sent[c]) /\ Len(sent[c]) \in Nat
      BY <1>0, HistoryType DEF ChannelInv, InOrder
    <3>2. j \in 1..Len(sent[c]) /\ j # Len(sent[c])
      BY <1>5, <2>1, <3>1
    <3>3. Got(c, j) \/ j \in InFlight(c)
      BY <1>5, <2>1 DEF CoverOf
    <3> QED BY <1>2, <1>3, <3>2, <3>3
  <2>2. ASSUME queue'[l].idx = Len(sent'[c]), queue'[l].lost = dropped[c], UNCHANGED dropped
        PROVE  Got(c, j)' \/ j \in InFlight(c)'
    <3>1. j \in 1..Len(sent'[c])
      BY <1>0, <1>5, <2>2, SentSteps
    <3> QED BY <1>4, <1>5, <2>2, <3>1
  <2> QED BY <2>1, <2>2, MessagesKept
<1> QED BY <1>4, <1>5 DEF CoverOf

\* What a request vouches for does not change while its client goes on sending.
LEMMA CoversKept ==
  ASSUME TypeOK, ChannelInv, [Next]_vars, NEW c \in Conns, NEW q \in Nat, q <= Len(sent[c])
  PROVE  Covers(c, q)' = Covers(c, q)
<1>1. \A j \in 1..(q - 1) : sent'[c][j] = sent[c][j]
  BY SentSteps
<1> QED BY <1>1 DEF Covers

\* A request that reaches the loop with no loss before it vouches for nothing the
\* document does not hold.
LEMMA HeadCovered ==
  ASSUME TypeOK, ChannelInv, CoverInv, NEW c \in Conns, NEW i \in 1..Len(sent[c]),
         HandleDurabilityRequest(c, i), ~Head(queue).lost
  PROVE  Covers(c, i) \ Undecodable \subseteq doc
<1>1. /\ Serving("message") /\ Take /\ Head(queue).conn = c /\ Head(queue).idx = i
      /\ UNCHANGED <<sess, sent>> /\ c \in Members
  BY DEF HandleDurabilityRequest, MessageFrom, sessVars
<1>2. \A f \in InFlight(c) : i <= f
  BY <1>1, FlightLands
<1>3. 1 \in Messages(c) /\ queue[1].idx = i /\ ~queue[1].lost
  BY <1>1, ChannelTail DEF Messages, Serving
<1>4. CoverOf(c)
  BY <1>1 DEF CoverInv, Serving
<1>5. ASSUME NEW j \in 1..(i - 1) PROVE Got(c, j)
  <2>1. Got(c, j) \/ j \in InFlight(c)
    BY <1>3, <1>4 DEF CoverOf
  <2>2. j < i
    BY HistoryType
  <2> QED BY <1>2, <2>1, <2>2, HistoryType
<1> QED BY <1>5 DEF Covers, Got

\* Whoever is a member afterwards was one, or has just joined with nothing sent.
LEMMA MemberSteps ==
  ASSUME TypeOK, ChannelInv, [Next]_vars, NEW c \in Members'
  PROVE  c \in Conns /\ (c \in Members \/ (sent'[c] = <<>> /\ InFlight(c)' = {} /\ Messages(c)' = {}))
<1>0. c \in Conns /\ member'[c].in
  BY DEF Members
<1>1. CASE HandleJoin
  <2> DEFINE d == Head(queue).conn
  <2>1. /\ queue # <<>> /\ Take /\ Head(queue).kind = "join" /\ d \in Conns /\ UNCHANGED sent
        /\ \A e \in Conns \ {d} : member'[e] = member[e] /\ sess'[e] = sess[e]
        /\ sess'[d] \in {"over", "joined"}
    BY <1>1, ServingType DEF HandleJoin, Serving, TypeOK
  <2>2. sess[d] = "joining"
    BY <2>1, ChannelTail DEF ChannelInv, JoinsOnce
  <2>3. sent[d] = <<>>
    BY <2>1, <2>2 DEF ChannelInv, JoinsOnce
  <2>4. ChannelInv' /\ TypeOK'
    BY ChannelStep, TypeStep
  <2>5. CASE c = d
    <3>1. sent'[c] = <<>> /\ sess'[c] \in {"over", "joined"}
      BY <2>1, <2>3, <2>5
    <3>2. \A k \in Messages(c)' : queue'[k].idx \in 1..Len(sent'[c])
      BY <1>0, <2>4 DEF ChannelInv, InOrder
    <3>3. Messages(c)' = {}
      BY <3>1, <3>2
    <3>4. InFlight(c)' = {queue'[k].idx : k \in Messages(c)'}
                           \cup (IF sess'[c] \in Stuck THEN {Len(sent'[c])} ELSE {})
      BY DEF InFlight, Messages, Stuck
    <3>5. InFlight(c)' = {}
      BY <3>1, <3>3, <3>4 DEF Stuck
    <3> QED BY <1>0, <3>1, <3>3, <3>5
  <2>6. CASE c # d
    BY <1>0, <2>1, <2>6 DEF Members
  <2> QED BY <2>5, <2>6
<1>2. ASSUME NEW d \in Conns, NEW i \in 1..Len(sent[d]), HandleDurabilityRequest(d, i)
      PROVE  c \in Members
  <2>1. Parks(d, i) \/ AnswersNow(d, i) \/ Fades(c)
    BY <1>0, <1>2, RequestEffect
  <2>2. CASE Parks(d, i)
    BY <1>0, <2>2 DEF Parks, Members, TypeOK, MemberRecord
  <2> QED BY <1>0, <2>1, <2>2 DEF AnswersNow, Fades, Members
<1> QED BY <1>0, <1>1, <1>2, StepEffect DEF Fades, Members

\* Parked or answered, a request never vouches for more than the document holds.
LEMMA CoverStep ==
  ASSUME TypeOK, ChannelInv, AnswerInv, CoverInv, [Next]_vars
  PROVE  CoverInv'
<1>1. stored' \subseteq doc'
  BY DocSteps DEF CoverInv
<1>2. ASSUME NEW c \in Conns, NEW q \in Nat, q = member'[c].barrier
      PROVE  Covers(c, q)' \ Undecodable \subseteq doc'
  <2>1. CASE q = 0
    BY <2>1 DEF Covers
  <2>2. CASE q # 0 /\ q = member[c].barrier
    <3>1. q <= Len(sent[c]) /\ ~Absent(c)
      BY <2>2, HistoryType DEF AnswerInv, AnswersOf, Absent
    <3>2. doc \subseteq doc'
      BY <3>1, DocSteps DEF ChannelInv, JoinsOnce
    <3>3. Covers(c, q) \ Undecodable \subseteq doc
      BY <2>2 DEF CoverInv
    <3> QED BY <3>1, <3>2, <3>3, CoversKept
  <2>3. ASSUME NEW d \in Conns, NEW i \in 1..Len(sent[d]), HandleDurabilityRequest(d, i),
               q # 0, q # member[c].barrier
        PROVE  Covers(c, q)' \ Undecodable \subseteq doc'
    <3>1. Parks(d, i)
      BY <1>2, <2>3, RequestEffect DEF AnswersNow, Fades
    <3>2. \A e \in Conns : member'[e].barrier = IF e = d THEN i ELSE member[e].barrier
      BY <3>1 DEF Parks, TypeOK, MemberRecord
    <3>3. c = d /\ q = i /\ ~Head(queue).lost
      BY <1>2, <2>3, <3>1, <3>2 DEF Parks
    <3>4. Covers(c, q) \ Undecodable \subseteq doc
      BY <2>3, <3>3, HeadCovered
    <3>5. doc' = doc /\ sent' = sent
      BY <2>3 DEF HandleDurabilityRequest, MessageFrom
    <3> QED BY <3>4, <3>5 DEF Covers
  <2>4. CASE HandleJoin
    <3>1. Head(queue).conn \in Conns
      BY <2>4, ServingType DEF HandleJoin
    <3>2. \/ member' = member
          \/ member' = [member EXCEPT ![Head(queue).conn] = NewMember]
      BY <2>4 DEF HandleJoin
    <3>3. NewMember.barrier = 0
      BY DEF NewMember
    <3>4. q \in {0, member[c].barrier}
      BY <1>2, <3>1, <3>2, <3>3 DEF TypeOK
    <3> QED BY <2>1, <2>2, <3>4
  <2>5. CASE Fades(c)
    BY <1>2, <2>1, <2>2, <2>5 DEF Fades
  <2> QED BY <1>2, <2>1, <2>2, <2>3, <2>4, <2>5, StepEffect
<1>3. ASSUME NEW c \in Conns PROVE Covers(c, member[c].barrier)' \ Undecodable \subseteq doc'
  <2>1. member'[c].barrier \in Nat
    BY TypeStep, HistoryType DEF TypeOK, MemberRecord
  <2>2. PICK q \in Nat : q = member'[c].barrier
    BY <2>1
  <2>3. Covers(c, member[c].barrier)' = Covers(c, q)'
    BY <2>2 DEF Covers
  <2> QED BY <1>2, <2>2, <2>3
<1>4. ASSUME Active', NEW c \in Members' PROVE CoverOf(c)'
  <2>0. c \in Conns
    BY MemberSteps
  <2>1. CASE sent'[c] = <<>> /\ InFlight(c)' = {} /\ Messages(c)' = {}
    BY <2>1 DEF CoverOf
  <2>2. CASE c \in Members
    <3>1. Active
      <4>1. ~Absent(c)
        BY <2>2 DEF Members, Absent
      <4> QED BY <1>4, <2>0, <4>1, DocSteps DEF ChannelInv, JoinsOnce
    <3>2. CoverOf(c)
      BY <2>2, <3>1 DEF CoverInv
    <3> QED BY <1>4, <2>2, <3>1, <3>2, CoverKept
  <2> QED BY <2>1, <2>2, MemberSteps
<1> QED BY <1>1, <1>3, <1>4 DEF CoverInv

-----------------------------------------------------------------------------
(* The durability barrier                                                  *)

\* BarrierTruth of one connection, answer by answer.
TruthOf(c) ==
  \A j \in 1..Len(replies[c]) :
     replies[c][j].kind = "persisted" => Covers(c, replies[c][j].q) \ Undecodable \subseteq stored

\* At most one answer in a step, to a request not answered before, `persisted` only
\* with everything before the request stored.
LEMMA AnswerKinds ==
  ASSUME TypeOK, CleanIsDurable, ChannelInv, AnswerInv, CoverInv, [Next]_vars, NEW c \in Conns
  PROVE  \/ replies'[c] = replies[c]
         \/ \E q \in 1..Len(sent[c]), kind \in {"persisted", "failed"} :
              /\ sent[c][q] = Request
              /\ \A j \in 1..Len(replies[c]) : replies[c][j].q # q
              /\ replies'[c] = Append(replies[c], [q |-> q, kind |-> kind])
              /\ kind = "persisted" => Covers(c, q) \ Undecodable \subseteq stored'
<1> DEFINE Answered ==
      \E q \in 1..Len(sent[c]), kind \in {"persisted", "failed"} :
         /\ sent[c][q] = Request
         /\ \A j \in 1..Len(replies[c]) : replies[c][j].q # q
         /\ replies'[c] = Append(replies[c], [q |-> q, kind |-> kind])
         /\ kind = "persisted" => Covers(c, q) \ Undecodable \subseteq stored'
<1>0. AnswersOf(c) /\ stored \subseteq stored'
  BY DocSteps DEF AnswerInv, CoverInv
<1>1. ASSUME Settles(c) PROVE replies'[c] = replies[c] \/ Answered
  <2>1. ASSUME NEW kind \in {"persisted", "failed"}, NEW q \in Nat, q = member[c].barrier, q # 0,
               replies'[c] = Append(replies[c], [q |-> q, kind |-> kind]),
               kind = "persisted" => stored' = doc
        PROVE  Answered
    <3>1. /\ q \in 1..Len(sent[c]) /\ sent[c][q] = Request
          /\ \A j \in 1..Len(replies[c]) : replies[c][j].q # q
      BY <1>0, <2>1 DEF AnswersOf
    <3>2. Covers(c, q) \ Undecodable \subseteq doc
      BY <2>1 DEF CoverInv
    <3> QED BY <2>1, <3>1, <3>2
  <2>2. PICK q \in Nat : q = member[c].barrier
    BY HistoryType
  <2> HIDE DEF Answered
  <2> QED BY <1>1, <2>1, <2>2 DEF Settles
<1>2. ASSUME NEW d \in Conns, NEW i \in 1..Len(sent[d]), HandleDurabilityRequest(d, i)
      PROVE  replies'[c] = replies[c] \/ Answered
  <2>1. CASE Parks(d, i)
    BY <2>1 DEF Parks
  <2>2. CASE AnswersNow(d, i)
    <3>1. PICK kind \in {"persisted", "failed"} :
            /\ kind = "persisted" => ~Head(queue).lost /\ ~dirty
            /\ replies' = [replies EXCEPT ![d] = Append(@, [q |-> i, kind |-> kind])]
      BY <2>2 DEF AnswersNow
    <3>2. CASE c # d
      BY <3>1, <3>2 DEF TypeOK
    <3>3. CASE c = d
      <4>1. replies'[c] = Append(replies[c], [q |-> i, kind |-> kind])
        BY <3>1, <3>3 DEF TypeOK
      <4>2. ASSUME kind = "persisted" PROVE Covers(c, i) \ Undecodable \subseteq stored'
        <5>1. Active /\ doc = stored
          BY <1>2, <3>1, <4>2 DEF HandleDurabilityRequest, MessageFrom, Serving, CleanIsDurable
        <5>2. Covers(c, i) \ Undecodable \subseteq doc
          BY <1>2, <3>1, <3>3, <4>2, HeadCovered
        <5> QED BY <1>0, <5>1, <5>2
      <4>3. sent[c][i] = Request /\ i \in 1..Len(sent[c])
        BY <1>2, <3>3 DEF HandleDurabilityRequest
      <4>4. i \in InFlight(c)
        BY <1>2, <3>3, FlightLands DEF HandleDurabilityRequest, MessageFrom, sessVars
      <4>5. \A j \in 1..Len(replies[c]) : replies[c][j].q # i
        BY <1>0, <4>3, <4>4, HistoryType DEF AnswersOf
      <4> QED BY <4>1, <4>2, <4>3, <4>5
    <3> QED BY <3>2, <3>3
  <2> HIDE DEF Answered
  <2> QED BY <1>1, <1>2, <2>1, <2>2, RequestEffect
<1>3. ASSUME HandleJoin PROVE replies'[c] = replies[c]
  BY <1>3 DEF HandleJoin
<1> HIDE DEF Answered
<1>4. replies'[c] = replies[c] \/ Answered
  BY <1>1, <1>2, <1>3, StepEffect
<1> QED BY <1>4 DEF Answered

\* What was answered once stays answered, and stays true.
LEMMA TruthStep ==
  ASSUME TypeOK, CleanIsDurable, ChannelInv, AnswerInv, CoverInv, [Next]_vars,
         NEW c \in Conns, TruthOf(c)
  PROVE  TruthOf(c)'
<1>0. stored \subseteq stored'
  BY DocSteps DEF CoverInv
<1>1. ASSUME NEW j \in 1..Len(replies[c]), replies[c][j].kind = "persisted",
             NEW q, q = replies[c][j].q
      PROVE  Covers(c, q)' \ Undecodable \subseteq stored'
  <2>1. q \in Nat /\ q <= Len(sent[c])
    BY <1>1, HistoryType DEF AnswerInv, AnswersOf
  <2>2. Covers(c, q) \ Undecodable \subseteq stored
    BY <1>1 DEF TruthOf
  <2> QED BY <1>0, <2>1, <2>2, CoversKept
<1> SUFFICES ASSUME NEW j \in 1..Len(replies'[c]), replies'[c][j].kind = "persisted",
                    NEW p, p = replies'[c][j].q
             PROVE  Covers(c, p)' \ Undecodable \subseteq stored'
  BY DEF TruthOf, Covers
<1>2. CASE replies'[c] = replies[c]
  BY <1>1, <1>2
<1>3. ASSUME NEW q \in 1..Len(sent[c]), NEW kind \in {"persisted", "failed"},
             replies'[c] = Append(replies[c], [q |-> q, kind |-> kind]),
             kind = "persisted" => Covers(c, q) \ Undecodable \subseteq stored'
      PROVE  Covers(c, p)' \ Undecodable \subseteq stored'
  <2>0. q \in Nat /\ q <= Len(sent[c])
    BY HistoryType
  <2>1. /\ Len(replies'[c]) = Len(replies[c]) + 1 /\ Len(replies[c]) \in Nat
        /\ \A k \in 1..Len(replies[c]) : replies'[c][k] = replies[c][k]
        /\ replies'[c][Len(replies[c]) + 1].q = q
        /\ replies'[c][Len(replies[c]) + 1].kind = kind
    BY <1>3, <2>0, ReplyAppend
  <2>2. CASE j \in 1..Len(replies[c])
    BY <1>1, <2>1, <2>2
  <2>3. CASE j = Len(replies[c]) + 1
    BY <1>3, <2>0, <2>1, <2>3, CoversKept
  <2> QED BY <2>1, <2>2, <2>3
<1> QED BY <1>2, <1>3, AnswerKinds

\* The whole invariant: the channel in order, answers older than what is in flight,
\* nothing vouched for that the document does not hold, nothing confirmed that the
\* store does not hold.
BarrierInv == ChannelInv /\ AnswerInv /\ CoverInv /\ \A c \in Conns : TruthOf(c)

\* The invariant holds initially.
LEMMA BarrierInit == Init => BarrierInv
<1> SUFFICES ASSUME Init PROVE BarrierInv
  OBVIOUS
<1>1. ASSUME NEW c \in Conns
      PROVE  /\ Messages(c) = {} /\ InFlight(c) = {} /\ replies[c] = <<>> /\ sent[c] = <<>>
             /\ member[c].barrier = 0
             /\ sess[c] \in {"new", "joining"} => ~member[c].in
             /\ sess[c] \notin Stuck
  BY DEF Init, Messages, InFlight, NoMember, OpenMember, Stuck
<1>2. ChannelInv
  BY <1>1 DEF Init, ChannelInv, InOrder, JoinsOnce, Absent, Stuck
<1>3. AnswerInv
  BY <1>1 DEF AnswerInv, AnswersOf
<1>4. CoverInv
  <2>1. ASSUME NEW c \in Conns PROVE Covers(c, member[c].barrier) = {} /\ CoverOf(c)
    BY <1>1 DEF Covers, CoverOf
  <2> QED BY <2>1 DEF Init, CoverInv, Members
<1>5. \A c \in Conns : TruthOf(c)
  BY <1>1 DEF TruthOf
<1> QED BY <1>2, <1>3, <1>4, <1>5 DEF BarrierInv

\* Every step keeps the invariant, given that a clean room is durable.
LEMMA BarrierStep == TypeOK /\ CleanIsDurable /\ BarrierInv /\ [Next]_vars => BarrierInv'
BY ChannelStep, AnswerStep, CoverStep, TruthStep DEF BarrierInv

\* The invariant holds in every reachable state.
LEMMA BarrierInvariant == Spec => []BarrierInv
BY BarrierInit, BarrierStep, TypeCorrect, CleanTheorem, PTL DEF Spec

\* `persisted` is never a lie, for any number of clients, frames, rooms and capacity of
\* the channel: whatever the client sent before the request (handleDurabilityRequest)
\* and could be decoded is in the checkpoint store, through backpressure losses, failed
\* and retried flushes, panics, crashes and later rooms.
THEOREM BarrierTheorem == Spec => []BarrierTruth
<1>1. BarrierInv => BarrierTruth
  BY DEF BarrierInv, TruthOf, BarrierTruth, Replies
<1> QED BY <1>1, BarrierInvariant, PTL

\* The room implements the durability barrier: seen from its clients, every step is a
\* frame sent, a stutter, or updates stored and requests answered the way
\* DurabilityBarrier allows, each at most once and `persisted` only when it is true.
THEOREM RefinementTheorem == Spec => RefinesBarrier
<1>1. Init => Barrier!Init
  BY DEF Init, Barrier!Init
<1>2. ASSUME TypeOK, CleanIsDurable, BarrierInv, [Next]_vars
      PROVE  [Barrier!Next]_Barrier!vars
  <2> USE DEF BarrierInv
  <2>1. ASSUME NEW d \in Conns, NEW f \in Updates \cup {Request}, Forward(d, f)
        PROVE  Barrier!Send(d, f)
    BY <2>1 DEF Forward, Barrier!Send, roomVars, storeVars
  <2>2. CASE ~\E d \in Conns : \E f \in Updates \cup {Request} : Forward(d, f)
    <3>1. UNCHANGED sent
      <4>1. CASE Conns = {}
        BY <1>2, <4>1, TypeStep DEF TypeOK
      <4>2. CASE Conns # {}
        BY <1>2, <2>2, <4>2, FlightShrinks
      <4> QED BY <4>1, <4>2
    <3>2. stored \subseteq stored' /\ stored' \subseteq Updates /\ DOMAIN replies' = Conns
      BY <1>2, DocSteps, TypeStep DEF TypeOK, CoverInv
    <3>3. ASSUME NEW c \in Conns, NEW q \in 1..Len(sent[c]), NEW kind \in {"persisted", "failed"},
                 sent[c][q] = Request, \A j \in 1..Len(replies[c]) : replies[c][j].q # q,
                 replies'[c] = Append(replies[c], [q |-> q, kind |-> kind]),
                 kind = "persisted" => Covers(c, q) \ Undecodable \subseteq stored'
          PROVE  Barrier!Answered(c, q, kind)
      BY <3>3 DEF Barrier!Answered, Barrier!CoveredBy, Covers
    <3>4. \A c \in Conns :
            \/ replies'[c] = replies[c]
            \/ \E q \in 1..Len(sent[c]), kind \in {"persisted", "failed"} : Barrier!Answered(c, q, kind)
      BY <1>2, <3>3, AnswerKinds
    <3> QED BY <3>1, <3>2, <3>4 DEF Barrier!Next, Barrier!Settle
  <2> QED BY <2>1, <2>2 DEF Barrier!Next
<1>3. TypeOK /\ CleanIsDurable /\ BarrierInv /\ [Next]_vars => [Barrier!Next]_Barrier!vars
  BY <1>2
<1> QED BY <1>1, <1>3, TypeCorrect, CleanTheorem, BarrierInvariant, PTL
        DEF Spec, RefinesBarrier, Barrier!Spec

-----------------------------------------------------------------------------
(* No request is forgotten                                                 *)

\* Removing a parked request, whatever the step.
LEMMA AccountSteps ==
  ASSUME TypeOK, ChannelInv, [Next]_vars, NEW c \in Conns
  PROVE  Accounts(c)
<1>1. CASE HandleJoin
  <2> DEFINE d == Head(queue).conn
  <2>1. /\ queue # <<>> /\ Take /\ Head(queue).kind = "join" /\ d \in Conns
        /\ \A e \in Conns \ {d} : member'[e] = member[e]
    BY <1>1, ServingType DEF HandleJoin, Serving, TypeOK
  <2>2. sess[d] = "joining"
    BY <2>1, ChannelTail DEF ChannelInv, JoinsOnce
  <2>3. member[d].barrier = 0
    BY <2>1, <2>2 DEF ChannelInv, JoinsOnce, Absent
  <2> QED BY <2>1, <2>3 DEF Accounts
<1>2. ASSUME NEW d \in Conns, NEW i \in 1..Len(sent[d]), HandleDurabilityRequest(d, i)
      PROVE  Accounts(c)
  <2>1. CASE Parks(d, i)
    <3>1. member'[c].barrier = IF c = d THEN i ELSE member[c].barrier
      BY <2>1 DEF Parks, TypeOK, MemberRecord
    <3>2. member[d].barrier = 0
      BY <2>1 DEF Parks
    <3> QED BY <3>1, <3>2 DEF Accounts
  <2>2. CASE AnswersNow(d, i)
    BY <2>2 DEF AnswersNow, Accounts
  <2> QED BY <1>2, <2>1, <2>2, RequestEffect
<1> QED BY <1>1, <1>2, StepEffect

\* A parked request is never silently forgotten: the step that takes it off a reachable
\* member answers it, also when that step refuses another update of the member, drops
\* members behind a dead connection, escalates or tears the room down.
THEOREM ParkedTheorem == Spec => ParkedIsAnswered
<1>1. ASSUME TypeOK, ChannelInv, [Next]_vars, NEW c \in Conns,
             member[c].barrier # 0, member'[c].barrier = 0, c \in Reachable,
             phase' # "closed", ended'[c] # "update-rate-exceeded"
      PROVE  \E r \in Replies(c)' : r.q = member[c].barrier
  <2>1. PICK kind \in {"persisted", "failed"} :
          replies'[c] = Append(replies[c], [q |-> member[c].barrier, kind |-> kind])
    BY <1>1, AccountSteps DEF Accounts
  <2>2. PICK b \in Nat : b = member[c].barrier
    BY <1>1, HistoryType
  <2>3. /\ Len(replies'[c]) = Len(replies[c]) + 1 /\ Len(replies[c]) \in Nat
        /\ replies'[c][Len(replies[c]) + 1].q = b
    BY <1>1, <2>1, <2>2, ReplyAppend
  <2>4. replies'[c][Len(replies[c]) + 1] \in Replies(c)'
    BY <2>3 DEF Replies
  <2> QED BY <2>2, <2>3, <2>4
<1>2. TypeOK /\ BarrierInv /\ [Next]_vars
        => [\A c \in Conns :
              /\ member[c].barrier # 0 /\ member'[c].barrier = 0
              /\ c \in Reachable
              /\ phase' # "closed"
              /\ ended'[c] # "update-rate-exceeded"
              => \E r \in Replies(c)' : r.q = member[c].barrier]_vars
  BY <1>1 DEF BarrierInv
<1> QED BY <1>2, TypeCorrect, BarrierInvariant, PTL DEF Spec, ParkedIsAnswered

\* Answers are never taken back.
LEMMA RepliesGrow ==
  ASSUME TypeOK, CleanIsDurable, BarrierInv, [Next]_vars, NEW c \in Conns,
         NEW j \in 1..Len(replies[c])
  PROVE  j \in 1..Len(replies'[c]) /\ replies'[c][j] = replies[c][j]
<1>1. ASSUME NEW q \in 1..Len(sent[c]), NEW kind \in {"persisted", "failed"},
             replies'[c] = Append(replies[c], [q |-> q, kind |-> kind])
      PROVE  j \in 1..Len(replies'[c]) /\ replies'[c][j] = replies[c][j]
  <2>1. q \in Nat
    BY HistoryType
  <2> QED BY <1>1, <2>1, ReplyAppend
<1> QED BY <1>1, AnswerKinds DEF BarrierInv

\* The requests of a healthy member: in flight, parked, or answered.
RequestsKept ==
  \A c \in Conns : Active /\ c \in Members \cap Reachable /\ ~dropped[c] =>
     \A i \in 1..Len(sent[c]) : sent[c][i] = Request =>
        \/ i \in InFlight(c)
        \/ i = member[c].barrier
        \/ \E j \in 1..Len(replies[c]) : replies[c][j].q = i

\* Every step keeps account of the requests of a healthy member.
LEMMA RequestsStep ==
  ASSUME TypeOK, CleanIsDurable, BarrierInv, RequestsKept, [Next]_vars
  PROVE  RequestsKept'
<1> USE DEF BarrierInv
<1> SUFFICES ASSUME NEW c \in Conns, Active', c \in Members', c \in Reachable', ~dropped'[c],
                    NEW i \in 1..Len(sent'[c]), sent'[c][i] = Request
             PROVE  \/ i \in InFlight(c)'
                    \/ i = member'[c].barrier
                    \/ \E j \in 1..Len(replies'[c]) : replies'[c][j].q = i
  BY DEF RequestsKept
<1>1. c \in Members
  <2>1. CASE sent'[c] = <<>>
    BY <2>1
  <2> QED BY <2>1, MemberSteps
<1>2. Active /\ ~dropped[c] /\ c \in Reachable
  <2>1. ~Absent(c)
    BY <1>1 DEF Members, Absent
  <2> QED BY <2>1, DocSteps, DroppedSteps, ReachableShrinks DEF ChannelInv, JoinsOnce
<1>3. CASE i \notin 1..Len(sent[c])
  <2>1. i = Len(sent'[c]) /\ \E f \in Updates \cup {Request} : Forward(c, f)
    BY <1>3, SentSteps
  <2> QED BY <2>1, HandedOver
<1>4. CASE i \in 1..Len(sent[c])
  <2>0. sent[c][i] = Request
    BY <1>4, SentSteps
  <2>1. ASSUME HandleMessage, Head(queue).conn = c, Head(queue).idx = i
        PROVE  \/ i = member'[c].barrier
               \/ \E j \in 1..Len(replies'[c]) : replies'[c][j].q = i
    <3>1. HandleDurabilityRequest(c, i)
      <4>1. PICK d \in Conns : \E n \in 1..Len(sent[d]) :
              \/ IgnoreMessage(d, n) \/ RateExceeded(d, n) \/ RefuseUpdate(d, n)
              \/ CandidateFailed(d, n) \/ ApplyUpdate(d, n) \/ HandleDurabilityRequest(d, n)
        BY <2>1 DEF HandleMessage
      <4>2. PICK n \in 1..Len(sent[d]) :
              \/ IgnoreMessage(d, n) \/ RateExceeded(d, n) \/ RefuseUpdate(d, n)
              \/ CandidateFailed(d, n) \/ ApplyUpdate(d, n) \/ HandleDurabilityRequest(d, n)
        BY <4>1
      <4>3. MessageFrom(d, n)
        BY <4>2 DEF IgnoreMessage, RateExceeded, RefuseUpdate, CandidateFailed, ApplyUpdate,
           HandleDurabilityRequest
      <4>4. d = c /\ n = i
        BY <2>1, <4>3 DEF MessageFrom
      <4>5. ~RateExceeded(c, i)
        <5>1. ASSUME RateExceeded(c, i) PROVE FALSE
          <6>1. PICK D : member' = DropMembers(D) /\ c \in D
            BY <5>1 DEF RateExceeded, Disconnect
          <6>2. member'[c] = NoMember
            BY <6>1, DropEffect
          <6> QED BY <6>2 DEF Members, NoMember
        <5> QED BY <5>1
      <4>6. ~IgnoreMessage(c, i) /\ ~RefuseUpdate(c, i) /\ ~CandidateFailed(c, i) /\ ~ApplyUpdate(c, i)
        BY <1>1, <2>0, RoomAssumption DEF IgnoreMessage, RefuseUpdate, CandidateFailed, ApplyUpdate
      <4> QED BY <4>2, <4>4, <4>5, <4>6
    <3>2. CASE RequestOutcome(c) = "park"
      <4>1. member' = [member EXCEPT ![c].barrier = i]
        BY <3>1, <3>2 DEF HandleDurabilityRequest
      <4> QED BY <4>1 DEF TypeOK, MemberRecord
    <3>3. CASE RequestOutcome(c) # "park"
      <4>1. replies'[c] = Append(replies[c], [q |-> i, kind |-> RequestOutcome(c)])
        BY <1>2, <3>1, <3>3 DEF HandleDurabilityRequest, TypeOK
      <4>2. RequestOutcome(c) \in {"persisted", "failed"} /\ i \in Nat
        BY <1>4, <3>3, HistoryType DEF RequestOutcome
      <4>3. PICK kind \in {"persisted", "failed"} : kind = RequestOutcome(c)
        BY <4>2
      <4>4. /\ Len(replies'[c]) = Len(replies[c]) + 1 /\ Len(replies[c]) \in Nat
            /\ replies'[c][Len(replies[c]) + 1].q = i
        BY <4>1, <4>2, <4>3, ReplyAppend
      <4> QED BY <4>4
    <3> QED BY <3>2, <3>3
  <2>2. CASE i \in InFlight(c)
    BY <1>1, <2>1, <2>2, FlightKept
  <2>3. CASE i = member[c].barrier
    <3>1. member[c].barrier # 0
      BY <1>4, <2>3, HistoryType
    <3>2. CASE member'[c].barrier = 0
      <4>1. phase' # "closed" /\ ended'[c] # "update-rate-exceeded"
        BY RoomAssumption DEF Active, Reachable
      <4>2. PICK kind \in {"persisted", "failed"} :
              replies'[c] = Append(replies[c], [q |-> i, kind |-> kind])
        BY <1>2, <2>3, <3>1, <3>2, <4>1, AccountSteps DEF Accounts
      <4>3. i \in Nat
        BY <1>4, HistoryType
      <4>4. /\ Len(replies'[c]) = Len(replies[c]) + 1 /\ Len(replies[c]) \in Nat
            /\ replies'[c][Len(replies[c]) + 1].q = i
        BY <4>2, <4>3, ReplyAppend
      <4> QED BY <4>4
    <3>3. CASE member'[c].barrier = member[c].barrier
      BY <2>3, <3>3
    <3>4. member'[c].barrier \in {0, member[c].barrier}
      <4>1. ASSUME HandleJoin PROVE member'[c].barrier \in {0, member[c].barrier}
        <5>1. Head(queue).conn \in Conns
          BY <4>1, ServingType DEF HandleJoin
        <5>2. \/ member' = member
              \/ member' = [member EXCEPT ![Head(queue).conn] = NewMember]
          BY <4>1 DEF HandleJoin
        <5>3. NewMember.barrier = 0
          BY DEF NewMember
        <5> QED BY <5>1, <5>2, <5>3 DEF TypeOK
      <4>2. ASSUME NEW d \in Conns, NEW n \in 1..Len(sent[d]), HandleDurabilityRequest(d, n)
            PROVE  member'[c].barrier \in {0, member[c].barrier}
        <5>1. CASE Parks(d, n)
          <6>1. c # d
            BY <3>1, <5>1 DEF Parks
          <6> QED BY <5>1, <6>1 DEF Parks, TypeOK
        <5> QED BY <4>2, <5>1, RequestEffect DEF AnswersNow, Fades
      <4> QED BY <4>1, <4>2, StepEffect DEF Fades
    <3> QED BY <3>2, <3>3, <3>4
  <2>4. ASSUME NEW j \in 1..Len(replies[c]), replies[c][j].q = i
        PROVE  \E k \in 1..Len(replies'[c]) : replies'[c][k].q = i
    BY <2>4, RepliesGrow
  <2>5. \/ i \in InFlight(c) \/ i = member[c].barrier
        \/ \E j \in 1..Len(replies[c]) : replies[c][j].q = i
    BY <1>1, <1>2, <1>4, <2>0 DEF RequestsKept
  <2> QED BY <2>2, <2>3, <2>4, <2>5
<1> QED BY <1>3, <1>4

\* "Exactly one outcome": a valid request of a healthy member waits in the channel, is
\* parked, or was answered, and no request is ever answered twice, for any interleaving
\* of forwards, refusals, joins, leaves, flushes and teardowns (failBarrier,
\* resolveBarriers, handleDurabilityRequest).
THEOREM AccountedTheorem == Spec => []RequestsAccounted
<1>1. Init => RequestsKept
  BY DEF Init, RequestsKept
<1>2. TypeOK /\ CleanIsDurable /\ BarrierInv /\ RequestsKept /\ [Next]_vars => RequestsKept'
  BY RequestsStep
<1>3. BarrierInv /\ RequestsKept => RequestsAccounted
  BY DEF BarrierInv, AnswerInv, AnswersOf, RequestsKept, RequestsAccounted, Replies
<1> QED BY <1>1, <1>2, <1>3, TypeCorrect, CleanTheorem, BarrierInvariant, PTL DEF Spec

=============================================================================
