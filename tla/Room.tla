-------------------------------- MODULE Room --------------------------------
(***************************************************************************)
(* One live document room (internal/domain/service/room.go, flush.go,      *)
(* presence.go, sync.go, lifecycle_state.go) and the sessions attached to  *)
(* it (manager.go, type Session), seen from the DURABILITY side: who is a  *)
(* member, which updates the live document and the two stores hold, which  *)
(* durability requests ("barriers") are open, which flush is scheduled and *)
(* how a room ends.                                                        *)
(*                                                                         *)
(* Every room runs one goroutine, the run loop; every action of the        *)
(* section "The run loop" is one iteration of its select, executed         *)
(* atomically: nothing else reads or writes the state it touches, except   *)
(* the command channel and the lifecycle word, which producers also see.   *)
(* Teardown is therefore split where a producer can notice it: lifecycle   *)
(* becomes Draining (first step), the final flush and the session ends     *)
(* (second), close(done) (third).                                          *)
(*                                                                         *)
(* Abstractions.  An update is an element of Updates and a document is the *)
(* set of updates it contains (a CRDT merge is a union).  The verdict of   *)
(* the size budget and the schema on an update is a property of the update *)
(* (TooLarge, SchemaBad, Undecodable).  Whether a member owns an awareness *)
(* id is not tracked: dropping it may or may not broadcast (see DropSets). *)
(***************************************************************************)
EXTENDS Naturals, Sequences, FiniteSets

CONSTANTS
  Conns,          \* the connections that may ever join
  Attached,       \* those that are members in the initial state
  Flaky,          \* those whose transport may fail
  Viewers,        \* those admitted read-only (model.ModeViewer)
  Updates,        \* the document updates there are
  PeerUpdates,    \* those another pod may deliver through the hub
  TooLarge,       \* those refused by the MaxDocBytes budget
  SchemaBad,      \* those refused by the content schema
  Undecodable,    \* those the validation shadow cannot decode
  Request,        \* a durability request frame
  None,           \* no session end
  MaxConns,       \* connections the room admits, 0 for no limit
  QueueCap,       \* capacity of the command channel (256 in the code)
  Threshold,      \* FlushFailureThreshold
  PeriodicSave,   \* SaveDebounce > 0
  Faults,         \* what may go wrong or end the room: a subset of FaultKinds
  MaxFrames,      \* bound: frames each connection sends
  MaxRooms        \* bound: rooms materialized for the document

\* "store": a save fails; "encode": EncodeStateAsUpdateV2 returns an error;
\* "throttle": a rate bucket is empty; "panic", "flushPanic": a message handler,
\* the final flush of a shutdown, panics; "crash": the process dies; "close",
\* "closeDeleted": Manager.Close, Manager.CloseDeleted reach this room.
FaultKinds == {"store", "encode", "throttle", "panic", "flushPanic", "crash",
               "close", "closeDeleted"}

ASSUME RoomAssumption ==
  /\ Attached \subseteq Conns /\ Flaky \subseteq Conns
  /\ Faults \subseteq FaultKinds
  /\ Viewers \subseteq Conns
  /\ PeerUpdates \subseteq Updates
  /\ TooLarge \subseteq Updates
  /\ SchemaBad \subseteq Updates
  /\ Undecodable \subseteq Updates
  /\ Request \notin Updates
  /\ None \notin {"server-shutdown", "document-deleted", "edits-not-saved",
                  "update-not-accepted", "update-rate-exceeded",
                  "document-size-limit-exceeded", "content-refused", "forbidden"}
  /\ MaxConns \in Nat
  /\ QueueCap \in Nat \ {0}
  /\ Threshold \in Nat \ {0}
  /\ MaxFrames \in [Conns -> Nat]
  /\ MaxRooms \in Nat
  /\ PeriodicSave \in BOOLEAN

VARIABLES
  phase,     \* where the run loop is: serving, draining, releasing, gone
  end,       \* the session-end code teardown was called with
  flushing,  \* whether teardown was given a flush to run
  queue,     \* the command channel
  member,    \* r.members: one record per connection
  doc,       \* the live document
  dirty,     \* r.dirty
  failures,  \* r.flushFailures
  saveArmed, \* the save timer is running
  idleArmed, \* the idle timer is running
  stored,    \* the document in the checkpoint store
  rooms,     \* rooms materialized so far (bounds the model)
  sess,      \* where each connection's serve goroutine is
  dropped,   \* Session.dropped
  up,        \* connections whose transport still accepts frames
  ended,     \* the session end each connection was sent first
  sent,      \* history: frames each client handed to its session, in order
  replies    \* history: durability answers each client was sent, in order

endVars == <<phase, end, flushing>>
docVars == <<doc, dirty, failures>>
timers == <<saveArmed, idleArmed>>
storeVars == <<stored, rooms>>
sessVars == <<sess, dropped, up>>
roomVars == <<endVars, member, docVars, timers, storeVars>>
vars == <<roomVars, queue, sessVars, ended, sent, replies>>

-----------------------------------------------------------------------------
(* Types                                                                   *)

DocumentEnds == {"server-shutdown", "document-deleted", "edits-not-saved"}
MemberEnds == {"update-not-accepted", "update-rate-exceeded",
               "document-size-limit-exceeded", "content-refused", "forbidden"}
EndCodes == DocumentEnds \cup MemberEnds

Phases == {"serve", "drain", "release", "closed", "wedged"}
SessionStates == {"new", "joining", "joined", "activating", "open",
                  "blocked", "refused", "over"}

\* roomMember, reduced to the fields the durability logic reads. barrier is the
\* position in sent[c] of the outstanding request, 0 for none. durabilityPoisoned
\* is left out: every handler that sets it disconnects the member before it
\* returns, so no later request ever finds it set.
MemberRecord == [in : BOOLEAN, pending : BOOLEAN, barrier : Nat]
NoMember == [in |-> FALSE, pending |-> FALSE, barrier |-> 0]
OpenMember == [in |-> TRUE, pending |-> FALSE, barrier |-> 0]
NewMember == [in |-> TRUE, pending |-> TRUE, barrier |-> 0]

\* command: idx is the position in sent[conn] of a message's frame, lost is the
\* Session.dropped flag the frame was forwarded with.
Message(c, i, l) == [kind |-> "message", conn |-> c, idx |-> i, lost |-> l]
Plain(k, c) == [kind |-> k, conn |-> c, idx |-> 0, lost |-> FALSE]
Commands ==
  [kind : {"join", "activate", "leave", "message"}, conn : Conns, idx : Nat, lost : BOOLEAN]
    \cup {Plain("close", None), Plain("closeDeleted", None)}

Active == phase = "serve"
Members == {c \in Conns : member[c].in}
Listeners == {c \in Conns : member[c].in /\ ~member[c].pending}

\* Conn.Send succeeds: the transport is up and no session end was queued yet.
Reachable == {c \in up : ended[c] = None}

\* The updates connection c sent before its i-th frame: what a durability
\* request in that position asks about.
Covers(c, i) == {sent[c][j] : j \in 1..(i - 1)} \ {Request}

Init ==
  /\ phase = "serve"
  /\ end = None
  /\ flushing = FALSE
  /\ queue = <<>>
  /\ member = [c \in Conns |-> IF c \in Attached THEN OpenMember ELSE NoMember]
  /\ doc = {}
  /\ dirty = FALSE
  /\ failures = 0
  /\ saveArmed = FALSE
  /\ idleArmed = FALSE
  /\ stored = {}
  /\ rooms = 1
  /\ sess = [c \in Conns |-> IF c \in Attached THEN "open" ELSE "new"]
  /\ dropped = [c \in Conns |-> FALSE]
  /\ up = Conns
  /\ ended = [c \in Conns |-> None]
  /\ sent = [c \in Conns |-> <<>>]
  /\ replies = [c \in Conns |-> <<>>]

-----------------------------------------------------------------------------
(* Sending, dropping and answering                                         *)

\* dropMember for every connection in D.
DropMembers(D) == [c \in Conns |-> IF c \in D THEN NoMember ELSE member[c]]

\* The members lost when every Send to a member of must fails. A dropped
\* listener that owned an awareness id broadcasts its removal, and that
\* broadcast drops every other listener whose Send fails.
DropSets(must) ==
  {must} \cup IF must \cap Listeners = {} THEN {}
              ELSE {must \cup (Listeners \ Reachable)}

\* broadcast(frame, except).
LostByBroadcast(except) == DropSets((Listeners \ Reachable) \ except)

\* One durability answer queued to every reachable connection of S.
Answer(S, kind) ==
  replies' = [c \in Conns |->
                IF c \in S \cap Reachable
                THEN Append(replies[c], [q |-> member[c].barrier, kind |-> kind])
                ELSE replies[c]]

Waiting == {c \in Conns : member[c].barrier # 0}
\* Mutant: barriers are answered but not cleared.
ClearNothing(mm) == mm

ClearBarriers(mm) == [c \in Conns |-> [mm[c] EXCEPT !.barrier = 0]]

\* resolveBarriers / failBarriers followed by a broadcast to the room: the
\* parked requests are cleared first, then answered, then D is dropped.
SettleBarriers(kind, D) ==
  /\ member' = ClearBarriers(DropMembers(D))
  /\ Answer(Waiting, kind)

\* Mutant: an emptied room is not put on the idle clock.
NeverArmIdle == idleArmed' = idleArmed

ArmIdleIfEmpty == idleArmed' = (idleArmed \/ \A c \in Conns : ~member'[c].in)

\* beginTeardown plus the choice of the ending: the loop stops serving.
BeginTeardown(code, flush) ==
  /\ phase' = "drain"
  /\ end' = code
  /\ flushing' = flush

KeepServing == UNCHANGED endVars

-----------------------------------------------------------------------------
(* Sessions: Manager.Join, Session.Activate, Forward and Leave             *)

HasRoom == Len(queue) < QueueCap

Enqueue(cmd) == queue' = Append(queue, cmd)

\* Manager.Join on a live room.
Join(c) ==
  /\ sess[c] = "new" /\ c \in up
  /\ Active /\ HasRoom
  /\ Enqueue(Plain("join", c))
  /\ sess' = [sess EXCEPT ![c] = "joining"]
  /\ UNCHANGED <<roomVars, dropped, up, ended, sent, replies>>

\* Session.Activate, once the initial batch was accepted by the transport.
Activate(c) ==
  /\ sess[c] = "joined" /\ c \in Reachable
  /\ Active /\ HasRoom
  /\ Enqueue(Plain("activate", c))
  /\ sess' = [sess EXCEPT ![c] = "activating"]
  /\ UNCHANGED <<roomVars, dropped, up, ended, sent, replies>>

\* Session.Forward up to its first non-blocking attempt: refused because the
\* room left Active, admitted, or blocked on a full channel.
Forward(c, frame) ==
  /\ sess[c] = "open" /\ c \in up
  /\ Len(sent[c]) < MaxFrames[c]
  /\ sent' = [sent EXCEPT ![c] = Append(@, frame)]
  /\ \/ /\ ~Active
        /\ dropped' = [dropped EXCEPT ![c] = TRUE]
        /\ UNCHANGED <<queue, sess>>
     \/ /\ Active /\ HasRoom
        /\ Enqueue(Message(c, Len(sent[c]) + 1, dropped[c]))
        /\ UNCHANGED <<dropped, sess>>
     \/ /\ Active /\ ~HasRoom
        /\ sess' = [sess EXCEPT ![c] = "blocked"]
        /\ UNCHANGED <<queue, dropped>>
  /\ UNCHANGED <<roomVars, up, ended, replies>>

\* The second select of enqueueWithReason: a slot frees. The lifecycle is not
\* read again, so a command may be admitted to a room that is draining.
ForwardAdmitted(c) ==
  /\ sess[c] = "blocked" /\ HasRoom
  /\ Enqueue(Message(c, Len(sent[c]), dropped[c]))
  /\ sess' = [sess EXCEPT ![c] = "open"]
  /\ UNCHANGED <<roomVars, dropped, up, ended, sent, replies>>

\* The deadline elapses: classifyRefusal reads the lifecycle once more.
ForwardTimesOut(c) ==
  /\ sess[c] = "blocked" /\ ~HasRoom
  /\ IF Active
     THEN /\ sess' = [sess EXCEPT ![c] = "refused"]
          /\ UNCHANGED dropped
     ELSE /\ dropped' = [dropped EXCEPT ![c] = TRUE]
          /\ sess' = [sess EXCEPT ![c] = "open"]
  /\ UNCHANGED <<roomVars, queue, up, ended, sent, replies>>

\* The tail of Forward after a backpressure refusal: poison the session and,
\* the first time, end it directly on its connection.
ForwardRefused(c) ==
  /\ sess[c] = "refused"
  /\ dropped' = [dropped EXCEPT ![c] = TRUE]
  /\ ended' = IF ~dropped[c] /\ c \in Reachable
              THEN [ended EXCEPT ![c] = "update-not-accepted"] ELSE ended
  /\ sess' = [sess EXCEPT ![c] = "open"]
  /\ UNCHANGED <<roomVars, queue, up, sent, replies>>

\* Session.Leave when serve returns because its connection closed or ended.
Leave(c) ==
  /\ sess[c] \in {"joined", "activating", "open"} /\ c \notin Reachable
  /\ \/ ~Active /\ UNCHANGED queue
     \/ Active /\ HasRoom /\ Enqueue(Plain("leave", c))
  /\ sess' = [sess EXCEPT ![c] = "over"]
  /\ UNCHANGED <<roomVars, dropped, up, ended, sent, replies>>

\* The same, the channel staying full past the deadline: nobody is told.
LeaveTimesOut(c) ==
  /\ sess[c] \in {"joined", "activating", "open"} /\ c \notin Reachable
  /\ Active /\ ~HasRoom
  /\ sess' = [sess EXCEPT ![c] = "over"]
  /\ UNCHANGED <<roomVars, queue, dropped, up, ended, sent, replies>>

\* The client goes away or its outbound buffer overflows.
ConnFails(c) ==
  /\ c \in up \cap Flaky /\ sess[c] \notin {"new", "over"}
  /\ up' = up \ {c}
  /\ UNCHANGED <<roomVars, queue, sess, dropped, ended, sent, replies>>

\* Manager.Close and Manager.CloseDeleted enqueue one closing command.
CloseRoom(kind) ==
  /\ kind \in Faults
  /\ Active /\ HasRoom
  /\ \A i \in 1..Len(queue) : queue[i].kind # kind
  /\ Enqueue(Plain(kind, None))
  /\ UNCHANGED <<roomVars, sessVars, ended, sent, replies>>

-----------------------------------------------------------------------------
(* The run loop: commands                                                  *)

Serving(kind) == Active /\ queue # <<>> /\ Head(queue).kind = kind

Take == queue' = Tail(queue)

\* handleJoin: the connection cap, then registration as a pending member.
RoomFull == MaxConns > 0 /\ Cardinality(Members) >= MaxConns

HandleJoin ==
  /\ Serving("join")
  /\ LET c == Head(queue).conn IN
     IF RoomFull
     THEN /\ sess' = [sess EXCEPT ![c] = "over"]
          /\ UNCHANGED member
     ELSE /\ member' = [member EXCEPT ![c] = NewMember]
          /\ sess' = [sess EXCEPT ![c] = "joined"]
  /\ idleArmed' = FALSE
  /\ Take
  /\ KeepServing
  /\ UNCHANGED <<docVars, saveArmed, storeVars, dropped, up, ended, sent, replies>>

\* handleActivate: room-user-change goes to every listener, the newcomer too.
HandleActivate ==
  /\ Serving("activate")
  /\ LET c == Head(queue).conn
         present == member[c].in
         lost == (Listeners \cup {c}) \ Reachable IN
     /\ member' = IF present
                  THEN [DropMembers(lost) EXCEPT
                          ![c].pending = FALSE]
                  ELSE member
     /\ sess' = IF sess[c] = "activating" THEN [sess EXCEPT ![c] = "open"] ELSE sess
  /\ Take
  /\ KeepServing
  /\ UNCHANGED <<docVars, timers, storeVars, dropped, up, ended, sent, replies>>

HandleLeave ==
  /\ Serving("leave")
  /\ LET c == Head(queue).conn IN
     \E D \in IF c \in Listeners THEN {{c} \cup (Listeners \ Reachable)} ELSE {{c}} :
        member' = DropMembers(D)
  /\ ArmIdleIfEmpty
  /\ Take
  /\ KeepServing
  /\ UNCHANGED <<docVars, saveArmed, storeVars, sessVars, ended, sent, replies>>

\* disconnect(c, code), after failMemberBarrier(c) when the member had a request
\* outstanding. An unreachable member may already be gone before disconnect
\* looks it up, and is then not announced.
Disconnect(c, code) ==
  /\ \E D \in {{c} \cup (Listeners \ Reachable)}
                \cup (IF c \in Reachable THEN {} ELSE {{c}}) :
        member' = DropMembers(D)
  /\ ended' = IF c \in Reachable THEN [ended EXCEPT ![c] = code] ELSE ended

MessageFrom(c, i) ==
  /\ Serving("message")
  /\ Head(queue).conn = c
  /\ Head(queue).idx = i
  /\ Take
  /\ KeepServing
  /\ UNCHANGED <<failures, storeVars, sessVars, sent>>

\* handleMessage: a source that is not a member any more is ignored.
IgnoreMessage(c, i) ==
  /\ MessageFrom(c, i)
  /\ c \notin Members
  /\ UNCHANGED <<member, doc, dirty, saveArmed, ended, replies>>
  /\ ArmIdleIfEmpty

\* handleMessage: the token bucket is empty. An outstanding request of the
\* offender is not answered.
RateExceeded(c, i) ==
  /\ "throttle" \in Faults
  /\ MessageFrom(c, i)
  /\ c \in Members
  /\ Disconnect(c, "update-rate-exceeded")
  /\ ArmIdleIfEmpty
  /\ UNCHANGED <<doc, dirty, saveArmed, replies>>

\* handleSync refusing a write, in the order of dispatchSync and applyUpdate:
\* not writable, too large, schema.
RefusalCode(c, u) ==
  IF c \in Viewers THEN "forbidden"
  ELSE IF u \in TooLarge THEN "document-size-limit-exceeded"
  ELSE IF u \in Undecodable THEN None
  ELSE IF u \in SchemaBad THEN "content-refused"
  ELSE None

\* Mutant: the offender's parked request is forgotten.
RefuseUpdateSilently(c, i) ==
  /\ MessageFrom(c, i)
  /\ c \in Members /\ sent[c][i] # Request
  /\ RefusalCode(c, sent[c][i]) # None
  /\ Disconnect(c, RefusalCode(c, sent[c][i]))
  /\ ArmIdleIfEmpty
  /\ UNCHANGED <<doc, dirty, saveArmed, replies>>

RefuseUpdate(c, i) ==
  /\ MessageFrom(c, i)
  /\ c \in Members /\ sent[c][i] # Request
  /\ RefusalCode(c, sent[c][i]) # None
  /\ Answer({c} \cap Waiting, "failed")
  /\ Disconnect(c, RefusalCode(c, sent[c][i]))
  /\ ArmIdleIfEmpty
  /\ UNCHANGED <<doc, dirty, saveArmed>>

\* applyCandidateFailed: the shadow could not decode the bytes; nothing landed
\* and the connection stays open.
CandidateFailed(c, i) ==
  /\ MessageFrom(c, i)
  /\ c \in Members /\ sent[c][i] \in Undecodable
  /\ RefusalCode(c, sent[c][i]) = None
  /\ UNCHANGED <<member, doc, dirty, saveArmed, ended, replies>>
  /\ ArmIdleIfEmpty

\* An update that lands: the observer sets dirty and broadcasts only when the
\* document did not contain it already; the save timer is armed on the
\* clean-to-dirty edge alone.
ApplyToDoc(u, except) ==
  /\ doc' = doc \cup {u}
  /\ dirty' = (dirty \/ u \notin doc)
  /\ saveArmed' = (saveArmed \/ (PeriodicSave /\ dirty' /\ ~dirty))
  /\ IF u \in doc THEN UNCHANGED member
     ELSE \E D \in LostByBroadcast(except) : member' = DropMembers(D)

ApplyUpdate(c, i) ==
  /\ MessageFrom(c, i)
  /\ c \in Members /\ sent[c][i] \in Updates \ Undecodable
  /\ RefusalCode(c, sent[c][i]) = None
  /\ ApplyToDoc(sent[c][i], {c})
  /\ ArmIdleIfEmpty
  /\ UNCHANGED <<ended, replies>>

\* handleDurabilityRequest, for a member and a valid request id.
RequestRefused(c) ==
  \/ Head(queue).lost
  \/ c \in Viewers
  \/ member[c].barrier # 0

RequestOutcome(c) ==
  IF RequestRefused(c) THEN "failed"
  ELSE IF ~dirty THEN "persisted"
  ELSE IF ~PeriodicSave THEN "failed"
  ELSE "park"

HandleDurabilityRequest(c, i) ==
  /\ MessageFrom(c, i)
  /\ c \in Members /\ sent[c][i] = Request
  /\ IF RequestOutcome(c) = "park"
     THEN /\ member' = [member EXCEPT ![c].barrier = i]
          /\ UNCHANGED replies
     ELSE IF c \in Reachable
     THEN /\ replies' = [replies EXCEPT ![c] =
                           Append(@, [q |-> i, kind |-> RequestOutcome(c)])]
          /\ UNCHANGED member
     ELSE /\ \E D \in DropSets({c}) : member' = DropMembers(D)
          /\ UNCHANGED replies
  /\ ArmIdleIfEmpty
  /\ UNCHANGED <<doc, dirty, saveArmed, ended>>

HandleMessage ==
  \E c \in Conns : \E i \in 1..Len(sent[c]) :
     \/ IgnoreMessage(c, i)
     \/ RateExceeded(c, i)
     \/ RefuseUpdate(c, i)
     \/ CandidateFailed(c, i)
     \/ ApplyUpdate(c, i)
     \/ HandleDurabilityRequest(c, i)

\* Mutant: an owner delete flushes like a shutdown.
HandleCloseFlushing ==
  /\ \/ Serving("closeDeleted") /\ BeginTeardown("document-deleted", TRUE)
     \/ Serving("close") /\ BeginTeardown("server-shutdown", TRUE)
  /\ Take
  /\ UNCHANGED <<member, docVars, timers, storeVars, sessVars, ended, sent, replies>>

\* cmdCloseDeleted tears down without a flush, cmdClose with one.
HandleClose ==
  /\ \/ Serving("closeDeleted") /\ BeginTeardown("document-deleted", FALSE)
     \/ Serving("close") /\ BeginTeardown("server-shutdown", TRUE)
  /\ Take
  /\ UNCHANGED <<member, docVars, timers, storeVars, sessVars, ended, sent, replies>>

\* Mutant: recover tears down the way a shutdown does, with a flush.
HandlerPanicsFlushing ==
  /\ "panic" \in Faults
  /\ Serving("message")
  /\ \E c \in Members : \E i \in 1..Len(sent[c]) :
       /\ Head(queue).conn = c /\ Head(queue).idx = i /\ sent[c][i] # Request
       /\ doc' = doc \cup {sent[c][i]} /\ dirty' = TRUE
  /\ Take
  /\ BeginTeardown("edits-not-saved", TRUE)
  /\ UNCHANGED <<member, failures, timers, storeVars, sessVars, ended, sent, replies>>

\* A handler panics before or half way through applying a message; the deferred
\* recover tears the room down without a flush.
HandlerPanics ==
  /\ "panic" \in Faults
  /\ Serving("message")
  /\ \E c \in Conns : \E i \in 1..Len(sent[c]) :
       /\ Head(queue).conn = c /\ Head(queue).idx = i
       /\ \/ UNCHANGED <<doc, dirty>>
          \/ /\ c \in Members /\ sent[c][i] # Request
             /\ doc' = doc \cup {sent[c][i]} /\ dirty' = TRUE
  /\ Take
  /\ BeginTeardown("edits-not-saved", FALSE)
  /\ UNCHANGED <<member, failures, timers, storeVars, sessVars, ended, sent, replies>>

\* handlePeer: an update of another pod is never refused for its size, and the
\* idle timer is not armed even when its broadcast empties the room.
HandlePeer(u) ==
  /\ Active
  /\ u \in PeerUpdates \ (Undecodable \cup SchemaBad)
  /\ ApplyToDoc(u, {})
  /\ KeepServing
  /\ UNCHANGED <<queue, failures, idleArmed, storeVars, sessVars, ended, sent, replies>>

-----------------------------------------------------------------------------
(* The run loop: flushes, timers and teardown                              *)

\* What one persist call may do: both stores accept; the save fails with
\* nothing written; the checkpoint is written and the call fails all the same
\* (a late error of the store, or the metadata save after it).
FlushOutcomes == {"saved"}
  \cup (IF "store" \in Faults THEN {"failed", "writtenButFailed"} ELSE {})
  \cup (IF "encode" \in Faults THEN {"encodeFailed"} ELSE {})

\* Mutant: dirty is cleared whatever the outcome.
StoreFlushClearsDirty(o) ==
  /\ stored' = IF dirty /\ o \in {"saved", "writtenButFailed"} THEN doc ELSE stored
  /\ dirty' = FALSE
  /\ failures' = IF ~dirty THEN failures ELSE IF o = "saved" THEN 0 ELSE failures + 1

\* The durable effect of persist, a no-op on a clean document.
StoreFlush(o) ==
  /\ stored' = IF dirty /\ o \in {"saved", "writtenButFailed"} THEN doc ELSE stored
  /\ dirty' = (dirty /\ o # "saved")
  /\ failures' = IF ~dirty \/ o = "encodeFailed" THEN failures
                 ELSE IF o = "saved" THEN 0 ELSE failures + 1

FlushFailed(o) == dirty /\ o \in {"failed", "writtenButFailed"}
Escalates(o) == FlushFailed(o) /\ failures + 1 >= Threshold

\* persist with the room still serving: barriers are resolved or failed, then
\* the outcome is broadcast, except by the failure that escalates.
Persist(o) ==
  /\ StoreFlush(o)
  /\ IF ~dirty THEN UNCHANGED <<member, replies>>
     ELSE IF o = "encodeFailed"
     THEN member' = DropMembers(Listeners \ Reachable) /\ UNCHANGED replies
     ELSE IF Escalates(o)
     THEN \E D \in DropSets(Waiting \ Reachable) : SettleBarriers("failed", D)
     ELSE SettleBarriers(IF o = "saved" THEN "persisted" ELSE "failed",
                         Listeners \ Reachable)

\* Mutant: a failed flush is not retried.
NeverRetry == FALSE

\* armRetryTimer.
RetryArmed == PeriodicSave /\ dirty' /\ failures' > 0

SaveTimerFires(o) ==
  /\ Active /\ saveArmed
  /\ Persist(o)
  /\ IF Escalates(o) THEN BeginTeardown("edits-not-saved", FALSE) ELSE KeepServing
  /\ saveArmed' = (RetryArmed /\ ~Escalates(o))
  /\ UNCHANGED <<queue, doc, idleArmed, rooms, sessVars, ended, sent>>

\* releaseIfEmpty: flush, then stay while a retry can still save the document,
\* else tear down.
IdleTimerFires(o) ==
  /\ Active /\ idleArmed
  /\ IF Members # {}
     THEN /\ idleArmed' = FALSE
          /\ KeepServing
          /\ UNCHANGED <<member, dirty, failures, saveArmed, stored, replies>>
     ELSE /\ Persist(o)
          /\ idleArmed' = (RetryArmed /\ ~Escalates(o))
          /\ saveArmed' = (saveArmed \/ (RetryArmed /\ ~Escalates(o)))
          /\ IF Escalates(o) THEN BeginTeardown("edits-not-saved", FALSE)
             ELSE IF RetryArmed THEN KeepServing
             ELSE BeginTeardown("server-shutdown", FALSE)
  /\ UNCHANGED <<queue, doc, rooms, sessVars, ended, sent>>

\* teardown after beginTeardown: the flush it was given, then every barrier is
\* failed, then every member is sent the end and forgotten. An escalation inside
\* this flush finds the teardown already claimed and changes nothing.
TeardownDrain(o) ==
  /\ phase = "drain"
  /\ IF flushing THEN StoreFlush(o) ELSE UNCHANGED <<stored, dirty, failures>>
  /\ Answer(Waiting, IF flushing /\ dirty /\ o = "saved" THEN "persisted" ELSE "failed")
  /\ ended' = [c \in Conns |-> IF c \in Members \cap Reachable THEN end ELSE ended[c]]
  /\ member' = [c \in Conns |-> NoMember]
  /\ phase' = "release"
  /\ UNCHANGED <<end, flushing, queue, doc, timers, rooms, sessVars, sent>>

\* The final flush panics: the deferred recover calls teardown, which finds the
\* lifecycle already Draining and returns; the loop is gone.
FlushPanics ==
  /\ "flushPanic" \in Faults
  /\ phase = "drain" /\ flushing /\ dirty
  /\ phase' = "wedged"
  /\ UNCHANGED <<end, flushing, queue, member, docVars, timers, storeVars, sessVars,
                 ended, sent, replies>>

\* Mutant: the room waits for its channel to drain before it closes done.
ReleaseWhenDrained ==
  /\ phase = "release" /\ queue = <<>>
  /\ phase' = "closed"
  /\ sess' = [c \in Conns |-> IF sess[c] \in {"new", "joining"} THEN "new" ELSE "over"]
  /\ saveArmed' = FALSE
  /\ idleArmed' = FALSE
  /\ UNCHANGED <<end, flushing, queue, member, docVars, storeVars, dropped, up, ended,
                 sent, replies>>

\* close(done), Manager.remove, Closed. A join still in the channel is retried
\* against the next room; every other session only sees refusals from now on.
TeardownRelease ==
  /\ phase = "release"
  /\ phase' = "closed"
  /\ sess' = [c \in Conns |-> IF sess[c] \in {"new", "joining"} THEN "new" ELSE "over"]
  /\ queue' = <<>>
  /\ saveArmed' = FALSE
  /\ idleArmed' = FALSE
  /\ UNCHANGED <<end, flushing, member, docVars, storeVars, dropped, up, ended, sent,
                 replies>>

\* The process dies: memory and connections are gone, the stores are not.
Crash ==
  /\ "crash" \in Faults
  /\ phase # "closed" /\ rooms < MaxRooms
  /\ phase' = "closed"
  /\ end' = None
  /\ queue' = <<>>
  /\ member' = [c \in Conns |-> NoMember]
  /\ saveArmed' = FALSE
  /\ idleArmed' = FALSE
  /\ sess' = [c \in Conns |-> IF sess[c] = "new" THEN "new" ELSE "over"]
  /\ up' = {c \in up : sess[c] = "new"}
  /\ UNCHANGED <<flushing, docVars, storeVars, dropped, ended, sent, replies>>

\* Mutant: the room starts empty instead of restoring the checkpoint.
MaterializeEmpty(c) ==
  /\ phase = "closed" /\ end # "document-deleted" /\ rooms < MaxRooms
  /\ sess[c] = "new" /\ c \in up
  /\ phase' = "serve" /\ end' = None /\ flushing' = FALSE
  /\ doc' = {} /\ dirty' = FALSE /\ failures' = 0
  /\ rooms' = rooms + 1
  /\ queue' = <<Plain("join", c)>>
  /\ sess' = [sess EXCEPT ![c] = "joining"]
  /\ UNCHANGED <<member, timers, stored, dropped, up, ended, sent, replies>>

\* Manager.Join of a document with no live room: newRoom restores the checkpoint
\* before its observer is registered, so the room starts clean, and the joiner's
\* command is the first. A deleted document is not materialized again.
Materialize(c) ==
  /\ phase = "closed" /\ end # "document-deleted" /\ rooms < MaxRooms
  /\ sess[c] = "new" /\ c \in up
  /\ phase' = "serve"
  /\ end' = None
  /\ flushing' = FALSE
  /\ doc' = stored
  /\ dirty' = FALSE
  /\ failures' = 0
  /\ rooms' = rooms + 1
  /\ queue' = <<Plain("join", c)>>
  /\ sess' = [sess EXCEPT ![c] = "joining"]
  /\ UNCHANGED <<member, saveArmed, idleArmed, stored, dropped, up, ended, sent, replies>>

-----------------------------------------------------------------------------
SessionStep(c) ==
  Activate(c) \/ ForwardAdmitted(c) \/ ForwardTimesOut(c) \/ ForwardRefused(c) \/ Leave(c)

Client(c) ==
  Join(c) \/ Materialize(c) \/ LeaveTimesOut(c) \/ ConnFails(c)
    \/ \E f \in Updates \cup {Request} : Forward(c, f)

LoopStep ==
  \/ HandleJoin
  \/ HandleActivate
  \/ HandleLeave
  \/ HandleMessage
  \/ HandleClose
  \/ \E o \in FlushOutcomes : TeardownDrain(o)
  \/ TeardownRelease

SaveTick == \E o \in FlushOutcomes : SaveTimerFires(o)
IdleTick == \E o \in FlushOutcomes : IdleTimerFires(o)

Environment ==
  \/ \E kind \in {"close", "closeDeleted"} : CloseRoom(kind)
  \/ \E u \in PeerUpdates : HandlePeer(u)
  \/ HandlerPanics
  \/ FlushPanics
  \/ Crash

Next ==
  \/ \E c \in Conns : SessionStep(c) \/ Client(c)
  \/ LoopStep
  \/ SaveTick
  \/ IdleTick
  \/ Environment

Spec == Init /\ [][Next]_vars

\* The run loop's select serves commands and fired timers, the Go runtime
\* schedules every session goroutine, and a session step that waits has a
\* deadline. Clients, crashes, other pods and the owner owe nothing.
Fairness ==
  /\ WF_vars(LoopStep)
  /\ WF_vars(SaveTick)
  /\ WF_vars(IdleTick)
  /\ \A c \in Conns : WF_vars(SessionStep(c))

FairSpec == Spec /\ Fairness

-----------------------------------------------------------------------------
(* Properties                                                              *)

\* Every variable keeps its type.
TypeOK ==
  /\ phase \in Phases
  /\ end \in DocumentEnds \cup {None}
  /\ flushing \in BOOLEAN
  /\ queue \in Seq(Commands)
  /\ member \in [Conns -> MemberRecord]
  /\ doc \subseteq Updates
  /\ dirty \in BOOLEAN
  /\ failures \in Nat
  /\ saveArmed \in BOOLEAN
  /\ idleArmed \in BOOLEAN
  /\ stored \subseteq Updates
  /\ rooms \in Nat
  /\ sess \in [Conns -> SessionStates]
  /\ dropped \in [Conns -> BOOLEAN]
  /\ up \subseteq Conns
  /\ ended \in [Conns -> EndCodes \cup {None}]
  /\ sent \in [Conns -> Seq(Updates \cup {Request})]
  /\ replies \in [Conns -> Seq([q : Nat, kind : {"persisted", "failed"}])]

Replies(c) == {replies[c][j] : j \in 1..Len(replies[c])}

\* A client told `persisted` finds every decodable update it sent before that
\* request in the checkpoint store, from then on and across crashes, restarts
\* and later rooms (persist, handleDurabilityRequest, Session.dropped).
BarrierTruth ==
  \A c \in Conns : \A r \in Replies(c) :
     r.kind = "persisted" => Covers(c, r.q) \ Undecodable \subseteq stored

\* The frames of c that the run loop has not taken yet.
InFlight(c) ==
  {queue[k].idx : k \in {k \in 1..Len(queue) : queue[k].kind = "message" /\ queue[k].conn = c}}
    \cup (IF sess[c] \in {"blocked", "refused"} THEN {Len(sent[c])} ELSE {})

\* No valid request disappears and none is answered twice: a request of a
\* healthy member is waiting in the channel, parked on the member, or answered
\* exactly once (failBarrier: "exactly one outcome").
RequestsAccounted ==
  \A c \in Conns :
     /\ \A j, k \in 1..Len(replies[c]) : replies[c][j].q = replies[c][k].q => j = k
     /\ Active /\ c \in Members \cap Reachable /\ ~dropped[c] =>
          \A i \in 1..Len(sent[c]) : sent[c][i] = Request =>
             \/ i \in InFlight(c)
             \/ i = member[c].barrier
             \/ \E r \in Replies(c) : r.q = i

\* A room that believes it is clean holds exactly what is stored, which is what
\* lets handleDurabilityRequest answer at once.
CleanIsDurable == Active /\ ~dirty => doc = stored

\* The claim parking relies on: "a dirty room always has a flush scheduled".
DirtyIsScheduled == Active /\ PeriodicSave /\ dirty => saveArmed

\* An idle release does not cost edits: with periodic saving on, a room is only
\* released for idleness once the checkpoint store holds its document.
IdleReleaseKeepsEdits ==
  PeriodicSave /\ phase = "release" /\ end = "server-shutdown" /\ ~flushing
    => doc \subseteq stored

\* After an owner delete or a panic began the teardown, the stores are not
\* written again by this room.
NoFlushAfterAbandon ==
  [][(phase \in {"drain", "release"} /\ end # "server-shutdown") => stored' = stored]_vars

\* A request parked by a reachable member leaves the member only together with
\* an answer, even when the member is being disconnected or the room ends (the
\* rate limit, a crash and a wedged loop apart).
ParkedIsAnswered ==
  [][\A c \in Conns :
        /\ member[c].barrier # 0 /\ member'[c].barrier = 0
        /\ c \in Reachable
        /\ phase' # "closed"
        /\ ended'[c] # "update-rate-exceeded"
        => \E r \in Replies(c)' : r.q = member[c].barrier]_vars

\* What validation refused is never stored, not even when a handler panics with
\* the live document half mutated (the recover path tears down without a flush).
RefusedNeverStored == stored \cap (SchemaBad \cup Undecodable) = {}

\* The room keeps the promise of the durability barrier.
Barrier == INSTANCE DurabilityBarrier
             WITH Clients <- Conns, Exempt <- Undecodable, durable <- stored
RefinesBarrier == Barrier!Spec

\* A parked request is eventually answered, unless its connection fails.
ParkedIsResolved ==
  \A c \in Conns : (member[c].barrier # 0) ~> (member[c].barrier = 0 \/ c \notin Reachable)

\* A teardown that began completes.
TeardownCompletes == (phase = "drain") ~> (phase = "closed")

\* A room whose sessions are all over does not stay: it is released.
AbandonedRoomReleased ==
  (Active /\ \A c \in Conns : sess[c] \in {"new", "over"})
     ~> (~Active \/ \E c \in Conns : sess[c] \notin {"new", "over"})
=============================================================================
