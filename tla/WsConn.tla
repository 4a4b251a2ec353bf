------------------------------- MODULE WsConn -------------------------------
(***************************************************************************)
(* One WebSocket connection as the rest of the service sees it             *)
(* (internal/adapter/inbound/ws/conn.go and serve in handler.go): a        *)
(* bounded outbound queue drained by one writer goroutine, and the         *)
(* TERMINAL BOUNDARY, the promise that a session's end is the last thing   *)
(* on that queue and that the client reads the reason before the close.    *)
(*                                                                         *)
(* Four goroutines meet here: the room's run loop, the connection's serve  *)
(* goroutine (the handshake first, then the read loop, where Session.      *)
(* Forward may echo a heartbeat or end the session), the writer, and the   *)
(* goroutine that tears the socket down.  offer and admitEnd hold one      *)
(* mutex, so each is one step; the close() that follows a full queue is    *)
(* outside it and is a step of its own, and so are the writer's receive,   *)
(* its announcement of the freed slot, its write and its last close.       *)
(* Ending a session is the control frame and then CloseAfterDrain.         *)
(***************************************************************************)
EXTENDS Naturals, Sequences

CONSTANTS
  QueueCap,   \* depth of the send channel
  Handshake,  \* frames of the initial batch
  MaxSends    \* bound: frames each producer sends

ASSUME WsConnAssumption ==
  QueueCap \in Nat \ {0} /\ Handshake \in Nat /\ MaxSends \in Nat

VARIABLES
  queue,    \* the send channel
  ending,   \* the boundary: an end was decided
  closed,   \* the closed channel is closed
  space,    \* the one token of the space channel
  socket,   \* the underlying socket: open, going (CloseNow dispatched), gone
  stalled,  \* the peer has stopped reading for good
  hand,     \* what the writer took off the queue: a sequence of at most one item
  writer,   \* the writer goroutine: running, releasing (a slot it freed is not yet
            \* announced), closing (the socket failed or was closed), done
  hs,       \* serve: sending or waiting for space, activating, done or failed
  left,     \* handshake frames still to send
  member,   \* the room's record of the session: pending, asked to activate, active
  pc,       \* per producer: idle, announced (reason sent, close to follow), over
  shedding, \* producers that met a full queue and are about to call close()
  sends,    \* per producer: ordinary frames offered (bounds the model)
  wire,     \* history: what was written to the socket, in order
  accepted  \* history: what was admitted to the queue, in order

boundary == <<queue, ending, closed, space, accepted>>
transport == <<socket, stalled, hand, writer, wire>>
serve == <<hs, left, member>>
producers == <<serve, pc, shedding, sends>>
vars == <<boundary, transport, producers>>

Producers == {"room", "session"}
\* Each producer ends a session with codes of its own; one of each is enough.
EndOf == [p \in Producers |-> IF p = "room" THEN "document-deleted" ELSE "update-not-accepted"]
Codes == {EndOf[p] : p \in Producers}

Frame == [kind |-> "frame", code |-> ""]
Control(e) == [kind |-> "control", code |-> e]
End(e) == [kind |-> "end", code |-> e]
Items == {Frame} \cup {Control(e) : e \in Codes} \cup {End(e) : e \in Codes}

Init ==
  /\ queue = <<>>
  /\ ending = FALSE
  /\ closed = FALSE
  /\ space = FALSE
  /\ accepted = <<>>
  /\ socket = "open"
  /\ stalled = FALSE
  /\ hand = <<>>
  /\ writer = "running"
  /\ wire = <<>>
  /\ hs = "sending"
  /\ left = Handshake
  /\ member = "pending"
  /\ shedding = {}
  /\ pc = [p \in Producers |-> "idle"]
  /\ sends = [p \in Producers |-> 0]

-----------------------------------------------------------------------------
(* Admission                                                               *)

\* offer: the verdict on one item, taken and acted on under one lock.
Admission == IF ending \/ closed THEN "refusedTerminal"
             ELSE IF Len(queue) < QueueCap THEN "admitted" ELSE "refusedFull"

Admit(item) ==
  /\ queue' = Append(queue, item)
  /\ accepted' = Append(accepted, item)

NotAdmitted == UNCHANGED <<queue, accepted>>

Offer(item) == IF Admission = "admitted" THEN Admit(item) ELSE NotAdmitted

\* A full queue: the caller, out of the lock, is about to close the connection.
ShedWhenFull(p) ==
  shedding' = IF Admission = "refusedFull" THEN shedding \cup {p} ELSE shedding

\* close(): closed at once, the socket by a goroutine of its own.
HardClose ==
  /\ closed' = TRUE
  /\ socket' = IF closed \/ socket = "gone" THEN socket ELSE "going"

\* Mutant: a full queue refuses the frame but keeps the connection.
SendWithoutShedding(p, item) ==
  /\ Offer(item)
  /\ UNCHANGED <<ending, closed, space, transport, serve, shedding>>

\* Send: offer, and shed the connection when the queue is full.
Send(p, item) ==
  /\ Offer(item)
  /\ ShedWhenFull(p)
  /\ UNCHANGED <<ending, closed, space, transport, serve>>

\* Mutant: the intent is queued but the boundary stays open behind it.
CloseAfterDrainOpen(p) ==
  /\ Offer(End(EndOf[p]))
  /\ ShedWhenFull(p)
  /\ UNCHANGED <<ending, closed, space, transport, serve>>

\* Mutant: no fallback when the intent finds the queue full.
CloseAfterDrainNoFallback(p) ==
  /\ Offer(End(EndOf[p]))
  /\ ending' = (ending \/ Admission # "refusedTerminal")
  /\ UNCHANGED <<closed, space, transport, serve, shedding>>

\* CloseAfterDrain: admitEnd moves the boundary even when the queue is full, and
\* the connection is then closed without draining.
CloseAfterDrain(p) ==
  /\ Offer(End(EndOf[p]))
  /\ ending' = (ending \/ Admission # "refusedTerminal")
  /\ ShedWhenFull(p)
  /\ UNCHANGED <<closed, space, transport, serve>>

-----------------------------------------------------------------------------
(* The producers                                                           *)

\* A producer between two calls on the connection, at that point of its work.
At(p, point) == pc[p] = point /\ p \notin shedding

\* A broadcast to an activated member, an answer, or a heartbeat echo. The room
\* forgets a member whose Send failed; the read loop goes on until the socket fails.
SendFrame(p) ==
  /\ At(p, "idle") /\ sends[p] < MaxSends
  /\ IF p = "room" THEN member = "active" ELSE hs = "done"
  /\ Send(p, Frame)
  /\ sends' = [sends EXCEPT ![p] = @ + 1]
  /\ pc' = IF p = "room" /\ Admission # "admitted" THEN [pc EXCEPT ![p] = "over"] ELSE pc

\* disconnect or teardown (room), a backpressure refusal (session): first the
\* session-end control, whose outcome is ignored ...
AnnounceEnd(p) ==
  /\ At(p, "idle")
  /\ p = "session" => hs = "done"
  /\ Send(p, Control(EndOf[p]))
  /\ pc' = [pc EXCEPT ![p] = "announced"]
  /\ UNCHANGED sends

\* ... then the close intent.
FinishEnd(p) ==
  /\ At(p, "announced")
  /\ CloseAfterDrain(p)
  /\ pc' = [pc EXCEPT ![p] = "over"]
  /\ UNCHANGED sends

\* The close() of a Send or a CloseAfterDrain that found the queue full.
Shed(p) ==
  /\ p \in shedding
  /\ HardClose
  /\ shedding' = shedding \ {p}
  /\ UNCHANGED <<queue, ending, space, accepted, stalled, hand, writer, wire, serve, pc, sends>>

\* sendInitial, one pass of its loop.
SendInitial ==
  /\ hs = "sending" /\ left > 0
  /\ Offer(Frame)
  /\ left' = IF Admission = "admitted" THEN left - 1 ELSE left
  /\ hs' = CASE Admission = "admitted" -> "sending"
             [] Admission = "refusedFull" -> "waiting"
             [] OTHER -> "failed"
  /\ UNCHANGED <<ending, closed, space, transport, member, pc, shedding, sends>>

WakeForSpace ==
  /\ hs = "waiting" /\ space
  /\ space' = FALSE
  /\ hs' = "sending"
  /\ UNCHANGED <<queue, ending, closed, accepted, transport, left, member, pc, shedding, sends>>

WakeForClosed ==
  /\ hs = "waiting" /\ closed
  /\ hs' = "failed"
  /\ UNCHANGED <<boundary, transport, left, member, pc, shedding, sends>>

\* handshakeSendTimeout, while a frame waits for space or the room for its turn, or
\* a room that is gone: serve gives up, and its close() follows in ServeReturns.
HandshakeGivesUp ==
  /\ hs \in {"waiting", "activating"}
  /\ hs' = "failed"
  /\ UNCHANGED <<boundary, transport, left, member, pc, shedding, sends>>

\* The batch is out: Session.Activate asks the room to make the member visible.
AskToActivate ==
  /\ hs = "sending" /\ left = 0
  /\ \/ hs' = "activating" /\ member' = "asked"
     \/ hs' = "failed" /\ UNCHANGED member
  /\ UNCHANGED <<boundary, transport, left, pc, shedding, sends>>

\* handleActivate, on the run loop, whether or not serve still waits for it. It
\* refuses a member the room has dropped: serve then fails in HandshakeGivesUp.
RoomActivates ==
  /\ member = "asked" /\ At("room", "idle")
  /\ member' = "active"
  /\ UNCHANGED <<boundary, transport, hs, left, pc, shedding, sends>>

HandshakeDone ==
  /\ hs = "activating" /\ member = "active"
  /\ hs' = "done"
  /\ UNCHANGED <<boundary, transport, left, member, pc, shedding, sends>>

\* serve returns, and its deferred close runs: the handshake failed or the read
\* loop met a socket that is gone.
ServeReturns ==
  /\ hs = "failed" \/ (hs = "done" /\ socket = "gone" /\ pc["session"] # "announced")
  /\ "session" \notin shedding
  /\ ~closed
  /\ HardClose
  /\ UNCHANGED <<queue, ending, space, accepted, stalled, hand, writer, wire, producers>>

-----------------------------------------------------------------------------
(* The writer and the socket                                               *)

\* Mutant: a close intent overtakes the frames queued ahead of it, as a separate
\* close signal would.
WriterTakesEndFirst ==
  /\ writer = "running" /\ hand = <<>> /\ queue # <<>>
  /\ LET i == IF queue[Len(queue)].kind = "end" THEN Len(queue) ELSE 1 IN
     /\ hand' = <<queue[i]>>
     /\ queue' = SubSeq(queue, 1, i - 1) \o SubSeq(queue, i + 1, Len(queue))
  /\ writer' = "releasing"
  /\ UNCHANGED <<ending, closed, space, accepted, socket, stalled, wire, producers>>

\* The select of the writer loop: an item is taken. Both channels may be ready at
\* once, and the choice is then arbitrary.
WriterTakes ==
  /\ writer = "running" /\ hand = <<>> /\ queue # <<>>
  /\ hand' = <<Head(queue)>>
  /\ queue' = Tail(queue)
  /\ writer' = "releasing"
  /\ UNCHANGED <<ending, closed, space, accepted, socket, stalled, wire, producers>>

WriterStops ==
  /\ writer = "running" /\ hand = <<>> /\ closed
  /\ writer' = "done"
  /\ UNCHANGED <<boundary, socket, stalled, hand, wire, producers>>

\* Mutant: a freed slot is announced only once the queue has run empty.
ReleaseSpaceWhenEmpty ==
  /\ writer = "releasing"
  /\ space' = (space \/ queue = <<>>)
  /\ writer' = "running"
  /\ UNCHANGED <<queue, ending, closed, accepted, socket, stalled, hand, wire, producers>>

\* releaseSpace: the freed slot is announced; one token is enough.
ReleaseSpace ==
  /\ writer = "releasing"
  /\ space' = TRUE
  /\ writer' = "running"
  /\ UNCHANGED <<queue, ending, closed, accepted, socket, stalled, hand, wire, producers>>

\* conn.Write of a frame, which a peer that does not read blocks.
WriterWrites ==
  /\ writer = "running" /\ hand # <<>> /\ hand[1].kind # "end"
  /\ socket # "gone" /\ ~stalled
  /\ wire' = wire \o hand
  /\ hand' = <<>>
  /\ UNCHANGED <<boundary, socket, stalled, writer, producers>>

\* A write on a dead socket fails ...
WriteFails ==
  /\ writer = "running" /\ hand # <<>> /\ hand[1].kind # "end"
  /\ socket = "gone"
  /\ hand' = <<>>
  /\ writer' = "closing"
  /\ UNCHANGED <<boundary, socket, stalled, wire, producers>>

\* ... and closeWith ends the socket with the close handshake, which the library
\* bounds ...
CloseWith ==
  /\ writer = "running" /\ hand # <<>> /\ hand[1].kind = "end"
  /\ wire' = IF socket = "gone" \/ stalled THEN wire ELSE wire \o hand
  /\ socket' = "gone"
  /\ hand' = <<>>
  /\ writer' = "closing"
  /\ UNCHANGED <<boundary, stalled, producers>>

\* ... both then close the closed channel, once.
WriterCloses ==
  /\ writer = "closing"
  /\ HardClose
  /\ writer' = "done"
  /\ UNCHANGED <<queue, ending, space, accepted, stalled, hand, wire, producers>>

\* The goroutine of close() runs CloseNow.
CloseNow ==
  /\ socket = "going"
  /\ socket' = "gone"
  /\ UNCHANGED <<boundary, stalled, hand, writer, wire, producers>>

\* The client or the network goes away.
PeerGone ==
  /\ socket # "gone"
  /\ socket' = "gone"
  /\ UNCHANGED <<boundary, stalled, hand, writer, wire, producers>>

\* The client keeps the socket open and stops reading.
PeerStalls ==
  /\ ~stalled /\ socket = "open"
  /\ stalled' = TRUE
  /\ UNCHANGED <<boundary, socket, hand, writer, wire, producers>>

-----------------------------------------------------------------------------
Writer ==
  WriterTakes \/ WriterStops \/ ReleaseSpace \/ WriterWrites \/ WriteFails \/ CloseWith \/ WriterCloses

Serve ==
  SendInitial \/ WakeForSpace \/ WakeForClosed \/ AskToActivate \/ HandshakeDone \/ ServeReturns

Next ==
  \/ \E p \in Producers : SendFrame(p) \/ AnnounceEnd(p) \/ FinishEnd(p) \/ Shed(p)
  \/ Serve
  \/ HandshakeGivesUp
  \/ RoomActivates
  \/ Writer
  \/ CloseNow
  \/ PeerGone
  \/ PeerStalls

Spec == Init /\ [][Next]_vars

\* Goroutines are scheduled: a producer that announced an end calls
\* CloseAfterDrain next, one that met a full queue calls close(). The deadline of
\* the handshake and the room's answer to it are NOT among the assumptions:
\* nothing below needs them.
Fairness ==
  /\ WF_vars(Writer)
  /\ WF_vars(Serve)
  /\ WF_vars(CloseNow)
  /\ \A p \in Producers : WF_vars(FinishEnd(p)) /\ WF_vars(Shed(p))

FairSpec == Spec /\ Fairness

-----------------------------------------------------------------------------
(* Properties                                                              *)

\* Every variable keeps its type; the queue stays within its capacity.
TypeOK ==
  /\ queue \in Seq(Items) /\ Len(queue) <= QueueCap
  /\ ending \in BOOLEAN /\ closed \in BOOLEAN /\ space \in BOOLEAN
  /\ socket \in {"open", "going", "gone"}
  /\ stalled \in BOOLEAN
  /\ hand \in Seq(Items) /\ Len(hand) <= 1
  /\ writer \in {"running", "releasing", "closing", "done"}
  /\ hs \in {"sending", "waiting", "activating", "done", "failed"}
  /\ left \in Nat
  /\ member \in {"pending", "asked", "active"}
  /\ shedding \subseteq Producers
  /\ pc \in [Producers -> {"idle", "announced", "over"}]
  /\ sends \in [Producers -> Nat]
  /\ wire \in Seq(Items)
  /\ accepted \in Seq(Items)

\* The terminal boundary (admit, offer, admitEnd): an end is the last item ever
\* admitted, and there is at most one, whichever producers race.
EndIsLast ==
  \A i \in 1..Len(accepted) : accepted[i].kind = "end" => i = Len(accepted) /\ ending

\* One queue, one writer: what the client read, what the writer holds and what is
\* queued are, in this order, exactly what was admitted, until the writer stops.
InOrder == writer \in {"running", "releasing"} => wire \o hand \o queue = accepted

\* A graceful close delivers everything admitted ("everything queued ahead of
\* this has been written").
CloseIsComplete ==
  \A i \in 1..Len(wire) : wire[i].kind = "end" => wire = accepted

\* The client reads the reason before the close: a close with code e follows the
\* session-end control with code e.
ReasonBeforeClose ==
  \A i \in 1..Len(wire) : wire[i].kind = "end" =>
     \E j \in 1..(i - 1) : wire[j] = Control(wire[i].code)

\* No lost wakeup: a handshake parked for space has a reason to wake as soon as
\* there is space, and as soon as the session ended under it: a token, the closed
\* channel, or a goroutine that is between its step under the lock and the call
\* that wakes (the writer before releaseSpace, a producer before close()).
NoLostWakeup ==
  hs = "waiting" =>
    /\ Len(queue) < QueueCap => space \/ closed \/ writer = "releasing"
    /\ ending => space \/ closed \/ writer = "releasing" \/ shedding # {}

\* A decided end leads to the closed connection, unless the client stopped
\* reading (nothing then bounds the writer's Write).
EndingCloses == ending ~> (closed \/ stalled)

=============================================================================
