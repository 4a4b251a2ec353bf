------------------------- MODULE LifecycleConsumer --------------------------
(***************************************************************************)
(* The consumer of owner-delete events (inbound/lifecycle/conn.go,         *)
(* consumer.go, topology.go): one supervisor goroutine that consumes one   *)
(* delivery at a time with manual acknowledgement, re-attaches when its    *)
(* session ends, and a Close called by another goroutine.  The broker is   *)
(* external: a delivery whose channel closes before it was settled goes    *)
(* back to the queue, and a settlement on a closed channel has no effect.  *)
(*                                                                         *)
(* Manager.CloseDeleted is seen through what it promises (module Manager): *)
(* it returns nil when no room of the document is left, and an error when  *)
(* a live one did not take or finish the close before the deadline.        *)
(***************************************************************************)
EXTENDS Naturals, FiniteSets

CONSTANTS
  Events,       \* the messages published to the lifecycle queue
  Poison,       \* those this service can never act on
  MaxSessions   \* bound: sessions ever opened; the last one is not lost

VARIABLES
  serving,   \* the document has a live room (state of the manager, only read)
  message,   \* per event: where it is (external: the broker)
  dlqUp,     \* the dead-letter queue exists (external)
  conns,     \* sessions whose connection is open
  streams,   \* sessions whose channel delivers
  attached,  \* c.conn and c.ch
  step,      \* where the supervisor is
  session,   \* the supervisor's session
  hand,      \* the delivery it is processing, 0 for none
  action,    \* ackAction
  closing    \* how far Close is

broker == <<message, dlqUp>>
links == <<conns, streams, attached, session>>
work == <<hand, action>>
consumerVars == <<broker, links, step, work, closing>>

Sessions == 1..MaxSessions

Init ==
  /\ message = [e \in Events |-> "unsent"]
  /\ dlqUp = TRUE
  /\ conns = {1} /\ streams = {1} /\ attached = 1 /\ session = 1
  /\ step = "consume"
  /\ hand = 0 /\ action = "none"
  /\ closing = "no"

Closed == closing # "no"

-----------------------------------------------------------------------------
(* The broker                                                              *)

Publish(e) ==
  /\ message[e] = "unsent"
  /\ message' = [message EXCEPT ![e] = "ready"]
  /\ UNCHANGED <<dlqUp, links, step, work, closing>>

\* The channels of S close: what was delivered on them and not settled is ready
\* again.
EndStreams(S) ==
  /\ streams' = streams \ S
  /\ message' = [e \in Events |->
                   IF message[e] = "unacked" /\ session \in S THEN "ready" ELSE message[e]]

\* The broker drops a connection, or faults the channel and leaves it open.
SessionLost(s) ==
  /\ s \in streams /\ s < MaxSessions
  /\ EndStreams({s})
  /\ conns' = conns \ {s} \/ conns' = conns
  /\ UNCHANGED <<dlqUp, attached, session, step, work, closing>>

\* Somebody deletes the dead-letter queue: what is rejected meanwhile is parked.
DlqRemoved ==
  /\ dlqUp /\ dlqUp' = FALSE
  /\ UNCHANGED <<message, links, step, work, closing>>

DeadLetter ==
  /\ dlqUp
  /\ \E e \in Events : /\ message[e] = "parked"
                       /\ message' = [message EXCEPT ![e] = "dead"]
  /\ UNCHANGED <<dlqUp, links, step, work, closing>>

\* pollDepths: re-declaring the topology on the attached channel restores it.
PollDepths ==
  /\ ~Closed
  /\ attached \in streams /\ ~dlqUp
  /\ dlqUp' = TRUE
  /\ UNCHANGED <<message, links, step, work, closing>>

-----------------------------------------------------------------------------
(* The supervisor: run, consume, processOne, reattach                      *)

Receive(e) ==
  /\ step = "consume" /\ session \in streams
  /\ message[e] = "ready"
  /\ message' = [message EXCEPT ![e] = "unacked"]
  /\ hand' = e
  /\ step' = "handle"
  /\ UNCHANGED <<dlqUp, links, action, closing>>

Decide(v) == step' = "settle" /\ action' = v

\* handle: an envelope outside the contract.
HandlePoison ==
  /\ step = "handle" /\ hand \in Poison
  /\ Decide("reject")
  /\ UNCHANGED <<broker, links, hand, closing>>

\* handleDeleted enters CloseDeleted.
HandleDeleted ==
  /\ step = "handle" /\ hand \notin Poison
  /\ step' = "calling"
  /\ UNCHANGED <<broker, links, work, closing>>

\* CloseDeleted returns: nil acknowledges, an error requeues.
CloseReturns ==
  /\ step = "calling"
  /\ Decide(IF serving THEN "requeue" ELSE "ack")
  /\ UNCHANGED <<broker, links, hand, closing>>

Settled(v) ==
  CASE v = "ack" -> "acked"
    [] v = "requeue" -> "ready"
    [] v = "reject" -> IF dlqUp THEN "dead" ELSE "parked"

\* processOne: Ack, Nack(requeue) or Nack(reject). On a closed channel it fails
\* and the broker keeps the event.
Settle ==
  /\ step = "settle"
  /\ message' = IF session \in streams THEN [message EXCEPT ![hand] = Settled(action)] ELSE message
  /\ hand' = 0 /\ action' = "none"
  /\ step' = "consume"
  /\ UNCHANGED <<dlqUp, links, closing>>

\* Mutant: the loop ends with its first session.
StreamEndsForGood ==
  /\ step = "consume" /\ session \notin streams
  /\ conns' = conns \ {session}
  /\ step' = "stopped"
  /\ UNCHANGED <<broker, streams, attached, session, work, closing>>

\* consume returned: run releases the dead session.
StreamEnds ==
  /\ step = "consume" /\ session \notin streams
  /\ conns' = conns \ {session}
  /\ step' = "reattach"
  /\ UNCHANGED <<broker, streams, attached, session, work, closing>>

\* reattach: after the backoff. The timer may win the select although Close ran.
\* A failed openSession closes what it opened and is tried again.
OpenSession ==
  /\ step = "reattach"
  /\ \E s \in Sessions :
       /\ s = session + 1
       /\ conns' = conns \cup {s} /\ streams' = streams \cup {s} /\ session' = s
  /\ dlqUp' = TRUE
  /\ step' = "adopt"
  /\ UNCHANGED <<message, attached, work, closing>>

ReattachStops ==
  /\ step = "reattach" /\ Closed
  /\ step' = "stopped"
  /\ UNCHANGED <<broker, links, work, closing>>

\* Mutant: the new session is installed without looking at Close.
AdoptAlways ==
  /\ step = "adopt"
  /\ attached' = session /\ step' = "consume"
  /\ UNCHANGED <<broker, conns, streams, session, work, closing>>

\* adopt: refused once Close ran, and then the session is closed again.
Adopt ==
  /\ step = "adopt"
  /\ IF Closed
     THEN /\ EndStreams({session})
          /\ conns' = conns \ {session}
          /\ step' = "stopped"
          /\ UNCHANGED attached
     ELSE /\ attached' = session /\ step' = "consume"
          /\ UNCHANGED <<message, conns, streams>>
  /\ UNCHANGED <<dlqUp, session, work, closing>>

-----------------------------------------------------------------------------
(* Close: the flag, then the channel and the connection it finds attached  *)

BeginClose ==
  /\ closing = "no"
  /\ closing' = "flagged"
  /\ UNCHANGED <<broker, links, step, work>>

CloseChannel ==
  /\ closing = "flagged"
  /\ EndStreams({attached} \cap streams)
  /\ closing' = "channel"
  /\ UNCHANGED <<dlqUp, conns, attached, session, step, work>>

CloseConnection ==
  /\ closing = "channel"
  /\ conns' = conns \ {attached}
  /\ closing' = "done"
  /\ UNCHANGED <<broker, streams, attached, session, step, work>>

-----------------------------------------------------------------------------
Supervisor ==
  \/ \E e \in Events : Receive(e)
  \/ HandlePoison \/ Settle \/ StreamEnds \/ OpenSession \/ ReattachStops \/ Adopt
CloseStep == CloseChannel \/ CloseConnection
Broker ==
  \/ \E e \in Events : Publish(e)
  \/ \E s \in Sessions : SessionLost(s)
  \/ DlqRemoved

=============================================================================
