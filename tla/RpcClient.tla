----------------------------- MODULE RpcClient ------------------------------
(***************************************************************************)
(* The metadata store's RPC transport (internal/adapter/outbound/          *)
(* metadatastore/rabbitmq/conn.go): Calls that register a waiter, publish  *)
(* a request and wait for the correlated reply; the supervisor goroutine   *)
(* that consumes replies and re-attaches when the broker drops the         *)
(* session; and Close.                                                     *)
(*                                                                         *)
(* The steps are the critical sections of Client.mu and the channel and    *)
(* broker operations between them.  A session has three parts that fail    *)
(* one after another: the delivery stream (a cancelled consumer), the      *)
(* channel, the connection.                                                *)
(***************************************************************************)
EXTENDS Naturals, FiniteSets

CONSTANTS
  Calls,        \* the calls made, one goroutine each
  MaxSessions,  \* bound: sessions ever opened
  MaxReplies    \* bound: replies the server sends to one request

ASSUME RpcAssumption ==
  MaxSessions \in Nat \ {0} /\ MaxReplies \in Nat /\ IsFiniteSet(Calls) /\ 0 \notin Calls

VARIABLES
  cur,       \* the session in c.conn, c.ch and c.replyQ
  detached,  \* c.detached
  pending,   \* the calls with a waiter in c.pending
  shutdown,  \* the shutdown channel is closed
  stream,    \* sessions whose deliveries channel is open
  chan,      \* sessions whose channel accepts a publish
  conn,      \* sessions whose connection is open
  sup,       \* where the supervisor is
  working,   \* the session the supervisor holds
  hands,     \* the calls whose waiter the supervisor took and has to answer
  closer,    \* where Close is: no, signalled, snapped, done
  snapped,   \* the session Close read
  pc,        \* per call: idle, registered, waiting, returned
  via,       \* per call: the session it publishes on and names as reply-to
  box,       \* calls whose waiter channel holds a reply
  asked,     \* calls whose request reached the server queue
  answers,   \* per call: replies the server sent
  inbox      \* calls with a reply on its way in the delivery stream

clientVars == <<cur, detached, pending, shutdown>>
brokerVars == <<stream, chan, conn, asked, answers, inbox>>
supVars == <<sup, working, hands>>
closeVars == <<closer, snapped>>
callVars == <<pc, via>>
vars == <<clientVars, brokerVars, supVars, closeVars, callVars, box>>

Sessions == 1..MaxSessions
Unopened == {s \in Sessions : \A t \in stream \cup chan \cup conn \cup {cur, working} : s > t}

Init ==
  /\ cur = 1 /\ detached = FALSE /\ pending = {} /\ shutdown = FALSE
  /\ stream = {1} /\ chan = {1} /\ conn = {1}
  /\ sup = "consume" /\ working = 1 /\ hands = {}
  /\ closer = "no" /\ snapped = 0
  /\ pc = [k \in Calls |-> "idle"] /\ via = [k \in Calls |-> 0]
  /\ box = {} /\ asked = {} /\ answers = [k \in Calls |-> 0] /\ inbox = {}

-----------------------------------------------------------------------------
(* Call                                                                    *)

To(k, place) == pc' = [pc EXCEPT ![k] = place]

\* Mutant: the call does not look at detached.
RegisterAnyway(k) ==
  /\ pc[k] = "idle"
  /\ pending' = pending \cup {k}
  /\ via' = [via EXCEPT ![k] = cur]
  /\ To(k, "registered")
  /\ UNCHANGED <<cur, detached, shutdown, brokerVars, supVars, closeVars, box>>

\* One critical section: fail fast without a reply path, else register the
\* waiter and snapshot the channel and the reply queue together.
Register(k) ==
  /\ pc[k] = "idle"
  /\ IF detached THEN To(k, "returned") /\ UNCHANGED <<pending, via>>
     ELSE /\ pending' = pending \cup {k}
          /\ via' = [via EXCEPT ![k] = cur]
          /\ To(k, "registered")
  /\ UNCHANGED <<cur, detached, shutdown, brokerVars, supVars, closeVars, box>>

\* The return of a Call: its deferred delete.
Return(k) ==
  /\ To(k, "returned")
  /\ pending' = pending \ {k}

\* PublishWithContext fails on a closed channel; the broker may also lose what
\* it accepted.
Publish(k) ==
  /\ pc[k] = "registered"
  /\ IF via[k] \in chan
     THEN /\ To(k, "waiting")
          /\ asked' \in {asked, asked \cup {k}}
          /\ UNCHANGED pending
     ELSE Return(k) /\ UNCHANGED asked
  /\ UNCHANGED <<cur, detached, shutdown, stream, chan, conn, answers, inbox, supVars,
                 closeVars, via, box>>

CallAnswered(k) ==
  /\ pc[k] = "waiting" /\ k \in box
  /\ Return(k)
  /\ box' = box \ {k}
  /\ UNCHANGED <<cur, detached, shutdown, brokerVars, supVars, closeVars, via>>

\* The deadline of the call; with a reply there too the select may choose this.
CallTimesOut(k) ==
  /\ pc[k] = "waiting"
  /\ Return(k)
  /\ UNCHANGED <<cur, detached, shutdown, brokerVars, supVars, closeVars, via, box>>

-----------------------------------------------------------------------------
(* The broker and the server                                               *)

\* A reply, at most MaxReplies of them when the request is redelivered; it
\* reaches the client only while the session it names is consumed.
ServerReplies(k) ==
  /\ k \in asked /\ answers[k] < MaxReplies /\ k \notin inbox
  /\ answers' = [answers EXCEPT ![k] = @ + 1]
  /\ inbox' = IF via[k] \in stream THEN inbox \cup {k} ELSE inbox
  /\ UNCHANGED <<clientVars, stream, chan, conn, asked, supVars, closeVars, callVars, box>>

\* The consumer is cancelled, the channel faults or the connection drops: each
\* takes the ones above it along.
SessionLost(s) ==
  /\ s \in stream /\ (s < MaxSessions \/ shutdown)
  /\ stream' = stream \ {s}
  /\ \/ UNCHANGED <<chan, conn>>
     \/ chan' = chan \ {s} /\ UNCHANGED conn
     \/ chan' = chan \ {s} /\ conn' = conn \ {s}
  /\ UNCHANGED <<clientVars, asked, answers, inbox, supVars, closeVars, callVars, box>>

-----------------------------------------------------------------------------
(* The supervisor: run, consumeReplies, reattach, adopt                    *)

Sup(place) == sup' = place

\* Mutant: the waiter stays registered when its reply is handed over.
DeliverKeepingWaiter(k) ==
  /\ sup = "consume" /\ hands = {} /\ k \in inbox /\ via[k] = working
  /\ inbox' = inbox \ {k}
  /\ hands' = {k} \cap pending
  /\ UNCHANGED <<clientVars, stream, chan, conn, asked, answers, sup, working, closeVars,
                 callVars, box>>

\* deliver, first half: the waiter leaves pending under the lock.
Deliver(k) ==
  /\ sup = "consume" /\ hands = {} /\ k \in inbox /\ via[k] = working
  /\ inbox' = inbox \ {k}
  /\ hands' = {k} \cap pending
  /\ pending' = pending \ {k}
  /\ UNCHANGED <<cur, detached, shutdown, stream, chan, conn, asked, answers, sup, working,
                 closeVars, callVars, box>>

\* The send on the waiter's channel, which has room for one reply and blocks
\* without: deliver's, and each one of failAllPending.
SendToWaiter(k) ==
  /\ k \in hands /\ k \notin box
  /\ box' = box \cup {k}
  /\ hands' = hands \ {k}
  /\ UNCHANGED <<clientVars, brokerVars, sup, working, closeVars, callVars>>

\* Mutant: the waiters are failed, later calls are not.
FailAllPendingQuietly ==
  /\ sup = "consume" /\ hands = {} /\ working \notin stream
  /\ hands' = pending
  /\ pending' = {}
  /\ Sup("release")
  /\ UNCHANGED <<cur, detached, shutdown, brokerVars, working, closeVars, callVars, box>>

\* The deliveries channel closed, what it still buffered handed over or not:
\* failAllPending, under the lock.
FailAllPending ==
  /\ sup = "consume" /\ hands = {} /\ working \notin stream
  /\ detached' = TRUE
  /\ hands' = pending
  /\ pending' = {}
  /\ Sup("release")
  /\ UNCHANGED <<cur, shutdown, brokerVars, working, closeVars, callVars, box>>

\* What the session still holds open is closed.
CloseSession(s) ==
  /\ stream' = stream \ {s}
  /\ chan' = chan \ {s}
  /\ conn' = conn \ {s}
  /\ UNCHANGED <<asked, answers, inbox>>

ReleaseSession ==
  /\ sup = "release" /\ hands = {}
  /\ CloseSession(working)
  /\ Sup("backoff")
  /\ UNCHANGED <<clientVars, working, hands, closeVars, callVars, box>>

StopSupervising ==
  /\ sup = "backoff" /\ shutdown
  /\ Sup("done")
  /\ UNCHANGED <<clientVars, brokerVars, working, hands, closeVars, callVars, box>>

\* The backoff elapses; both cases of the select may be ready.
OpenSession ==
  /\ sup = "backoff" /\ Unopened # {}
  /\ LET s == CHOOSE s \in Unopened : \A t \in Unopened : s <= t IN
     /\ stream' = stream \cup {s} /\ chan' = chan \cup {s} /\ conn' = conn \cup {s}
     /\ working' = s
  /\ Sup("adopt")
  /\ UNCHANGED <<clientVars, asked, answers, inbox, hands, closeVars, callVars, box>>

\* Mutant: adopt does not look at shutdown again.
AdoptAlways ==
  /\ sup = "adopt"
  /\ cur' = working /\ detached' = FALSE
  /\ Sup("consume")
  /\ UNCHANGED <<pending, shutdown, brokerVars, working, hands, closeVars, callVars, box>>
\* adopt: refused after Close, and reattach then closes what it opened.
Adopt ==
  /\ sup = "adopt"
  /\ IF shutdown
     THEN CloseSession(working) /\ Sup("done") /\ UNCHANGED <<cur, detached>>
     ELSE /\ cur' = working /\ detached' = FALSE
          /\ Sup("consume")
          /\ UNCHANGED brokerVars
  /\ UNCHANGED <<pending, shutdown, working, hands, closeVars, callVars, box>>

-----------------------------------------------------------------------------
(* Close                                                                   *)

SignalShutdown ==
  /\ closer = "no"
  /\ shutdown' = TRUE
  /\ closer' = "signalled"
  /\ UNCHANGED <<cur, detached, pending, brokerVars, supVars, snapped, callVars, box>>

SnapSession ==
  /\ closer = "signalled"
  /\ snapped' = cur
  /\ detached' = TRUE
  /\ closer' = "snapped"
  /\ UNCHANGED <<cur, pending, shutdown, brokerVars, supVars, callVars, box>>

FinishClose ==
  /\ closer = "snapped"
  /\ CloseSession(snapped)
  /\ closer' = "done"
  /\ UNCHANGED <<clientVars, supVars, snapped, callVars, box>>

-----------------------------------------------------------------------------
CallStep(k) == Register(k) \/ Publish(k) \/ CallAnswered(k)

Supervisor ==
  \/ \E k \in Calls : Deliver(k) \/ SendToWaiter(k)
  \/ FailAllPending \/ ReleaseSession \/ StopSupervising \/ OpenSession \/ Adopt

Close == SnapSession \/ FinishClose

Next ==
  \/ \E k \in Calls : CallStep(k) \/ CallTimesOut(k) \/ ServerReplies(k)
  \/ \E s \in Sessions : SessionLost(s)
  \/ Supervisor
  \/ SignalShutdown
  \/ Close

Spec == Init /\ [][Next]_vars

\* Goroutines are scheduled and the broker accepts a dial in the end. The
\* deadline of a call is NOT among the assumptions, nor is a reply.
Fairness ==
  /\ \A k \in Calls : WF_vars(CallStep(k))
  /\ WF_vars(Supervisor)
  /\ WF_vars(Close)

FairSpec == Spec /\ Fairness

-----------------------------------------------------------------------------
(* Properties                                                              *)

\* A registered waiter belongs to the session the supervisor still consumes: no
\* re-attach ever leaves one behind that nobody would answer or fail (Call's one
\* lock, failAllPending, adopt).
WaitersAreWatched ==
  \A k \in pending : via[k] = working /\ sup = "consume"

\* The consumer is never blocked by a waiter: whatever is handed to a waiter's
\* channel finds it empty, also when replies are duplicated or late.
SendNeverBlocks == hands \cap box = {}

\* A call whose session went away is failed at once, without its deadline.
LostSessionFailsCall ==
  \A k \in Calls : (pc[k] = "waiting" /\ via[k] \notin stream) ~> (pc[k] = "returned")

\* Close stops the supervisor, and neither it nor a re-attach that raced it leaves a
\* connection open.
CloseReleases == (closer = "done") ~> (sup = "done" /\ conn = {})
=============================================================================
