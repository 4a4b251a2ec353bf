-------------------------- MODULE RpcClientProofs ---------------------------
(***************************************************************************)
(* Proofs about the metadata store's RPC transport, for every number of    *)
(* calls, sessions and duplicated replies.                                 *)
(***************************************************************************)
EXTENDS RpcClient, TLAPS

-----------------------------------------------------------------------------
(* The inductive invariant                                                 *)

\* Calls have a place and a session; sets of calls hold calls.
Tables ==
  /\ pc \in [Calls -> {"idle", "registered", "waiting", "returned"}]
  /\ via = [k \in Calls |-> via[k]]
  /\ pending \subseteq Calls /\ hands \subseteq Calls /\ box \subseteq Calls

\* A call can register only while the session it would read is the consumed one.
ReplyPath == ~detached => sup = "consume" /\ cur = working

\* A waiter is registered, taken by the supervisor or answered: one of them at a
\* time, and none before the call began.
OneHolder ==
  /\ pending \cap hands = {} /\ pending \cap box = {}
  /\ \A k \in Calls : pc[k] = "idle" => k \notin pending \cup hands \cup box

\* What is open at the broker belongs to the session the supervisor holds, and it
\* holds none while it waits to re-attach and after it stopped.
SessionsHeld ==
  /\ stream \cup chan \cup conn \subseteq {working}
  /\ sup \in {"backoff", "done"} => stream \cup chan \cup conn = {}

RpcInv == Tables /\ ReplyPath /\ WaitersAreWatched /\ OneHolder /\ SendNeverBlocks /\ SessionsHeld

-----------------------------------------------------------------------------
\* The invariant holds initially.
LEMMA RpcInitInv == Init => RpcInv
BY DEF Init, RpcInv, Tables, ReplyPath, WaitersAreWatched, OneHolder, SendNeverBlocks, SessionsHeld

\* A call registers, publishes, is answered or gives up.
LEMMA CallInv ==
  ASSUME RpcInv, NEW k \in Calls, CallStep(k) \/ CallTimesOut(k)
  PROVE  RpcInv'
<1>1. UNCHANGED <<cur, detached, shutdown, stream, chan, conn, supVars>>
  BY DEF CallStep, Register, Publish, CallAnswered, CallTimesOut, brokerVars
<1> USE DEF RpcInv, supVars
<1>2. ReplyPath' /\ SessionsHeld'
  BY <1>1 DEF ReplyPath, SessionsHeld
<1>3. CASE Register(k)
  <2>1. CASE detached
    <3>1. UNCHANGED <<pending, via, box>> /\ pc' = [pc EXCEPT ![k] = "returned"]
      BY <1>3, <2>1 DEF Register, To
    <3> QED BY <1>1, <1>2, <3>1 DEF Tables, WaitersAreWatched, OneHolder, SendNeverBlocks
  <2>2. CASE ~detached
    <3>1. /\ pc[k] = "idle" /\ pending' = pending \cup {k}
          /\ via' = [via EXCEPT ![k] = cur] /\ pc' = [pc EXCEPT ![k] = "registered"]
          /\ UNCHANGED box
      BY <1>3, <2>2 DEF Register, To
    <3>2. Tables'
      BY <1>1, <3>1 DEF Tables
    <3>3. WaitersAreWatched'
      BY <1>1, <2>2, <3>1 DEF Tables, ReplyPath, WaitersAreWatched
    <3>4. OneHolder' /\ SendNeverBlocks'
      BY <1>1, <3>1 DEF Tables, OneHolder, SendNeverBlocks
    <3> QED BY <1>2, <3>2, <3>3, <3>4
  <2> QED BY <2>1, <2>2
<1>4. CASE Publish(k) \/ CallAnswered(k) \/ CallTimesOut(k)
  <2>1. /\ pending' \subseteq pending /\ box' \subseteq box /\ UNCHANGED via
        /\ pc[k] # "idle"
        /\ \E place \in {"waiting", "returned"} : pc' = [pc EXCEPT ![k] = place]
    BY <1>4 DEF Publish, CallAnswered, CallTimesOut, Return, To, brokerVars
  <2> QED BY <1>1, <1>2, <2>1 DEF Tables, WaitersAreWatched, OneHolder, SendNeverBlocks
<1> QED BY <1>3, <1>4 DEF CallStep

\* The server and the broker, and Close.
LEMMA OutsideInv ==
  RpcInv /\ (\/ \E k \in Calls : ServerReplies(k)
             \/ \E s \in Sessions : SessionLost(s)
             \/ SignalShutdown \/ Close)
    => RpcInv'
<1> SUFFICES ASSUME RpcInv,
                    \/ \E k \in Calls : ServerReplies(k)
                    \/ \E s \in Sessions : SessionLost(s)
                    \/ SignalShutdown \/ Close
             PROVE  RpcInv'
  OBVIOUS
<1>1. /\ UNCHANGED <<cur, pending, supVars, callVars, box>>
      /\ detached' = detached \/ detached' = TRUE
      /\ stream' \subseteq stream /\ chan' \subseteq chan /\ conn' \subseteq conn
  BY DEF ServerReplies, SessionLost, SignalShutdown, Close, SnapSession, FinishClose, CloseSession,
         clientVars, brokerVars
<1>2. Tables' /\ WaitersAreWatched' /\ OneHolder' /\ SendNeverBlocks'
  BY <1>1 DEF RpcInv, Tables, WaitersAreWatched, OneHolder, SendNeverBlocks, supVars, callVars
<1>3. ReplyPath' /\ SessionsHeld'
  BY <1>1 DEF RpcInv, ReplyPath, SessionsHeld, supVars
<1> QED BY <1>2, <1>3 DEF RpcInv

\* The supervisor consumes, fails the waiters, re-attaches.
LEMMA SupervisorInv == RpcInv /\ Supervisor => RpcInv'
<1> SUFFICES ASSUME RpcInv, Supervisor PROVE RpcInv'
  OBVIOUS
<1> USE DEF RpcInv
<1>1. ASSUME NEW k \in Calls, Deliver(k)
      PROVE  RpcInv'
  <2>1. /\ hands = {} /\ hands' = {k} \cap pending /\ pending' = pending \ {k}
        /\ UNCHANGED <<cur, detached, stream, chan, conn, sup, working, pc, via, box>>
    BY <1>1 DEF Deliver, callVars
  <2>2. Tables' /\ OneHolder' /\ SendNeverBlocks'
    BY <2>1 DEF Tables, OneHolder, SendNeverBlocks
  <2>3. ReplyPath' /\ WaitersAreWatched' /\ SessionsHeld'
    BY <2>1 DEF ReplyPath, WaitersAreWatched, SessionsHeld
  <2> QED BY <2>2, <2>3
<1>2. ASSUME NEW k \in Calls, SendToWaiter(k)
      PROVE  RpcInv'
  <2>1. /\ k \in hands /\ box' = box \cup {k} /\ hands' = hands \ {k}
        /\ UNCHANGED <<cur, detached, pending, stream, chan, conn, sup, working, pc, via>>
    BY <1>2 DEF SendToWaiter, clientVars, brokerVars, callVars
  <2>2. Tables' /\ OneHolder' /\ SendNeverBlocks'
    BY <2>1 DEF Tables, OneHolder, SendNeverBlocks
  <2>3. ReplyPath' /\ WaitersAreWatched' /\ SessionsHeld'
    BY <2>1 DEF ReplyPath, WaitersAreWatched, SessionsHeld
  <2> QED BY <2>2, <2>3
<1>3. CASE FailAllPending
  <2>1. /\ hands = {} /\ hands' = pending /\ pending' = {}
        /\ sup' = "release" /\ detached' = TRUE
        /\ UNCHANGED <<cur, stream, chan, conn, working, pc, via, box>>
    BY <1>3 DEF FailAllPending, Sup, brokerVars, callVars
  <2>2. Tables' /\ OneHolder' /\ SendNeverBlocks'
    BY <2>1 DEF Tables, OneHolder, SendNeverBlocks
  <2>3. ReplyPath' /\ WaitersAreWatched' /\ SessionsHeld'
    BY <2>1 DEF ReplyPath, WaitersAreWatched, SessionsHeld
  <2> QED BY <2>2, <2>3
<1>4. CASE ReleaseSession \/ StopSupervising \/ OpenSession \/ Adopt
  <2>1. /\ sup # "consume"
        /\ UNCHANGED <<pending, hands, pc, via, box>>
    BY <1>4 DEF ReleaseSession, StopSupervising, OpenSession, Adopt, clientVars, callVars
  <2>2. pending = {}
    BY <2>1 DEF WaitersAreWatched
  <2>3. Tables' /\ OneHolder' /\ SendNeverBlocks' /\ WaitersAreWatched'
    BY <2>1, <2>2 DEF Tables, OneHolder, SendNeverBlocks, WaitersAreWatched
  <2>4. detached
    BY <2>1 DEF ReplyPath
  <2>5. ReplyPath'
    BY <1>4, <2>4 DEF ReleaseSession, StopSupervising, OpenSession, Adopt, clientVars, Sup, ReplyPath
  <2>6. SessionsHeld'
    <3>1. CASE ReleaseSession
      BY <3>1 DEF ReleaseSession, CloseSession, Sup, SessionsHeld
    <3>2. CASE StopSupervising
      BY <3>2 DEF StopSupervising, brokerVars, Sup, SessionsHeld
    <3>3. CASE OpenSession
      BY <3>3 DEF OpenSession, Sup, SessionsHeld
    <3>4. CASE Adopt
      BY <3>4 DEF Adopt, CloseSession, brokerVars, Sup, SessionsHeld
    <3> QED BY <1>4, <3>1, <3>2, <3>3, <3>4
  <2> QED BY <2>3, <2>5, <2>6
<1> QED BY <1>1, <1>2, <1>3, <1>4 DEF Supervisor

\* Every step keeps the invariant.
LEMMA RpcNextInv == RpcInv /\ [Next]_vars => RpcInv'
<1> SUFFICES ASSUME RpcInv, [Next]_vars PROVE RpcInv'
  OBVIOUS
<1>1. CASE Next
  BY <1>1, CallInv, OutsideInv, SupervisorInv DEF Next
<1>2. CASE UNCHANGED vars
  BY <1>2 DEF vars, clientVars, brokerVars, supVars, callVars, RpcInv, Tables, ReplyPath,
              WaitersAreWatched, OneHolder, SendNeverBlocks, SessionsHeld
<1> QED BY <1>1, <1>2

\* The invariant holds in every reachable state.
LEMMA RpcInvariant == Spec => []RpcInv
BY RpcInitInv, RpcNextInv, PTL DEF Spec

-----------------------------------------------------------------------------
(* The theorems                                                            *)

\* No re-attach leaves a waiter behind: a call in c.pending named the session the
\* supervisor consumes (Call's critical section, failAllPending, adopt), for any
\* number of calls and outages.
THEOREM WaitersTheorem == Spec => []WaitersAreWatched
<1>1. RpcInv => WaitersAreWatched
  BY DEF RpcInv
<1> QED BY <1>1, RpcInvariant, PTL

\* The one-slot channel of a waiter is empty whenever deliver or failAllPending sends
\* on it, however often the server answers: the consumer never blocks on a call.
THEOREM SendTheorem == Spec => []SendNeverBlocks
<1>1. RpcInv => SendNeverBlocks
  BY DEF RpcInv
<1> QED BY <1>1, RpcInvariant, PTL

\* A supervisor that stopped left no consumer, channel or connection behind, whether
\* it was told in its backoff or refused by adopt with a session just opened.
THEOREM NothingLeftOpen == Spec => [](sup = "done" => stream \cup chan \cup conn = {})
<1>1. RpcInv => (sup = "done" => stream \cup chan \cup conn = {})
  BY DEF RpcInv, SessionsHeld
<1> QED BY <1>1, RpcInvariant, PTL
=============================================================================
