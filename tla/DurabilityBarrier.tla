------------------------- MODULE DurabilityBarrier -------------------------
(***************************************************************************)
(* What the durability barrier promises a client, with no room, queue,     *)
(* timer or connection in sight (contract: model/control.go,               *)
(* ControlPersisted and ControlPersistFailed).  Clients send updates and   *)
(* requests; the service stores updates, never losing one it stored, and   *)
(* answers each request at most once; it answers `persisted` only when     *)
(* everything the client sent before the request is stored.                *)
(***************************************************************************)
EXTENDS Naturals, Sequences

CONSTANTS
  Clients,  \* the clients
  Updates,  \* the updates they may send
  Request,  \* a durability request
  Exempt    \* updates no answer vouches for

VARIABLES
  sent,     \* the frames each client sent, in order
  replies,  \* the answers each client got, in order
  durable   \* the updates the service stored

vars == <<sent, replies, durable>>

CoveredBy(c, q) == {sent[c][j] : j \in 1..(q - 1)} \ ({Request} \cup Exempt)

Init ==
  /\ sent = [c \in Clients |-> <<>>]
  /\ replies = [c \in Clients |-> <<>>]
  /\ durable = {}

Send(c, f) ==
  /\ sent' = [sent EXCEPT ![c] = Append(@, f)]
  /\ UNCHANGED <<replies, durable>>

\* One answer to request q of client c.
Answered(c, q, kind) ==
  /\ sent[c][q] = Request
  /\ \A j \in 1..Len(replies[c]) : replies[c][j].q # q
  /\ replies'[c] = Append(replies[c], [q |-> q, kind |-> kind])
  /\ kind = "persisted" => CoveredBy(c, q) \subseteq durable'

\* The service stores more and answers any number of requests, in one step.
Settle ==
  /\ durable \subseteq durable' /\ durable' \subseteq Updates
  /\ DOMAIN replies' = Clients
  /\ \A c \in Clients :
        \/ replies'[c] = replies[c]
        \/ \E q \in 1..Len(sent[c]), kind \in {"persisted", "failed"} : Answered(c, q, kind)
  /\ UNCHANGED sent

Next == Settle \/ \E c \in Clients, f \in Updates \cup {Request} : Send(c, f)

Spec == Init /\ [][Next]_vars
=============================================================================
