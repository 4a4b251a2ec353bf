# TLA+ models of the collaboration service

This directory models the concurrent core of the collaboration service: the
document rooms, their registry, the WebSocket boundary towards clients, the network
adapters with goroutines of their own, and the path of a document into the stores and
out of existence. TLC checks the models on small instances; TLAPS proves their safety
properties, and that the room and the store implement their abstract specifications,
for every instance. `PROJECT.json` lists runs, mutants, the
definition-to-source map, hazards, findings and theorems.

## 1. Inventory of the system

| Part | State | Operations | Meets |
|---|---|---|---|
| Room (`service/room.go`, `flush.go`, `sync.go`, `presence.go`) | live document, dirty flag, failure counter, members with their parked durability request, save and idle timers, lifecycle word, command channel | join, activate, leave, message (sync update, durability request), peer update, save and idle timers, close, closeDeleted, teardown | sessions by the command channel, connections by `Send`/`CloseAfterDrain`, stores by `persist`, the hub by a peer queue, the registry by `remove` |
| Session (`service/manager.go`) | room, connection, `dropped` flag | Activate, Forward, Leave | one serve goroutine per client |
| Registry (`service/manager.go`) | rooms by document, delete epoch, tombstones, closed flag, singleflight | Join, acquire, CloseDeleted, Close, remove | HTTP goroutines, lifecycle consumer, shutdown |
| WebSocket connection (`inbound/ws/conn.go`, `handler.go`) | bounded send queue, end flag, closed and space channels | Send, sendInitial, CloseAfterDrain, close, writer | run loop, session, handshake, writer |
| Metadata RPC (`metadatastore/rabbitmq/conn.go`) | session, pending waiters, detached and shutdown flags | Call, deliver, reattach, adopt, Close | callers, supervisor goroutine, broker |
| Redis hub (`hub/redis/hub.go`) | subscribers, pumps with reference counts | Subscribe, dispatch, subscription Close, Close | rooms, pump goroutines, Redis |
| Lifecycle consumer (`inbound/lifecycle/`) | broker session, one delivery in hand | consume, ack, requeue, reject, reattach, Close | registry |
| Checkpoint store (`persistence/fileservice`, `metapointer`) | pointer in the index, file content | save, load, record | rooms |
| Contribution window, awareness (`presence.go`, `awareness_wire.go`) | actors of the window and the one flight; awareness ids | tick, settle; update, evict | run loop |
| Budget, schema, validation shadow (`room.go`, `sync.go`, `assets_schema.go`) | cached size, shadow document | candidate apply, validate | run loop |
| Authorization (`auth/*`) | circuit breaker | Evaluate | Join |
| Configuration, wiring, HTTP, metrics | none of protocol interest | | |

What is hard in this code, and what the properties are therefore about:

* **Durability.** A client may ask "is everything I sent so far stored?". The
  answer rests on a dirty flag, a debounced flush that may half fail, retries,
  a queue that may drop a frame, refusals, panics and crashes.
* **Ends.** A room ends by idleness, shutdown, an owner delete, escalation after
  repeated flush failures, or a panic, and each way promises something different
  about the edits. A member may also be ended alone, for its own fault.
* **The terminal boundary.** Several goroutines write to, and end, the same
  connection; the client must read the reason before the close.
* **Registry races.** A join reads the delete epoch and the row without a lock,
  shares another join's materialization, and may be handed a room that is ending.
* **Adapters.** Waiters across re-attachment, pumps shared by subscribers, and
  waits that must not close a cycle.
* **Saves in several calls.** A save touches two remote services up to five times;
  any call may fail, or succeed and be reported failed, and the owner may delete
  the document in between.
* **Judging an update before it is applied.** A CRDT apply has no undo, so size and
  schema are decided on a cached number and a second copy that must stay true.

The full list, line by line, is under `hazards` in `PROJECT.json`.

## 2. Modules

| Module | Models | Used by |
|---|---|---|
| `DurabilityBarrier` | abstract: what a durability answer promises | `Room` (refinement) |
| `Room` | one document's room, its sessions and the stores | `MCRoom`, `RoomProofs` |
| `UpdatePath` | an update's way into the live document: budget, shadow, apply, contribution window | `MCUpdatePath` |
| `WsConn` | one connection's queue, writer, handshake and boundary | `MCWsConn`, `WsConnProofs` |
| `Manager` | the registry for one document, joins, owner deletes, shutdown | `MCManager` |
| `RpcClient` | the RabbitMQ request/reply client | `MCRpcClient` |
| `RedisHub` | the cross-pod hub of one document on one pod, with the rooms' side of it | |
| `SaveContract` | abstract: what saving and loading a document promises; the in-process store | `CheckpointStore` (refinement) |
| `CheckpointStore` | saves and loads through file service and index, call by call | `Deletion` |
| `LifecycleConsumer` | the consumer of owner-delete events and its broker sessions | `Deletion` |
| `Deletion` | composition: an owner deletes a document that is opened, served or saved | |
| `RoomProofs`, `UpdatePathProofs`, `WsConnProofs`, `ManagerProofs`, `RpcClientProofs`, `RedisHubProofs`, `CheckpointStoreProofs`, `DeletionProofs` | the theorems about the module each is named after | `DeletionProofs` uses `CheckpointStoreProofs` |

### Room

An update is an element of `Updates`, a document the set of updates it contains:
merging is union, so order and duplicates do not matter, which is what the CRDT
gives. A run-loop iteration is one atomic action, because nothing else touches the
loop's state; teardown is split in three (`drain`, `release`, `closed`) because
other goroutines see the lifecycle word, the final flush and `close(done)` at
different times. `sent[c]` and `replies[c]` are histories: a request is identified
by its position in `sent[c]`, so `Covers(c, i)` is what it asks about. A save has
the outcomes of `FlushOutcomes`: stored, failed, the checkpoint stored and the
metadata save failed, or an encode error. `stored` survives `Crash` and teardown;
`Materialize` loads it into the next room.

Reductions, and why they are sound here:

* The verdict of the size budget and the schema on an update is fixed by the
  constants `TooLarge`, `SchemaBad` and `Undecodable`; the code's verdict depends
  on the document, but the control after each verdict is the same.
* Ending a member (control frame, then `CloseAfterDrain`) is one step in `Room`;
  `WsConn` splits it and checks what happens in between.
* Whether a dropped member owned an awareness id is nondeterministic
  (`DropSets`): only with one does the drop broadcast, and so find dead members.
* `durabilityPoisoned` is left out: every path of the code that sets it
  disconnects the member before the handler returns, so no later request reads it.
  The path that would need it does not set it (section 3, differences).
* A panic of a message handler may leave a refused update in the live document
  (`HandlerPanics`), the worst a half-applied update can do.

### WsConn

`offer` and `admitEnd` hold one mutex, so each is one step; announcing an end and
finishing it are two. The `close()` of a caller that met a full queue is outside the
mutex and is a step of its own (`Shed`; `shedding` holds the callers that are about to
take it). The writer's receive, its release of space, its write and the close of the
closed channel after its last write are separate steps. After the initial batch `serve`
asks the room to activate the member; the room may run that request, or refuse it, or run
it after `serve` gave up at its deadline. `CloseNow` runs on a goroutine of its own. The client may stop reading
(`PeerStalls`) or vanish (`PeerGone`). The histories `accepted` and `wire` say what
was admitted and what the client read.

### Manager

One document, all its rooms over time. A room keeps lifecycle, channel, occupants
and idle timer; `Room` has the rest. Steps are the critical sections of `m.mu` and the
channel operations between them; what a goroutine read earlier (its epoch, its room,
whether it leads the singleflight) is per-joiner state. The lifecycle consumer is
the chain `OwnerDeletes`, `Deliver`, `PostCloseDeleted`, `CloseDeletedDone` or
`CloseDeletedTimesOut`, `Redelivered`: one delivery at a time, redelivered until
acknowledged. Tombstones expire (`Expire`) only if their own delivery set them last,
which is the code's comparison of expiry times. Deleting another document bumps the
shared epoch (`OtherDeleted`).

### RpcClient

A session is a delivery stream, a channel and a connection, which fail in that
order. The server may answer a request up to `MaxReplies` times and late. The supervisor
is the only goroutine that hands replies to waiters; it takes a waiter off the
table under the lock and sends outside it, so the send is a step of its own.

### RedisHub

A pump is named after the room whose Subscribe started it. Pump start, Redis's two
confirmations, installation under the lock, dispatch to one subscriber after another,
and every wait for a pump to end are steps. `serial` is chosen once, in `Init`: when
FALSE, Subscribes of one document interleave freely, which the hub's code handles; when
TRUE they come one at a time, as `acquire`'s singleflight and `remove` after teardown
issue them. The two liveness properties speak of serial openings: a room
whose Subscribe has not returned does not drain its peer queue yet, so a pump it shared
with another room could park there, and the Manager never opens two rooms of one
document at a time.

### CheckpointStore and SaveContract

A save is a chain of calls to two services: resolve the pointer, rewrite the file or
create one and record its pointer (load the row, then write it back), then write the
index. Each call is a step that
succeeds, fails without effect (`SaveCallFails`) or takes effect and is reported failed
(the second disjunct of the step). `at` is the run loop's place in that chain, so no edit
happens inside a save. `Die` forgets the memory in any state. `Damage` loses or overwrites the
file behind the pointer; `OwnerCascade` removes row and files. `SaveContract` is one
state per document, replaced as a whole; its stored state is the content behind the
pointer (`Retrievable`), and it promises nothing after damage or a delete.

Assumed of the services, because the code cannot do without it: a call is applied before
any later call of the same caller, or never (the metadata queue is FIFO; a file write is
not applied after its request was abandoned). One process writes a document: durable
storage with `HUB_MODE=redis` is refused at startup.

### LifecycleConsumer and Deletion

The supervisor's loop (consume, handle, settle, release, back off, open, adopt) is
`step`; broker and queue are external. A settlement on a dead channel has no effect and
the event is ready again. `PollDepths` restores a deleted dead-letter queue, in which
rejected messages are parked meanwhile. `Deletion` joins it with `CheckpointStore` (the
room that opens, edits, saves) through `CloseDeleted`: the tombstone, the admissions it
refuses, the command a busy room may not take, and the verdict the event is settled
with. Admissions under way are refused in the step that sets the tombstone; the code
lets them run to their next check, which `Manager` models. The tombstone (5 minutes)
outlasts the owner's cascade and is renewed by every redelivery, so it expires only when
no delete event is pending or the consumer is cut off. Deliveries are handled one by one; a
prefetched delivery whose channel died is one the broker redelivers.

### UpdatePath

Complements `Room`, which takes the verdict on an update as given. A document is a set of
updates, its encoded size one more than their number; the wire length of an update is
at least what it adds (`UpdateAssumption`), the assumption on which the code's comment rests
the cheap skip. A run-loop command is one step; the contribution flight's goroutine has its
own (`Emitted`, `SendCompletion`). `Cut` updates apply to the shadow and then fail;
`Poison` ones break the locator schema. The contribution window is enabled. An update of
an anonymous writer (`NoActor`), or of a writer that the broadcast of that very update
dropped (mishap `drop`), is applied and nobody is recorded. `unreported`, `forgotten` (the
changes of such dropped writers) and `excused` are histories. `Open` starts the next room
from the checkpoint.

## 3. Runs

Deadlock is not checked: every behaviour may legitimately stop (all clients gone,
all bounds used).

| Run | Instance | States | Checks |
|---|---|---|---|
| `Room_durability` | 1 flaky member, 1 joiner, 2 updates, channel of 1, 2 rooms, save failures, crash, shutdown, owner delete | 0.6 M | `CleanIsDurable`, `BarrierTruth`, `RequestsAccounted`, `DirtyIsScheduled`, `IdleReleaseKeepsEdits`, `NoFlushAfterAbandon`, `RefinesBarrier` |
| `Room_refusals` | editor and viewer, one update of each verdict, empty bucket, panics, encode errors, shutdown | 1.8 M | `RefusedNeverStored`, `ParkedIsAnswered` |
| `Room_live` | member limit 1, peer update, save failures | 25 k | `ParkedIsResolved`, `TeardownCompletes`, `AbandonedRoomReleased` |
| `WsConn_boundary` | queue 2, handshake 2, 2 frames per producer | 0.12 M | `EndIsLast`, `CloseIsComplete`, `ReasonBeforeClose`, `NoLostWakeup`, `EndingCloses` |
| `Manager_registry` | 2 joins (symmetric), 2 deliveries, 1 other delete, shutdown, 2 rooms | 2.7 M | `NoResurrection`, `EmptyRoomIsWatched`, `OneLiveRoom`, `ShutdownMissesNobody` |
| `Manager_live` | 1 join, 1 delivery, shutdown, escalation, 2 rooms | 38 k | `CallersReturn` |
| `RpcClient_outage` | 2 calls, 3 sessions, 2 replies each | 0.2 M | `WaitersAreWatched`, `SendNeverBlocks`, `LostSessionFailsCall`, `CloseReleases` |
| `RedisHub` | 2 rooms, serial or not, peer queue 1, 2 messages (1 when not serial) | 0.1 M | `SubscribedIsServed`, `PublishedArrives`, `TeardownEnds` |
| `CheckpointStore` | 3 edits, 3 files, upload limit 2, every mishap | 0.12 M | `AckedRetrievable`, `RestoresAcked`, `NoLateResurrection`, `RefinesSaveContract` |
| `Deletion` | 1 edit, 1 file, a delete event and a poison one, 2 sessions, crash | 0.17 M | `NoServiceAfterAck`, `EventsSettle`, `CloseReleasesBroker` |
| `UpdatePath` | 7 updates of 2 writers and an anonymous one (long and short, a peer's, one poisoned, one cut), limit 5, every mishap | 0.16 M | `ShadowMirrors`, `BudgetHolds`, `ContributorsAccounted`, `FlightLands` |
| `Room_flush_panic` | smallest that shows it | | the finding below, expected to be violated |

What the newer runs show. `CheckpointStore`: whatever call of a save fails, before or after
its effect, what an earlier save reported stays behind the pointer, and a room never opens
with less: a file that is missing, unreadable or above the limit fails the opening
instead of opening empty. After the owner's delete no save that had not yet looked up
the pointer writes anything again, because a row that is gone names no bucket. `Deletion`: once
the last delete event is acknowledged nothing serves the document while its tombstone
stands, and every event ends
acknowledged or in the dead-letter queue through lost sessions, requeues, a crash and a
missing queue. `UpdatePath`: an update is always judged against the document it would join,
skipping the exact measurement is sound, and a contributing actor, once recorded, is in the
window, in flight or reported until the room ends.

Why the bounds are enough for the questions asked. Two connections are the fewest
that can interfere (an offender and a bystander, a member and a late joiner, two
joins that share a flight). Channels, queues and peer queues of one or two are full
after one step, so every "full" path is taken. Two rooms make a restart and a
redelivery meet an older room. Three edits with an upload limit of two reach an oversize
document after two saves, and three files leave room for two orphans. In `UpdatePath` the
limit of five is reached by four updates, so that skip, exact check, refusal and a peer's
overrun all happen; a long frame makes the cached size drift from the true one. Two
sessions are a loss and a re-attachment, the last session being the one that stays.
`Deletion` needs one edit and one file only: what several of them do to each other is
`CheckpointStore`'s question. `Threshold = 2` separates "first failure, retry" from
"escalate". Two frames from one client are an update and the request behind it;
the other's frame makes the room dirty again in between. Symmetry is used only
where all members of the set are interchangeable and only for safety properties.

Every property has a mutant: a plausible bug (a dropped guard, a missing re-arm,
an early clear, a swapped order) in a mapped definition that makes TLC report it
violated. The mutants stand beside the definitions they change.

### Fairness

* `Room`: weak fairness of the run loop (`LoopStep`), of the save and the idle timer
  when armed, and of every session goroutine. Go's runtime schedules runnable
  goroutines; the loop's `select` serves a ready command or timer; backend calls have a
  deadline (`opCtx`). Nothing is assumed of clients, peers, the owner or the store's
  success. For `AbandonedRoomReleased` in `Room_live` the channel is long enough never to
  be full (a full one may lose the leave, see the differences below).
* `WsConn`: the writer, the serve goroutine, the `CloseNow` goroutine, and a producer
  that announced an end finishes it, one that met a full queue closes. Neither the
  handshake's deadline nor the room's answer to it is needed. The client owes nothing.
* `Manager`: join goroutines, the singleflight execution, each room's loop and idle
  timer, the event handler and `Close`. The deadlines (`CloseDeletedTimesOut`,
  `ShutdownTimesOut`) are *not* fair: the liveness properties say that nobody needs them.
* `RpcClient`: calls, supervisor and `Close`; not the server, not the call's deadline.
* `RedisHub`: pumps, rooms' own steps, and the run loop's draining of its peer queue;
  not the publishers.
* `Deletion`: the consumer's goroutines and `Close`, the steps of an opening or a save
  (remote calls carry deadlines), the depth poll's ticker. Strong fairness where a step is
  enabled again and again without staying so: the run loop keeps returning to a `select`
  in which the close command waits, its channel is not full at every attempt, and the
  broker moves parked messages while the queue is there. Nothing is assumed of clients,
  the owner or the services' success, nor of the process staying up; the number of lost
  sessions is bounded (`MaxSessions`), as "the broker eventually stays" requires.
* `UpdatePath`: the flight's goroutine (its call has a deadline), the run loop taking the
  completion, and the teardown.

### Findings

`Room_flush_panic`: a panic inside the final flush of a teardown leaves the room
registered and `done` open; `room.go:943` says a panic must not wedge the room.

Smaller differences between comments and code that the modelling met, kept as model
behaviour without a run of their own:

* `room.go:155` "durabilityPoisoned is set when ANY of this member's mutating updates was
  refused while the connection stayed alive": an update the candidate cannot decode is
  refused, the connection stays open and the member is not marked (`sync.go:125`), so a
  durability request behind it is answered `persisted`. `BarrierTruth` and the abstract
  barrier exempt `Undecodable` explicitly.
* `manager.go:771` "The room releases itself ... once the last member leaves": a Leave
  that finds the channel full for the whole deadline is dropped (`manager.go:774`), and
  the room is kept for a member that is gone until a send to it fails.
* `room.go:1747` says the connection stays open after a schema rejection; `handleSync`
  disconnects the member (`room.go:1995`).
* A save that is past its pointer lookup when the owner's cascade runs may still write a
  row or a file that no owner has; `NoLateResurrection` is stated from the next lookup on.
  The tombstone that keeps the document closed is memory only: a restart forgets it.
* A create whose answer is lost, or whose record fails, leaves a file nobody points to;
  the next save creates another. Nothing in this service collects them.
* `UpdatePath` drops the last contribution window on an owner delete, as the code does and
  its comment concedes (`room.go:2499`, BASIC-004). `ContributorsAccounted` does not speak of
  deleted rooms.
* `room.go:2026` "recordContribution records the writer's actor id": not of a writer that the
  broadcast of its own update dropped. A failed send to another member drops that member, the
  eviction of its awareness id is broadcast to everyone (`room.go:1286`), and the writer's own
  send may fail there; `recordContribution` then finds no member (`room.go:2029`). The change
  is in the document and its author in no event. `ContributorsAccounted` speaks of the
  recorded changes.
* The upload limit and `MaxDocBytes` are independent settings: a document within the
  second and above the first is accepted and cannot be saved. `CheckpointStore` keeps the
  document dirty in that case; the escalation after repeated failures is in `Room`.
* `room.go:1530` "a dirty room always has a flush scheduled": not after an encode error
  (`room.go:2235` returns before the retry is armed). The theorems carry the premise
  `"encode" \notin Faults`.
* `control.go:163` `server-shutdown` "was flushed": also sent when the shutdown's flush
  fails.
* `control.go:178` `update-not-accepted` "speaks only for a live room": the room may begin
  to end between the check and the frame.
* `room.go:1546` "Every VALID request gets exactly one outcome": not one of a member cut off
  by the rate limit, whence the exemption in `ParkedIsAnswered`.
* `ws/conn.go:330` the close reason is "the same literal the control frame carries": when
  the room and the session end a connection together, the client may read two
  controls, one of which the close does not repeat. `ReasonBeforeClose` states what holds.
* `manager.go:302` "A second acquire materializes a fresh room": the retry may be handed
  the same draining room.

## 4. Theorems

Proved by TLAPS for all values of the constants, under the modules' named
assumptions: subsets, positive capacities, finite sets of participants, distinct codes,
and in `UpdatePath` that an update's wire length is at least what it adds. The bounds of the
runs (`MaxFrames`, `MaxRooms`, `MaxSends`, ...) are constants too, so no theorem depends
on their size. Every inductive invariant was an invariant of a TLC run before its proof.
Every safety invariant, action property and refinement the runs check is stated by a
theorem, two of them under the premise that the encoder does not fail.

**`WsConnProofs`.** `TypeCorrect`. `EndIsLastTheorem`: inductive with the types, since
admission and the boundary flag change in one step. `NoLostWakeupTheorem`: inductive
with the types; every step that makes room or ends the session leaves a token, the closed
channel, or a goroutine whose next call provides one: the writer before `releaseSpace`, a
producer before the `close()` a full queue calls for. `OrderTheorem` (`InOrder` and
`CloseIsComplete`) needs `OrderInv`: the
end is last, the writer that holds an item is in its loop, and a writer that wrote an
end has left it; without the last two a stopped writer could be imagined to hold or write
more. `ReasonTheorem` moves the question from the wire to the history of admissions: a
producer that announced an end has its control there, or the boundary has closed and its
end will be refused (`ReasonPending`), or it met a full queue with that control and closes
the connection before it goes on; a close that reaches the client means the wire is
the whole history (`CloseIsComplete`).

**`RoomProofs`, the document.** `TypeCorrect`. `CleanTheorem`: a clean serving room equals the
store; inductive because the flag is set in the step that changes the document and cleared
only in the step that stored all of it. `ScheduledTheorem` (premise: no encode errors).
`RefusedTheorem` via `RefusedInv`: refused content is only ever in the document of a
room that has no flush left. `AbandonTheorem` via `AbandonInv`: a pending final flush
belongs to a shutdown. `IdleTheorem` via `IdleInv`, the property extended to the first
step of the teardown, and `CleanTheorem` (premise: no encode errors). With periodic
saving off (`PeriodicSave = FALSE`) only the theorems speak; the runs have it on.

**`RoomProofs`, the barrier.** `BarrierTheorem`, `RefinementTheorem` (the room implements
`DurabilityBarrier`), `ParkedTheorem` and `AccountedTheorem` rest on `BarrierInv`, which has
four layers, each needed for the next:

1. `ChannelInv`: the channel holds the frames of a connection in the order they were sent,
   a frame that waits for a slot is the newest, a connection has at most one join in it and
   has sent nothing before that join was handled. Without it a request could overtake the
   update it asks about.
2. `AnswerInv`: answered and parked requests are older than everything of that connection
   still in flight, each answered once, the parked one not yet. This gives "at most one
   outcome".
3. `CoverInv`: of a member whose session lost no frame, every frame sent was applied, was
   undecodable, or is in flight; a queued command not marked as sent after a loss vouches
   for all frames before it. Backpressure enters here: a refused frame sets `dropped`, and
   what is forwarded later carries the mark, so a request behind a lost update is
   refused.
4. `TruthOf`: what `persisted` confirmed is in the store. A new `persisted` is either given to
   a clean room, where `CleanTheorem` says that the document is stored, or by the
   flush that stores the whole document.

The proof classifies the steps by what they do to a member (`Fades`, `Settles`, `Accounts`) and
to the channel (`Calm`, `ChannelMoves`), so that the run loop's many error paths are visited
once. `RequestsKept` adds the converse for `AccountedTheorem`: a healthy member's request is in
flight, parked or answered.

**`CheckpointStoreProofs`.** `StoreInv` says, until the owner's delete, that the call in
progress addresses the file behind the pointer, or a new one while there is no pointer, and
what it has written there is the document (`Addressed`), and that whatever is readable behind the
pointer covers what was acknowledged (`Covered`). From it `AckedTheorem`, `RestoresTheorem`,
`NoLateResurrectionTheorem` and the refinement of `SaveContract`, in which each remote call
is a stutter except the one that changes the content behind the pointer.

**`UpdatePathProofs`.** `ShadowTheorem` is inductive with the types. `BudgetTheorem` needs to know
what the cached size means. "At least the encoded size" is not invariant: when the
first measurement of a room fails the cache stays at zero, below the constant part of an
empty encoding. What holds is `SizeTracked`, the cache covers the updates without that
constant part; the doubled length in the skip condition absorbs the difference.
`ContributorsTheorem`, about the recorded changes, needs that a flight that has not succeeded still holds the
actors of the changes it took (`Accounted`), and that a room that is over has no flight
(`FlightOwned`).

**`ManagerProofs`.** `OneLiveRoomTheorem` follows from `Registered`: a serving or draining room is the
registered one, a loading room is the flight's, and there is a flight only while nothing is
registered. `NoResurrectionTheorem` needs `Epochs`: while the tombstone of the last delivery stands
every epoch captured by a join is out of date, and only the room that delivery found may
still serve. `WatchedTheorem` needs `Queues`: a queued join comes from a connection that was
handed this room. `ShutdownTheorem` is inductive with these.

**`RpcClientProofs`.** `WaitersTheorem` needs `ReplyPath` (a call registers only while the session
it reads is the one consumed), `SendTheorem` needs `OneHolder` (a waiter is on the table, in
the supervisor's hand or answered, never two of them). `NothingLeftOpen`: what is open at the
broker belongs to the session the supervisor holds.

**`RedisHubProofs`.** `ServedTheorem` needs the reference count: the installed pump has one
reference per subscriber (`InstalledCounts`), so the last reference goes with the last
subscriber; a room is a subscriber from Subscribe to the end of its subscription
(`SubscribersServed`). `PumpsTheorem`: a pump that lost the race to be installed does not
keep running.

**`DeletionProofs`.** `StoreInComposition` carries `StoreInv` through the composition: delete events
only take rooms and admissions away. `NoServiceTheorem` needs `Gated`: the tombstone stands from
CloseDeleted to the settlement and keeps admissions out, so an acknowledgement, once decided,
stays justified. The property speaks of the *last* delete event: with two events in the
queue the first may be acknowledged, a restart forget the tombstone and a room reopen before
the second is delivered, which the run's single delete event does not show.

Checked by TLC only: liveness (`ParkedIsResolved`, `TeardownCompletes`,
`AbandonedRoomReleased`, `EndingCloses`, `CallersReturn`, `LostSessionFailsCall`,
`CloseReleases`, `PublishedArrives`, `TeardownEnds`, `EventsSettle`, `CloseReleasesBroker`,
`FlightLands`), which rests on fairness and ENABLED and is out of the prover's reach.

## 5. Plan

Done, in this order: `Room` with `DurabilityBarrier`; `WsConn`; `Manager`; `RpcClient`;
`RedisHub`; first proofs; `CheckpointStore` with `SaveContract`; `LifecycleConsumer` and
the composition `Deletion`; `UpdatePath`; the safety properties and both refinements, proved.

Next, most important first:

1. Proofs beyond the properties of the runs: what the lifecycle consumer holds open at the
   broker, as `NothingLeftOpen` for the RPC client; that a dirty room that ends by
   escalation told its members so.
2. `Awareness`: who owns an awareness id, and that the last owner's leave evicts it.
3. The token bucket's arithmetic; the authorization breaker.

## 6. Not modelled

Wire formats and encodings (y-protocols, JSON controls, RPC envelopes, file uploads); the
locator rules of document contents; awareness and its eviction; the refill arithmetic of the
rate limiter; the authorization adapters' circuit breaker; HTTP routing, health and
metrics; configuration; construction of the application; WebSocket upgrade and origin
checks. `measureLiveDoc` (a registry hit by a second room of a document) is left out of
`UpdatePath`, since the registry has one room per document at a time (`OneLiveRoom`). Each is
listed with its reason under `components` in `PROJECT.json`.
