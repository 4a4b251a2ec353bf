----------------------------- MODULE UpdatePath -----------------------------
(***************************************************************************)
(* How an update gets into the live document of a room and what the room   *)
(* keeps about it: the size budget with its cached size (docBytes), the    *)
(* validation shadow every update is tried on first, the live apply with   *)
(* its observer (room.go), and the window of contributing actors that is   *)
(* reported off the run loop (presence.go).                                *)
(*                                                                         *)
(* The run loop is one goroutine: an update, a flush, a tick or a          *)
(* completion is one step.  The reporting goroutine (a "flight") runs      *)
(* beside it.  A document is the set of updates in it; an encoded document *)
(* is one unit plus one per update.  Who is disconnected for a refused     *)
(* update, and how a flush is scheduled, is in module Room; of a broadcast *)
(* that drops members, only the loss of the writer itself is kept here.    *)
(* The contribution window is enabled (contributionEnabled).               *)
(***************************************************************************)
EXTENDS Naturals, FiniteSets

CONSTANTS
  Updates,      \* the updates there are
  Wire,         \* the length of each in the v1 encoding
  Author,       \* the actor that writes each, NoActor for an anonymous session
  NoActor,
  Peers,        \* those another pod applied first and published
  Poison,       \* those that break the locator schema
  Cut,          \* those that apply and then fail to decode (a truncated frame)
  MaxDocBytes,  \* Limits.MaxDocBytes, 0 for no limit
  Slack,        \* budgetSkipSlack
  Mishaps       \* what may go wrong: a subset of MishapKinds

\* "measure": encoding or rebuilding the document for the size check fails;
\* "clone": copying the live document fails; "save": a flush fails; "bus": a
\* contribution event fails; "delete": the owner deletes the document; "drop": the
\* broadcast of an update drops a member, whose awareness eviction is broadcast to
\* the writer too and fails there, so that the writer is gone.
MishapKinds == {"measure", "clone", "save", "bus", "delete", "drop"}

\* An update adds at most its own length to the encoded document.
ASSUME UpdateAssumption ==
  /\ IsFiniteSet(Updates)
  /\ Wire \in [Updates -> Nat \ {0}]
  /\ Peers \subseteq Updates /\ Poison \subseteq Updates /\ Cut \subseteq Updates
  /\ MaxDocBytes \in Nat /\ Slack \in Nat
  /\ Mishaps \subseteq MishapKinds

VARIABLES
  room,          \* open, settling (teardown waits for the flight), or how it ended
  doc,           \* the live document
  shadow,        \* r.shadow
  docBytes,      \* the cached encoded size, 0 for not established
  dirty,         \* r.dirty
  stored,        \* the checkpoint, {} for none
  contributors,  \* the actors of the current window
  flight,        \* r.contributionFlight and the goroutine behind it
  unreported,    \* history: local updates of identified writers no accepted event covered
  forgotten,     \* history: those whose writer was dropped before it was recorded
  excused        \* history: a peer or a failed measurement broke the budget

content == <<doc, shadow, docBytes, dirty, stored, excused>>
analytics == <<contributors, flight, unreported, forgotten>>
vars == <<room, content, analytics>>

SizeOf(d) == 1 + Cardinality(d)
Actors(us) == {Author[u] : u \in us}

NoFlight == [stage |-> "none", actors |-> {}, ok |-> FALSE, covers |-> {}]

Init ==
  /\ room = "open"
  /\ doc = {} /\ shadow = {} /\ docBytes = 0
  /\ dirty = FALSE /\ stored = {}
  /\ contributors = {} /\ flight = NoFlight
  /\ unreported = {} /\ forgotten = {} /\ excused = FALSE

-----------------------------------------------------------------------------
(* applyUpdate: budget, candidate, schema, live                            *)

\* The cheap skip: docBytes = 0 forces the exact measurement.
Skips(u) == docBytes > 0 /\ docBytes + 2 * Wire[u] + Slack <= MaxDocBytes

Within(bytes, fault) == [over |-> FALSE, bytes |-> bytes, fault |-> fault]

\* applyWouldExceedMaxDocBytes: verdict and refreshed cache. A measurement that
\* fails admits the update, and what cannot be decoded cannot be measured.
Measurements(u) ==
  IF MaxDocBytes = 0 \/ Skips(u) THEN {Within(docBytes, FALSE)}
  ELSE {IF u \in Cut THEN Within(SizeOf(doc), FALSE)
        ELSE [over |-> SizeOf(doc \cup {u}) > MaxDocBytes, bytes |-> SizeOf(doc), fault |-> FALSE]}
       \cup (IF "measure" \in Mishaps THEN {Within(docBytes, TRUE), Within(SizeOf(doc), TRUE)} ELSE {})

\* validateSchema: no locator in the document breaks the bounded-locator rule.
ValidateSchema(d) == d \cap Poison = {}

\* invariantFailed: the panic tears the room down without a flush.
Panics ==
  /\ room' = "settling"
  /\ UNCHANGED <<doc, shadow, dirty, stored>>

\* Mutant: the shadow that failed to decode an update is used again.
RefusedKeepingShadow(u) ==
  /\ shadow' = shadow \cup {u}
  /\ UNCHANGED <<room, doc, dirty, stored>>

\* The candidate failed or broke the schema: rebuildShadow, from the live document.
Refused(u) ==
  \/ shadow' = doc /\ UNCHANGED <<room, doc, dirty, stored>>
  \/ "clone" \in Mishaps /\ Panics

\* Mutant: the observer leaves the cached size alone.
OnDocUpdateUncounted(u, bytes) ==
  /\ dirty' = TRUE
  /\ docBytes' = bytes

\* onDocUpdate: fired by an apply that added something.
OnDocUpdate(u, bytes) ==
  /\ dirty' = TRUE
  /\ docBytes' = bytes + Wire[u]

\* recordContribution, for a local write that changed the document: nothing for a
\* writer without an actor, nor for one the apply's own broadcast has dropped.
RecordContribution(u) ==
  /\ unreported' = unreported \cup {u}
  /\ \/ /\ contributors' = contributors \cup {Author[u]}
        /\ UNCHANGED forgotten
     \/ /\ "drop" \in Mishaps
        /\ forgotten' = forgotten \cup {u}
        /\ UNCHANGED contributors
  /\ UNCHANGED flight

Counts(u) == u \notin Peers \cup doc /\ Author[u] # NoActor

ApplyLive(u, bytes) ==
  /\ doc' = doc \cup {u}
  /\ shadow' = shadow \cup {u}
  /\ IF u \in doc THEN docBytes' = bytes /\ UNCHANGED dirty ELSE OnDocUpdate(u, bytes)
  /\ IF Counts(u) THEN RecordContribution(u) ELSE UNCHANGED analytics
  /\ UNCHANGED <<room, stored>>

\* What the code lets past the budget knowingly.
Overruns(u, measured) ==
  SizeOf(doc \cup {u}) > MaxDocBytes /\ (measured.fault \/ (measured.over /\ u \in Peers))

\* A local write over budget is refused before it touches anything; a peer's is
\* applied all the same. Replays of known updates come too.
ApplyUpdate(u) ==
  /\ room = "open"
  /\ \E measured \in Measurements(u) :
       /\ excused' = (excused \/ Overruns(u, measured))
       /\ IF measured.over /\ u \notin Peers
          THEN docBytes' = measured.bytes /\ UNCHANGED <<room, doc, shadow, dirty, stored, analytics>>
          ELSE IF u \in Cut \/ ~ValidateSchema(shadow \cup {u})
          THEN Refused(u) /\ docBytes' = measured.bytes /\ UNCHANGED analytics
          ELSE ApplyLive(u, measured.bytes)

-----------------------------------------------------------------------------
(* Flushing, ending and opening                                            *)

\* persist: the cache is resynchronized before the stores are asked.
Save ==
  \/ dirty' = FALSE /\ stored' = doc
  \/ "save" \in Mishaps /\ UNCHANGED <<dirty, stored>>

Persist ==
  /\ room = "open" /\ dirty
  /\ docBytes' = SizeOf(doc)
  /\ Save
  /\ UNCHANGED <<room, doc, shadow, excused, analytics>>

\* Teardown with a flush (idleness, shutdown) or without one (escalation, panic).
BeginTeardown ==
  /\ room = "open"
  /\ room' = "settling"
  /\ Save \/ UNCHANGED <<dirty, stored>>
  /\ UNCHANGED <<doc, shadow, docBytes, excused, analytics>>

\* An owner delete reports nothing: the last window is dropped, a flight is left alone.
CloseDeleted ==
  /\ "delete" \in Mishaps
  /\ room = "open"
  /\ room' = "deleted"
  /\ UNCHANGED <<content, analytics>>

\* newRoom: restoreInto sizes what it loaded, a document without a checkpoint
\* starts at zero; initShadow copies what was opened.
Open ==
  /\ room \in {"closed", "unsent"}
  /\ room' = "open"
  /\ doc' = stored /\ shadow' = stored
  /\ docBytes' = IF stored = {} THEN 0 ELSE SizeOf(stored)
  /\ dirty' = FALSE
  /\ contributors' = {} /\ unreported' = {} /\ forgotten' = {}
  /\ excused' = (SizeOf(stored) > MaxDocBytes)
  /\ UNCHANGED <<stored, flight>>

-----------------------------------------------------------------------------
(* The contribution window                                                 *)

\* startContributionFlush on the window's tick: at most one batch in flight.
StartContributionFlush ==
  /\ room = "open" /\ flight.stage = "none" /\ contributors # {}
  /\ flight' = [stage |-> "emitting", actors |-> contributors, ok |-> FALSE,
                covers |-> {u \in unreported : Author[u] \in contributors}]
  /\ contributors' = {}
  /\ UNCHANGED <<room, content, unreported, forgotten>>

\* The goroutine: the call ends within its deadline and its result is buffered.
Emitted(ok) ==
  /\ ok \/ "bus" \in Mishaps
  /\ flight.stage = "emitting"
  /\ flight' = [flight EXCEPT !.stage = "sending", !.ok = ok]
  /\ unreported' = IF ok THEN unreported \ flight.covers ELSE unreported
  /\ UNCHANGED <<room, content, contributors, forgotten>>

\* Mutant: the completion goes through enqueueCtx, which may give up.
SendCompletionOrDrop ==
  /\ flight.stage = "sending" /\ room = "open"
  /\ \E stage \in {"queued", "dropped"} : flight' = [flight EXCEPT !.stage = stage]
  /\ UNCHANGED <<room, content, contributors, unreported, forgotten>>

\* The raw send of cmdContributionDone, however long the channel stays full.
SendCompletion ==
  /\ flight.stage = "sending" /\ room = "open"
  /\ flight' = [flight EXCEPT !.stage = "queued"]
  /\ UNCHANGED <<room, content, contributors, unreported, forgotten>>

\* The goroutine of a room that is done exits.
FlightExits ==
  /\ flight.stage \in {"sending", "queued"} /\ room = "deleted"
  /\ flight' = NoFlight
  /\ UNCHANGED <<room, content, contributors, unreported, forgotten>>

\* Mutant: a failed batch replaces the window instead of joining it.
MergeReplacing == IF flight.ok THEN contributors ELSE flight.actors

\* mergeContributors, for a flight that failed.
Merged == IF flight.ok THEN contributors ELSE contributors \cup flight.actors

\* finishContributionFlush, on the run loop.
FinishContributionFlush ==
  /\ room = "open" /\ flight.stage = "queued"
  /\ contributors' = Merged
  /\ flight' = NoFlight
  /\ UNCHANGED <<room, content, unreported, forgotten>>

\* Teardown: settleContributionFlight waits for the buffered result, then
\* flushContributionNow emits what is left once.
Settle ==
  /\ room = "settling" /\ flight.stage # "emitting"
  /\ LET left == IF flight.stage = "none" THEN contributors ELSE Merged
     IN \/ /\ room' = "closed"
           /\ contributors' = {}
           /\ unreported' = {u \in unreported : Author[u] \notin left}
        \/ /\ left # {} /\ "bus" \in Mishaps
           /\ room' = "unsent"
           /\ contributors' = left
           /\ UNCHANGED unreported
  /\ flight' = NoFlight
  /\ UNCHANGED <<content, forgotten>>

-----------------------------------------------------------------------------
FlightStep == SendCompletion \/ FlightExits \/ \E ok \in BOOLEAN : Emitted(ok)

Next ==
  \/ \E u \in Updates : ApplyUpdate(u)
  \/ Persist \/ BeginTeardown \/ CloseDeleted \/ Open
  \/ StartContributionFlush \/ FlightStep \/ FinishContributionFlush \/ Settle

Spec == Init /\ [][Next]_vars

\* Calls end (deadlines), goroutines run, and a loop that keeps coming back to its
\* select takes a queued command.
FairSpec == Spec /\ WF_vars(FlightStep) /\ WF_vars(FinishContributionFlush) /\ WF_vars(Settle)

-----------------------------------------------------------------------------
(* Properties                                                              *)

\* Between two commands the shadow is the live document, whatever was refused,
\* truncated, replayed or applied for a peer before: an update is always judged
\* against the document it would join (applyUpdate, rebuildShadow).
ShadowMirrors == room = "open" => shadow = doc

\* Skipping the exact measurement never lets a write past MaxDocBytes: only a
\* peer's update known to be over, or a write whose own measurement failed, can
\* (every apply adds to the cached size, every flush and restore resets it).
BudgetHolds == MaxDocBytes = 0 \/ excused \/ SizeOf(doc) <= MaxDocBytes

\* The author of every change no event covered yet is in the window or in the
\* flight, however a failing flight, new writers and the room's end interleave; a
\* room that ended and reported leaves nobody out. Two kinds of change are outside
\* it, as recordContribution has them: those of an anonymous writer, and those of
\* one that the broadcast of its own update dropped.
ContributorsAccounted ==
  /\ room \in {"open", "settling"} =>
       Actors(unreported \ forgotten) \subseteq contributors \cup flight.actors
  /\ room = "closed" => unreported \subseteq forgotten

\* A batch taken off the window is settled: its completion is not lost behind a
\* full channel or a teardown, which would stop every later report of the room.
FlightLands == (flight.stage # "none") ~> (flight.stage = "none")
=============================================================================
