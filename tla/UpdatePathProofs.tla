-------------------------- MODULE UpdatePathProofs --------------------------
(***************************************************************************)
(* Proofs about the path of an update into the live document: for every    *)
(* set of updates, whatever their lengths, authors and faults, every size  *)
(* limit and every combination of mishaps.                                 *)
(***************************************************************************)
EXTENDS UpdatePath, FiniteSetTheorems, TLAPS

-----------------------------------------------------------------------------
(* The inductive invariant                                                 *)

Flights ==
  [stage : {"none", "emitting", "sending", "queued"}, actors : SUBSET Actors(Updates),
   ok : BOOLEAN, covers : SUBSET Updates]

UpdateTypeOK ==
  /\ room \in {"open", "settling", "closed", "unsent", "deleted"}
  /\ doc \subseteq Updates /\ shadow \subseteq Updates /\ stored \subseteq Updates
  /\ docBytes \in Nat
  /\ dirty \in BOOLEAN /\ excused \in BOOLEAN
  /\ contributors \subseteq Actors(Updates)
  /\ flight \in Flights
  /\ unreported \subseteq Updates /\ forgotten \subseteq Updates

\* The cached size lags the encoded one by at most its constant part: a document
\* that was never measured starts at zero, and an update adds no more than its own
\* length.
SizeTracked == Cardinality(doc) <= docBytes

\* There is a flight only in a room that can still settle it, or that was deleted.
FlightOwned ==
  /\ flight.stage = "none" => flight = NoFlight
  /\ room \in {"closed", "unsent"} => flight = NoFlight

\* A change no event covered, whose writer was recorded, has its author in the window,
\* or in a flight that took it along and did not succeed.
Accounted ==
  /\ room \in {"open", "settling"} =>
       \A u \in unreported \ forgotten :
         Author[u] \in contributors
         \/ (u \in flight.covers /\ Author[u] \in flight.actors /\ ~flight.ok)
  /\ room = "closed" => unreported \subseteq forgotten

UpdateInv ==
  /\ UpdateTypeOK
  /\ ShadowMirrors
  /\ SizeTracked
  /\ BudgetHolds
  /\ FlightOwned
  /\ Accounted

-----------------------------------------------------------------------------
(* Sizes                                                                   *)

\* A document is finite, and an update makes it longer by at most one.
LEMMA DocSize ==
  ASSUME NEW d \in SUBSET Updates, NEW u \in Updates
  PROVE  /\ Cardinality(d) \in Nat
         /\ Cardinality(d \cup {u}) \in Nat
         /\ Cardinality(d \cup {u}) <= Cardinality(d) + 1
<1>1. IsFiniteSet(d)
  BY FS_Subset, UpdateAssumption
<1>2. Cardinality(d) \in Nat
  BY <1>1, FS_CardinalityType
<1>3. Cardinality(d \cup {u}) = IF u \in d THEN Cardinality(d) ELSE Cardinality(d) + 1
  BY <1>1, FS_AddElement
<1> QED BY <1>2, <1>3

\* The length of a document is a number.
LEMMA DocFinite ==
  ASSUME NEW d \in SUBSET Updates
  PROVE  Cardinality(d) \in Nat
BY FS_Subset, FS_CardinalityType, UpdateAssumption

\* The empty document has size zero.
LEMMA EmptySize == Cardinality({}) = 0
BY FS_EmptySet

\* What applyWouldExceedMaxDocBytes may answer: the cache stays a lower bound it was, and an
\* update it lets through without a fault keeps the document within the limit.
LEMMA MeasurementSound ==
  ASSUME UpdateTypeOK, SizeTracked, NEW u \in Updates, NEW m \in Measurements(u)
  PROVE  /\ m.over \in BOOLEAN /\ m.fault \in BOOLEAN /\ m.bytes \in Nat
         /\ Cardinality(doc) <= m.bytes
         /\ MaxDocBytes = 0 \/ m.over \/ m.fault \/ u \in Cut
            \/ SizeOf(doc \cup {u}) <= MaxDocBytes
<1>1. /\ Cardinality(doc) \in Nat /\ Cardinality(doc \cup {u}) \in Nat
      /\ Cardinality(doc \cup {u}) <= Cardinality(doc) + 1
  BY DocSize DEF UpdateTypeOK
<1>2. Wire[u] \in Nat /\ Wire[u] >= 1 /\ MaxDocBytes \in Nat /\ Slack \in Nat /\ docBytes \in Nat
  BY UpdateAssumption DEF UpdateTypeOK
<1>3. CASE MaxDocBytes = 0 \/ Skips(u)
  <2>1. m = Within(docBytes, FALSE)
    BY <1>3 DEF Measurements
  <2>2. ASSUME Skips(u) PROVE SizeOf(doc \cup {u}) <= MaxDocBytes
    BY <2>2, <1>1, <1>2 DEF Skips, SizeOf, SizeTracked
  <2> QED BY <1>3, <2>1, <2>2, <1>2 DEF Within, SizeTracked
<1>4. CASE ~(MaxDocBytes = 0 \/ Skips(u))
  <2>1. \/ m = Within(SizeOf(doc), FALSE) /\ u \in Cut
        \/ m = [over |-> SizeOf(doc \cup {u}) > MaxDocBytes, bytes |-> SizeOf(doc), fault |-> FALSE]
        \/ m \in {Within(docBytes, TRUE), Within(SizeOf(doc), TRUE)}
    BY <1>4 DEF Measurements
  <2>2. SizeOf(doc) \in Nat /\ SizeOf(doc) >= Cardinality(doc) /\ SizeOf(doc \cup {u}) \in Nat
    BY <1>1 DEF SizeOf
  <2>3. CASE m = [over |-> SizeOf(doc \cup {u}) > MaxDocBytes, bytes |-> SizeOf(doc),
                  fault |-> FALSE]
    <3>1. (m.over <=> SizeOf(doc \cup {u}) > MaxDocBytes) /\ m.bytes = SizeOf(doc) /\ ~m.fault
      BY <2>2, <2>3, <1>2
    <3>2. m.over \in BOOLEAN /\ m.fault \in BOOLEAN
      BY <2>2, <2>3, <1>2
    <3>3. m.over \/ SizeOf(doc \cup {u}) <= MaxDocBytes
      BY <1>2, <2>2, <3>1
    <3> QED BY <2>2, <3>1, <3>2, <3>3
  <2>4. CASE m = Within(SizeOf(doc), FALSE) /\ u \in Cut
    BY <2>2, <2>4 DEF Within
  <2>5. CASE m = Within(docBytes, TRUE)
    BY <1>2, <2>5 DEF Within, SizeTracked
  <2>6. CASE m = Within(SizeOf(doc), TRUE)
    BY <2>2, <2>6 DEF Within
  <2> QED BY <2>1, <2>3, <2>4, <2>5, <2>6
<1> QED BY <1>3, <1>4

-----------------------------------------------------------------------------
(* Initially, and by each action                                           *)

\* The invariant holds initially.
LEMMA UpdateInitInv == Init => UpdateInv
<1> SUFFICES ASSUME Init PROVE UpdateInv
  OBVIOUS
<1>1. NoFlight \in Flights
  BY DEF NoFlight, Flights
<1>2. UpdateTypeOK
  BY <1>1 DEF Init, UpdateTypeOK
<1>3. SizeTracked /\ BudgetHolds
  BY EmptySize, UpdateAssumption DEF Init, SizeTracked, BudgetHolds, SizeOf
<1> QED BY <1>2, <1>3 DEF Init, UpdateInv, ShadowMirrors, FlightOwned, Accounted

\* An update, local or a peer's, new or replayed, accepted, refused or breaking the room.
LEMMA ApplyInv ==
  ASSUME UpdateInv, NEW u \in Updates, ApplyUpdate(u)
  PROVE  UpdateInv'
<1>1. PICK m \in Measurements(u) :
        /\ excused' = (excused \/ Overruns(u, m))
        /\ IF m.over /\ u \notin Peers
           THEN docBytes' = m.bytes /\ UNCHANGED <<room, doc, shadow, dirty, stored, analytics>>
           ELSE IF u \in Cut \/ ~ValidateSchema(shadow \cup {u})
           THEN Refused(u) /\ docBytes' = m.bytes /\ UNCHANGED analytics
           ELSE ApplyLive(u, m.bytes)
  BY DEF ApplyUpdate
<1>2. /\ m.over \in BOOLEAN /\ m.fault \in BOOLEAN /\ m.bytes \in Nat
      /\ Cardinality(doc) <= m.bytes
      /\ MaxDocBytes = 0 \/ m.over \/ m.fault \/ u \in Cut \/ SizeOf(doc \cup {u}) <= MaxDocBytes
  BY MeasurementSound DEF UpdateInv
<1>3. /\ Cardinality(doc) \in Nat /\ Cardinality(doc \cup {u}) \in Nat
      /\ Cardinality(doc \cup {u}) <= Cardinality(doc) + 1
  BY DocSize DEF UpdateInv, UpdateTypeOK
<1>4. /\ room = "open" /\ shadow = doc
      /\ excused' \in BOOLEAN /\ (excused => excused')
      /\ Wire[u] \in Nat /\ Wire[u] >= 1 /\ MaxDocBytes \in Nat
  BY <1>1, UpdateAssumption DEF ApplyUpdate, UpdateInv, ShadowMirrors, UpdateTypeOK, Overruns
<1>5. CASE /\ doc' = doc /\ shadow' = doc /\ docBytes' = m.bytes
           /\ room' = room \/ room' = "settling"
           /\ UNCHANGED <<dirty, stored, contributors, flight, unreported, forgotten>>
  <2>1. UpdateTypeOK'
    BY <1>2, <1>4, <1>5 DEF UpdateInv, UpdateTypeOK
  <2>2. SizeTracked' /\ BudgetHolds'
    BY <1>2, <1>4, <1>5 DEF UpdateInv, SizeTracked, BudgetHolds, SizeOf
  <2> QED BY <1>4, <1>5, <2>1, <2>2 DEF UpdateInv, ShadowMirrors, FlightOwned, Accounted
<1>6. CASE ApplyLive(u, m.bytes) /\ ~(m.over /\ u \notin Peers) /\ u \notin Cut
  <2>1. /\ doc' = doc \cup {u} /\ shadow' = doc'
        /\ docBytes' = IF u \in doc THEN m.bytes ELSE m.bytes + Wire[u]
        /\ dirty' = dirty \/ dirty' = TRUE
        /\ UNCHANGED <<room, stored, flight>>
    BY <1>4, <1>6 DEF ApplyLive, OnDocUpdate, RecordContribution, analytics
  <2>2. \/ UNCHANGED <<contributors, unreported, forgotten>>
        \/ /\ unreported' = unreported \cup {u}
           /\ \/ contributors' = contributors \cup {Author[u]} /\ UNCHANGED forgotten
              \/ UNCHANGED contributors /\ forgotten' = forgotten \cup {u}
    BY <1>6 DEF ApplyLive, RecordContribution, analytics
  <2>3. Author[u] \in Actors(Updates)
    BY DEF Actors
  <2>4. UpdateTypeOK'
    <3>1. docBytes' \in Nat
      BY <1>2, <1>4, <2>1
    <3>2. dirty' \in BOOLEAN
      BY <2>1 DEF UpdateInv, UpdateTypeOK
    <3> QED BY <1>4, <2>1, <2>2, <2>3, <3>1, <3>2 DEF UpdateInv, UpdateTypeOK
  <2>5. SizeTracked'
    <3>1. CASE u \in doc
      BY <1>2, <2>1, <3>1, doc \cup {u} = doc DEF SizeTracked
    <3>2. CASE u \notin doc
      BY <1>2, <1>3, <1>4, <2>1, <3>2 DEF SizeTracked
    <3> QED BY <3>1, <3>2
  <2>6. BudgetHolds'
    <3>1. CASE MaxDocBytes = 0 \/ SizeOf(doc \cup {u}) <= MaxDocBytes
      BY <2>1, <3>1 DEF BudgetHolds
    <3>2. CASE m.over \/ m.fault
      <4>1. (m.over => u \in Peers) /\ (m.fault \/ m.over)
        BY <1>6, <3>2
      <4>2. Overruns(u, m) \/ SizeOf(doc \cup {u}) <= MaxDocBytes
        BY <4>1, <1>3, <1>4 DEF Overruns, SizeOf
      <4> QED BY <4>2, <1>1, <2>1 DEF BudgetHolds
    <3> QED BY <1>2, <1>6, <3>1, <3>2
  <2>7. FlightOwned' /\ ShadowMirrors'
    BY <2>1 DEF UpdateInv, FlightOwned, ShadowMirrors
  <2>8. Accounted'
    BY <1>4, <2>1, <2>2 DEF UpdateInv, Accounted
  <2> QED BY <2>4, <2>5, <2>6, <2>7, <2>8 DEF UpdateInv
<1> QED BY <1>1, <1>4, <1>5, <1>6 DEF Refused, Panics, analytics

\* A flush, a teardown, a delete and the opening of the next room.
LEMMA RoomStepInv ==
  UpdateInv /\ (Persist \/ BeginTeardown \/ CloseDeleted \/ Open) => UpdateInv'
<1> SUFFICES ASSUME UpdateInv, Persist \/ BeginTeardown \/ CloseDeleted \/ Open PROVE UpdateInv'
  OBVIOUS
<1>0. /\ Cardinality(doc) \in Nat /\ Cardinality(stored) \in Nat
      /\ SizeOf(doc) \in Nat /\ SizeOf(stored) \in Nat /\ MaxDocBytes \in Nat
  BY DocFinite, UpdateAssumption DEF UpdateInv, UpdateTypeOK, SizeOf
<1>1. CASE Persist
  <2>1. UpdateTypeOK'
    BY <1>0, <1>1 DEF Persist, Save, analytics, UpdateInv, UpdateTypeOK
  <2>2. SizeTracked' /\ BudgetHolds'
    BY <1>0, <1>1 DEF Persist, UpdateInv, SizeTracked, BudgetHolds, SizeOf
  <2> QED BY <1>1, <2>1, <2>2
          DEF Persist, analytics, UpdateInv, ShadowMirrors, FlightOwned, Accounted
<1>2. CASE BeginTeardown
  <2>1. UpdateTypeOK'
    BY <1>2 DEF BeginTeardown, Save, analytics, UpdateInv, UpdateTypeOK
  <2> QED BY <1>2, <2>1 DEF BeginTeardown, analytics, UpdateInv, ShadowMirrors, SizeTracked,
                            BudgetHolds, SizeOf, FlightOwned, Accounted
<1>3. CASE CloseDeleted
  <2>1. UpdateTypeOK'
    BY <1>3 DEF CloseDeleted, content, analytics, UpdateInv, UpdateTypeOK
  <2> QED BY <1>3, <2>1 DEF CloseDeleted, content, analytics, UpdateInv, ShadowMirrors, SizeTracked,
                            BudgetHolds, SizeOf, FlightOwned, Accounted
<1>4. CASE Open
  <2>0. excused' <=> SizeOf(stored) > MaxDocBytes
    BY <1>4, Zenon DEF Open
  <2>1. UpdateTypeOK'
    <3>1. excused' \in BOOLEAN
      BY <1>0, <1>4 DEF Open
    <3> QED BY <1>0, <1>4, <3>1 DEF Open, UpdateInv, UpdateTypeOK
  <2>2. SizeTracked'
    BY <1>0, <1>4, EmptySize DEF Open, SizeTracked, SizeOf
  <2>3. BudgetHolds'
    <3>1. doc' = stored /\ SizeOf(doc') = SizeOf(stored)
      BY <1>4 DEF Open
    <3>2. excused' \/ SizeOf(stored) <= MaxDocBytes
      BY <1>0, <2>0
    <3> QED BY <3>1, <3>2 DEF BudgetHolds
  <2> QED BY <1>4, <2>1, <2>2, <2>3 DEF Open, UpdateInv, ShadowMirrors, FlightOwned, Accounted
<1> QED BY <1>1, <1>2, <1>3, <1>4

\* The contribution window: a batch starts, lands, is merged back or is settled.
LEMMA WindowStepInv ==
  UpdateInv /\ (StartContributionFlush \/ FlightStep \/ FinishContributionFlush \/ Settle)
    => UpdateInv'
<1> SUFFICES ASSUME UpdateInv,
                    StartContributionFlush \/ FlightStep \/ FinishContributionFlush \/ Settle
             PROVE  UpdateInv'
  OBVIOUS
<1>1. UNCHANGED content /\ (room' = room \/ room' # "open")
  BY DEF StartContributionFlush, FlightStep, SendCompletion, FlightExits, Emitted,
         FinishContributionFlush, Settle
<1>2. ShadowMirrors' /\ SizeTracked' /\ BudgetHolds'
  BY <1>1 DEF content, UpdateInv, ShadowMirrors, SizeTracked, BudgetHolds, SizeOf
<1>3. NoFlight \in Flights
  BY DEF NoFlight, Flights
<1> SUFFICES UpdateTypeOK' /\ FlightOwned' /\ Accounted'
  BY <1>2 DEF UpdateInv
<1> USE DEF UpdateInv, UpdateTypeOK, content, FlightOwned, Accounted
<1>4. CASE StartContributionFlush
  <2>1. flight' \in Flights /\ flight'.stage = "emitting"
    BY <1>4 DEF StartContributionFlush, Flights
  <2>2. Accounted'
    BY <1>4 DEF StartContributionFlush, NoFlight
  <2> QED BY <1>4, <2>1, <2>2 DEF StartContributionFlush
<1>5. CASE SendCompletion
  <2>1. /\ flight' \in Flights /\ flight'.stage = "queued" /\ flight'.actors = flight.actors
        /\ flight'.covers = flight.covers /\ flight'.ok = flight.ok
    BY <1>5 DEF SendCompletion, Flights
  <2> QED BY <1>5, <2>1 DEF SendCompletion
<1>6. CASE FlightExits
  BY <1>3, <1>6 DEF FlightExits, NoFlight
<1>7. ASSUME NEW ok \in BOOLEAN, Emitted(ok)
      PROVE  UpdateTypeOK' /\ FlightOwned' /\ Accounted'
  <2>1. /\ flight' \in Flights /\ flight'.stage = "sending" /\ flight'.actors = flight.actors
        /\ flight'.covers = flight.covers /\ flight'.ok = ok
    BY <1>7 DEF Emitted, Flights
  <2>2. room \notin {"closed", "unsent"}
    BY <1>7 DEF Emitted, NoFlight
  <2> QED BY <1>7, <2>1, <2>2 DEF Emitted
<1>8. CASE FinishContributionFlush
  <2>1. contributors' \subseteq Actors(Updates)
    BY <1>8 DEF FinishContributionFlush, Merged, Flights
  <2>2. Accounted'
    BY <1>8 DEF FinishContributionFlush, Merged
  <2> QED BY <1>3, <1>8, <2>1, <2>2 DEF FinishContributionFlush
<1>9. CASE Settle
  <2> DEFINE left == IF flight.stage = "none" THEN contributors ELSE Merged
  <2>1. left \subseteq Actors(Updates)
    BY DEF Merged, Flights
  <2>2. \A u \in unreported \ forgotten : Author[u] \in left
    BY <1>9 DEF Settle, Merged, NoFlight
  <2>3. \/ /\ room' = "closed" /\ contributors' = {}
           /\ unreported' = {u \in unreported : Author[u] \notin left}
        \/ room' = "unsent" /\ contributors' = left /\ UNCHANGED unreported
    BY <1>9 DEF Settle
  <2>4. flight' = NoFlight /\ UNCHANGED forgotten
    BY <1>9 DEF Settle
  <2> HIDE DEF left
  <2> QED BY <1>1, <1>3, <2>1, <2>2, <2>3, <2>4
<1> QED BY <1>4, <1>5, <1>6, <1>7, <1>8, <1>9 DEF FlightStep

\* Every step keeps the invariant.
LEMMA UpdateNextInv == UpdateInv /\ [Next]_vars => UpdateInv'
<1> SUFFICES ASSUME UpdateInv, [Next]_vars PROVE UpdateInv'
  OBVIOUS
<1>1. CASE Next
  BY <1>1, ApplyInv, RoomStepInv, WindowStepInv DEF Next
<1>2. CASE UNCHANGED vars
  BY <1>2 DEF vars, content, analytics, UpdateInv, UpdateTypeOK, ShadowMirrors, SizeTracked,
              BudgetHolds, SizeOf, FlightOwned, Accounted
<1> QED BY <1>1, <1>2

\* The invariant holds in every reachable state.
LEMMA UpdateInvariant == Spec => []UpdateInv
BY UpdateInitInv, UpdateNextInv, PTL DEF Spec

-----------------------------------------------------------------------------
(* The theorems                                                            *)

\* Whatever was refused, truncated, replayed or applied for a peer, applyUpdate judges
\* the next update against the live document: the shadow is a copy of it.
THEOREM ShadowTheorem == Spec => []ShadowMirrors
<1>1. UpdateInv => ShadowMirrors
  BY DEF UpdateInv
<1> QED BY <1>1, UpdateInvariant, PTL

\* The cheap skip of applyWouldExceedMaxDocBytes never admits a write past
\* MaxDocBytes, for every limit, slack and update length, although the cached size
\* may lag the encoded one by its constant part: doubling the update's length covers
\* that lag.
THEOREM BudgetTheorem == Spec => []BudgetHolds
<1>1. UpdateInv => BudgetHolds
  BY DEF UpdateInv
<1> QED BY <1>1, UpdateInvariant, PTL

\* No recorded contributor is lost: the author of an unreported change is in the
\* window or in the flight, and a room that ended and reported left nobody out
\* (startContributionFlush, finishContributionFlush, settleContributionFlight). The
\* changes recordContribution does not record, a dropped or an anonymous writer's,
\* are the only ones left out.
THEOREM ContributorsTheorem == Spec => []ContributorsAccounted
<1>1. UpdateInv => ContributorsAccounted
  BY DEF UpdateInv, Accounted, ContributorsAccounted, Actors
<1> QED BY <1>1, UpdateInvariant, PTL
=============================================================================
