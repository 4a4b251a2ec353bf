----------------------- MODULE CheckpointStoreProofs ------------------------
(***************************************************************************)
(* Proofs about saving and restoring through the file service, for every   *)
(* number of edits and files, every upload limit and every combination of  *)
(* mishaps.                                                                *)
(***************************************************************************)
EXTENDS CheckpointStore, TLAPS

-----------------------------------------------------------------------------
(* The inductive invariant                                                 *)

File == [state : {"unborn", "stored", "gone", "unreadable"}, content : SUBSET Edits]

\* Until the owner's delete, the calls in progress address the document's own
\* file: the one behind the pointer, or a new one while there is no pointer.  What
\* they have written there, if it is still there, is the document.
Addressed ==
  /\ at \in {"fetch", "rewrite", "index"} => target \in Files /\ target = row.pointer
  /\ at \in {"create", "record", "point"} => row.pointer = None
  /\ at \in {"record", "point"} => target \in Files /\ files[target] = Stored(doc)
  /\ at = "index" /\ files[target].state = "stored" => files[target].content = doc

\* Until the owner's delete, whatever is stored behind the pointer covers what was
\* reported saved, and without a pointer nothing was.
Covered ==
  /\ row.pointer = None => acked = {}
  /\ row.pointer # None /\ files[row.pointer].state = "stored" =>
       acked \subseteq files[row.pointer].content

\* A document nothing outside touched still has its file.
Undamaged ==
  /\ ~deleted
  /\ row.pointer # None => files[row.pointer].state = "stored"

\* Only an open room holds edits, and only unsaved ones are being saved.
Memory ==
  /\ ~Live => doc = {} /\ dirty = FALSE
  /\ at \in SaveSteps => dirty
  /\ at \in {"fetch", "rewrite", "record", "point", "index"} => target \in Files

StoreInv ==
  /\ StoreTypeOK
  /\ row.found \/ row.pointer = None
  /\ Memory
  /\ ~deleted => row.found /\ Addressed /\ Covered
  /\ intact => Undamaged
  /\ RestoresAcked

-----------------------------------------------------------------------------
(* Types                                                                   *)

\* A step of an opening keeps the types.
LEMMA OpenStepType ==
  StoreTypeOK /\ Memory /\ (RequireDocument \/ OpenStep) => StoreTypeOK'
<1> USE DEF StoreTypeOK, SaveSteps, external, memory, history, Opened, OpenFails
<1> SUFFICES ASSUME StoreTypeOK, Memory, RequireDocument \/ OpenStep PROVE StoreTypeOK'
  OBVIOUS
<1>1. CASE RequireDocument
  BY <1>1 DEF RequireDocument
<1>2. CASE LoadMetadata
  BY <1>2 DEF LoadMetadata
<1>3. CASE LookUpPointer
  BY <1>3 DEF LookUpPointer
<1>4. CASE Fetch
  BY <1>4 DEF Fetch, ReadFile, Memory
<1>5. CASE LoadCallFails
  BY <1>5 DEF LoadCallFails
<1> QED BY <1>1, <1>2, <1>3, <1>4, <1>5 DEF OpenStep

\* A step of a save keeps the types.
LEMMA SaveStepType == StoreTypeOK /\ SaveStep => StoreTypeOK'
<1> USE DEF StoreTypeOK, SaveSteps, external, history, SaveFails, Proceed
<1> SUFFICES ASSUME StoreTypeOK, SaveStep PROVE StoreTypeOK'
  OBVIOUS
<1>1. CASE Persist
  BY <1>1 DEF Persist
<1>2. CASE Resolve
  BY <1>2 DEF Resolve
<1>3. CASE Rewrite
  BY <1>3 DEF Rewrite, Stored
<1>8. CASE RecordLoads
  BY <1>8 DEF RecordLoads
<1>4. CASE Record
  BY <1>4 DEF Record, Upsert
<1>5. CASE SaveIndex
  BY <1>5 DEF SaveIndex, Upsert
<1>6. CASE SaveCallFails
  BY <1>6 DEF SaveCallFails
<1>7. ASSUME NEW f \in Files, Create(f)
      PROVE  StoreTypeOK'
  BY <1>7 DEF Create, Stored
<1> QED BY <1>1, <1>2, <1>3, <1>4, <1>5, <1>6, <1>7, <1>8 DEF SaveStep

\* Editing, ending and what happens outside keep the types.
LEMMA OtherStepType ==
  StoreTypeOK /\ (EditStep \/ CloseRoom \/ Die \/ Outside) => StoreTypeOK'
<1> USE DEF StoreTypeOK, SaveSteps, external, memory, history, Vanish
<1> SUFFICES ASSUME StoreTypeOK, EditStep \/ CloseRoom \/ Die \/ Outside PROVE StoreTypeOK'
  OBVIOUS
<1>1. ASSUME NEW e \in Edits, Edit(e)
      PROVE  StoreTypeOK'
  BY <1>1 DEF Edit
<1>2. CASE CloseRoom
  BY <1>2 DEF CloseRoom
<1>3. CASE Die
  BY <1>3 DEF Die
<1>4. CASE OwnerCascade
  BY <1>4 DEF OwnerCascade, NoFile
<1>5. ASSUME NEW how \in {"gone", "unreadable"}, Damage(how)
      PROVE  StoreTypeOK'
  BY <1>5 DEF Damage
<1> QED BY <1>1, <1>2, <1>3, <1>4, <1>5 DEF EditStep, Outside

-----------------------------------------------------------------------------
(* The invariant is inductive                                              *)

\* The invariant holds initially.
LEMMA StoreInitInv == StoreInit => StoreInv
<1> SUFFICES ASSUME StoreInit PROVE StoreInv
  OBVIOUS
<1>1. /\ row.found = TRUE /\ row.pointer = None
      /\ row \in [found : BOOLEAN, pointer : Files \cup {None}, owned : BOOLEAN]
  BY DEF StoreInit
<1>2. files \in [Files -> File]
  BY DEF StoreInit, File, NoFile
<1>3. StoreTypeOK
  BY <1>1, <1>2 DEF StoreInit, StoreTypeOK, File
<1> QED BY <1>1, <1>3
        DEF StoreInit, StoreInv, Memory, Addressed, Covered, Undamaged, RestoresAcked, Live, SaveSteps

\* Opening a document: what a room serves covers what was reported saved.
LEMMA OpenStepInv == StoreInv /\ (RequireDocument \/ OpenStep) => StoreInv'
<1> SUFFICES ASSUME StoreInv, RequireDocument \/ OpenStep PROVE StoreInv'
  OBVIOUS
<1>0. StoreTypeOK'
  BY OpenStepType DEF StoreInv
<1> USE DEF StoreInv, StoreTypeOK, Memory, Addressed, Covered, Undamaged, RestoresAcked, Live,
            SaveSteps, external, memory, history, Opened, OpenFails
<1>1. CASE RequireDocument
  BY <1>0, <1>1 DEF RequireDocument
<1>2. CASE LoadMetadata
  BY <1>0, <1>2 DEF LoadMetadata
<1>3. CASE LookUpPointer
  BY <1>0, <1>3 DEF LookUpPointer
<1>4. CASE Fetch
  BY <1>0, <1>4 DEF Fetch, ReadFile
<1>5. CASE LoadCallFails
  BY <1>0, <1>5 DEF LoadCallFails
<1> QED BY <1>1, <1>2, <1>3, <1>4, <1>5 DEF OpenStep

\* Saving: every call leaves what was reported saved behind the pointer.
LEMMA SaveStepInv == StoreInv /\ SaveStep => StoreInv'
<1> SUFFICES ASSUME StoreInv, SaveStep PROVE StoreInv'
  OBVIOUS
<1>0. StoreTypeOK'
  BY SaveStepType DEF StoreInv
<1> USE StoreAssumption
    DEF StoreInv, StoreTypeOK, Memory, Addressed, Covered, Undamaged, RestoresAcked, Live,
        SaveSteps, external, history, SaveFails, Proceed
<1>1. CASE Persist
  BY <1>0, <1>1 DEF Persist
<1>2. CASE Resolve
  BY <1>0, <1>2 DEF Resolve
<1>3. CASE Rewrite
  <2>1. CASE files[target].state = "gone"
    BY <1>0, <1>3, <2>1 DEF Rewrite
  <2>2. CASE files[target].state # "gone"
    <3>1. /\ at = "rewrite" /\ target \in Files /\ dirty
          /\ files'[target] = Stored(doc)
          /\ \A f \in Files \ {target} : files'[f] = files[f]
          /\ at' \in {"index", "open"} /\ (at' = "index" => target' = target)
          /\ UNCHANGED <<row, doc, dirty, acked, intact, deleted>>
      BY <1>3, <2>2 DEF Rewrite
    <3>2. Memory' /\ RestoresAcked' /\ (row.found \/ row.pointer = None)'
      BY <3>1
    <3>3. ~deleted' => (row.found /\ Addressed /\ Covered)'
      BY <3>1 DEF Stored
    <3>4. intact' => Undamaged'
      BY <3>1 DEF Stored
    <3> QED BY <1>0, <3>2, <3>3, <3>4
  <2> QED BY <2>1, <2>2
<1>4. CASE Record
  <2>1. /\ at = "point" /\ target \in Files /\ dirty
        /\ row'.found = TRUE /\ row'.pointer = target
        /\ at' \in {"index", "open"} /\ (at' = "index" => target' = target)
        /\ UNCHANGED <<files, doc, dirty, acked, intact, deleted>>
    BY <1>4 DEF Record, Upsert
  <2>2. Memory' /\ RestoresAcked' /\ (row.found \/ row.pointer = None)'
    BY <2>1
  <2>3. ~deleted' => (row.found /\ Addressed /\ Covered)'
    BY <2>1 DEF Stored
  <2>4. intact' => Undamaged'
    BY <2>1 DEF Stored
  <2> QED BY <1>0, <2>2, <2>3, <2>4
<1>5. CASE SaveIndex
  <2>1. /\ at = "index" /\ target \in Files /\ dirty
        /\ row'.found = TRUE /\ row'.pointer = row.pointer
        /\ at' = "open" /\ target' = None
        /\ acked' \in {acked, doc}
        /\ UNCHANGED <<files, doc, intact, deleted>>
    BY <1>5 DEF SaveIndex, Upsert
  <2>2. Memory' /\ RestoresAcked' /\ (row.found \/ row.pointer = None)'
    BY <2>1
  <2>3. ~deleted' => (row.found /\ Addressed /\ Covered)'
    BY <2>1 DEF Stored
  <2>4. intact' => Undamaged'
    BY <2>1 DEF Stored
  <2> QED BY <1>0, <2>2, <2>3, <2>4
<1>6. CASE RecordLoads \/ SaveCallFails
  BY <1>0, <1>6 DEF RecordLoads, SaveCallFails
<1>7. ASSUME NEW f \in Files, Create(f)
      PROVE  StoreInv'
  BY <1>0, <1>7 DEF Create, Stored
<1> QED BY <1>1, <1>2, <1>3, <1>4, <1>5, <1>6, <1>7 DEF SaveStep

\* Edits, the room's end, damage and the owner's delete.
LEMMA OtherStepInv ==
  StoreInv /\ (EditStep \/ CloseRoom \/ Die \/ Outside) => StoreInv'
<1> SUFFICES ASSUME StoreInv, EditStep \/ CloseRoom \/ Die \/ Outside PROVE StoreInv'
  OBVIOUS
<1>0. StoreTypeOK'
  BY OtherStepType DEF StoreInv
<1> USE DEF StoreInv, StoreTypeOK, Memory, Addressed, Covered, Undamaged, RestoresAcked, Live,
            SaveSteps, external, memory, history, Vanish
<1>1. ASSUME NEW e \in Edits, Edit(e)
      PROVE  StoreInv'
  BY <1>0, <1>1 DEF Edit
<1>2. CASE CloseRoom
  BY <1>0, <1>2 DEF CloseRoom
<1>3. CASE Die
  BY <1>0, <1>3 DEF Die
<1>4. CASE OwnerCascade
  BY <1>0, <1>4 DEF OwnerCascade
<1>5. ASSUME NEW how \in {"gone", "unreadable"}, Damage(how)
      PROVE  StoreInv'
  BY <1>0, <1>5 DEF Damage
<1> QED BY <1>1, <1>2, <1>3, <1>4, <1>5 DEF EditStep, Outside

\* Every step keeps the invariant.
LEMMA StoreNextInv == StoreInv /\ [StoreNext]_storeVars => StoreInv'
<1> SUFFICES ASSUME StoreInv, [StoreNext]_storeVars PROVE StoreInv'
  OBVIOUS
<1>1. CASE StoreNext
  BY <1>1, OpenStepInv, SaveStepInv, OtherStepInv DEF StoreNext
<1>2. CASE UNCHANGED storeVars
  BY <1>2 DEF storeVars, external, memory, history, StoreInv, StoreTypeOK, Memory, Addressed,
              Covered, Undamaged, RestoresAcked, Live
<1> QED BY <1>1, <1>2

\* The invariant holds in every reachable state.
LEMMA StoreInvariant == StoreSpec => []StoreInv
BY StoreInitInv, StoreNextInv, PTL DEF StoreSpec

-----------------------------------------------------------------------------
(* The theorems                                                            *)

\* Every variable keeps its type through every opening, save, failure and delete.
THEOREM StoreTypeCorrect == StoreSpec => []StoreTypeOK
<1>1. StoreInv => StoreTypeOK
  BY DEF StoreInv
<1> QED BY <1>1, StoreInvariant, PTL

\* What persist reported as saved stays behind the document's pointer: no failed,
\* half-done or interrupted later save (SaveCheckpoint, Record, Metadata.Save) takes
\* it away, for any number of edits, files and failures.
THEOREM AckedTheorem == StoreSpec => []AckedRetrievable
<1>1. StoreInv => AckedRetrievable
  BY DEF StoreInv, Undamaged, Covered, AckedRetrievable, Retrievable
<1> QED BY <1>1, StoreInvariant, PTL

\* A room that restoreInto opened holds everything a save ever reported, also when
\* the file behind the pointer was lost or damaged in between.
THEOREM RestoresTheorem == StoreSpec => []RestoresAcked
<1>1. StoreInv => RestoresAcked
  BY DEF StoreInv
<1> QED BY <1>1, StoreInvariant, PTL

\* Once the owner's delete took the row and no save is past its pointer lookup, no
\* save of this service brings the row back: SaveCheckpoint refuses a document whose
\* row names no bucket.
THEOREM NoLateResurrectionTheorem == StoreSpec => NoLateResurrection
<1>1. StoreInv /\ [StoreNext]_storeVars => [Unwritten => Unwritten']_storeVars
  <2> SUFFICES ASSUME StoreInv, StoreNext, Unwritten PROVE Unwritten'
    OBVIOUS
  <2>1. /\ row.found = FALSE /\ row.pointer = None /\ deleted = TRUE
        /\ at \in {"down", "admitted", "restore", "fetch", "open", "resolve"}
    BY DEF StoreInv, StoreTypeOK, Unwritten, SaveSteps
  <2> USE <2>1 DEF Unwritten, SaveSteps, external, memory, history
  <2>2. CASE RequireDocument \/ OpenStep
    BY <2>2 DEF RequireDocument, OpenStep, LoadMetadata, LookUpPointer, Fetch, ReadFile,
                LoadCallFails, Opened, OpenFails
  <2>3. CASE SaveStep
    BY <2>3 DEF SaveStep, Persist, Resolve, HasBucket, Rewrite, RecordLoads, Record, SaveIndex,
                SaveCallFails, Create, SaveFails, Proceed
  <2>4. CASE EditStep \/ CloseRoom \/ Die \/ Outside
    BY <2>4 DEF EditStep, Edit, CloseRoom, Die, Vanish, Outside, OwnerCascade, Damage
  <2> QED BY <2>2, <2>3, <2>4 DEF StoreNext
<1> QED BY <1>1, StoreInvariant, PTL DEF StoreSpec, NoLateResurrection

-----------------------------------------------------------------------------
(* The store implements the save contract                                  *)

\* A step of an opening is a load, or nothing the room can see.
LEMMA OpenRefines ==
  StoreInv /\ (RequireDocument \/ OpenStep) => [Contract!Next]_Contract!vars
<1> SUFFICES ASSUME StoreInv, RequireDocument \/ OpenStep, intact'
             PROVE  Contract!Load \/ UNCHANGED Contract!vars
  BY DEF Contract!Next, Contract!Lost, StoreInv, StoreTypeOK, RequireDocument, OpenStep,
         LoadMetadata, LookUpPointer, Fetch, LoadCallFails, history
<1>1. /\ intact /\ ~deleted /\ row.found
      /\ UNCHANGED <<row, files, acked, intact, deleted>>
  BY DEF RequireDocument, OpenStep, LoadMetadata, LookUpPointer, Fetch, LoadCallFails, external,
         history, StoreInv, Undamaged
<1>2. Retrievable' = Retrievable
  BY <1>1 DEF Retrievable
<1> USE DEF Contract!Load, Contract!vars, Live, SaveSteps, memory, Opened, OpenFails
<1>3. CASE RequireDocument
  BY <1>1, <1>2, <1>3 DEF RequireDocument
<1>4. CASE LoadMetadata
  BY <1>1, <1>2, <1>4 DEF LoadMetadata
<1>5. CASE LookUpPointer
  BY <1>1, <1>2, <1>5 DEF LookUpPointer, Retrievable, StoreInv, Memory
<1>6. CASE Fetch
  BY <1>1, <1>2, <1>6, StoreAssumption DEF Fetch, ReadFile, Retrievable, StoreInv, Memory, Addressed
<1>7. CASE LoadCallFails
  BY <1>1, <1>2, <1>7 DEF LoadCallFails
<1> QED BY <1>3, <1>4, <1>5, <1>6, <1>7 DEF OpenStep

\* A step of a save replaces the stored state, with or without reporting it, or is
\* nothing the room can see.
LEMMA SaveRefines == StoreInv /\ SaveStep => [Contract!Next]_Contract!vars
<1> SUFFICES ASSUME StoreInv, SaveStep, intact'
             PROVE  Contract!WrittenButFailed \/ Contract!Saved \/ UNCHANGED Contract!vars
  BY DEF Contract!Next, Contract!Lost, StoreInv, StoreTypeOK, SaveStep, Persist, Resolve, Rewrite,
         RecordLoads, Record, SaveIndex, SaveCallFails, Create, SaveFails, Proceed, history
<1>1. intact /\ ~deleted /\ UNCHANGED <<doc, intact, deleted>>
  BY DEF SaveStep, Persist, Resolve, Rewrite, RecordLoads, Record, SaveIndex, SaveCallFails, Create, SaveFails,
         Proceed, history, StoreInv, Undamaged
<1>2. Live /\ Live'
  BY DEF SaveStep, Persist, Resolve, Rewrite, RecordLoads, Record, SaveIndex, SaveCallFails, Create, SaveFails,
         Proceed, Live, SaveSteps
<1>3. CASE Persist \/ Resolve \/ RecordLoads \/ SaveCallFails
  <2>1. UNCHANGED <<row, files, doc, dirty, acked, intact>>
    BY <1>3 DEF Persist, Resolve, RecordLoads, SaveCallFails, SaveFails, Proceed, external, history
  <2>2. Retrievable' = Retrievable
    BY <2>1 DEF Retrievable
  <2> QED BY <1>2, <2>1, <2>2 DEF Contract!vars
<1>4. ASSUME NEW f \in Files, Create(f)
      PROVE  UNCHANGED Contract!vars
  <2>1. UNCHANGED <<row, doc, dirty, acked, intact>>
    BY <1>4 DEF Create, SaveFails, Proceed, history
  <2>2. row.pointer = None
    BY <1>1, <1>4 DEF Create, StoreInv, Addressed
  <2>3. Retrievable' = Retrievable
    BY <2>1, <2>2 DEF Retrievable
  <2> QED BY <1>2, <2>1, <2>3 DEF Contract!vars
<1>5. CASE Rewrite
  <2>1. /\ at = "rewrite" /\ target \in Files /\ target = row.pointer /\ dirty
        /\ files[target].state = "stored"
    BY <1>1, <1>5, StoreAssumption DEF Rewrite, StoreInv, Addressed, Undamaged, Memory, SaveSteps
  <2>2. /\ files' = [files EXCEPT ![target] = Stored(doc)]
        /\ UNCHANGED <<row, doc, dirty, acked, intact>>
    BY <1>5, <2>1 DEF Rewrite, SaveFails, Proceed, history
  <2>3. files'[target].content = doc
    BY <2>1, <2>2 DEF StoreInv, StoreTypeOK, Stored
  <2>4. Retrievable' = doc
    BY <2>1, <2>2, <2>3, StoreAssumption DEF Retrievable
  <2> QED BY <1>1, <1>2, <2>1, <2>2, <2>4 DEF Contract!WrittenButFailed
<1>6. CASE Record
  <2>1. /\ at = "point" /\ target \in Files /\ files[target] = Stored(doc) /\ dirty
    BY <1>1, <1>6 DEF Record, StoreInv, Addressed, Memory, SaveSteps
  <2>2. row'.pointer = target /\ UNCHANGED <<files, doc, dirty, acked, intact>>
    BY <1>6, <2>1, StoreAssumption DEF Record, Upsert, SaveFails, Proceed, history
  <2>3. Retrievable' = doc
    BY <2>1, <2>2, StoreAssumption DEF Retrievable, Stored
  <2> QED BY <1>1, <1>2, <2>1, <2>2, <2>3 DEF Contract!WrittenButFailed
<1>7. CASE SaveIndex
  <2>1. /\ at = "index" /\ target \in Files /\ target = row.pointer /\ dirty
        /\ files[target].content = doc
    BY <1>1, <1>7, StoreAssumption DEF SaveIndex, StoreInv, Addressed, Undamaged, Memory, SaveSteps
  <2>2. row'.pointer = target /\ UNCHANGED <<files, doc, intact>>
    BY <1>7, <2>1 DEF SaveIndex, Upsert, SaveFails, history
  <2>3. Retrievable' = doc
    BY <2>1, <2>2, StoreAssumption DEF Retrievable
  <2>4. \/ dirty' = FALSE /\ acked' = doc
        \/ dirty' = dirty /\ acked' = acked
    BY <1>7 DEF SaveIndex, SaveFails, history
  <2> QED BY <1>1, <1>2, <2>1, <2>2, <2>3, <2>4 DEF Contract!WrittenButFailed, Contract!Saved
<1> QED BY <1>3, <1>4, <1>5, <1>6, <1>7 DEF SaveStep

\* Editing, the room's end and what happens outside are steps of the contract.
LEMMA OtherRefines ==
  StoreInv /\ (EditStep \/ CloseRoom \/ Die \/ Outside) => [Contract!Next]_Contract!vars
<1> SUFFICES ASSUME StoreInv, EditStep \/ CloseRoom \/ Die \/ Outside
             PROVE  Contract!Next \/ UNCHANGED Contract!vars
  OBVIOUS
<1>1. CASE ~intact'
  BY <1>1 DEF Contract!Next, Contract!Lost, StoreInv, StoreTypeOK, EditStep, Edit, CloseRoom, Die,
              Outside, OwnerCascade, Damage, history
<1>2. ASSUME intact', NEW e \in Edits, Edit(e)
      PROVE  Contract!Edit
  <2>1. UNCHANGED <<row, files, at, acked, intact>> /\ at = "open"
    BY <1>2 DEF Edit, external, history
  <2>2. Retrievable' = Retrievable /\ Live /\ Live'
    BY <2>1 DEF Retrievable, Live
  <2> QED BY <1>2, <2>1, <2>2 DEF Edit, Contract!Edit, StoreInv, StoreTypeOK
<1>3. ASSUME intact', CloseRoom \/ Die
      PROVE  Contract!Gone \/ UNCHANGED Contract!vars
  <2>1. /\ UNCHANGED <<row, files, acked, intact>>
        /\ at' = "down" /\ doc' = {} /\ dirty' = FALSE
    BY <1>3 DEF CloseRoom, Die, Vanish, external, history
  <2>2. Retrievable' = Retrievable /\ Live' = FALSE /\ Live \in BOOLEAN
    BY <2>1 DEF Retrievable, Live, SaveSteps
  <2>3. CASE Live
    BY <1>3, <2>1, <2>2, <2>3 DEF Contract!Gone
  <2>4. CASE ~Live
    BY <2>1, <2>2, <2>4 DEF Contract!vars, StoreInv, Memory
  <2> QED BY <2>3, <2>4
<1>4. CASE intact' /\ Outside
  BY <1>4 DEF Outside, OwnerCascade, Damage
<1> QED BY <1>1, <1>2, <1>3, <1>4 DEF EditStep, Contract!Next

\* Every behaviour of the file-service store and its pointer resolver is one of the
\* save contract: a document has one current state, replaced as a whole, and a save
\* that returned success is what the next load returns.
THEOREM RefinementTheorem == StoreSpec => RefinesSaveContract
<1>1. StoreInit => Contract!Init
  BY DEF StoreInit, Contract!Init, Live, SaveSteps, Retrievable
<1>2. StoreInv /\ [StoreNext]_storeVars => [Contract!Next]_Contract!vars
  <2> SUFFICES ASSUME StoreInv, [StoreNext]_storeVars PROVE [Contract!Next]_Contract!vars
    OBVIOUS
  <2>1. CASE StoreNext
    BY <2>1, OpenRefines, SaveRefines, OtherRefines DEF StoreNext
  <2>2. CASE UNCHANGED storeVars
    BY <2>2 DEF storeVars, external, memory, history, Contract!vars, Live, Retrievable
  <2> QED BY <2>1, <2>2
<1> QED BY <1>1, <1>2, StoreInvariant, PTL DEF StoreSpec, RefinesSaveContract, Contract!Spec
=============================================================================
