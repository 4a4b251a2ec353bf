-------------------------- MODULE CheckpointStore ---------------------------
(***************************************************************************)
(* Saving and restoring one document through the file-service checkpoint   *)
(* store (persistence/fileservice/store.go), its pointer resolver over the *)
(* document index (persistence/metapointer/resolver.go) and the two places *)
(* of the room that call them: persist and restoreInto (room.go).          *)
(*                                                                         *)
(* A save is three to five calls to two remote services; each of them is a *)
(* step here, and each may fail before it took effect, or take effect and  *)
(* fail all the same (a timeout, a lost answer, an answer that does not    *)
(* parse).  The process may die between any two.  Both services apply a    *)
(* call before any later call of the same caller, or never: the metadata   *)
(* queue is FIFO, and a file write is not applied after its request was    *)
(* answered or abandoned.                                                  *)
(*                                                                         *)
(* One process holds the document: HUB_MODE=redis with the file-service    *)
(* store is refused at startup.  The room always passes EncodingV2 and no  *)
(* fence, so the refusals for those do not occur.  A document is the set   *)
(* of edits in it; its size is their number.                               *)
(***************************************************************************)
EXTENDS Naturals, FiniteSets

CONSTANTS
  Edits,       \* the edits there are
  Files,       \* the ids file-service may assign, each once
  None,        \* no pointer
  MaxUpload,   \* Config.MaxUploadSize, in edits, 0 for no limit
  Mishaps      \* what may go wrong: a subset of MishapKinds

\* "call": a remote call fails; "crash": the process dies; "damage": a stored
\* file is lost or made unreadable by something else; "delete": the owner deletes
\* the document.
MishapKinds == {"call", "crash", "damage", "delete"}

ASSUME StoreAssumption ==
  /\ IsFiniteSet(Edits)
  /\ None \notin Files
  /\ MaxUpload \in Nat
  /\ Mishaps \subseteq MishapKinds

VARIABLES
  row,      \* the document's index row (external: server)
  files,    \* file-service's files (external)
  at,       \* where the room is in opening or saving
  target,   \* the file the calls in progress address
  doc,      \* the live document
  dirty,    \* r.dirty
  acked,    \* history: what the last successful persist covered
  intact,   \* history: no damage and no delete so far
  deleted   \* history: the owner deleted the document

external == <<row, files>>
memory == <<target, doc, dirty>>
history == <<acked, intact, deleted>>
storeVars == <<external, at, memory, history>>

\* The phases of persist, in their order, and of a room that is serving.
SaveSteps == {"resolve", "rewrite", "create", "record", "point", "index"}
Live == at \in {"open"} \cup SaveSteps

NoFile == [state |-> "unborn", content |-> {}]
Stored(content) == [state |-> "stored", content |-> content]

\* A row without an owning bucket is a data-integrity fault the store refuses.
StoreInit ==
  /\ row \in [found : {TRUE}, pointer : {None}, owned : BOOLEAN]
  /\ files = [f \in Files |-> NoFile]
  /\ at = "down"
  /\ target = None
  /\ doc = {}
  /\ dirty = FALSE
  /\ acked = {}
  /\ intact = TRUE
  /\ deleted = FALSE

Oversize(content) == MaxUpload > 0 /\ Cardinality(content) > MaxUpload

-----------------------------------------------------------------------------
(* Opening: newRoom's loadMetadata, then restoreInto and LoadCheckpoint    *)

Opened(content) ==
  /\ at' = "open"
  /\ doc' = content
  /\ UNCHANGED <<target, dirty>>

OpenFails ==
  /\ at' = "down"
  /\ target' = None
  /\ UNCHANGED <<doc, dirty>>

\* Manager.Join found the document's row.
RequireDocument ==
  /\ at = "down" /\ row.found
  /\ at' = "admitted"
  /\ UNCHANGED <<external, memory, history>>

\* loadMetadata: a document without a row opens empty, nothing being restored.
LoadMetadata ==
  /\ at = "admitted"
  /\ IF row.found THEN at' = "restore" /\ UNCHANGED memory
     ELSE Opened({})
  /\ UNCHANGED <<external, history>>

\* Resolver.Pointer: only "no row" and "no pointer" mean nothing is stored.
LookUpPointer ==
  /\ at = "restore"
  /\ IF row.pointer # None
     THEN at' = "fetch" /\ target' = row.pointer /\ UNCHANGED <<doc, dirty>>
     ELSE Opened({})
  /\ UNCHANGED <<external, history>>

\* Mutant: a missing file reads as a document that was never saved.
ReadFileOrEmpty ==
  IF files[target].state # "unreadable" THEN Opened(files[target].content) ELSE OpenFails

\* fetch, readBounded and the decoding of the blob: a missing file, one above the
\* limit and one that does not parse are corrupt, never empty.
ReadFile ==
  IF files[target].state = "stored" /\ ~Oversize(files[target].content)
  THEN Opened(files[target].content)
  ELSE OpenFails

Fetch ==
  /\ at = "fetch"
  /\ ReadFile
  /\ UNCHANGED <<external, history>>

\* The index or file-service does not answer: materialization fails.
LoadCallFails ==
  /\ "call" \in Mishaps
  /\ at \in {"admitted", "restore", "fetch"}
  /\ OpenFails
  /\ UNCHANGED <<external, history>>

-----------------------------------------------------------------------------
(* Editing and saving: persist, SaveCheckpoint, Record, Metadata.Save      *)

\* The run loop applies an edit; it never does while it is inside persist.
Edit(e) ==
  /\ at = "open" /\ e \notin doc
  /\ doc' = doc \cup {e}
  /\ dirty' = TRUE
  /\ UNCHANGED <<external, at, target, history>>

\* persist gives up: the document stays dirty (onFlushFailed retries).
SaveFails ==
  /\ at' = "open"
  /\ target' = None
  /\ UNCHANGED <<doc, dirty, history>>

Proceed(step, f) ==
  /\ at' = step
  /\ target' = f
  /\ UNCHANGED <<doc, dirty, history>>

\* persist up to the size check of SaveCheckpoint.
Persist ==
  /\ at = "open" /\ dirty
  /\ IF Oversize(doc) THEN SaveFails ELSE Proceed("resolve", None)
  /\ UNCHANGED external

\* Mutant: a deployment-wide bucket stands in for a missing one.
HasBucketOrFallback == TRUE

\* The row's own bucket; a row that is gone names none.
HasBucket == row.found /\ row.owned

\* Resolver.Pointer decides between rewriting, creating and refusing.
Resolve ==
  /\ at = "resolve"
  /\ IF row.pointer # None THEN Proceed("rewrite", row.pointer)
     ELSE IF HasBucket THEN Proceed("create", None)
     ELSE SaveFails
  /\ UNCHANGED external

\* rewrite: a file that is gone is corrupt, never created again.
Rewrite ==
  /\ at = "rewrite"
  /\ IF files[target].state = "gone" THEN SaveFails /\ UNCHANGED files
     ELSE /\ files' = [files EXCEPT ![target] = Stored(doc)]
          /\ Proceed("index", target) \/ ("call" \in Mishaps /\ SaveFails)
  /\ UNCHANGED row

\* Mutant: the save goes on although the pointer of the new file is not recorded.
CreateUnrecorded(f) ==
  /\ at = "create" /\ files[f].state = "unborn"
  /\ files' = [files EXCEPT ![f] = Stored(doc)]
  /\ Proceed("index", f)
  /\ UNCHANGED row

\* create: when its answer is lost the new file belongs to nobody.
Create(f) ==
  /\ at = "create" /\ files[f].state = "unborn"
  /\ files' = [files EXCEPT ![f] = Stored(doc)]
  /\ Proceed("record", f) \/ ("call" \in Mishaps /\ SaveFails)
  /\ UNCHANGED row

\* MetadataStore.Save is an upsert: a field left blank keeps its value (the
\* in-process store's coalesceBlank; the bus never carries the bucket).
Upsert(pointer) ==
  row' = [found |-> TRUE, pointer |-> IF pointer = None THEN row.pointer ELSE pointer,
          owned |-> row.found /\ row.owned]

\* Resolver.Record is a read-modify-write: it loads the row, or does without one ...
RecordLoads ==
  /\ at = "record"
  /\ Proceed("point", target)
  /\ UNCHANGED external

\* ... and saves it with its pointer, also when the owner's delete came in between.
\* The columns it carries through (type, policy, owner) are not in the model, and
\* the bus does not carry the bucket.
Record ==
  /\ at = "point"
  /\ Upsert(target)
  /\ Proceed("index", target) \/ ("call" \in Mishaps /\ SaveFails)
  /\ UNCHANGED files

\* Mutant: the room's metadata save carries the pointer it read when it opened,
\* none for a document that had no file yet.
IndexBlanksPointer ==
  /\ at = "index"
  /\ row' = [found |-> TRUE, pointer |-> None, owned |-> row.found /\ row.owned]
  /\ at' = "open" /\ target' = None
  /\ dirty' = FALSE /\ acked' = doc
  /\ UNCHANGED <<files, doc, intact, deleted>>

\* The rest of persist: Metadata.Save without a pointer, then the save counts.
SaveIndex ==
  /\ at = "index"
  /\ Upsert(None)
  /\ \/ /\ at' = "open" /\ target' = None
        /\ dirty' = FALSE /\ acked' = doc
        /\ UNCHANGED <<doc, intact, deleted>>
     \/ "call" \in Mishaps /\ SaveFails
  /\ UNCHANGED files

\* A call fails without having had an effect (refused, unreachable, a dedup
\* conflict, the backend timeout).
SaveCallFails ==
  /\ "call" \in Mishaps
  /\ at \in SaveSteps
  /\ SaveFails
  /\ UNCHANGED external

-----------------------------------------------------------------------------
(* The room's end, and the world outside                                   *)

Vanish ==
  /\ at' = "down"
  /\ target' = None /\ doc' = {} /\ dirty' = FALSE

\* The process dies, in the middle of a save or not.
Die ==
  /\ "crash" \in Mishaps
  /\ at # "down"
  /\ Vanish
  /\ UNCHANGED <<external, history>>

\* The run loop tears the room down between two commands, never inside persist.
CloseRoom ==
  /\ at = "open"
  /\ Vanish
  /\ UNCHANGED <<external, history>>

\* Something else loses or overwrites the document's file.
Damage(how) ==
  /\ "damage" \in Mishaps
  /\ row.pointer # None /\ files[row.pointer].state = "stored"
  /\ files' = [files EXCEPT ![row.pointer] = [state |-> how, content |-> {}]]
  /\ intact' = FALSE
  /\ UNCHANGED <<row, at, memory, acked, deleted>>

\* The owner cascade of server: the row and every file of its bucket.
OwnerCascade ==
  /\ "delete" \in Mishaps
  /\ row.found /\ ~deleted
  /\ row' = [found |-> FALSE, pointer |-> None, owned |-> FALSE]
  /\ files' = [f \in Files |-> IF files[f].state = "unborn" THEN NoFile
                               ELSE [state |-> "gone", content |-> {}]]
  /\ intact' = FALSE /\ deleted' = TRUE
  /\ UNCHANGED <<at, memory, acked>>

OpenStep == LoadMetadata \/ LookUpPointer \/ Fetch \/ LoadCallFails
SaveStep ==
  \/ Persist \/ Resolve \/ Rewrite \/ RecordLoads \/ Record \/ SaveIndex \/ SaveCallFails
  \/ \E f \in Files : Create(f)
EditStep == \E e \in Edits : Edit(e)
Outside == OwnerCascade \/ \E how \in {"gone", "unreadable"} : Damage(how)

StoreNext == RequireDocument \/ OpenStep \/ SaveStep \/ EditStep \/ CloseRoom \/ Die \/ Outside

StoreSpec == StoreInit /\ [][StoreNext]_storeVars

-----------------------------------------------------------------------------
(* Properties                                                              *)

StoreTypeOK ==
  /\ row \in [found : BOOLEAN, pointer : Files \cup {None}, owned : BOOLEAN]
  /\ files \in [Files -> [state : {"unborn", "stored", "gone", "unreadable"},
                          content : SUBSET Edits]]
  /\ at \in {"down", "admitted", "restore", "fetch", "open"} \cup SaveSteps
  /\ target \in Files \cup {None}
  /\ doc \subseteq Edits
  /\ dirty \in BOOLEAN
  /\ acked \subseteq Edits
  /\ intact \in BOOLEAN /\ deleted \in BOOLEAN

\* What a load would find: the content behind the document's pointer.
Retrievable == IF row.pointer = None THEN {} ELSE files[row.pointer].content

\* What persist reported as saved stays reachable through the document's pointer,
\* whatever fails or dies in the middle of a later save (SaveCheckpoint, Record
\* and Metadata.Save are separate remote writes).
AckedRetrievable == intact => acked \subseteq Retrievable

\* A room that serves a document holds everything a save ever reported, also
\* when the file behind the pointer was lost or damaged: it then fails to open
\* rather than open empty and overwrite the last good state (FR-014).
RestoresAcked == Live /\ ~deleted => acked \subseteq doc

\* The owner's delete is not undone by a later save: once the row is gone and no
\* save is past its pointer lookup, this service never writes the row again (the
\* lookup of a missing row names no bucket, and there is no fallback bucket).
Unwritten == deleted /\ ~row.found /\ at \notin SaveSteps \ {"resolve"}
NoLateResurrection == [][Unwritten => Unwritten']_storeVars

\* The store and its resolver implement the save contract the room relies on.
Contract == INSTANCE SaveContract WITH live <- Live, stored <- Retrievable
RefinesSaveContract == Contract!Spec
=============================================================================
