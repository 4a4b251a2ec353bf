---------------------------- MODULE SaveContract ----------------------------
(***************************************************************************)
(* What a room may rely on when it saves and reloads its document: one     *)
(* current state per document, replaced as a whole (the CheckpointStore    *)
(* port).  A save may fail after it wrote, a save that returned success is *)
(* readable back until the document is lost from outside.  The in-process  *)
(* store (persistence/inprocess/store.go) works exactly like this; module  *)
(* CheckpointStore shows that the file-service store implements it.        *)
(***************************************************************************)
CONSTANT Edits    \* the edits a document is made of

VARIABLES
  live,    \* a room holds the document
  doc,     \* the document it holds
  dirty,   \* it has edits no successful save covered
  stored,  \* the state a load would return
  acked,   \* history: what the last successful save covered
  intact   \* history: nothing outside damaged or deleted the document

vars == <<live, doc, dirty, stored, acked, intact>>

Init ==
  /\ live = FALSE /\ doc = {} /\ dirty = FALSE
  /\ stored = {} /\ acked = {} /\ intact = TRUE

\* LoadCheckpoint on behalf of a room that opens.
Load ==
  /\ intact /\ ~live
  /\ live' = TRUE
  /\ doc' = stored
  /\ UNCHANGED <<dirty, stored, acked, intact>>

Edit ==
  /\ intact /\ live
  /\ doc' \in SUBSET Edits /\ doc \subseteq doc'
  /\ dirty' = TRUE
  /\ UNCHANGED <<live, stored, acked, intact>>

\* A save replaces the stored state and its caller is told it failed.
WrittenButFailed ==
  /\ intact /\ live /\ dirty
  /\ stored' = doc
  /\ UNCHANGED <<live, doc, dirty, acked, intact>>

\* SaveCheckpoint returns success.
Saved ==
  /\ intact /\ live /\ dirty
  /\ stored' = doc
  /\ acked' = doc
  /\ dirty' = FALSE
  /\ UNCHANGED <<live, doc, intact>>

\* The room is gone, with whatever it had not saved.
Gone ==
  /\ intact /\ live
  /\ live' = FALSE /\ doc' = {} /\ dirty' = FALSE
  /\ UNCHANGED <<stored, acked, intact>>

\* The document is damaged or deleted from outside: nothing is promised for it.
Lost == intact' = FALSE

Next == Load \/ Edit \/ WrittenButFailed \/ Saved \/ Gone \/ Lost

Spec == Init /\ [][Next]_vars
=============================================================================
