SPECIFICATION StoreSpec
CONSTANTS
  Edits = {e1, e2, e3}
  Files = {f1, f2, f3}
  None = None
  MaxUpload = 2
  Mishaps = {"call", "crash", "damage", "delete"}
INVARIANTS AckedRetrievable RestoresAcked
PROPERTIES NoLateResurrection RefinesSaveContract
CHECK_DEADLOCK FALSE
