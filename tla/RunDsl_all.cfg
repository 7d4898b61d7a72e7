SPECIFICATION Spec
CONSTANTS
  Kinds = {"edit", "read", "error", "editError", "throw", "editThrow", "leak", "gated"}
  Scripts <- MCScripts
  MaxUserEdits = 2
INVARIANT ConventionInv
INVARIANT TameKeepsUserEdits
INVARIANT TameIsAtomic
INVARIANT OneUndoPoint
 
CHECK_DEADLOCK FALSE
