SPECIFICATION Spec
CONSTANTS
  Kinds = {"edit", "read", "error"}
  Scripts <- MCScripts
  MaxUserEdits = 1
INVARIANT UserEditsKept
CHECK_DEADLOCK FALSE
