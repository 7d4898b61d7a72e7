SPECIFICATION Spec
CONSTANTS
  Kinds = {"edit", "editError"}
  Scripts <- MCScripts
  MaxUserEdits = 0
INVARIANT NothingPartial
CHECK_DEADLOCK FALSE
