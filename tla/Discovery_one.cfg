SPECIFICATION Spec
CONSTANTS
  a = a
  b = b
  Instances = {a}
  MaxLaunches = 4
  Faults = {"open", "flush", "rename"}
  RenameReplaces = FALSE
INVARIANT IInv
INVARIANT NeverHalfWritten
INVARIANT SuccessIsPublished
INVARIANT UnloadedIsGone
CHECK_DEADLOCK FALSE
