SPECIFICATION Spec
CONSTANTS
  s1 = s1
  s2 = s2
  Uris = {"reaper://project/state"}
  Edits = {"PlayState"}
  Streams = {s1, s2}
  MaxDrops = 1
  Resends = TRUE
INVARIANT NoMissedUpdate
CHECK_DEADLOCK FALSE
