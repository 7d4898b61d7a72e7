SPECIFICATION FairSpec
CONSTANTS
  s1 = s1
  s2 = s2
  Uris = {"reaper://project/state", "reaper://track/0/chunk"}
  Edits = {"TrackList"}
  Streams = {s1, s2}
  MaxDrops = 1
  Resends = TRUE
INVARIANT IInv
INVARIANT NothingLost
PROPERTY EventuallyFresh
CHECK_DEADLOCK FALSE
