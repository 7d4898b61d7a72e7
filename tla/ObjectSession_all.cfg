SPECIFICATION Spec
CONSTANTS
  MaxRendererChannels = 128
  MaxObjects = 2
  Layouts = {6}
  ObjectCounts = {0, 1, 3}
  Widths = {8}
  Sendings <- SomeSendings
  Buses = {4}
  Beds = {0, 1, 3}
  ObjectLists <- SomeLists
  Beginnings <- SomeSessions
  MaxTracks = 5
  MaxReceives = 4
  MaxCalls = 2
INVARIANT TypeOK
INVARIANT Settled
INVARIANT CleanMaster
INVARIANT RenamedAreFound
PROPERTY OnlyStraysGo
CHECK_DEADLOCK FALSE
