SPECIFICATION FairSpec
CONSTANTS
  c1 = c1
  c2 = c2
  x = x
  none = none
  Calls = {c1, c2}
  Contents = {x}
  Empty = none
  Requests <- OneAsk
  Says = {"accept"}
  PoolSize = 1
PROPERTY EveryCallEnds
PROPERTY ShutdownEnds
PROPERTY JobRuns
