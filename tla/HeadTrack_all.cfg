SPECIFICATION FairSpec
CONSTANTS
  Axes = {"yaw", "pitch"}
  MaxSent = 2
  MaxStarts = 2
INVARIANT IInv
INVARIANT NoLostMove
PROPERTY OnlyTrackedMoves
PROPERTY StopReturns
PROPERTY Tracks
