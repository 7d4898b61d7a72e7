SPECIFICATION Spec
CONSTANTS
  Axes = {"yaw"}
  MaxSent = 1
  MaxStarts = 1
INVARIANT WritesRotatorOnly
