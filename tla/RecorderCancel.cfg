CONSTANTS
  MaxSeconds = 2
  MaxDuration = 3
  MaxPresses = 2
  MaxStops = 1
SPECIFICATION Spec
CHECK_DEADLOCK FALSE
INVARIANT ReleaseCancels
