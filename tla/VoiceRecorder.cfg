CONSTANTS
  MaxSeconds = 2
  MaxDuration = 4
  MaxPresses = 3
  MaxStops = 2
SPECIFICATION FairSpec
CHECK_DEADLOCK FALSE
INVARIANTS TypeOK RecordingIsTimed CountdownInRange
PROPERTY RecordingEnds
