CONSTANTS
  MaxTracks = 4
  MaxFrame = 6
  MaxDetections = 3
  MAX_TIME_LOST = 2
SPECIFICATION Spec
INVARIANT TrackInv
PROPERTY LongestStays
CHECK_DEADLOCK FALSE
