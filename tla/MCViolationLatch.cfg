CONSTANTS
  t1 = t1
  t2 = t2
  Track = {t1, t2}
  CONFIRM = 2
  PARDON = 3
  MEMORY = 1
  SNAP_GAP = 1
  ALARM_QUEUE = 1
SPECIFICATION FairSpec
INVARIANT LatchInv
PROPERTY LocksAreJust BuzzerRests
