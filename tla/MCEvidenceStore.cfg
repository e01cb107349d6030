CONSTANTS
  Second = {0, 1, 2}
  Kind = {v}
  ALARM_QUEUE = 1
  SAVES = 2
  CLEAN_MIN = 2
  SHARE = 2
SPECIFICATION EvidenceSpec
INVARIANT RowsAnswered PicturesWhole
