CONSTANTS
  AGGREGATE = 3
  MOCK_DELAY = 4
  TIMEOUT = 20
  HOLD = 6
  FULL = 3
  EMERGENCY = 1
SPECIFICATION FairSpec
INVARIANT UiInv AdvisorInv ScoreInv
PROPERTY WarningHeld WarningEnds AnswerStands AnswerComes
