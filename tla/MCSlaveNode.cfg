CONSTANTS
  MissLimit = 10
  WdtLimit = 20
  SpinLimit = 2
  Rounds = 5
SPECIFICATION BenchFairSpec
INVARIANT NodeInv
PROPERTY ResetJustified SilenceEnds SensorTruth
