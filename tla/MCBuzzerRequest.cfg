CONSTANTS
  RETRY = 3
  WIRE = 2
SPECIFICATION FairSpec
INVARIANT SourceAgrees InStep
PROPERTY CameraReturns ImportEnds
