CONSTANTS
  Stalls = TRUE
  Faults = {}
  MaxFrames = 2
SPECIFICATION FairSpec
PROPERTIES StopReturns
