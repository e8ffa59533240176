CONSTANTS
  NumCams = 1
  QueueSize = 2
  SeqMod = 3
  STITCH = STITCH
  MAIN = MAIN
  Faults = {}
SPECIFICATION Spec
INVARIANTS WholeFrames
