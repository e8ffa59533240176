CONSTANTS
  NumCams = 2
  QueueSize = 1
  SeqMod = 2
  STITCH = STITCH
  MAIN = MAIN
  Faults = {"open", "poll"}
SPECIFICATION FairSpec
PROPERTIES StitchesForever EndsAfterSignal
