CONSTANTS
  NumCams = 2
  QueueSize = 2
  SeqMod = 4
  STITCH = STITCH
  MAIN = MAIN
  Faults = {"open", "poll"}
SPECIFICATION Spec
INVARIANTS TypeOK NothingAfterFree
PROPERTIES ImplementsQueues
