CONSTANTS
  Stalls = TRUE
  Faults = {"socket", "bind", "listen", "accept"}
  MaxFrames = 3
SPECIFICATION FairSpec
INVARIANTS TypeOK NothingLeftOpen
PROPERTIES SentIsNewer NewestSent StopReturnsUnlessStalled
