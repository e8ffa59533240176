CONSTANTS
  Asked = 3
  Faults = {"open", "S_FMT", "REQBUFS", "QUERYBUF", "mmap", "first QBUF", "STREAMON", "poll", "DQBUF", "QBUF"}
SPECIFICATION FairSpec
INVARIANTS TypeOK DecodesOwnBuffer NoneKept CleanEnd
PROPERTIES NeverStarves EndsWhenTold
