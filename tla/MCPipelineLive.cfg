CONSTANTS
  BufNum = 3
  Workers = {w1, w2}
  STITCH = STITCH
  MAIN = MAIN
  Faults = {"init", "resize", "inference", "imcopy"}
  MaxPanos = 3
SPECIFICATION FairSpec
PROPERTIES  ExitsOnSignal
