CONSTANTS
  BufNum = 3
  Workers = {w1, w2}
  STITCH = STITCH
  MAIN = MAIN
  Faults = {"init", "resize", "inference", "imcopy"}
  MaxPanos = 4
SPECIFICATION Spec
SYMMETRY Symmetry
INVARIANTS TypeOK Ownership NothingAfterDestroy
PROPERTY ImplementsFeed
