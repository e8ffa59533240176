CONSTANTS
  Workers = {w1, w2, w3}
  MAIN = MAIN
  BufNum = 2
  Faults = {"matrices", "open", "ioctl", "mmap", "labels", "image", "read", "rknn_init", "query", "inference"}
SPECIFICATION Spec
SYMMETRY Symmetry
INVARIANTS TypeOK CountsWorkers UsesWhatLives LeftAtEnd
