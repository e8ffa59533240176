CONSTANTS
  Candidates <- SomeAndOthers
  MaxCells = 4
  OutputCounts = {1, 4, 9}
  Conf = 2
  MaxSize = 2
SPECIFICATION Spec
INVARIANTS TypeOK QuickSorts Greedy Separated Accounted
