SPECIFICATION Spec
CONSTANTS
  INCREMENTS <- MCIncrements
  MAX_DIMS = 1
  NULL = NULL
  a1 = a1
  a2 = a2
  b1 = b1
  Items = {a1, a2, b1}
  AlwaysReady = {a1, a2}
  RemoveBetween = FALSE
SYMMETRY Symmetry
INVARIANTS TypeOK ShelfSound CritMatches CountExact PassOnce ScanIsLoop
PROPERTIES PassComplete NeverOverwrites
