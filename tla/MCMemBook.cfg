SPECIFICATION Spec
CONSTANTS
  INCREMENTS <- MCIncrements
  MAX_DIMS = 2
  NULL = NULL
  Chapters = {c1, c2}
  PAGE_MAX = 5
  PAGE_SLABS = 8
  BASE_SLABS = {0, 2, 4}
  MAX_PAGES = 3
INVARIANTS PageExclusive NoPageLost RecycledTop RetiredLag
PROPERTY HandedOutClean
CHECK_DEADLOCK FALSE
SYMMETRY Symmetry
