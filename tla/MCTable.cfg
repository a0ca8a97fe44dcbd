SPECIFICATION Spec
CONSTANTS
  INCREMENTS <- MCIncrements
  MAX_DIMS = 2
  NULL = NULL
  Keys = {k1, k2, k3}
  Values = {v1, v2}
  Parities = {0, 5, 13, 37}
  OCCUPIED <- MCOccupied
  DOUBLED_DIMS = 1
  Careless = FALSE
SYMMETRY Symmetry
INVARIANTS OrderDense
PROPERTY IsMap
CHECK_DEADLOCK FALSE
