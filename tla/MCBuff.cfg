SPECIFICATION FairSpec
CONSTANTS
  SEG = 2
  BLOCK = 3
  MAX_BYTES = 5
  Refill = FALSE
INVARIANTS  UnsentExact
PROPERTY LoopsEnd
CHECK_DEADLOCK FALSE
