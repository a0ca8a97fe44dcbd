SPECIFICATION Spec
CONSTANTS
  Cases <- MCCases
  MAX_CUTS = 1
INVARIANTS SameTokens DocExact
CHECK_DEADLOCK FALSE
