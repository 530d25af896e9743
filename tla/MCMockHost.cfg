CONSTANTS
  MinInt <- MCMinInt
  MaxInt = 7
  MaxUsize = 100
  Numbers <- MCNumbers
  MaxSent = 6
SPECIFICATION Spec
CHECK_DEADLOCK FALSE
INVARIANTS
  StateIsTheSum
PROPERTIES
  PanicsAreErrors
