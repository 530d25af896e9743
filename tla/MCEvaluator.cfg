CONSTANTS
  MinInt <- MCMinInt
  MaxInt = 7
  MaxUsize = 400
  Programs <- AllPrograms
  Calls <- AllCalls
  EstimateBytes <- EstimateValueBytes
  ValueDepth <- EstimateDepth
  Expected <- MCExpected
SPECIFICATION FairSpec
CHECK_DEADLOCK FALSE
INVARIANTS
  TypeOK
  StepsPayForFrames
  DepthCountsActivations
  ScopeAgrees
  NoNameTrap
  ResultWithinBudget
  BudgetsAgree
  LimitsOnlyCut
  NativeStackBounded
PROPERTIES
  ImplementsPureCall
  EveryCallAnswers
  WorkRunsOut
  ArithmeticIsExact
