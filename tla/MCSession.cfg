CONSTANTS
  MinInt <- MCMinInt
  MaxInt = 7
  MaxUsize = 4000
  SampleInts <- MCSampleInts
  Sources <- MCSources
  Irs <- MCIrs
  Limits <- MCLimits
  MaxCalls = 2
  Numerals <- ExampleNumerals
  ProgramOf <- MCProgramOf
  Compatible <- MCCompatible
  Infer <- MCInfer
  CheckPattern <- MCCheckPattern
  Lower <- MCLower
  LowerPattern <- MCLowerPattern
  CheckFields <- MCCheckFields
  LowerFields <- MCLowerFields
  LowerEach <- MCLowerEach
  ValidateExpr <- MCValidateExpr
  ValidatePattern <- MCValidatePattern
  ValidateFields <- MCValidateFields
  Binds <- MCBinds
  SubPatterns <- MCSubPatterns
  Visits <- MCVisits
  BytesOf <- MCBytesOf
  EvalIn <- MCEvalIn
  EvalRest <- MCEvalRest
  ChooseArm <- MCChooseArm
  MatchAll <- MCMatchAll
  HasType <- MCHasType
  ValuesOf <- MCValuesOf
  SubExprs <- MCSubExprs
  TypesIn <- MCTypesIn
  IsKnown <- MCIsKnown
  IrWithin <- MCIrWithin
SPECIFICATION Spec
CHECK_DEADLOCK FALSE
INVARIANTS
  LoadedProgramsAreValidated
  LoadedAsDeclared
  RefusalsHaveReasons
  CarefulProgramsNeverGoWrong
  StateKeepsItsType
