CONSTANTS
  MinInt <- MCMinInt
  MaxInt = 63
  MaxUsize = 4000
  Limits <- MCLimits
  COUNTER_CINO <- Counter
  Numerals <- ExampleNumerals
  ProgramOf <- MCProgramOf
  Compatible <- MCCompatible
  Infer <- MCInfer
  CheckPattern <- MCCheckPattern
  Lower <- MCLower
  LowerPattern <- MCLowerPattern
  CheckFields <- MCCheckFields
  LowerFields <- MCLowerFields
  LowerEach <- MCLowerEach
  ValidateExpr <- MCValidateExpr
  ValidatePattern <- MCValidatePattern
  ValidateFields <- MCValidateFields
  Binds <- MCBinds
  SubPatterns <- MCSubPatterns
  Visits <- MCVisits
  BytesOf <- MCBytesOf
  EvalIn <- MCEvalIn
  EvalRest <- MCEvalRest
  ChooseArm <- MCChooseArm
  MatchAll <- MCMatchAll
SPECIFICATION Spec
CHECK_DEADLOCK FALSE
PROPERTIES
  ImplementsTally
