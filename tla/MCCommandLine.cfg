CONSTANTS
  MinInt <- MCMinInt
  MaxInt = 3
  MaxUsize = 4000
  Limits <- MCLimits
  Numerals <- ExampleNumerals
  Texts <- MCTexts
  StateDocs <- MCStateDocs
  InputDocs <- MCInputDocs
  Nesting <- MCNesting
  ProgramOf <- MCProgramOf
  Compatible <- MCCompatible
  Infer <- MCInfer
  CheckPattern <- MCCheckPattern
  Lower <- MCLower
  LowerPattern <- MCLowerPattern
  CheckFields <- MCCheckFields
  LowerFields <- MCLowerFields
  LowerEach <- MCLowerEach
  ValidateExpr <- MCValidateExpr
  ValidatePattern <- MCValidatePattern
  ValidateFields <- MCValidateFields
  Binds <- MCBinds
  SubPatterns <- MCSubPatterns
  Visits <- MCVisits
  BytesOf <- MCBytesOf
  EvalIn <- MCEvalIn
  EvalRest <- MCEvalRest
  ChooseArm <- MCChooseArm
  MatchAll <- MCMatchAll
  FromCbor <- MCFromCbor
  ToCbor <- MCToCbor
  FromJson <- MCFromJson
  ToJson <- MCToJson
SPECIFICATION Spec
CHECK_DEADLOCK FALSE
PROPERTIES
  ImplementsReactor
