CONSTANTS
  MinInt <- MCMinInt
  MaxInt = 7
  MaxUsize = 1000
  FromCbor <- MCFromCbor
  ToCbor <- MCToCbor
  FromJson <- MCFromJson
  ToJson <- MCToJson
  CborWithin <- MCCborWithin
  JsonWithin <- MCJsonWithin
  CborOf <- MCCborOf
  CborInputs <- MCCborInputs
  JsonInputs <- MCJsonInputs
SPECIFICATION Spec
CHECK_DEADLOCK FALSE
INVARIANT SameMeaning
