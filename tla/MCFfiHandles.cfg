CONSTANTS
  MinInt <- MCMinInt
  MaxInt = 0
  MaxUsize = 1000
  h1 = h1
  h2 = h2
  h3 = h3
  h4 = h4
  h5 = h5
  Null = Null
  Handles <- MCHandles
  Vars <- MCVars
  TypeOf <- MCTypeOf
  Documents <- MCDocuments
  Decode <- CborDecode
  Encode <- CborEncode
SYMMETRY Interchangeable
SPECIFICATION Spec
INVARIANTS
  TypeOK
  HeldHandlesAreOwned
  NothingLost
  LentBytesStay
PROPERTIES
  ObjectsNeverChange
  ImplementsHostView
