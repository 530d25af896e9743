CONSTANTS
  Numerals <- MCNumerals
  Programs <- MCPrograms
  Texts <- MCTexts
  Editable <- MCEditable
  EditWords <- MCEditWords
  MaxEdits = 1
SPECIFICATION Spec
CHECK_DEADLOCK FALSE
INVARIANTS
  RoundTrip
  AcceptedTextsReparse
  NothingIsDropped
  ErrorsPointAtTheCulprit
