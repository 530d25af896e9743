CONSTANTS
  Chars <- MCChars
  Texts <- MCTexts
  NL = "nl"
  Blanks <- MCBlanks
  Letters <- MCLetters
  Digits <- MCDigits
  Width <- MCWidth
  Reserved <- MCReserved
  Fits <- MCFits
  MaxAny = 4
  MaxFew = 6
SPECIFICATION Spec
CHECK_DEADLOCK FALSE
INVARIANTS
  TypeOK
  TokensCoverTheCode
  TokensAreMaximal
  PositionsAreRight
  RefusedAtTheFirstCulprit
PROPERTY
  EveryTextIsRead
