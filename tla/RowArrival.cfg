CONSTANTS
  Alphabet <- MCAlphabet
  MaxLen = 6
SPECIFICATION Spec
INVARIANT
  ScannerFindsParsersRow
PROPERTY FoundIsFinal
CHECK_DEADLOCK FALSE
