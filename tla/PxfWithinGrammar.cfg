SPECIFICATION RowSpec
CONSTANTS
  Schema <- MCSchema
  Imports <- MCImports
  Urls <- MCUrls
  Numeral <- MCNumeral
  Reserve <- MCReserve
  Bare <- MCBare
  Calls <- MCCalls
  Rows <- MCRows
INVARIANT
  DecoderWithinGrammar
CHECK_DEADLOCK FALSE
