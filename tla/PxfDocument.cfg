SPECIFICATION RowSpec
CONSTANTS
  Schema <- MCSchema
  Imports <- MCImports
  Urls <- MCUrls
  Numeral <- MCNumeral
  Reserve <- MCReserve
  Bare <- MCBare
  Calls <- MCCalls
  Rows <- MCRows
INVARIANTS
  TypeOK
  DepthIsOpenBrackets
  CountsBounded
  MarksLand
  PresenceIsDocument
  NothingLost
  RequiredEverywhere
  DefaultsEverywhere
  
  FormatKeepsMeaning
  RowIsItsCells
PROPERTY
  Finishes
CHECK_DEADLOCK FALSE
