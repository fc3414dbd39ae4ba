CONSTANTS
  Schema <- MCEmptySchema
  FileLists <- MCEmptyFiles
  Limits <- MCLimits
  Base = 4
  Documents <- MCEmptyDocuments
  Sent = {}
  Damage = {}
SPECIFICATION Spec
INVARIANT HasEncoding
