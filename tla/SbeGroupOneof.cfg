CONSTANTS
  Schema <- MCSchema
  FileLists <- MCGroupFiles
  Limits <- MCLimits
  Base = 4
  Documents = {}
  Sent = {}
  Damage = {}
SPECIFICATION Spec
INVARIANT OneofsRefused
