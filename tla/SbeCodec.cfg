CONSTANTS
  Schema <- MCSchema
  FileLists <- MCFileLists
  Limits <- MCLimits
  Base = 4
  Documents = {}
  Sent <- MCSent
  Damage <- MCDamage
SPECIFICATION CodecSpec
INVARIANTS
  TypeOK
  LaidOut
  InBounds
  EntriesBounded
  RoundTrip
  
