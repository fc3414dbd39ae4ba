SPECIFICATION Spec
CONSTANTS
  LimbBits = 8
  ByteBits = 4
  Chunk = 2
  MaxExp = 45
  Guard = 8
  TableMax = 3
  DefaultPrec = 5
  MaxDigits = 5
  MaxExponent = 10
  NanoDigits = 3
  MilliDigits = 2
  MicroDigits = 1
  SecondsPerMinute = 2
  MinutesPerHour = 2
  HoursPerDay = 2
  Bound = 8192
  Wide = 67108863
  Texts <- MCTexts
  Values <- MCValues
  Operands <- MCOperands
INVARIANT RoundedOnce
PROPERTY LiteralsKeepValues
CHECK_DEADLOCK FALSE
