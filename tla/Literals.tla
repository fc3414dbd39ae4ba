------------------------------- MODULE Literals -------------------------------
(***************************************************************************)
(* The literals that stand for a message (protowire-pxf): pxf.BigInt,      *)
(* pxf.Decimal, pxf.BigFloat, google.protobuf.Timestamp and Duration.  A   *)
(* text is read into the message's fields (bignum.rs, bigfloat.rs,         *)
(* decode.rs) and a message is written as a text again (encode.rs); the    *)
(* float operations the reading is made of are taken for themselves too.   *)
(***************************************************************************)
EXTENDS BigFloat

CONSTANTS
  NanoDigits,        \* digits of a second's fraction (9); a second is 10^NanoDigits
  MilliDigits, MicroDigits,             \* of a millisecond (6), a microsecond (3)
  SecondsPerMinute, MinutesPerHour, HoursPerDay,     \* 60, 60, 24
  Bound,             \* DURATION_LITERAL_MAX_ABS (2^63): one past the largest total
  Wide,              \* the largest number a sum is computed with (i128::MAX)
  Texts,             \* for each kind of literal, the texts tried
  Values,            \* and the messages tried
  Operands           \* [x, y, prec]: float operands

ASSUME ClockAssumption ==
  /\ {NanoDigits, MilliDigits, MicroDigits, SecondsPerMinute, MinutesPerHour, HoursPerDay, Bound, Wide}
       \subseteq Nat \ {0}
  /\ MicroDigits < MilliDigits /\ MilliDigits < NanoDigits

VARIABLES
  kind,      \* what is read or written; "mul" and "quo" for an operation
  stage,     \* "text": to be read; "value": to be written; "compute"; "done"
  text,      \* the literal, or the operands
  value,     \* the message's fields, or the result
  turns      \* writes so far

vars == <<kind, stage, text, value, turns>>

Second == 10^NanoDigits
Minute == SecondsPerMinute * Second
Hour   == MinutesPerHour * Minute
Block  == [block |-> TRUE]          \* no literal: the message is written as a block

-----------------------------------------------------------------------------
(* pxf.BigInt: [neg, int].  pxf.Decimal: [neg, int, frac].                  *)

WithinDigits(digits) == Len(digits) \in 1..MaxDigits
\* bound_literal: leading zeros do not count.
Significant(digits) == SubSeq(digits, SelectInSeq(digits \o <<1>>, LAMBDA d : d # 0), Len(digits))

ParseBigInt(t) ==
  LET abs == BytesOfDigits(t.int)
  IN  IF WithinDigits(t.int) THEN [abs |-> abs, neg |-> t.neg /\ abs # <<>>] ELSE Refused

FormatBigInt(v) ==
  LET digits == DigitsOfBytes(v.abs)
  IN  IF Len(Significant(digits)) > MaxDigits THEN Refused
      ELSE [neg |-> v.neg /\ digits # <<0>>, int |-> digits]

ParseDecimal(t) ==
  IF WithinDigits(t.int \o t.frac)
  THEN [unscaled |-> BytesOfDigits(t.int \o t.frac), scale |-> Len(t.frac), neg |-> t.neg]
  ELSE Refused

\* A negative scale is written out as zeros, a positive one takes zeros before the
\* digits until one is left of the point.
FormatDecimal(v) ==
  LET digits == DigitsOfBytes(v.unscaled)
      moved  == IF digits = <<0>> THEN digits ELSE digits \o Zeros(-v.scale)
      whole  == IF v.scale <= 0 THEN moved
                ELSE Zeros(v.scale + 1 - Len(digits)) \o digits
      point  == Len(whole) - (IF v.scale > 0 THEN v.scale ELSE 0)
  IN  IF v.scale \notin -MaxDigits..MaxDigits \/ Len(Significant(whole)) > MaxDigits THEN Refused
      ELSE [neg |-> v.neg, int |-> SubSeq(whole, 1, point), frac |-> SubSeq(whole, point + 1, Len(whole))]

-----------------------------------------------------------------------------
(* google.protobuf.Duration: [neg, segments], a segment [int, frac, unit].  *)

UnitNanos(unit) ==
  CASE unit = "ns" -> 1                  [] unit = "us" -> 10^MicroDigits
    [] unit = "ms" -> 10^MilliDigits     [] unit = "s"  -> Second
    [] unit = "m"  -> Minute             [] unit = "h"  -> Hour

Overlong == -1
\* Each product and each sum is checked; the fraction is cut below a nanosecond.
AddSegment(total, s) ==
  LET nanos == UnitNanos(s.unit)
      whole == Value10(s.int) * nanos + total
      part  == (Value10(s.frac) * nanos) \div 10^Len(s.frac)
  IN  IF \/ total = Overlong
         \/ Value10(s.int) > Wide \/ whole > Bound
         \/ 10^Len(s.frac) > Wide \/ Value10(s.frac) * nanos > Wide \/ whole + part > Bound
      THEN Overlong
      ELSE whole + part

ParseDuration(t) ==
  LET total == FoldLeft(AddSegment, 0, t.segments)
      sign  == IF t.neg THEN -1 ELSE 1
  IN  IF total = Overlong \/ (~t.neg /\ total >= Bound) THEN Refused
      ELSE [seconds |-> sign * (total \div Second), nanos |-> sign * (total % Second)]

\* n in units of 10^digits, the fraction without the zeros that end it.
Segment(n, digits, unit) ==
  [int  |-> DigitsOf(n \div 10^digits, Width10(n \div 10^digits)),
   frac |-> Trim(DigitsOf(n % 10^digits, digits)), unit |-> unit]
Whole(n, unit) == Segment(n, 0, unit)

DurationFits(v) == v.seconds * Second + v.nanos \in -Bound..(Bound - 1)

\* The unit is the smallest that has a digit before the point; hours and minutes
\* only where there are any.
FormatDuration(v) ==
  LET total == v.seconds * Second + v.nanos
      n     == IF total < 0 THEN -total ELSE total
      secs  == Segment(n % Minute, NanoDigits, "s")
      mins  == (n \div Minute) % MinutesPerHour
      segments ==
        CASE n = 0                -> <<Whole(0, "s")>>
          [] n \in 1..(10^MicroDigits - 1)              -> <<Whole(n, "ns")>>
          [] n \in 10^MicroDigits..(10^MilliDigits - 1) -> <<Segment(n, MicroDigits, "us")>>
          [] n \in 10^MilliDigits..(Second - 1)         -> <<Segment(n, MilliDigits, "ms")>>
          [] n \in Second..(Minute - 1)                 -> <<secs>>
          [] n \in Minute..(Hour - 1)                   -> <<Whole(mins, "m"), secs>>
          [] n >= Hour -> <<Whole(n \div Hour, "h"), Whole(mins, "m"), secs>>
  IN  IF DurationFits(v) THEN [neg |-> total < 0, segments |-> segments] ELSE Block

-----------------------------------------------------------------------------
(* google.protobuf.Timestamp: [year, month, day, hour, minute, second,      *)
(* frac, east]; east is the offset's sign, east.sign 0 for Z.               *)

IsLeapYear(y) == (y % 4 = 0 /\ y % 100 # 0) \/ y % 400 = 0
DaysInMonth(y, m) ==
  CASE m \in {1, 3, 5, 7, 8, 10, 12} -> 31
    [] m \in {4, 6, 9, 11}           -> 30
    [] m = 2                         -> IF IsLeapYear(y) THEN 29 ELSE 28

\* is_valid_rfc3339: the lexer's test; second 60 is let through.
IsTimestamp(t) ==
  /\ t.year \in 0..9999 /\ t.month \in 1..12 /\ t.day \in 1..DaysInMonth(t.year, t.month)
  /\ t.hour < HoursPerDay /\ t.minute < MinutesPerHour /\ t.second <= SecondsPerMinute
  /\ t.zone.hour < HoursPerDay /\ t.zone.minute < MinutesPerHour

\* Days since 1970-01-01, in eras of 400 years that begin on the first of March.
DaysFromCivil(year, month, day) ==
  LET y   == IF month <= 2 THEN year - 1 ELSE year
      yoe == y - (y \div 400) * 400
      doy == (153 * ((month + 9) % 12) + 2) \div 5 + day - 1
  IN  (y \div 400) * 146097 + yoe * 365 + yoe \div 4 - yoe \div 100 + doy - 719468

\* Mutant of YearOfEra: the last day of an era falls into the next year.
YearOfEraLong(doe) == (doe - doe \div 1460 + doe \div 36524) \div 365
YearOfEra(doe) == (doe - doe \div 1460 + doe \div 36524 - doe \div 146096) \div 365

CivilFromDays(days) ==
  LET z   == days + 719468
      doe == z % 146097
      yoe == YearOfEra(doe)
      doy == doe - (365 * yoe + yoe \div 4 - yoe \div 100)
      mp  == (5 * doy + 2) \div 153
      m   == IF mp < 10 THEN mp + 3 ELSE mp - 9
  IN  [year |-> yoe + (z \div 146097) * 400 + (IF m <= 2 THEN 1 ELSE 0), month |-> m,
       day |-> doy - (153 * mp + 2) \div 5 + 1]

SecondsPerDay == HoursPerDay * MinutesPerHour * SecondsPerMinute

\* A fraction is cut or filled to the digits of a second.
ParseTimestamp(t) ==
  LET offset == t.zone.sign * (t.zone.hour * MinutesPerHour + t.zone.minute) * SecondsPerMinute
      clock  == (t.hour * MinutesPerHour + t.minute) * SecondsPerMinute + t.second
  IN  IF IsTimestamp(t)
      THEN [seconds |-> DaysFromCivil(t.year, t.month, t.day) * SecondsPerDay + clock - offset,
            nanos |-> Value10(Padded(t.frac, 1, NanoDigits))]
      ELSE Refused

Utc == [sign |-> 0, hour |-> 0, minute |-> 0]
FormatTimestamp(v) ==
  LET date  == CivilFromDays(v.seconds \div SecondsPerDay)
      clock == v.seconds % SecondsPerDay
  IN  [year |-> date.year, month |-> date.month, day |-> date.day,
       hour |-> clock \div (MinutesPerHour * SecondsPerMinute),
       minute |-> (clock \div SecondsPerMinute) % MinutesPerHour,
       second |-> clock % SecondsPerMinute,
       frac |-> Trim(DigitsOf(v.nanos, NanoDigits)), zone |-> Utc]

-----------------------------------------------------------------------------
Parse(t) ==
  CASE kind = "BigInt"    -> ParseBigInt(t)
    [] kind = "Decimal"   -> ParseDecimal(t)
    [] kind = "BigFloat"  -> ParseBigFloat(t)
    [] kind = "Duration"  -> ParseDuration(t)
    [] kind = "Timestamp" -> ParseTimestamp(t)

\* message_shorthand
Shorthand(v) ==
  CASE kind = "BigInt"    -> FormatBigInt(v)
    [] kind = "Decimal"   -> FormatDecimal(v)
    [] kind = "BigFloat"  -> FormatBigFloat(v)
    [] kind = "Duration"  -> FormatDuration(v)
    [] kind = "Timestamp" -> FormatTimestamp(v)

Unread == [unread |-> TRUE]

Init ==
  /\ turns = 0
  /\ \/ /\ kind \in DOMAIN Texts /\ text \in Texts[kind]
        /\ stage = "text" /\ value = Unread
     \/ /\ kind \in DOMAIN Values /\ value \in Values[kind]
        /\ stage = "value" /\ text = Unread
     \/ /\ kind \in {"mul", "quo"} /\ text \in Operands
        /\ stage = "compute" /\ value = Unread

Read ==
  /\ stage = "text"
  /\ value' = Parse(text)
  /\ stage' = IF value' = Refused \/ turns = 2 THEN "done" ELSE "value"
  /\ UNCHANGED <<kind, text, turns>>

\* What is written is read again; two writes show that the first settled the value.
Write ==
  /\ stage = "value"
  /\ text' = Shorthand(value)
  /\ stage' = IF text' \in {Refused, Block} THEN "done" ELSE "text"
  /\ turns' = turns + 1
  /\ UNCHANGED <<kind, value>>

Compute ==
  /\ stage = "compute"
  /\ value' = IF kind = "mul" THEN FlMul(text.x, text.y, text.prec) ELSE FlQuo(text.x, text.y, text.prec)
  /\ stage' = "done"
  /\ UNCHANGED <<kind, text, turns>>

Next == Read \/ Write \/ Compute

Spec == Init /\ [][Next]_vars

-----------------------------------------------------------------------------
(* What the literals promise, in plain arithmetic.                          *)

Number(bytes) == FoldLeft(LAMBDA n, b : Byte * n + b, 0, bytes)
Abs(n) == IF n < 0 THEN -n ELSE n

\* m is num / den to the nearest, a tie to the even one; below a power of two, the
\* bottom of what has prec bits, the steps are half as wide.
NearestEven(m, prec, num, den) ==
  LET off == 2 * Abs(num - m * den)
  IN  /\ off < den \/ (off = den /\ m % 2 = 0)
      /\ m = 2^(prec - 1) /\ num < m * den => 2 * off <= den

Up(n)   == IF n > 0 THEN 2^n ELSE 1         \* 2^n as numerator and denominator
Down(n) == IF n < 0 THEN 2^(-n) ELSE 1
Up10(n)   == IF n > 0 THEN 10^n ELSE 1
Down10(n) == IF n < 0 THEN 10^(-n) ELSE 1
Limbs(s) == FoldRight(LAMBDA w, n : Base * n + w, s, 0)

ReadsBigInt(t, v) ==
  IF Len(t.int) > MaxDigits THEN v = Refused
  ELSE /\ v # Refused /\ Number(v.abs) = Value10(t.int)
       /\ v.abs = <<>> \/ v.abs[1] # 0
       /\ v.neg = (t.neg /\ Value10(t.int) # 0)

ReadsDecimal(t, v) ==
  IF Len(t.int \o t.frac) > MaxDigits THEN v = Refused
  ELSE /\ v # Refused /\ Number(v.unscaled) = Value10(t.int \o t.frac)
       /\ v.scale = Len(t.frac) /\ v.neg = t.neg

\* Beyond these powers of ten no digits are within MaxExponent.
Scales == -(MaxDigits + 2)..(MaxDigits - 2)

\* Within 9/16 of the last bit: the powers of five are rounded on the way.
ReadsBigFloat(t, v) ==
  LET d    == Value10(t.int \o t.frac)
      x    == t.exp - Len(t.frac)
      prec == IF t.prec = None THEN DefaultPrec ELSE t.prec
      at(n, e) == d * Up10(x) * Down(e) >= n * Down10(x) * Up(e)      \* d 10^x >= n 2^e
  IN  IF Len(t.int \o t.frac) > MaxDigits \/ t.prec = 0 \/ (t.prec # None /\ BigFloatDigits(prec) > MaxDigits)
      THEN v = Refused
      ELSE CASE d = 0 -> v = [mantissa |-> <<>>, exponent |-> 0, neg |-> t.neg,
                              prec |-> IF t.prec = None THEN 0 ELSE prec]
             [] d # 0 /\ x \notin Scales -> v = Refused
             [] d # 0 /\ x \in Scales /\ v = Refused ->
                  ~at(1, -MaxExponent - 1) \/ at(2^prec - 1, MaxExponent - prec)
             [] OTHER ->
                  LET m == Number(v.mantissa)
                  IN  /\ m \in 2^(prec - 1)..(2^prec - 1) /\ v.prec = prec /\ v.neg = t.neg
                      /\ v.exponent + prec \in -MaxExponent..MaxExponent
                      /\ 16 * Abs(d * Up10(x) * Down(v.exponent) - m * Down10(x) * Up(v.exponent))
                           <= 9 * Down10(x) * Up(v.exponent)

ReadsDuration(t, v) ==
  LET nanos(s) == (Value10(s.int \o s.frac) * UnitNanos(s.unit)) \div 10^Len(s.frac)
      total    == (IF t.neg THEN -1 ELSE 1) * FoldLeft(LAMBDA n, s : n + nanos(s), 0, t.segments)
      long     == \E k \in DOMAIN t.segments : 10^Len(t.segments[k].frac) * Hour > Wide
  IN  IF v = Refused THEN long \/ total \notin -Bound..(Bound - 1)
      ELSE /\ v.seconds * Second + v.nanos = total /\ total \in -Bound..(Bound - 1)
           /\ Abs(v.nanos) < Second /\ v.seconds * v.nanos >= 0

DaysBefore == <<0, 31, 59, 90, 120, 151, 181, 212, 243, 273, 304, 334>>
DayNumber(t) ==
  LET y == t.year - 1
  IN  365 * t.year + (y \div 4 - y \div 100 + y \div 400) + DaysBefore[t.month] + t.day
        + (IF t.month > 2 /\ IsLeapYear(t.year) THEN 1 ELSE 0)
Epoch == [year |-> 1970, month |-> 1, day |-> 1]
Civil(t) ==
  /\ t.month \in 1..12 /\ t.day \in 1..31
  /\ t.month \in {4, 6, 9, 11} => t.day < 31
  /\ t.month = 2 => t.day < 29 \/ (t.day = 29 /\ IsLeapYear(t.year))

ReadsTimestamp(t, v) ==
  IF v = Refused THEN ~Civil(t) \/ t.hour >= HoursPerDay \/ t.second > SecondsPerMinute
  ELSE /\ Civil(t) /\ t.hour < HoursPerDay
       /\ v.seconds = (DayNumber(t) - DayNumber(Epoch)) * SecondsPerDay
                        + ((t.hour - t.zone.sign * t.zone.hour) * MinutesPerHour
                           + t.minute - t.zone.sign * t.zone.minute) * SecondsPerMinute + t.second
       /\ v.nanos = Value10(SubSeq(t.frac \o Zeros(NanoDigits), 1, NanoDigits))

ReadsAs(t, v) ==
  CASE kind = "BigInt"    -> ReadsBigInt(t, v)
    [] kind = "Decimal"   -> ReadsDecimal(t, v)
    [] kind = "BigFloat"  -> ReadsBigFloat(t, v)
    [] kind = "Duration"  -> ReadsDuration(t, v)
    [] kind = "Timestamp" -> ReadsTimestamp(t, v)

\* v, and what is read of the text written for it.
Same(v, w) ==
  CASE kind = "BigInt"  -> Number(w.abs) = Number(v.abs) /\ w.neg = (v.neg /\ Number(v.abs) # 0)
    [] kind = "Decimal" ->
         /\ Number(w.unscaled) = Number(v.unscaled) * Down10(v.scale) /\ w.neg = v.neg
         /\ w.scale = (IF v.scale > 0 THEN v.scale ELSE 0)
    [] kind = "BigFloat" ->
         /\ w.prec = v.prec /\ w.neg = v.neg
         /\ IF v.prec = 0 \/ Number(v.mantissa) = 0 THEN w.mantissa = <<>> /\ w.exponent = 0
            ELSE LET k == w.exponent - v.exponent
                 IN  NearestEven(Number(w.mantissa), v.prec, Number(v.mantissa) * Down(k), Up(k))
    [] kind = "Duration" -> w.seconds * Second + w.nanos = v.seconds * Second + v.nanos
    [] kind = "Timestamp" -> w = v

\* The texts that are written but not promised to be read: more digits than a literal
\* may have (leading zeros count in reading alone), a year that has not four digits,
\* a mantissa that is rounded up past the largest exponent.
Promised(t, v) ==
  CASE kind = "Decimal"   -> Len(t.int \o t.frac) <= MaxDigits
    [] kind = "BigFloat"  -> /\ Len(t.int \o t.frac) <= MaxDigits
                             /\ ~(/\ Number(v.mantissa) >= 2^v.prec
                                  /\ ValueExponent(v) = MaxExponent)
    [] kind = "Timestamp" -> t.year \in 0..9999
    [] OTHER              -> TRUE

Unwritable(v) ==
  CASE kind = "BigInt"  -> Number(v.abs) >= 10^MaxDigits
    [] kind = "Decimal" -> \/ v.scale \notin -MaxDigits..MaxDigits
                           \/ Number(v.unscaled) * Down10(v.scale) >= 10^MaxDigits
    [] kind = "BigFloat" ->
         /\ v.prec > 0
         /\ \/ BigFloatDigits(v.prec) > MaxDigits
            \/ /\ Number(v.mantissa) > 0
               /\ \/ Number(v.mantissa) * Up(v.exponent) >= 2^MaxExponent * Down(v.exponent)
                  \/ Number(v.mantissa) * Up(v.exponent + MaxExponent + 1) < Down(v.exponent + MaxExponent + 1)
    [] kind = "Duration" -> v.seconds * Second + v.nanos \notin -Bound..(Bound - 1)
    [] OTHER -> FALSE

(* A literal is read as the message its text means (decode.rs:1318-1409     *)
(* take what these parsers give) and refused only where a bound says so;    *)
(* every message a bound does not forbid is written, and what is written    *)
(* reads back as the same value: at its precision, in its scale, on its     *)
(* day, to the nanosecond.                                                  *)
LiteralsKeepValues ==
  [][/\ stage = "text" => IF turns = 0 THEN ReadsAs(text, value')
                          ELSE Promised(text, value) => value' # Refused /\ Same(value, value')
     /\ stage = "value" => (text' \in {Refused, Block} <=> Unwritable(value))]_vars

\* x times y, or x by y, as num / den times 2^exp.
Exact ==
  LET x == text.x
      y == text.y
  IN  IF kind = "mul" THEN [num |-> Limbs(x.mant) * Limbs(y.mant), den |-> 1,
                            exp |-> x.exp - x.prec + y.exp - y.prec]
      ELSE [num |-> Limbs(x.mant), den |-> Limbs(y.mant), exp |-> x.exp - x.prec - y.exp + y.prec]

(* Fl::mul and Fl::quo round once: their result is the exact product or     *)
(* quotient to the nearest, a tie to the even mantissa, with prec bits -    *)
(* through a quotient with two spare bits and a remainder - and leaves the  *)
(* range only where the exponent does.                                      *)
RoundedOnce ==
  stage = "done" /\ kind \in {"mul", "quo"} =>
    IF value.form # "finite" THEN Abs(text.x.exp) + Abs(text.y.exp) >= MaxExp
    ELSE LET m == Limbs(value.mant)
             k == value.exp - value.prec - Exact.exp
         IN  /\ value.prec = text.prec /\ m \in 2^(text.prec - 1)..(2^text.prec - 1)
             /\ NearestEven(m, text.prec, Exact.num * Down(k), Exact.den * Up(k))
=============================================================================
