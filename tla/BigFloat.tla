------------------------------- MODULE BigFloat -------------------------------
(***************************************************************************)
(* Binary floating point of a chosen precision and the decimal literals of *)
(* pxf.BigFloat (protowire-pxf, bigfloat.rs).  A value is a mantissa of    *)
(* exactly prec bits, read as a binary fraction, times 2^exp; every        *)
(* operation rounds to nearest, ties to even.                              *)
(***************************************************************************)
EXTENDS BigNat

CONSTANTS
  MaxExp,        \* bound of an exponent (i32::MAX)
  Guard,         \* bits a power of five is computed with beyond the result's (64)
  TableMax,      \* the largest power of five taken from a table (27)
  DefaultPrec,   \* precision of a literal without a suffix (BIG_FLOAT_PREC)
  MaxDigits,     \* MAX_NUMERIC_LITERAL_DIGITS
  MaxExponent    \* MAX_BIG_FLOAT_EXPONENT

ASSUME FloatAssumption ==
  /\ {MaxExp, Guard, DefaultPrec, MaxDigits, MaxExponent} \subseteq Nat \ {0}
  /\ TableMax \in Nat /\ 5^TableMax < Base^2

MinExp  == -MaxExp - 1
None    == -1                    \* a literal without a precision suffix
Refused == [refused |-> TRUE]

Zero == [form |-> "zero"]
Inf  == [form |-> "inf"]
Finite(mant, exp, prec) == [form |-> "finite", mant |-> mant, exp |-> exp, prec |-> prec]

\* Mutant of RoundUp: what was dropped before does not break a tie.
RoundUpAtHand(mant, r, kept, sticky) ==
  Bit(mant, r) = 1 /\ (AnyBitBelow(mant, r) \/ Bit(kept, 0) = 1)
\* Whether what is dropped, from bit r down, rounds up.
RoundUp(mant, r, kept, sticky) ==
  Bit(mant, r) = 1 /\ (sticky \/ AnyBitBelow(mant, r) \/ Bit(kept, 0) = 1)

\* 0.mant times 2^exp at prec bits; sticky: bits that are not zero were dropped before.
RoundInto(mant, exp, prec, sticky) ==
  LET bits  == BitLen(mant)
      kept  == Shr(mant, bits - prec)
      up    == RoundUp(mant, bits - prec - 1, kept, sticky)
      next  == AddOne(kept)
      spill == up /\ BitLen(next) > prec
  IN  CASE mant = <<>> \/ exp < MinExp -> Zero
        [] exp > MaxExp                -> Inf
        [] bits <= prec                -> Finite(Shl(mant, prec - bits), exp, prec)
        [] spill /\ exp >= MaxExp      -> Inf
        [] spill                       -> Finite(Shr(next, 1), exp + 1, prec)
        [] OTHER                       -> Finite(IF up THEN next ELSE kept, exp, prec)

FromU64(n, prec) == RoundInto(FromNat(n), BitLen(FromNat(n)), prec, FALSE)

FlMul(x, y, prec) ==
  LET product == Mul(x.mant, y.mant)
  IN  CASE "zero" \in {x.form, y.form} -> Zero
        [] "inf" \in {x.form, y.form}  -> Inf
        [] OTHER -> RoundInto(product, x.exp + y.exp - x.prec - y.prec + BitLen(product), prec, FALSE)

\* The dividend is moved until the quotient has two bits to spare; the remainder
\* stands for the bits below.
FlQuo(x, y, prec) ==
  LET s == prec + 2 + BitLen(y.mant) - BitLen(x.mant)
      r == IF s >= 0 THEN DivRem(Shl(x.mant, s), y.mant) ELSE DivRem(x.mant, Shl(y.mant, -s))
  IN  CASE x.form = "zero" \/ y.form = "inf" -> Zero
        [] x.form = "inf" \/ y.form = "zero" -> Inf
        [] OTHER -> RoundInto(r.q, x.exp - y.exp - x.prec + y.prec - s + BitLen(r.q), prec, r.rem # <<>>)

\* 5^n at prec bits: past the table by squares, the multiplier at Guard bits more.
RECURSIVE Pow5Steps(_, _, _, _)
Pow5Steps(z, f, n, prec) ==
  IF n = 0 THEN z
  ELSE Pow5Steps(IF n % 2 = 1 THEN FlMul(z, f, prec) ELSE z,
                 FlMul(f, f, prec + Guard), n \div 2, prec)
Pow5(n, prec) ==
  IF n <= TableMax THEN FromU64(5^n, prec)
  ELSE Pow5Steps(FromU64(5^TableMax, prec), FromU64(5, prec + Guard), n - TableMax, prec)

\* The decimal digits a value of prec bits is written with.
BigFloatDigits(prec) == Len(ToDecimal(Shl(<<1>>, prec))) + 1

-----------------------------------------------------------------------------
(* A literal is [neg, int, frac, exp, prec]: digits before and after the    *)
(* point, the decimal exponent, the precision suffix or None.               *)

Magnitude(text, prec) ==
  LET d    == FromDecimal(text.int \o text.frac)
      exp5 == text.exp - Len(text.frac)
      exp2 == BitLen(d) + exp5
      pow  == Pow5(IF exp5 < 0 THEN -exp5 ELSE exp5, prec + Guard)
  IN  CASE d = <<>>                     -> Zero
        [] exp2 \notin MinExp..MaxExp   -> Inf
        [] exp5 = 0                     -> RoundInto(d, exp2, prec, FALSE)
        [] exp5 < 0                     -> FlQuo(Finite(d, exp2, BitLen(d)), pow, prec)
        [] OTHER                        -> FlMul(Finite(d, exp2, BitLen(d)), pow, prec)

Message(value, text, prec) ==
  LET exponent == value.exp - prec
  IN  CASE value.form = "inf" -> Refused
        [] value.form = "zero" ->
             IF \E k \in DOMAIN (text.int \o text.frac) : (text.int \o text.frac)[k] # 0 THEN Refused
             ELSE [mantissa |-> <<>>, exponent |-> 0,
                   prec |-> IF text.prec = None THEN 0 ELSE prec, neg |-> text.neg]
        [] OTHER ->
             IF exponent < MinExp \/ value.exp \notin -MaxExponent..MaxExponent THEN Refused
             ELSE [mantissa |-> ToBeBytes(value.mant), exponent |-> exponent,
                   prec |-> prec, neg |-> text.neg]

ParseBigFloat(text) ==
  LET prec == IF text.prec = None THEN DefaultPrec ELSE text.prec
  IN  IF \/ text.prec = 0
         \/ text.prec # None /\ BigFloatDigits(text.prec) > MaxDigits
         \/ Len(text.int \o text.frac) \notin 1..MaxDigits
      THEN Refused
      ELSE Message(Magnitude(text, prec), text, prec)

-----------------------------------------------------------------------------
(* Writing: the exact decimal expansion, rounded to the digits of the       *)
(* precision; [d, exp] is the fraction 0.d times 10^exp.                    *)

TrimZeros(x) ==
  LET d == Trim(x.d) IN [d |-> d, exp |-> IF d = <<>> THEN 0 ELSE x.exp]

Expansion(mant, e2) ==
  LET digits == ToDecimal(IF e2 >= 0 THEN Shl(mant, e2) ELSE Mul(mant, Pow5Exact(-e2)))
  IN  TrimZeros([d |-> digits, exp |-> Len(digits) + (IF e2 >= 0 THEN 0 ELSE e2)])

\* A five with nothing after it goes to the even digit.
RoundDigits(x, n) ==
  LET up   == IF x.d[n + 1] = 5 /\ n + 1 = Len(x.d) THEN x.d[n] % 2 = 1 ELSE x.d[n + 1] >= 5
      last == SelectLastInSubSeq(x.d, 1, n, LAMBDA c : c < 9)
  IN  IF n >= Len(x.d) THEN x
      ELSE CASE ~up              -> TrimZeros([x EXCEPT !.d = SubSeq(@, 1, n)])
             [] up /\ last = 0   -> [d |-> <<1>>, exp |-> x.exp + 1]
             [] up /\ last > 0   -> [x EXCEPT !.d = Append(SubSeq(@, 1, last - 1), @[last] + 1)]

Padded(d, from, to) == [k \in 1..(to - from + 1) |->
                          IF from + k - 1 \in 1..Len(d) THEN d[from + k - 1] ELSE 0]

\* %e below 10^-4 and from the digits on, %f between.
Laid(x, digits, prec, neg) ==
  LET len    == Len(x.d)
      eprec  == IF digits > len /\ len >= x.exp THEN len ELSE digits
      places == (IF digits > x.exp THEN len ELSE digits) - x.exp
  IN  IF x.exp - 1 < -4 \/ x.exp - 1 >= eprec
      THEN [neg |-> neg, int |-> <<x.d[1]>>, frac |-> Tail(x.d), exp |-> x.exp - 1, prec |-> prec]
      ELSE [neg |-> neg, int |-> IF x.exp > 0 THEN Padded(x.d, 1, x.exp) ELSE <<0>>,
            frac |-> Padded(x.d, x.exp + 1, x.exp + places), exp |-> 0, prec |-> prec]

\* The binary exponent of a message, read off its bytes.
ValueExponent(v) == v.exponent + BitLen(FromBeBytes(v.mantissa))

FormatBigFloat(v) ==
  LET m      == FromBeBytes(v.mantissa)
      digits == BigFloatDigits(v.prec)
      value  == RoundInto(m, BitLen(m), v.prec, FALSE)
      zero   == [neg |-> v.neg, int |-> <<0>>, frac |-> <<>>, exp |-> 0,
                 prec |-> IF v.prec = 0 THEN None ELSE v.prec]
  IN  CASE v.prec = 0 -> zero
        [] \/ m # <<>> /\ ValueExponent(v) \notin -MaxExponent..MaxExponent
           \/ digits > MaxDigits -> Refused
        [] m = <<>> -> zero
        [] OTHER -> Laid(RoundDigits(Expansion(value.mant, value.exp + v.exponent - v.prec), digits),
                         digits, v.prec, v.neg)
=============================================================================
