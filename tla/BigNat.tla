-------------------------------- MODULE BigNat --------------------------------
(***************************************************************************)
(* Unsigned integers of any size (protowire-pxf, bigfloat.rs: BigUint;     *)
(* bignum.rs: decimal_digits_to_be_bytes, be_bytes_to_decimal): sequences  *)
(* of limbs, the least significant first and the last not zero.            *)
(***************************************************************************)
EXTENDS Integers, SequencesExt

CONSTANTS
  LimbBits,     \* bits of a limb (32)
  ByteBits,     \* bits of a byte (8)
  Chunk         \* decimal digits put in at a time (9): their power of ten is a limb

ASSUME WidthsAssumption ==
  /\ LimbBits \in Nat \ {0} /\ ByteBits \in Nat \ {0} /\ Chunk \in Nat \ {0}
  /\ LimbBits % ByteBits = 0 /\ 10^Chunk < 2^LimbBits

Base   == 2^LimbBits
Byte   == 2^ByteBits
BytesPerLimb == LimbBits \div ByteBits

Zeros(n) == [k \in 1..n |-> 0]
Trim(s)  == SubSeq(s, 1, SelectLastInSeq(s, LAMBDA w : w # 0))
Limb(s, i) == IF i < Len(s) THEN s[i + 1] ELSE 0      \* limb i, from 0

\* Bits of a word: how many it takes.
WidthOf(w) == CHOOSE n \in 0..LimbBits : w < 2^n /\ (n > 0 => w >= 2^(n - 1))
BitLen(s)  == IF s = <<>> THEN 0 ELSE (Len(s) - 1) * LimbBits + WidthOf(Last(s))

Bit(s, i) == (Limb(s, i \div LimbBits) \div 2^(i % LimbBits)) % 2
AnyBitBelow(s, i) ==
  \/ \E k \in 1..Len(s) : k <= i \div LimbBits /\ s[k] # 0
  \/ Limb(s, i \div LimbBits) % 2^(i % LimbBits) # 0

\* One pass over words with a carry, Out(word, carry) the new word before it is cut.
Pass(s, carry, Out(_, _), base) ==
  FoldLeft(LAMBDA acc, w : [words |-> Append(acc.words, Out(w, acc.carry) % base),
                            carry |-> Out(w, acc.carry) \div base],
           [words |-> <<>>, carry |-> carry], s)
Carried(pass) == IF pass.carry = 0 THEN pass.words ELSE Append(pass.words, pass.carry)

MulSmallAdd(s, m, a) == Carried(Pass(s, a, LAMBDA w, c : w * m + c, Base))
AddOne(s)            == Carried(Pass(s, 1, LAMBDA w, c : w + c, Base))

Shl(s, n) ==
  IF s = <<>> THEN s
  ELSE Zeros(n \div LimbBits) \o Carried(Pass(s, 0, LAMBDA w, c : w * 2^(n % LimbBits) + c, Base))

Shr(s, n) ==
  LET from == n \div LimbBits
      bits == n % LimbBits
  IN  Trim([i \in 1..(IF from < Len(s) THEN Len(s) - from ELSE 0) |->
              (s[from + i] \div 2^bits) + ((Limb(s, from + i) * 2^(LimbBits - bits)) % Base)])

\* Schoolbook: the rows of y, one for each limb of x, added in where they stand.
Row(out, i, a, y) ==
  SubSeq(out, 1, i) \o
  Pass([j \in 1..(Len(out) - i) |-> a * Limb(y, j - 1) + out[i + j]], 0,
       LAMBDA v, c : v + c, Base).words
Mul(x, y) ==
  IF x = <<>> \/ y = <<>> THEN <<>>
  ELSE Trim(FoldLeft(LAMBDA out, i : Row(out, i, x[i + 1], y),
                     Zeros(Len(x) + Len(y)), [i \in 1..Len(x) |-> i - 1]))

Less(x, y) ==
  \/ Len(x) < Len(y)
  \/ /\ Len(x) = Len(y)
     /\ \E k \in 1..Len(x) : x[k] < y[k] /\ \A j \in (k + 1)..Len(x) : x[j] = y[j]

\* x - y, for y not above x.
Sub(x, y) ==
  Trim(FoldLeft(LAMBDA acc, i :
                  LET v == x[i] - Limb(y, i - 1) - acc.borrow
                  IN  [limbs |-> Append(acc.limbs, v % Base), borrow |-> IF v < 0 THEN 1 ELSE 0],
                [limbs |-> <<>>, borrow |-> 0], [i \in 1..Len(x) |-> i]).limbs)

SetBit(q, i) ==
  LET k == i \div LimbBits + 1
  IN  [j \in 1..(IF k > Len(q) THEN k ELSE Len(q)) |->
         Limb(q, j - 1) + (IF j = k THEN 2^(i % LimbBits) ELSE 0)]

\* Shift and subtract: quotient and remainder.
DivRem(x, den) ==
  IF Less(x, den) THEN [q |-> <<>>, rem |-> x]
  ELSE LET shift == BitLen(x) - BitLen(den)
           all == FoldLeft(LAMBDA acc, k :
                    IF Less(acc.rem, acc.d) THEN [acc EXCEPT !.d = Shr(@, 1)]
                    ELSE [q |-> SetBit(acc.q, shift - k), rem |-> Sub(acc.rem, acc.d),
                          d |-> Shr(acc.d, 1)],
                  [q |-> <<>>, rem |-> x, d |-> Shl(den, shift)], [k \in 1..(shift + 1) |-> k - 1])
       IN  [q |-> Trim(all.q), rem |-> all.rem]

FromNat(n) == Trim([k \in 1..2 |-> (n \div Base^(k - 1)) % Base])

\* 5^k, by squares.
RECURSIVE Squares(_, _, _)
Squares(result, base, n) ==
  LET next == IF n % 2 = 1 THEN Mul(result, base) ELSE result
  IN  IF n \div 2 = 0 THEN next ELSE Squares(next, Mul(base, base), n \div 2)
Pow5Exact(k) == IF k = 0 THEN <<1>> ELSE Squares(<<1>>, <<5>>, k)

-----------------------------------------------------------------------------
\* Digits, a chunk at a time: each chunk moves the number up by its power of ten.
Value10(digits) == FoldLeft(LAMBDA n, d : 10 * n + d, 0, digits)
RECURSIVE FromDigits(_, _)
FromDigits(s, digits) ==
  IF digits = <<>> THEN s
  ELSE LET n == IF Len(digits) < Chunk THEN Len(digits) ELSE Chunk
           chunk == SubSeq(digits, 1, n)
       IN  FromDigits(MulSmallAdd(s, 10^n, Value10(chunk)), SubSeq(digits, n + 1, Len(digits)))
FromDecimal(digits) == FromDigits(<<>>, digits)

DigitsOf(n, width) == [k \in 1..width |-> (n \div 10^(width - k)) % 10]
Width10(n) == CHOOSE w \in 1..10 : n < 10^w /\ (w > 1 => n >= 10^(w - 1))

\* Long division by the chunk's power of ten, the remainders the chunks from the
\* last: every one but the first is padded.
DivSmall(s, d) ==
  FoldRight(LAMBDA w, acc : LET v == acc.rem * Base + w
                            IN  [limbs |-> <<v \div d>> \o acc.limbs, rem |-> v % d],
            s, [limbs |-> <<>>, rem |-> 0])
RECURSIVE ToDecimal(_)
ToDecimal(s) ==
  LET step == DivSmall(s, 10^Chunk)
      rest == Trim(step.limbs)
  IN  CASE s = <<>>    -> <<0>>
        [] rest = <<>> -> DigitsOf(step.rem, Width10(step.rem))
        [] OTHER       -> ToDecimal(rest) \o DigitsOf(step.rem, Chunk)

\* Bytes, the most significant first and that not zero.
Stripped(bytes) ==
  SubSeq(bytes, SelectInSeq(bytes \o <<1>>, LAMBDA b : b # 0), Len(bytes))
ToBeBytes(s) ==
  Stripped(FlattenSeq([k \in 1..Len(s) |->
    [j \in 1..BytesPerLimb |-> (s[Len(s) + 1 - k] \div Byte^(BytesPerLimb - j)) % Byte]]))
FromBeBytes(bytes) ==
  LET n == Len(bytes)
      byte(k) == IF k < n THEN bytes[n - k] ELSE 0
  IN  Trim([i \in 1..((n + BytesPerLimb - 1) \div BytesPerLimb) |->
        FoldLeft(LAMBDA acc, j : acc + byte((i - 1) * BytesPerLimb + j - 1) * Byte^(j - 1), 0,
                 [j \in 1..BytesPerLimb |-> j])])

\* decimal_digits_to_be_bytes and be_bytes_to_decimal: the same by bytes and digits,
\* for a BigInt and a Decimal.
BytesOfDigits(digits) ==
  LET Put(le, d) == Pass(le, d, LAMBDA b, c : 10 * b + c, Byte)
  IN  Reverse(FoldLeft(LAMBDA le, d : Trim(Put(le, d).words \o <<Put(le, d).carry>>), <<>>, digits))
RECURSIVE DigitsOfBytes(_)
DigitsOfBytes(bytes) ==
  LET mag  == Stripped(bytes)
      step == FoldLeft(LAMBDA acc, b : LET v == acc.rem * Byte + b
                         IN  [mag |-> Append(acc.mag, v \div 10), rem |-> v % 10],
                       [mag |-> <<>>, rem |-> 0], mag)
      rest == Stripped(step.mag)
  IN  CASE mag = <<>>  -> <<0>>
        [] rest = <<>> -> <<step.rem>>
        [] OTHER       -> DigitsOfBytes(rest) \o <<step.rem>>
=============================================================================
