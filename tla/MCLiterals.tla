------------------------------ MODULE MCLiterals ------------------------------
(* Literals over texts and messages around every boundary of their kinds.   *)
EXTENDS Literals

Digits(low, high) == UNION {[1..n -> {0, 4, 9}] : n \in low..high}

Dates ==
  [year : {0, 1, 4, 100, 400, 1969, 1970, 1972, 1999, 2000, 2001, 2100, 9999},
   month : {1, 2, 3, 4, 12, 13}, day : {0, 1, 28, 29, 30, 31}]
Clocks == [hour : {0, 1, 2}, minute : {0, 1}, second : {0, 2, 3}]
Zones  == {Utc, [sign |-> 1, hour |-> 1, minute |-> 1], [sign |-> -1, hour |-> 0, minute |-> 1]}
Stamp(d, c, f, z) ==
  [year |-> d.year, month |-> d.month, day |-> d.day, hour |-> c.hour, minute |-> c.minute,
   second |-> c.second, frac |-> f, zone |-> z]
Noon    == [hour |-> 1, minute |-> 0, second |-> 0]
SomeDay == {[year |-> 1970, month |-> 1, day |-> 1], [year |-> 0, month |-> 1, day |-> 1],
            [year |-> 9999, month |-> 12, day |-> 31]}

Segments ==
  {[int |-> i, frac |-> f, unit |-> u] :
     i \in {<<0>>, <<2>>, <<1, 0>>}, f \in {<<>>, <<5>>, <<0, 2, 5>>, <<9, 9, 9, 9, 9>>},
     u \in {"ns", "us", "ms", "s", "m", "h"}}
Big == {[int |-> i, frac |-> f, unit |-> "ns"] : i \in {<<8, 1, 9, 1>>, <<8, 1, 9, 2>>}, f \in {<<>>, <<9>>}}
Halves == {[int |-> <<i>>, frac |-> <<5>>, unit |-> u] : i \in {0, 1}, u \in {"us", "s", "m"}}

MCTexts ==
  [BigInt   |-> [neg : BOOLEAN, int : Digits(1, 4) \cup {<<1, 0, 0, 0, 0>>, <<6, 5, 5, 3, 6>>}],
   Decimal  |-> [neg : {TRUE}, int : Digits(1, 2), frac : Digits(0, 2)]
                \cup [neg : {FALSE}, int : {<<0>>}, frac : Digits(0, 5)],
   BigFloat |-> [neg : {FALSE}, int : {<<0>>, <<1>>, <<4, 9>>}, frac : {<<>>, <<5>>, <<0, 4>>, <<9, 5>>},
                 exp : {-50, -9, -5, -4, -3, -1, 0, 1, 2, 3, 9, 50}, prec : {None, 0, 1, 3, 4, 14}]
                \cup [neg : {TRUE}, int : {<<4, 0, 9, 5>>, <<0, 0, 0>>}, frac : {<<>>, <<4>>, <<0, 0, 4>>}, exp : {0}, prec : {None, 3, 12}],
   Duration |-> [neg : BOOLEAN, segments : {<<s>> : s \in Segments}]
                \cup [neg : BOOLEAN, segments : {<<s, t>> : s \in Halves \cup Big, t \in Halves \cup Big}],
   Timestamp |-> {Stamp(d, Noon, <<>>, Utc) : d \in Dates}
                 \cup {Stamp(d, c, f, z) : d \in SomeDay, c \in Clocks,
                                           f \in {<<>>, <<0, 1>>, <<9, 9, 9, 9>>}, z \in Zones}]

Mantissas ==
  {<<>>, <<8, 8, 0>>, <<8, 8, 1>>, <<0, 9, 15, 7>>} \cup {<<a, b>> : a \in {0, 1, 6, 7, 15}, b \in 0..15}
MCValues ==
  [BigInt   |-> [neg : BOOLEAN, abs : Mantissas],
   Decimal  |-> [neg : BOOLEAN, unscaled : Mantissas, scale : -6..6],
   BigFloat |-> [neg : {FALSE}, mantissa : Mantissas,
                 exponent : -20..10, prec : {0, 1, 2, 4, 7, 14}],
   Duration |-> [seconds : {-9, -8, -4, -1, 0, 1, 2, 4, 8, 9}, nanos : {-192, -101, -50, -1, 0, 1, 9, 10, 191, 192, 250, 999}],
   Timestamp |-> [seconds : {8 * d + s : d \in {-719529, -719528, -719468, -146097, -1, 0, 11016, 2932896, 2932897}, s \in {-1, 0, 5}},
                  nanos : {0, 1, 500, 990}]]

Of(m) == Finite(m, BitLen(m), BitLen(m))
Floats == {Of(<<m>>) : m \in 8..15} \cup {Of(<<0, 2>>), Of(<<1, 2>>), Of(<<171, 2>>), Of(<<255, 3>>)}
MCOperands ==
  [x : Floats, y : Floats, prec : {2, 3, 5, 9}]
    \cup [x : {[Of(<<9>>) EXCEPT !.exp = e] : e \in {-MaxExp, MaxExp}}, y : Floats, prec : {3}]
=============================================================================
