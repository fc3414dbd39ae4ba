---------------------------- MODULE ScannerProofs ----------------------------
(***************************************************************************)
(* What the row scanner and the lexer make of a text, for every text: what *)
(* each finds in a part of a text it finds in the whole, and the scanner   *)
(* finds what the parser's tokens say is there.                            *)
(***************************************************************************)
EXTENDS RowScanner, DatasetGrammar, SequenceTheorems, Induction

-----------------------------------------------------------------------------
(***************************************************************************)
(* The first position of a set.                                            *)
(***************************************************************************)
LEMMA LeastWhich ==
  ASSUME NEW S, S \subseteq Nat, NEW none
  PROVE  \/ S = {} /\ TheOne(First(S), none) = none
         \/ /\ TheOne(First(S), none) \in S
            /\ \A q \in S : TheOne(First(S), none) <= q
<1>1. CASE S = {}
  BY <1>1 DEF TheOne, First
<1>2. CASE S # {}
  <2>1. PICK x \in S : \A y \in S : x <= y
    BY <1>2, LeastNatural
  <2>2. x \in First(S)
    BY <2>1 DEF First
  <2>3. TheOne(First(S), none) \in First(S)
    BY <2>2 DEF TheOne
  <2> QED
    BY <2>3 DEF First
<1> QED
  BY <1>1, <1>2

\* A member that is no larger than any other is the one FirstAt picks.
LEMMA LeastIs ==
  ASSUME NEW S, S \subseteq Nat, NEW none, NEW p \in S, \A q \in S : p <= q
  PROVE  TheOne(First(S), none) = p
<1>1. PICK r : r = TheOne(First(S), none)
  OBVIOUS
<1>2. r \in S /\ r <= p
  BY <1>1, LeastWhich
<1>3. r \in Nat /\ p \in Nat /\ p <= r
  BY <1>2
<1> QED
  BY <1>1, <1>2, <1>3

-----------------------------------------------------------------------------
(***************************************************************************)
(* One-line quoted literals, a byte at a time.                             *)
(***************************************************************************)
LEMMA QuotedStep ==
  ASSUME NEW s \in Seq(ByteClass), NEW escapes, NEW i \in 1..(Len(s) + 1)
  PROVE  /\ i > Len(s) => Quoted(s, i, escapes) = Incomplete
         /\ i <= Len(s) /\ s[i] = "quote" => Quoted(s, i, escapes) = i + 1
         /\ i <= Len(s) /\ s[i] = "nl" => Quoted(s, i, escapes) = Malformed
         /\ i = Len(s) /\ s[i] = "esc" => Quoted(s, i, escapes) = Incomplete
         /\ i < Len(s) /\ s[i] = "esc" /\ s[i + 1] \in escapes
              => Quoted(s, i, escapes) = Quoted(s, i + 2, escapes)
         /\ i < Len(s) /\ s[i] = "esc" /\ s[i + 1] \notin escapes
              => Quoted(s, i, escapes) = Malformed
         /\ i <= Len(s) /\ s[i] \notin {"quote", "nl", "esc"}
              => Quoted(s, i, escapes) = Quoted(s, i + 1, escapes)
         /\ Quoted(s, i, escapes) \in {Incomplete, Malformed} \cup (i + 1)..(Len(s) + 1)
<1>0. PICK k \in Nat : k = Len(s)
  OBVIOUS
<1> DEFINE S     == {Incomplete, Malformed} \cup 1..(k + 1)
           esc(n)  == n < k /\ s[n] = "esc" /\ s[n + 1] \in escapes
           char(n) == n <= k /\ s[n] \notin {"quote", "nl", "esc"}
           Stop  == {n \in 1..(k + 1) : ~esc(n) /\ ~char(n)}
           base  == [n \in 1..(k + 1) |->
                       IF n > k \/ (n = k /\ s[n] = "esc") THEN Incomplete
                       ELSE IF s[n] = "quote" THEN n + 1 ELSE Malformed]
           next  == [n \in 1..(k + 1) |-> IF esc(n) THEN n + 2 ELSE n + 1]
           Op    == [n \in 1..(k + 1) |-> [x \in S |-> x]]
           V(f, n) == CASE n > Len(s) \/ (n = Len(s) /\ s[n] = "esc") -> Incomplete
                        [] At(s, n, "quote")                          -> n + 1
                        [] At(s, n, "nl")                             -> Malformed
                        [] n < Len(s) /\ s[n] = "esc"                 ->
                             IF s[n + 1] \in escapes THEN f[n + 2] ELSE Malformed
                        [] OTHER                                      -> f[n + 1]
<1>1. PICK f \in [1..(k + 1) -> S] :
        \A n \in 1..(k + 1) : f[n] = IF n \in Stop THEN base[n] ELSE f[next[n]]
  <2>1. PICK m \in Nat : m = k + 1
    OBVIOUS
  <2>2. \A n \in 1..m : n \in Stop => base[n] \in S
    BY <2>1
  <2>3. \A n \in 1..m : n \notin Stop => next[n] \in (n + 1)..m
    BY <2>1
  <2>4. \A n \in 1..m : Op[n] \in [S -> S]
    BY <2>1
  <2>5. \A n \in 1..m, x \in S : Op[n][x] = x
    BY <2>1
  <2> HIDE DEF S, Stop, base, next, Op
  <2>6. IsChain(m, S, Stop, base, next, Op)
    BY <2>2, <2>3, <2>4 DEF IsChain
  <2>7. PICK f \in [1..m -> S] : FollowsChain(f, m, Stop, base, next, Op)
    BY <2>6, ChainRecursion
  <2>8. ASSUME NEW n \in 1..m
        PROVE  f[n] = IF n \in Stop THEN base[n] ELSE f[next[n]]
    <3>1. CASE n \in Stop
      BY <2>7, <3>1 DEF FollowsChain
    <3>2. CASE n \notin Stop
      <4>1. next[n] \in 1..m
        BY <2>3, <3>2
      <4>2. f[next[n]] \in S
        BY <2>7, <4>1
      <4> QED
        BY <2>5, <2>7, <3>2, <4>2 DEF FollowsChain
    <3> QED
      BY <3>1, <3>2
  <2> QED
    BY <2>1, <2>7, <2>8
<1>2. ASSUME NEW n \in 1..(k + 1)
      PROVE  /\ n > k => f[n] = Incomplete
             /\ n <= k /\ s[n] = "quote" => f[n] = n + 1
             /\ n <= k /\ s[n] = "nl" => f[n] = Malformed
             /\ n = k /\ s[n] = "esc" => f[n] = Incomplete
             /\ n < k /\ s[n] = "esc" /\ s[n + 1] \in escapes => f[n] = f[n + 2]
             /\ n < k /\ s[n] = "esc" /\ s[n + 1] \notin escapes => f[n] = Malformed
             /\ n <= k /\ s[n] \notin {"quote", "nl", "esc"} => f[n] = f[n + 1]
  <2>1. f[n] = IF n \in Stop THEN base[n] ELSE f[next[n]]
    BY <1>1
  <2>2. n \in Stop <=> ~esc(n) /\ ~char(n)
    OBVIOUS
  <2>3. base[n] = IF n > k \/ (n = k /\ s[n] = "esc") THEN Incomplete
                  ELSE IF s[n] = "quote" THEN n + 1 ELSE Malformed
    OBVIOUS
  <2>4. next[n] = IF esc(n) THEN n + 2 ELSE n + 1
    OBVIOUS
  <2> HIDE DEF Stop, base, next
  <2> QED
    BY <2>1, <2>2, <2>3, <2>4
<1> HIDE DEF Stop, base, next, Op, esc, char
<1>3. ASSUME NEW n \in 1..(k + 1) PROVE f[n] = V(f, n)
  BY <1>0, <1>2 DEF At
<1>4. ASSUME NEW from \in 1..(k + 1) PROVE Quoted(s, from, escapes) = f[from]
  <2> DEFINE scan[n \in from..(Len(s) + 1)] ==
               CASE n > Len(s) \/ (n = Len(s) /\ s[n] = "esc") -> Incomplete
                 [] At(s, n, "quote")                          -> n + 1
                 [] At(s, n, "nl")                             -> Malformed
                 [] n < Len(s) /\ s[n] = "esc"                 ->
                      IF s[n + 1] \in escapes THEN scan[n + 2] ELSE Malformed
                 [] OTHER                                      -> scan[n + 1]
  <2>1. Quoted(s, from, escapes) = scan[from]
    BY DEF Quoted
  <2>2. PICK g : g = [n \in from..(Len(s) + 1) |-> f[n]]
    OBVIOUS
  <2>3. ASSUME NEW n \in from..(Len(s) + 1) PROVE g[n] = V(g, n)
    <3>1. n \in 1..(k + 1) /\ f[n] = V(f, n) /\ g[n] = f[n]
      BY <1>0, <1>3, <2>2
    <3>2. n < Len(s) => n + 2 \in from..(Len(s) + 1)
      BY <1>0
    <3>3. n <= Len(s) => n + 1 \in from..(Len(s) + 1)
      BY <1>0
    <3>4. V(f, n) = V(g, n)
      BY <1>0, <2>2, <3>1, <3>2, <3>3
    <3> QED
      BY <3>1, <3>4
  <2>4. g = [n \in from..(Len(s) + 1) |-> V(g, n)]
    <3> HIDE DEF V
    <3> QED
      BY <2>2, <2>3
  <2>5. scan = [n \in from..(Len(s) + 1) |-> V(scan, n)]
    BY <2>4
  <2> HIDE DEF scan
  <2>6. from..(k + 1) \subseteq {n \in from..(k + 1) : scan[n] = f[n]}
    <3> DEFINE T == {n \in from..(k + 1) : scan[n] = f[n]}
    <3>1. ASSUME NEW n \in from..(k + 1), \A j \in (n + 1)..(k + 1) : j \in T PROVE n \in T
      <4>1. scan[n] = V(scan, n)
        <5> HIDE DEF V
        <5> QED
          BY <1>0, <2>5
      <4>2. n < Len(s) => scan[n + 2] = f[n + 2]
        <5>1. n < Len(s) => n + 2 \in (n + 1)..(k + 1)
          BY <1>0
        <5> QED
          BY <3>1, <5>1
      <4>3. n <= Len(s) => scan[n + 1] = f[n + 1]
        <5>1. n <= Len(s) => n + 1 \in (n + 1)..(k + 1)
          BY <1>0
        <5> QED
          BY <3>1, <5>1
      <4>4. V(scan, n) = V(f, n)
        BY <1>0, <4>2, <4>3
      <4>5. f[n] = V(f, n)
        BY <1>3
      <4> HIDE DEF V
      <4> QED
        BY <4>1, <4>4, <4>5
    <3> HIDE DEF T
    <3>2. from \in Int /\ k + 1 \in Int
      OBVIOUS
    <3>3. from..(k + 1) \subseteq T
      BY <3>1, <3>2, BackwardInductive
    <3> QED
      BY <3>3 DEF T
  <2> QED
    BY <2>1, <2>6
<1>5. 1..(k + 1) \subseteq {n \in 1..(k + 1) :
         f[n] \in {Incomplete, Malformed} \cup (n + 1)..(k + 1)}
  <2> DEFINE T == {n \in 1..(k + 1) :
                     f[n] \in {Incomplete, Malformed} \cup (n + 1)..(k + 1)}
  <2>1. ASSUME NEW n \in 1..(k + 1), \A j \in (n + 1)..(k + 1) : j \in T PROVE n \in T
    <3>1. n < k => n + 2 \in T
      BY <2>1
    <3>2. n <= k => n + 1 \in T
      BY <2>1
    <3>3. n <= k => s[n] \in ByteClass
      BY <1>0
    <3> QED
      BY <1>2, <3>1, <3>2
  <2> HIDE DEF T
  <2>2. 1 \in Int /\ k + 1 \in Int
    OBVIOUS
  <2>3. 1..(k + 1) \subseteq T
    BY <2>1, <2>2, BackwardInductive
  <2> QED
    BY <2>3 DEF T
<1>6. i \in 1..(k + 1) /\ Quoted(s, i, escapes) = f[i]
  BY <1>0, <1>4
<1>7. i < k => Quoted(s, i + 2, escapes) = f[i + 2]
  BY <1>0, <1>4
<1>8. i <= k => Quoted(s, i + 1, escapes) = f[i + 1]
  BY <1>0, <1>4
<1>9. f[i] \in {Incomplete, Malformed} \cup (i + 1)..(k + 1)
  BY <1>5, <1>6
<1> QED
  BY <1>0, <1>2, <1>6, <1>7, <1>8, <1>9

-----------------------------------------------------------------------------
(***************************************************************************)
(* Comments and triple-quoted strings: the first place where a word stands. *)
(***************************************************************************)
LEMMA WordOfTwo ==
  ASSUME NEW s \in Seq(ByteClass), NEW i \in Int, NEW a, NEW b
  PROVE  Word(s, i, <<a, b>>) <=> i \in 1..(Len(s) - 1) /\ s[i] = a /\ s[i + 1] = b
<1>1. Word(s, i, <<a, b>>) <=> At(s, i + 1 - 1, a) /\ At(s, i + 2 - 1, b)
  BY DEF Word
<1>2. i + 1 - 1 = i /\ i + 2 - 1 = i + 1 /\ Len(s) \in Nat
  OBVIOUS
<1> QED
  BY <1>1, <1>2 DEF At

\* A triple quote, byte by byte.
LEMMA WordOfThree ==
  ASSUME NEW s \in Seq(ByteClass), NEW i \in Int
  PROVE  Word(s, i, Triple) <=>
           i \in 1..(Len(s) - 2) /\ s[i] = "quote" /\ s[i + 1] = "quote" /\ s[i + 2] = "quote"
<1>1. Word(s, i, Triple) <=>
        At(s, i + 1 - 1, "quote") /\ At(s, i + 2 - 1, "quote") /\ At(s, i + 3 - 1, "quote")
  BY DEF Word, Triple
<1>2. i + 1 - 1 = i /\ i + 2 - 1 = i + 1 /\ i + 3 - 1 = i + 2 /\ Len(s) \in Nat
  OBVIOUS
<1> QED
  BY <1>1, <1>2 DEF At

\* The line feed a comment ends at, or the end of the text.
LEMMA LineCommentIs ==
  ASSUME NEW s \in Seq(ByteClass), NEW i \in 1..(Len(s) + 1)
  PROVE  /\ LineComment(s, i) \in i..(Len(s) + 1)
         /\ LineComment(s, i) <= Len(s) => s[LineComment(s, i)] = "nl"
         /\ \A k \in i..(LineComment(s, i) - 1) : s[k] # "nl"
<1> DEFINE S == {k \in i..Len(s) : s[k] = "nl"}
<1>1. LineComment(s, i) = TheOne(First(S), Len(s) + 1)
  BY DEF LineComment, FirstAt
<1>2. S \subseteq Nat
  OBVIOUS
<1>3. PICK x, n : x = LineComment(s, i) /\ n = Len(s) + 1
  OBVIOUS
<1>4. \/ S = {} /\ x = Len(s) + 1
      \/ x \in S /\ \A q \in S : x <= q
  <2> HIDE DEF S
  <2>1. x = TheOne(First(S), n)
    BY <1>1, <1>3
  <2>2. \/ S = {} /\ x = n
        \/ x \in S /\ \A q \in S : x <= q
    BY <1>2, <2>1, LeastWhich
  <2> QED
    BY <1>3, <2>2
<1> QED
  BY <1>3, <1>4

\* The first line end from i on is where LineComment stops, and only that.
LEMMA LineCommentUnique ==
  ASSUME NEW s \in Seq(ByteClass), NEW i \in 1..(Len(s) + 1), NEW x \in i..(Len(s) + 1),
         x <= Len(s) => s[x] = "nl",
         \A k \in i..(x - 1) : s[k] # "nl"
  PROVE  LineComment(s, i) = x
<1>1. PICK y : y = LineComment(s, i)
  OBVIOUS
<1>2. /\ y \in i..(Len(s) + 1) /\ (y <= Len(s) => s[y] = "nl")
      /\ \A k \in i..(y - 1) : s[k] # "nl"
  BY <1>1, LineCommentIs
<1>3. ~(x < y) /\ ~(y < x)
  BY <1>2
<1> QED
  BY <1>1, <1>2, <1>3

\* The position after the first word w at or after i; 0 when there is none.
AfterWord(s, i, w) ==
  TheOne(First({k \in i..Len(s) : Word(s, k, w)}), 0 - Len(w)) + Len(w)

\* AfterWord finds the first place from i on where w stands, or there is none.
LEMMA AfterWordIs ==
  ASSUME NEW s \in Seq(ByteClass), NEW i \in 1..(Len(s) + 1), NEW w \in Seq(ByteClass)
  PROVE  \/ /\ AfterWord(s, i, w) = 0
            /\ \A k \in i..Len(s) : ~Word(s, k, w)
         \/ \E x \in i..Len(s) :
              /\ AfterWord(s, i, w) = x + Len(w)
              /\ Word(s, x, w)
              /\ \A k \in i..(x - 1) : ~Word(s, k, w)
<1> DEFINE S == {k \in i..Len(s) : Word(s, k, w)}
<1>1. PICK x : x = TheOne(First(S), 0 - Len(w))
  OBVIOUS
<1>2. AfterWord(s, i, w) = x + Len(w) /\ Len(w) \in Nat
  BY <1>1 DEF AfterWord
<1>3. S \subseteq Nat
  OBVIOUS
<1>4. \/ S = {} /\ x = 0 - Len(w)
      \/ x \in S /\ \A q \in S : x <= q
  <2> HIDE DEF S
  <2> QED
    BY <1>1, <1>3, LeastWhich
<1>5. CASE S = {} /\ x = 0 - Len(w)
  BY <1>2, <1>5
<1>6. CASE x \in S /\ \A q \in S : x <= q
  <2>1. x \in i..Len(s) /\ Word(s, x, w)
    BY <1>6
  <2>2. ASSUME NEW k \in i..(x - 1) PROVE ~Word(s, k, w)
    BY <1>6, <2>1
  <2> QED
    BY <1>2, <2>1, <2>2
<1> QED
  BY <1>4, <1>5, <1>6

\* A place of w with none before it is the one AfterWord finds.
LEMMA AfterWordUnique ==
  ASSUME NEW s \in Seq(ByteClass), NEW i \in 1..(Len(s) + 1), NEW w \in Seq(ByteClass),
         NEW x \in i..Len(s), Word(s, x, w), \A k \in i..(x - 1) : ~Word(s, k, w)
  PROVE  AfterWord(s, i, w) = x + Len(w)
<1>1. x \in i..Len(s) /\ Word(s, x, w)
  OBVIOUS
<1>2. PICK y \in i..Len(s) : /\ AfterWord(s, i, w) = y + Len(w)
                            /\ Word(s, y, w)
                            /\ \A k \in i..(y - 1) : ~Word(s, k, w)
  BY <1>1, AfterWordIs
<1>3. ~(x < y) /\ ~(y < x)
  BY <1>2
<1>4. x = y
  BY <1>3
<1> QED
  BY <1>2, <1>4

\* Triple-quoted strings and block comments end behind the first closing word.
LEMMA ScansForWords ==
  ASSUME NEW s \in Seq(ByteClass), NEW i \in Int
  PROVE  /\ TripleQuoted(s, i) = AfterWord(s, i, Triple)
         /\ BlockComment(s, i) = AfterWord(s, i, <<"*", "/">>)
<1>1. Len(Triple) = 3 /\ Len(<<"*", "/">>) = 2
  BY DEF Triple
<1>2. Incomplete - 3 = 0 - 3 /\ Incomplete - 2 = 0 - 2
  BY DEF Incomplete
<1> QED
  BY <1>1, <1>2 DEF TripleQuoted, BlockComment, AfterWord, FirstAt

-----------------------------------------------------------------------------
(***************************************************************************)
(* Texts that match: the bytes of s from lo to hi stand in t, d positions  *)
(* further on.  A scan that ends before hi ends in both texts at the same  *)
(* byte, and so does every scan when both texts end there.                 *)
(***************************************************************************)
Matches(s, t, d, lo, hi) ==
  /\ 1 <= lo /\ lo <= hi + 1 /\ hi <= Len(s)
  /\ 1 <= lo + d /\ hi + d <= Len(t)
  /\ \A k \in lo..hi : t[k + d] = s[k]

EndTogether(s, t, d, hi) == hi = Len(s) /\ hi + d = Len(t)

\* The scan that gives x has not looked at what the texts may differ in.
Settled(x, s, t, d, hi) ==
  \/ x > 0 /\ x <= hi + 1
  \/ x = Malformed /\ hi = Len(s)
  \/ EndTogether(s, t, d, hi)

StopsBefore(x, s, t, d, hi) == x <= hi \/ EndTogether(s, t, d, hi)

\* What a scan gives, in the text that is d positions further on.
Moved(x, d) == IF x > 0 THEN x + d ELSE x

\* A quoted string that ends within the part two texts have in common ends in both
\* alike.
LEMMA QuotedMatches ==
  ASSUME NEW s \in Seq(ByteClass), NEW t \in Seq(ByteClass),
         NEW d \in Int, NEW lo \in Nat, NEW hi \in Nat, Matches(s, t, d, lo, hi), NEW escapes,
         NEW i \in Nat, i \in lo..(hi + 1),
         Settled(Quoted(s, i, escapes), s, t, d, hi)
  PROVE  Quoted(t, i + d, escapes) = Moved(Quoted(s, i, escapes), d)
<1> DEFINE T == {n \in lo..(hi + 1) : Settled(Quoted(s, n, escapes), s, t, d, hi) =>
                   Quoted(t, n + d, escapes) = Moved(Quoted(s, n, escapes), d)}
<1>0. PICK ls \in Nat, lt \in Nat : ls = Len(s) /\ lt = Len(t)
  OBVIOUS
<1>1. 1 <= lo /\ lo <= hi + 1 /\ hi <= ls /\ 1 <= lo + d /\ hi + d <= lt
  BY <1>0 DEF Matches
<1>4. \A k \in lo..hi : t[k + d] = s[k]
  BY DEF Matches
<1>2. ASSUME NEW n \in Nat, n \in lo..(hi + 1), \A j \in (n + 1)..(hi + 1) : j \in T,
             Settled(Quoted(s, n, escapes), s, t, d, hi)
      PROVE  Quoted(t, n + d, escapes) = Moved(Quoted(s, n, escapes), d)
  <2>1. n \in 1..(ls + 1) /\ n + d \in 1..(lt + 1)
    BY <1>1, <1>2
  <2>2. PICK m \in Nat : m = n + d /\ m \in 1..(lt + 1)
    BY <2>1
  <2>3. PICK x, y : x = Quoted(s, n, escapes) /\ y = Quoted(t, m, escapes)
    OBVIOUS
  <2>4. /\ n > ls => x = Incomplete
        /\ n <= ls /\ s[n] = "quote" => x = n + 1
        /\ n <= ls /\ s[n] = "nl" => x = Malformed
        /\ n = ls /\ s[n] = "esc" => x = Incomplete
        /\ n < ls /\ s[n] = "esc" /\ s[n + 1] \in escapes => x = Quoted(s, n + 2, escapes)
        /\ n < ls /\ s[n] = "esc" /\ s[n + 1] \notin escapes => x = Malformed
        /\ n <= ls /\ s[n] \notin {"quote", "nl", "esc"} => x = Quoted(s, n + 1, escapes)
        /\ x \in {Incomplete, Malformed} \cup (n + 1)..(ls + 1)
    BY <1>0, <2>1, <2>3, QuotedStep
  <2>7. /\ m > lt => y = Incomplete
        /\ m <= lt /\ t[m] = "quote" => y = m + 1
        /\ m <= lt /\ t[m] = "nl" => y = Malformed
        /\ m = lt /\ t[m] = "esc" => y = Incomplete
        /\ m < lt /\ t[m] = "esc" /\ t[m + 1] \in escapes => y = Quoted(t, m + 2, escapes)
        /\ m < lt /\ t[m] = "esc" /\ t[m + 1] \notin escapes => y = Malformed
        /\ m <= lt /\ t[m] \notin {"quote", "nl", "esc"} => y = Quoted(t, m + 1, escapes)
    BY <1>0, <2>2, <2>3, QuotedStep
  <2>0. n >= lo /\ n <= hi + 1
    BY <1>2
  <2>8. Settled(x, s, t, d, hi)
    BY <1>2, <2>3
  <2>9. x \in Int
    BY <2>4 DEF Incomplete, Malformed
  <2>5. CASE n = hi + 1
    <3>1. n > ls => x = Incomplete
      BY <2>4
    <3>2. EndTogether(s, t, d, hi)
      BY <1>0, <1>1, <2>8, <2>9, <2>4, <2>5, <3>1 DEF Settled, Incomplete, Malformed
    <3>3. n > ls /\ m > lt
      BY <1>0, <1>1, <2>2, <2>5, <3>2 DEF EndTogether
    <3>4. y = Incomplete
      BY <2>4, <2>7, <3>3
    <3> QED
      BY <2>2, <2>3, <3>1, <3>3, <3>4 DEF Moved, Incomplete
  <2>6. CASE n <= hi
    <3>0. n \in lo..hi
      BY <1>1, <1>2, <2>6
    <3>1. t[m] = s[n] /\ n <= ls /\ m <= lt
      <4>1. t[n + d] = s[n]
        BY <1>4, <3>0
      <4>2. n <= ls /\ m <= lt
        BY <1>1, <2>2, <2>6
      <4> QED
        BY <2>2, <4>1, <4>2
    <3>2. CASE s[n] = "quote"
      <4>1. x = n + 1 /\ y = m + 1
        BY <2>4, <2>7, <3>1, <3>2
      <4> QED
        BY <1>1, <2>2, <2>3, <4>1 DEF Moved
    <3>3. CASE s[n] = "nl"
      <4>1. x = Malformed /\ y = Malformed
        BY <2>4, <2>7, <3>1, <3>3
      <4> QED
        BY <1>1, <2>2, <2>3, <4>1 DEF Moved, Malformed
    <3>4. CASE s[n] \notin {"quote", "nl", "esc"}
      <4>1. x = Quoted(s, n + 1, escapes) /\ y = Quoted(t, m + 1, escapes)
        BY <2>4, <2>7, <3>1, <3>4
      <4>2. n + 1 \in T /\ (n + 1) + d = m + 1
        BY <1>1, <1>2, <2>2, <2>6
      <4> QED
        BY <1>2, <2>2, <2>3, <4>1, <4>2
    <3>5. CASE s[n] = "esc" /\ n < hi
      <4>1. t[m + 1] = s[n + 1] /\ n < ls /\ m < lt
        <5>1. n + 1 \in lo..hi /\ (n + 1) + d = m + 1
          BY <1>1, <2>0, <2>2, <3>5
        <5>2. t[(n + 1) + d] = s[n + 1]
          BY <1>4, <5>1
        <5>3. n < ls /\ m < lt
          BY <1>1, <2>2, <3>5
        <5>4. t[m + 1] = s[n + 1]
          BY <5>1, <5>2
        <5> QED
          BY <5>3, <5>4
      <4>2. CASE s[n + 1] \in escapes
        <5>1. x = Quoted(s, n + 2, escapes) /\ y = Quoted(t, m + 2, escapes)
          BY <2>4, <2>7, <3>1, <3>5, <4>1, <4>2
        <5>2. n + 2 \in T /\ (n + 2) + d = m + 2
          BY <1>1, <1>2, <2>2, <3>5
        <5> QED
          BY <1>2, <2>2, <2>3, <5>1, <5>2
      <4>3. CASE s[n + 1] \notin escapes
        <5>1. x = Malformed /\ y = Malformed
          BY <2>4, <2>7, <3>1, <3>5, <4>1, <4>3
        <5> QED
          BY <2>2, <2>3, <5>1 DEF Moved, Malformed
      <4> QED
        BY <4>2, <4>3
    <3>6. CASE s[n] = "esc" /\ n = hi
      <4>1. CASE n = ls
        <5>1. x = Incomplete
          BY <2>4, <2>7, <3>6, <4>1
        <5>2. EndTogether(s, t, d, hi)
          BY <2>8, <5>1 DEF Settled, Incomplete, Malformed
        <5>3. m = lt
          BY <1>0, <1>1, <2>2, <3>6, <5>2 DEF EndTogether
        <5>4. y = Incomplete
          BY <2>4, <2>7, <3>1, <3>6, <5>3
        <5> QED
          BY <2>2, <2>3, <5>1, <5>4 DEF Moved, Incomplete
      <4>2. CASE n < ls
        <5>1. ~EndTogether(s, t, d, hi) /\ hi # ls
          BY <1>0, <1>1, <3>6, <4>2 DEF EndTogether
        <5>2. x > 0 /\ x <= hi + 1
          BY <1>0, <2>8, <5>1 DEF Settled
        <5>5. x # Malformed
          BY <2>9, <5>2 DEF Malformed
        <5>3. s[n + 1] \in escapes /\ x = Quoted(s, n + 2, escapes)
          BY <2>4, <3>6, <4>2, <5>5
        <5>4. x \in {Incomplete, Malformed} \cup (n + 3)..(ls + 1)
          <6>1. PICK q \in 1..(ls + 1) : q = n + 2
            BY <1>1, <2>1, <4>2
          <6>2. x \in {Incomplete, Malformed} \cup (q + 1)..(ls + 1)
            BY <1>0, <1>1, <5>3, <6>1, QuotedStep
          <6> QED
            BY <6>1, <6>2
        <5> QED
          BY <1>1, <3>6, <5>2, <5>4 DEF Incomplete, Malformed
      <4> QED
        BY <1>1, <2>1, <3>1, <4>1, <4>2
    <3> QED
      BY <1>1, <2>6, <3>2, <3>3, <3>4, <3>5, <3>6
  <2> QED
    BY <2>0, <2>5, <2>6
<1>3. lo..(hi + 1) \subseteq T
  <2>1. ASSUME NEW n \in lo..(hi + 1), \A j \in (n + 1)..(hi + 1) : j \in T PROVE n \in T
    <3>1. n \in Nat
      BY <1>1
    <3> QED
      BY <1>2, <2>1, <3>1
  <2>2. lo \in Int /\ hi + 1 \in Int
    BY <1>1
  <2> HIDE DEF T
  <2> QED
    BY <2>1, <2>2, BackwardInductive
<1> QED
  BY <1>3

\* A byte of the common part stands in both texts.
LEMMA AtMatches ==
  ASSUME NEW s \in Seq(ByteClass), NEW t \in Seq(ByteClass),
         NEW d \in Int, NEW lo \in Nat, NEW hi \in Nat, Matches(s, t, d, lo, hi),
         NEW q \in Nat, q >= lo, q <= hi \/ EndTogether(s, t, d, hi), NEW c
  PROVE  At(t, q + d, c) <=> At(s, q, c)
<1>0. PICK ls \in Nat, lt \in Nat : ls = Len(s) /\ lt = Len(t)
  OBVIOUS
<1>1. 1 <= lo /\ lo <= hi + 1 /\ hi <= ls /\ 1 <= lo + d /\ hi + d <= lt
  BY <1>0 DEF Matches
<1>2. PICK m \in Int : m = q + d
  OBVIOUS
<1>3. CASE q <= hi
  <2>1. q \in lo..hi /\ q \in 1..ls /\ m \in 1..lt
    BY <1>1, <1>2, <1>3
  <2>2. t[q + d] = s[q]
    BY <2>1 DEF Matches
  <2> QED
    BY <1>0, <1>2, <2>1, <2>2 DEF At
<1>4. CASE q > hi /\ EndTogether(s, t, d, hi)
  <2>1. hi = ls /\ hi + d = lt
    BY <1>0, <1>4 DEF EndTogether
  <2>2. q \notin 1..ls /\ m \notin 1..lt
    BY <1>1, <1>2, <1>4, <2>1
  <2> QED
    BY <1>0, <1>2, <2>2 DEF At
<1> QED
  BY <1>3, <1>4

\* A word of the common part stands in both texts.
LEMMA WordMatches ==
  ASSUME NEW s \in Seq(ByteClass), NEW t \in Seq(ByteClass),
         NEW d \in Int, NEW lo \in Nat, NEW hi \in Nat, Matches(s, t, d, lo, hi),
         NEW w \in Seq(ByteClass), NEW q \in Nat, q >= lo,
         q + Len(w) - 1 <= hi \/ EndTogether(s, t, d, hi)
  PROVE  Word(t, q + d, w) <=> Word(s, q, w)
<1>1. PICK n \in Nat : n = Len(w)
  OBVIOUS
<1>2. ASSUME NEW j \in 1..n PROVE At(t, (q + d) + j - 1, w[j]) <=> At(s, q + j - 1, w[j])
  <2>1. PICK m \in Nat : m = q + j - 1
    OBVIOUS
  <2>2. m >= lo /\ (m <= hi \/ EndTogether(s, t, d, hi)) /\ m + d = (q + d) + j - 1
    BY <1>1, <2>1
  <2>3. At(t, m + d, w[j]) <=> At(s, m, w[j])
    BY <2>2, AtMatches
  <2> QED
    BY <2>1, <2>2, <2>3
<1> QED
  BY <1>1, <1>2 DEF Word

\* A word searched for and found in the common part is found in both texts.
LEMMA AfterWordMatches ==
  ASSUME NEW s \in Seq(ByteClass), NEW t \in Seq(ByteClass),
         NEW d \in Int, NEW lo \in Nat, NEW hi \in Nat, Matches(s, t, d, lo, hi),
         NEW w \in Seq(ByteClass), w # <<>>,
         NEW i \in Nat, i >= lo, i <= hi + 1,
         Settled(AfterWord(s, i, w), s, t, d, hi)
  PROVE  AfterWord(t, i + d, w) = Moved(AfterWord(s, i, w), d)
<1>0. PICK ls \in Nat, lt \in Nat, n \in Nat : ls = Len(s) /\ lt = Len(t) /\ n = Len(w)
  OBVIOUS
<1>1. 1 <= lo /\ lo <= hi + 1 /\ hi <= ls /\ 1 <= lo + d /\ hi + d <= lt /\ n > 0
  <2>1. n > 0
    BY <1>0
  <2> QED
    BY <1>0, <2>1 DEF Matches
<1>2. PICK m \in Nat : m = i + d
  BY <1>1
<1>3. i \in 1..(Len(s) + 1) /\ m \in 1..(Len(t) + 1)
  BY <1>0, <1>1, <1>2
<1>4. CASE AfterWord(s, i, w) = 0 /\ \A k \in i..Len(s) : ~Word(s, k, w)
  <2>1. hi = ls /\ hi + d = lt /\ EndTogether(s, t, d, hi)
    BY <1>0, <1>4 DEF Settled, Malformed, EndTogether
  <2>2. ASSUME NEW y \in m..Len(t) PROVE ~Word(t, y, w)
    <3>1. PICK q \in Nat : q = y - d
      BY <1>1, <1>2
    <3>2. q \in i..Len(s) /\ q >= lo /\ q + d = y
      BY <1>0, <1>1, <1>2, <2>1, <3>1
    <3>3. Word(t, q + d, w) <=> Word(s, q, w)
      BY <2>1, <3>2, WordMatches
    <3> QED
      BY <1>4, <3>2, <3>3
  <2>3. AfterWord(t, m, w) = 0
    BY <1>3, <2>2, AfterWordIs
  <2> QED
    BY <1>2, <1>4, <2>3 DEF Moved
<1>5. ASSUME NEW x \in i..Len(s),
             AfterWord(s, i, w) = x + Len(w), Word(s, x, w),
             \A k \in i..(x - 1) : ~Word(s, k, w)
      PROVE  AfterWord(t, m, w) = x + Len(w) + d
  <2>1. PICK p \in Nat : p = x /\ p >= i /\ p <= ls
    BY <1>0, <1>5
  <2>2. p + n - 1 <= hi \/ EndTogether(s, t, d, hi)
    <3>1. Settled(p + n, s, t, d, hi)
      BY <1>0, <1>5, <2>1
    <3> QED
      BY <3>1 DEF Settled, Malformed
  <2>3. Word(t, p + d, w)
    <3>1. p >= lo
      BY <2>1
    <3> QED
      BY <1>0, <1>5, <2>1, <2>2, <3>1, WordMatches
  <2>4. ASSUME NEW y \in m..(p + d - 1) PROVE ~Word(t, y, w)
    <3>1. PICK q \in Nat : q = y - d
      BY <1>1, <1>2
    <3>2. q \in i..(x - 1) /\ q >= lo /\ q + d = y
      BY <1>1, <1>2, <2>1, <3>1
    <3>3. q + n - 1 <= hi \/ EndTogether(s, t, d, hi)
      BY <2>1, <2>2, <3>2
    <3>4. Word(t, q + d, w) <=> Word(s, q, w)
      BY <1>0, <3>2, <3>3, WordMatches
    <3> QED
      BY <1>5, <3>2, <3>4
  <2>5. PICK z \in Nat : z = p + d
    BY <1>1, <2>1
  <2>6. z \in m..Len(t)
    <3>1. At(t, z + 1 - 1, w[1])
      BY <1>0, <1>1, <2>3, <2>5 DEF Word
    <3>2. z \in 1..Len(t)
      BY <3>1 DEF At
    <3> QED
      BY <1>2, <2>1, <2>5, <3>2
  <2>7. AfterWord(t, m, w) = z + Len(w)
    BY <1>3, <2>3, <2>4, <2>5, <2>6, AfterWordUnique
  <2> QED
    BY <1>0, <2>1, <2>5, <2>7
<1>6. ASSUME NEW x \in i..Len(s), AfterWord(s, i, w) = x + Len(w)
      PROVE  Moved(AfterWord(s, i, w), d) = x + Len(w) + d
  <2>0. PICK p \in Nat : p = x
    BY <1>0, <1>3
  <2>1. PICK y \in Nat : y = x + Len(w) /\ y = p + n
    BY <1>0, <2>0
  <2>2. y > 0
    BY <1>1, <2>1
  <2> QED
    BY <1>6, <2>1, <2>2 DEF Moved
<1> QED
  BY <1>2, <1>3, <1>4, <1>5, <1>6, AfterWordIs

\* A line comment that ends in the common part ends in both texts alike.
LEMMA LineCommentMatches ==
  ASSUME NEW s \in Seq(ByteClass), NEW t \in Seq(ByteClass),
         NEW d \in Int, NEW lo \in Nat, NEW hi \in Nat, Matches(s, t, d, lo, hi),
         NEW i \in Nat, i >= lo, i <= hi + 1,
         StopsBefore(LineComment(s, i), s, t, d, hi)
  PROVE  LineComment(t, i + d) = LineComment(s, i) + d
<1>0. PICK ls \in Nat, lt \in Nat : ls = Len(s) /\ lt = Len(t)
  OBVIOUS
<1>1. 1 <= lo /\ lo <= hi + 1 /\ hi <= ls /\ 1 <= lo + d /\ hi + d <= lt
  BY <1>0 DEF Matches
<1>2. PICK m \in Nat : m = i + d
  BY <1>1
<1>3. i \in 1..(Len(s) + 1) /\ m \in 1..(Len(t) + 1)
  BY <1>0, <1>1, <1>2
<1>4. PICK x \in Nat : x = LineComment(s, i)
  BY <1>3, LineCommentIs
<1>5. x >= i /\ x <= ls + 1
  BY <1>0, <1>3, <1>4, LineCommentIs
<1>6. x <= ls => s[x] = "nl"
  BY <1>0, <1>3, <1>4, LineCommentIs
<1>7. \A k \in i..(x - 1) : s[k] # "nl"
  BY <1>3, <1>4, LineCommentIs
<1>8. \A k \in lo..hi : t[k + d] = s[k]
  BY DEF Matches
<1>9. x <= hi \/ (hi = ls /\ hi + d = lt)
  BY <1>0, <1>4 DEF StopsBefore, EndTogether
<1>10. PICK y \in Nat : y = x + d
  BY <1>1, <1>5
<1>11. y \in m..(Len(t) + 1)
  BY <1>0, <1>1, <1>2, <1>5, <1>9, <1>10
<1>12. y <= Len(t) => t[y] = "nl"
  <2>1. y <= lt => x \in lo..hi /\ x <= ls
    BY <1>1, <1>5, <1>9, <1>10
  <2>2. x \in lo..hi => t[y] = s[x]
    BY <1>8, <1>10
  <2> QED
    BY <1>0, <1>6, <2>1, <2>2
<1>13. ASSUME NEW k \in m..(y - 1) PROVE t[k] # "nl"
  <2>1. PICK q \in Nat : q = k - d
    BY <1>1, <1>2
  <2>2. q \in lo..hi /\ q \in i..(x - 1) /\ q + d = k
    BY <1>1, <1>2, <1>5, <1>9, <1>10, <2>1
  <2>3. t[q + d] = s[q]
    BY <1>8, <2>2
  <2> QED
    BY <1>7, <2>2, <2>3
<1>14. LineComment(t, m) = y
  BY <1>3, <1>11, <1>12, <1>13, LineCommentUnique
<1> QED
  BY <1>2, <1>4, <1>10, <1>14

-----------------------------------------------------------------------------
(***************************************************************************)
(* What the row scanner steps over.                                        *)
(***************************************************************************)
CommentEnd == <<"*", "/">>

LEMMA CommentEndWord == CommentEnd \in Seq(ByteClass) /\ CommentEnd # <<>> /\ Len(CommentEnd) = 2
  BY DEF CommentEnd, ByteClass

LEMMA TripleWord == Triple \in Seq(ByteClass) /\ Triple # <<>> /\ Len(Triple) = 3
  BY DEF Triple, ByteClass

\* Skip, by the byte a literal or comment opens with.
LEMMA SkipIs ==
  ASSUME NEW s \in Seq(ByteClass), NEW i \in 1..Len(s)
  PROVE  /\ s[i] = "quote" /\ Word(s, i, Triple)
              => Skip(s, i) = AfterWord(s, i + 3, Triple)
         /\ s[i] = "quote" /\ ~Word(s, i, Triple)
              => Skip(s, i) = Quoted(s, i + 1, ByteClass)
         /\ s[i] = "b" /\ At(s, i + 1, "quote") => Skip(s, i) = Quoted(s, i + 2, ByteClass)
         /\ s[i] = "#" => Skip(s, i) = LineComment(s, i + 1)
         /\ s[i] = "/" /\ At(s, i + 1, "/") => Skip(s, i) = LineComment(s, i + 2)
         /\ s[i] = "/" /\ At(s, i + 1, "*") => Skip(s, i) = AfterWord(s, i + 2, CommentEnd)
         /\ s[i] = "b" /\ ~At(s, i + 1, "quote") => Skip(s, i) = i
         /\ s[i] = "/" /\ ~At(s, i + 1, "/") /\ ~At(s, i + 1, "*") => Skip(s, i) = i
         /\ s[i] \notin {"quote", "b", "#", "/"} => Skip(s, i) = i
<1>0. PICK n \in Nat : n = Len(s)
  OBVIOUS
<1>1. Word(s, i, Triple) => s[i] = "quote"
  BY WordOfThree
<1>2. ASSUME NEW a, NEW b
      PROVE  Word(s, i, <<a, b>>) <=> s[i] = a /\ At(s, i + 1, b)
  <2>1. i \in 1..(Len(s) - 1) <=> i + 1 \in 1..Len(s)
    BY <1>0
  <2>2. Word(s, i, <<a, b>>) <=> i \in 1..(Len(s) - 1) /\ s[i] = a /\ s[i + 1] = b
    BY WordOfTwo
  <2> QED
    BY <2>1, <2>2 DEF At
<1>3. \A c : At(s, i, c) <=> s[i] = c
  BY DEF At
<1>4. /\ TripleQuoted(s, i + 3) = AfterWord(s, i + 3, Triple)
      /\ BlockComment(s, i + 2) = AfterWord(s, i + 2, CommentEnd)
  BY <1>0, ScansForWords DEF CommentEnd
<1>5. PICK x, tq, q1, q2, l1, l2, bc :
        /\ x = Skip(s, i) /\ tq = AfterWord(s, i + 3, Triple)
        /\ q1 = Quoted(s, i + 1, ByteClass) /\ q2 = Quoted(s, i + 2, ByteClass)
        /\ l1 = LineComment(s, i + 1) /\ l2 = LineComment(s, i + 2)
        /\ bc = AfterWord(s, i + 2, CommentEnd)
  OBVIOUS
<1>7. x = CASE Word(s, i, Triple) -> tq
            [] s[i] = "quote" /\ ~Word(s, i, Triple) -> q1
            [] Word(s, i, <<"b", "quote">>) -> q2
            [] s[i] = "#" -> l1
            [] Word(s, i, <<"/", "/">>) -> l2
            [] Word(s, i, <<"/", "*">>) -> bc
            [] OTHER -> i
  BY <1>3, <1>4, <1>5 DEF Skip
<1>8. /\ Word(s, i, <<"b", "quote">>) <=> s[i] = "b" /\ At(s, i + 1, "quote")
      /\ Word(s, i, <<"/", "/">>) <=> s[i] = "/" /\ At(s, i + 1, "/")
      /\ Word(s, i, <<"/", "*">>) <=> s[i] = "/" /\ At(s, i + 1, "*")
  BY <1>2
<1>9. ~(At(s, i + 1, "/") /\ At(s, i + 1, "*"))
  BY DEF At
<1>10. /\ s[i] = "quote" /\ Word(s, i, Triple) => x = tq
       /\ s[i] = "quote" /\ ~Word(s, i, Triple) => x = q1
  BY <1>1, <1>7, <1>8
<1>11. /\ s[i] = "b" /\ At(s, i + 1, "quote") => x = q2
       /\ s[i] = "b" /\ ~At(s, i + 1, "quote") => x = i
       /\ s[i] = "#" => x = l1
  BY <1>1, <1>7, <1>8
<1>12. /\ s[i] = "/" /\ At(s, i + 1, "/") => x = l2
       /\ s[i] = "/" /\ At(s, i + 1, "*") => x = bc
       /\ s[i] = "/" /\ ~At(s, i + 1, "/") /\ ~At(s, i + 1, "*") => x = i
  BY <1>1, <1>7, <1>8, <1>9
<1>13. s[i] \notin {"quote", "b", "#", "/"} => x = i
  BY <1>1, <1>7, <1>8
<1> QED
  BY <1>5, <1>10, <1>11, <1>12, <1>13

\* AfterWord is 0 or a place behind a whole word.
LEMMA AfterWordRange ==
  ASSUME NEW s \in Seq(ByteClass), NEW i \in 1..(Len(s) + 1),
         NEW w \in Seq(ByteClass), w # <<>>
  PROVE  AfterWord(s, i, w) \in {0} \cup (i + Len(w))..(Len(s) + 1)
<1>1. PICK l \in Nat, n \in Nat : l = Len(s) /\ n = Len(w)
  OBVIOUS
<1>2. n > 0
  BY <1>1
<1>3. ASSUME NEW x \in i..Len(s), AfterWord(s, i, w) = x + Len(w), Word(s, x, w)
      PROVE  AfterWord(s, i, w) \in (i + Len(w))..(Len(s) + 1)
  <2>1. At(s, x + n - 1, w[n])
    BY <1>1, <1>2, <1>3 DEF Word
  <2>2. x + n - 1 <= l /\ x \in Nat /\ x >= i
    BY <1>1, <1>3, <2>1 DEF At
  <2> QED
    BY <1>1, <1>3, <2>2
<1> QED
  BY <1>3, AfterWordIs

\* A literal or a comment opens at i.
Opens(s, i) ==
  \/ s[i] \in {"quote", "#"}
  \/ s[i] = "b" /\ At(s, i + 1, "quote")
  \/ s[i] = "/" /\ (At(s, i + 1, "/") \/ At(s, i + 1, "*"))

\* A byte at which nothing opens is not stepped over; what opens ends later.
LEMMA SkipRange ==
  ASSUME NEW s \in Seq(ByteClass), NEW i \in 1..Len(s)
  PROVE  /\ ~Opens(s, i) => Skip(s, i) = i
         /\ Opens(s, i) => Skip(s, i) \in {Incomplete, Malformed} \cup (i + 1)..(Len(s) + 1)
<1>0. PICK n \in Nat : n = Len(s) /\ i <= n
  OBVIOUS
<1>1. ASSUME NEW k \in 1..(n + 1), k > i, NEW e
      PROVE  Quoted(s, k, e) \in {Incomplete, Malformed} \cup (i + 1)..(n + 1)
  <2>1. Quoted(s, k, e) \in {Incomplete, Malformed} \cup (k + 1)..(n + 1)
    BY <1>0, QuotedStep
  <2> QED
    BY <1>1, <2>1
<1>2. ASSUME NEW k \in 1..(n + 1), k > i PROVE LineComment(s, k) \in (i + 1)..(n + 1)
  <2>1. LineComment(s, k) \in k..(n + 1)
    BY <1>0, LineCommentIs
  <2> QED
    BY <1>2, <2>1
<1>3. ASSUME NEW k \in 1..(n + 1), k > i, NEW w \in Seq(ByteClass), w # <<>>
      PROVE  AfterWord(s, k, w) \in {Incomplete} \cup (i + 1)..(n + 1)
  <2>1. AfterWord(s, k, w) \in {0} \cup (k + Len(w))..(n + 1)
    BY <1>0, <1>3, AfterWordRange
  <2>2. PICK m \in Nat : m = Len(w)
    OBVIOUS
  <2> QED
    BY <1>3, <2>1, <2>2 DEF Incomplete
<1>4. i + 1 \in 1..(n + 1) /\ i + 1 > i
  BY <1>0
<1>5. ASSUME NEW c, At(s, i + 1, c) PROVE i + 2 \in 1..(n + 1) /\ i + 2 > i
  BY <1>0, <1>5 DEF At
<1>6. Word(s, i, Triple) => i + 3 \in 1..(n + 1) /\ i + 3 > i
  BY <1>0, WordOfThree
<1>7. CASE s[i] = "quote"
  <2>1. CASE Word(s, i, Triple)
    BY <1>0, <1>3, <1>6, <1>7, <2>1, SkipIs, TripleWord DEF Opens
  <2>2. CASE ~Word(s, i, Triple)
    BY <1>0, <1>1, <1>4, <1>7, <2>2, SkipIs DEF Opens
  <2> QED
    BY <2>1, <2>2
<1>8. CASE s[i] = "#"
  BY <1>0, <1>2, <1>4, <1>8, SkipIs DEF Opens
<1>9. CASE s[i] = "b"
  BY <1>0, <1>1, <1>5, <1>9, SkipIs DEF Opens
<1>10. CASE s[i] = "/"
  <2>1. CASE At(s, i + 1, "/")
    BY <1>0, <1>2, <1>5, <1>10, <2>1, SkipIs DEF Opens
  <2>2. CASE At(s, i + 1, "*")
    BY <1>0, <1>3, <1>5, <1>10, <2>2, SkipIs, CommentEndWord DEF Opens
  <2> QED
    BY <1>10, <2>1, <2>2, SkipIs DEF Opens
<1>11. CASE s[i] \notin {"quote", "b", "#", "/"}
  BY <1>11, SkipIs DEF Opens
<1> QED
  BY <1>7, <1>8, <1>9, <1>10, <1>11

\* Whether a literal or comment opens at i, and where it ends, has been decided
\* by the bytes up to hi.
SkipSettled(x, i, s, t, d, hi) ==
  \/ x > i /\ x <= hi
  \/ x = i /\ (i < hi \/ s[i] \notin {"/", "b"})
  \/ x = Malformed /\ hi = Len(s)
  \/ EndTogether(s, t, d, hi)

\* skip_string_or_comment steps alike over the common part of two texts.
LEMMA SkipMatches ==
  ASSUME NEW s \in Seq(ByteClass), NEW t \in Seq(ByteClass),
         NEW d \in Int, NEW lo \in Nat, NEW hi \in Nat, Matches(s, t, d, lo, hi),
         NEW i \in Nat, i >= lo, i <= hi,
         SkipSettled(Skip(s, i), i, s, t, d, hi)
  PROVE  Skip(t, i + d) = Moved(Skip(s, i), d)
<1>0. PICK ls \in Nat, lt \in Nat : ls = Len(s) /\ lt = Len(t)
  OBVIOUS
<1>1. 1 <= lo /\ lo <= hi + 1 /\ hi <= ls /\ 1 <= lo + d /\ hi + d <= lt
  BY <1>0 DEF Matches
<1>2. PICK m \in Nat : m = i + d
  BY <1>1
<1>3. i \in 1..ls /\ m \in 1..lt
  BY <1>1, <1>2
<1>4. t[m] = s[i]
  <2>1. i \in lo..hi
    BY <1>1
  <2> QED
    BY <1>2, <2>1 DEF Matches
<1>5. PICK x : x = Skip(s, i)
  OBVIOUS
<1>6. SkipSettled(x, i, s, t, d, hi)
  BY <1>5
<1>7. /\ ~Opens(s, i) => x = i
      /\ Opens(s, i) => x \in {Incomplete, Malformed} \cup (i + 1)..(ls + 1)
  BY <1>0, <1>3, <1>5, SkipRange
<1>8. x \in Int
  BY <1>7 DEF Incomplete, Malformed
<1>9. ASSUME NEW k \in Nat, k > i, k <= ls, k <= x \/ x = Malformed
      PROVE  k <= hi \/ EndTogether(s, t, d, hi)
  BY <1>1, <1>6, <1>8, <1>9, <1>0 DEF SkipSettled, Malformed
<1>10. x > i => Settled(x, s, t, d, hi) /\ StopsBefore(x, s, t, d, hi)
  BY <1>1, <1>6, <1>8, <1>3 DEF SkipSettled, Settled, StopsBefore, Malformed
<1>11. x \in {Incomplete, Malformed} => Settled(x, s, t, d, hi)
  BY <1>1, <1>3, <1>6 DEF SkipSettled, Settled, Incomplete, Malformed
<1>12. Opens(s, i) => Settled(x, s, t, d, hi)
  BY <1>7, <1>8, <1>10, <1>11
<1>13. ASSUME NEW c, i + 1 <= hi \/ EndTogether(s, t, d, hi)
       PROVE  At(t, m + 1, c) <=> At(s, i + 1, c)
  <2>1. PICK q \in Nat : q = i + 1
    OBVIOUS
  <2>2. q >= lo /\ (q <= hi \/ EndTogether(s, t, d, hi)) /\ q + d = m + 1
    BY <1>2, <1>13, <2>1
  <2>3. At(t, q + d, c) <=> At(s, q, c)
    BY <2>2, AtMatches
  <2> QED
    BY <2>1, <2>2, <2>3
<1>14. ASSUME NEW k \in Nat, k > i, k <= ls + 1, NEW e, x = Quoted(s, k, e),
              Settled(x, s, t, d, hi), k <= hi + 1
       PROVE  Quoted(t, k + d, e) = Moved(x, d)
  <2>1. k \in lo..(hi + 1)
    BY <1>14
  <2> QED
    BY <1>14, <2>1, QuotedMatches
<1>24. ASSUME NEW w \in Seq(ByteClass), w # <<>>, NEW k \in Nat, k > i, k <= hi + 1,
              Settled(AfterWord(s, k, w), s, t, d, hi)
       PROVE  AfterWord(t, k + d, w) = Moved(AfterWord(s, k, w), d)
  <2>1. k >= lo
    BY <1>24
  <2> QED
    BY <1>24, <2>1, AfterWordMatches
<1>15. i + 2 <= hi \/ EndTogether(s, t, d, hi) => (Word(t, m, Triple) <=> Word(s, i, Triple))
  <2>1. i + Len(Triple) - 1 = i + 2
    BY TripleWord
  <2> QED
    BY <1>2, <2>1, TripleWord, WordMatches
<1>16. CASE s[i] = "quote" /\ Word(s, i, Triple)
  <2>1. x = AfterWord(s, i + 3, Triple)
    BY <1>0, <1>3, <1>5, <1>16, SkipIs
  <2>2. i + 3 \in 1..(Len(s) + 1)
    BY <1>0, <1>3, <1>16, WordOfThree
  <2>3. AfterWord(s, i + 3, Triple) \in {0} \cup (i + 3 + Len(Triple))..(Len(s) + 1)
    BY <2>2, AfterWordRange, TripleWord
  <2>4. x \in {0} \cup (i + 6)..(ls + 1)
    BY <1>0, <2>1, <2>3, TripleWord
  <2>5. i + 2 <= hi \/ EndTogether(s, t, d, hi)
    BY <1>1, <1>3, <1>6, <2>4 DEF SkipSettled, Malformed
  <2>6. Word(t, m, Triple)
    BY <1>15, <1>16, <2>5
  <2>7. PICK k \in Nat : k = i + 3
    OBVIOUS
  <2>8. k <= hi + 1 /\ k > i
    BY <1>0, <2>2, <2>5, <2>7 DEF EndTogether
  <2>9. Settled(AfterWord(s, k, Triple), s, t, d, hi)
    BY <1>12, <1>16, <2>1, <2>7 DEF Opens
  <2>10. AfterWord(t, k + d, Triple) = Moved(AfterWord(s, k, Triple), d)
    BY <1>24, <2>7, <2>8, <2>9, TripleWord
  <2>11. k + d = m + 3
    BY <1>2, <2>7
  <2>12. Skip(t, m) = AfterWord(t, m + 3, Triple)
    BY <1>0, <1>3, <1>4, <1>16, <2>6, SkipIs
  <2> QED
    BY <1>2, <1>5, <2>1, <2>7, <2>10, <2>11, <2>12
<1>17. CASE s[i] = "quote" /\ ~Word(s, i, Triple)
  <2>1. x = Quoted(s, i + 1, ByteClass)
    BY <1>0, <1>3, <1>5, <1>17, SkipIs
  <2>2. PICK k \in Nat : k = i + 1 /\ k \in 1..(Len(s) + 1)
    BY <1>0, <1>3
  <2>3. /\ k > Len(s) => x = Incomplete
        /\ k <= Len(s) /\ s[k] = "quote" => x = k + 1
        /\ x \in {Incomplete, Malformed} \cup (k + 1)..(Len(s) + 1)
    BY <2>1, <2>2, QuotedStep
  <2>4. ~Word(t, m, Triple)
    <3>1. CASE i + 2 <= hi \/ EndTogether(s, t, d, hi)
      BY <1>15, <1>17, <3>1
    <3>2. CASE x = Malformed /\ hi = Len(s)
      <4>1. k <= hi /\ ~At(s, k, "quote")
        BY <1>0, <2>2, <2>3, <3>2 DEF Malformed, Incomplete, At
      <4>2. ~At(t, m + 1, "quote")
        BY <1>13, <2>2, <4>1
      <4>3. m + 1 \in 1..(lt + 1)
        BY <1>3
      <4> QED
        BY <1>0, <1>3, <4>2, WordOfThree DEF At
    <3>3. x # i
      BY <1>0, <2>2, <2>3, <1>3 DEF Malformed, Incomplete
    <3>4. x > i /\ x <= hi => i + 2 <= hi
      BY <1>0, <1>1, <1>3, <1>8, <2>2, <2>3 DEF Malformed, Incomplete
    <3> QED
      BY <1>6, <3>1, <3>2, <3>3, <3>4 DEF SkipSettled
  <2>5. Settled(x, s, t, d, hi)
    BY <1>12, <1>17 DEF Opens
  <2>6. Quoted(t, k + d, ByteClass) = Moved(x, d)
    <3>1. k \in Nat /\ k > i /\ k <= ls + 1 /\ k <= hi + 1
      BY <1>0, <2>2
    <3> QED
      BY <1>14, <2>1, <2>2, <2>5, <3>1
  <2>7. k + d = m + 1
    BY <1>2, <2>2
  <2>8. Skip(t, m) = Quoted(t, m + 1, ByteClass)
    BY <1>0, <1>3, <1>4, <1>17, <2>4, SkipIs
  <2> QED
    BY <1>2, <1>5, <2>6, <2>7, <2>8
<1>18. CASE s[i] = "b" /\ At(s, i + 1, "quote")
  <2>1. x = Quoted(s, i + 2, ByteClass)
    BY <1>0, <1>3, <1>5, <1>18, SkipIs
  <2>2. PICK k \in Nat : k = i + 2 /\ k \in 1..(Len(s) + 1) /\ k <= ls + 1
    BY <1>0, <1>3, <1>18 DEF At
  <2>3. x \in {Incomplete, Malformed} \cup (k + 1)..(Len(s) + 1)
    BY <2>1, <2>2, QuotedStep
  <2>4. i + 1 <= hi \/ EndTogether(s, t, d, hi)
    BY <1>0, <1>1, <1>3, <1>6, <1>8, <2>2, <2>3 DEF SkipSettled, Malformed, Incomplete
  <2>5. At(t, m + 1, "quote")
    BY <1>13, <1>18, <2>4
  <2>6. Settled(x, s, t, d, hi)
    BY <1>12, <1>18 DEF Opens
  <2>7. k <= hi + 1
    BY <1>0, <2>2, <2>4 DEF EndTogether
  <2>8. Quoted(t, k + d, ByteClass) = Moved(x, d)
    BY <1>14, <2>1, <2>2, <2>6, <2>7
  <2>9. k + d = m + 2
    BY <1>2, <2>2
  <2>10. Skip(t, m) = Quoted(t, m + 2, ByteClass)
    BY <1>0, <1>3, <1>4, <1>18, <2>5, SkipIs
  <2> QED
    BY <1>2, <1>5, <2>8, <2>9, <2>10
<1>19. CASE s[i] = "/" /\ At(s, i + 1, "*")
  <2>1. x = AfterWord(s, i + 2, CommentEnd)
    BY <1>0, <1>3, <1>5, <1>19, SkipIs
  <2>2. PICK k \in Nat : k = i + 2 /\ k \in 1..(Len(s) + 1) /\ k <= ls + 1
    BY <1>0, <1>3, <1>19 DEF At
  <2>3. x \in {0} \cup (k + Len(CommentEnd))..(Len(s) + 1)
    BY <2>1, <2>2, AfterWordRange, CommentEndWord
  <2>4. i + 1 <= hi \/ EndTogether(s, t, d, hi)
    BY <1>0, <1>1, <1>3, <1>6, <1>8, <2>2, <2>3, CommentEndWord DEF SkipSettled, Malformed
  <2>5. At(t, m + 1, "*")
    BY <1>13, <1>19, <2>4
  <2>6. Settled(AfterWord(s, k, CommentEnd), s, t, d, hi)
    BY <1>12, <1>19, <2>1, <2>2 DEF Opens
  <2>7. k <= hi + 1
    BY <1>0, <2>2, <2>4 DEF EndTogether
  <2>8. AfterWord(t, k + d, CommentEnd) = Moved(AfterWord(s, k, CommentEnd), d)
    BY <1>24, <2>2, <2>6, <2>7, CommentEndWord
  <2>9. k + d = m + 2
    BY <1>2, <2>2
  <2>10. Skip(t, m) = AfterWord(t, m + 2, CommentEnd)
    BY <1>0, <1>3, <1>4, <1>19, <2>5, SkipIs
  <2> QED
    BY <1>2, <1>5, <2>1, <2>2, <2>8, <2>9, <2>10
<1>20. ASSUME NEW k \in Nat, k > i, k <= ls + 1, x = LineComment(s, k), k <= hi + 1
       PROVE  LineComment(t, k + d) = Moved(x, d)
  <2>1. x \in k..(ls + 1)
    BY <1>0, <1>20, LineCommentIs
  <2>2. StopsBefore(x, s, t, d, hi) /\ x > 0
    BY <1>3, <1>10, <1>20, <2>1
  <2>3. LineComment(t, k + d) = LineComment(s, k) + d
    BY <1>20, <2>2, LineCommentMatches
  <2> QED
    BY <1>20, <2>2, <2>3 DEF Moved
<1>21. CASE s[i] = "#"
  <2>1. x = LineComment(s, i + 1)
    BY <1>0, <1>3, <1>5, <1>21, SkipIs
  <2>2. PICK k \in Nat : k = i + 1 /\ k > i /\ k <= ls + 1 /\ k <= hi + 1
    BY <1>3
  <2>3. LineComment(t, k + d) = Moved(x, d)
    BY <1>20, <2>1, <2>2
  <2>4. k + d = m + 1
    BY <1>2, <2>2
  <2>5. Skip(t, m) = LineComment(t, m + 1)
    BY <1>0, <1>3, <1>4, <1>21, SkipIs
  <2> QED
    BY <1>2, <1>5, <2>3, <2>4, <2>5
<1>22. CASE s[i] = "/" /\ At(s, i + 1, "/")
  <2>1. x = LineComment(s, i + 2)
    BY <1>0, <1>3, <1>5, <1>22, SkipIs
  <2>2. PICK k \in Nat : k = i + 2 /\ k > i /\ k <= ls + 1
    BY <1>0, <1>22 DEF At
  <2>3. x \in k..(ls + 1)
    BY <1>0, <1>3, <2>1, <2>2, LineCommentIs
  <2>4. k <= hi \/ EndTogether(s, t, d, hi)
    BY <1>1, <1>3, <1>6, <2>2, <2>3 DEF SkipSettled, Malformed
  <2>5. At(t, m + 1, "/") /\ k <= hi + 1
    <3>1. i + 1 <= hi \/ EndTogether(s, t, d, hi)
      BY <2>2, <2>4
    <3> QED
      BY <1>0, <1>13, <1>22, <2>2, <2>4, <3>1 DEF EndTogether
  <2>6. LineComment(t, k + d) = Moved(x, d)
    BY <1>20, <2>1, <2>2, <2>5
  <2>7. k + d = m + 2
    BY <1>2, <2>2
  <2>8. Skip(t, m) = LineComment(t, m + 2)
    BY <1>0, <1>3, <1>4, <1>22, <2>5, SkipIs
  <2> QED
    BY <1>2, <1>5, <2>6, <2>7, <2>8
<1>23. CASE ~Opens(s, i)
  <2>1. x = i
    BY <1>7, <1>23
  <2>2. s[i] \in {"/", "b"} => i + 1 <= hi \/ EndTogether(s, t, d, hi)
    BY <1>3, <1>6, <2>1 DEF SkipSettled, Malformed
  <2>3. ~Opens(t, m)
    BY <1>4, <1>13, <1>23, <2>2 DEF Opens
  <2>4. Skip(t, m) = m
    BY <1>0, <1>3, <2>3, SkipRange
  <2> QED
    BY <1>2, <1>3, <1>5, <2>1, <2>4 DEF Moved
<1> QED
  BY <1>16, <1>17, <1>18, <1>19, <1>21, <1>22, <1>23 DEF Opens

-----------------------------------------------------------------------------
(***************************************************************************)
(* The walk of the scanner, a byte or a literal at a time.                 *)
(***************************************************************************)
Stopped(malformed) == [at |-> {}, malformed |-> malformed]

\* The walk w with the position i visited before.
Visiting(i, w) == [w EXCEPT !.at = @ \cup {i}]

Walks(s) == [at : SUBSET (1..Len(s)), malformed : BOOLEAN]

\* A walk with one more byte visited.
LEMMA VisitingIs ==
  ASSUME NEW s \in Seq(ByteClass), NEW w \in Walks(s), NEW i \in 1..Len(s)
  PROVE  /\ Visiting(i, w) \in Walks(s)
         /\ Visiting(i, w).at = w.at \cup {i}
         /\ Visiting(i, w).malformed = w.malformed
  BY DEF Visiting, Walks

\* A walk that has stopped visits nothing.
LEMMA StoppedIs ==
  ASSUME NEW m \in BOOLEAN
  PROVE  Stopped(m).at = {} /\ Stopped(m).malformed = m /\ \A s : Stopped(m) \in Walks(s)
  BY DEF Stopped, Walks

\* The walk from i, by what skip_string_or_comment says there.
LEMMA WalkStep ==
  ASSUME NEW s \in Seq(ByteClass), NEW i \in 1..(Len(s) + 1)
  PROVE  /\ Walk(s, i) \in Walks(s)
         /\ i > Len(s) => Walk(s, i) = Stopped(FALSE)
         /\ i <= Len(s) /\ Skip(s, i) = Incomplete => Walk(s, i) = Stopped(FALSE)
         /\ i <= Len(s) /\ Skip(s, i) = Malformed => Walk(s, i) = Stopped(TRUE)
         /\ i <= Len(s) /\ Skip(s, i) = i => Walk(s, i) = Visiting(i, Walk(s, i + 1))
         /\ i <= Len(s) /\ Skip(s, i) > i => Walk(s, i) = Walk(s, Skip(s, i))
<1>0. PICK k \in Nat : k = Len(s)
  OBVIOUS
<1> DEFINE S     == Walks(s)
           to(n) == Skip(s, n)
           Stop  == {n \in 1..(k + 1) : n > k \/ to(n) \in {Incomplete, Malformed}}
           base  == [n \in 1..(k + 1) |-> IF n > k \/ to(n) = Incomplete THEN Stopped(FALSE)
                                           ELSE Stopped(TRUE)]
           next  == [n \in 1..(k + 1) |-> IF to(n) = n THEN n + 1 ELSE to(n)]
           Op    == [n \in 1..(k + 1) |-> [x \in S |-> IF to(n) = n THEN Visiting(n, x) ELSE x]]
           V(f, n) == IF n > Len(s) THEN Stopped(FALSE)
                      ELSE CASE to(n) = Incomplete -> Stopped(FALSE)
                             [] to(n) = Malformed  -> Stopped(TRUE)
                             [] to(n) = n          -> Visiting(n, f[n + 1])
                             [] OTHER              -> f[to(n)]
<1>a. ASSUME NEW n \in 1..k
      PROVE  to(n) \in {Incomplete, Malformed} \cup n..(k + 1)
  BY <1>0, <1>a, SkipRange
<1>1. PICK f \in [1..(k + 1) -> S] :
        \A n \in 1..(k + 1) : f[n] = IF n \in Stop THEN base[n] ELSE Op[n][f[next[n]]]
  <2>1. PICK m \in Nat : m = k + 1
    OBVIOUS
  <2>2. \A n \in 1..m : n \in Stop => base[n] \in S
    BY <2>1, StoppedIs
  <2>3. \A n \in 1..m : n \notin Stop => next[n] \in (n + 1)..m
    BY <1>a, <2>1
  <2>4. \A n \in 1..m : n \notin Stop => Op[n] \in [S -> S]
    <3> SUFFICES ASSUME NEW n \in 1..m, n \notin Stop, NEW x \in S
                 PROVE  (IF to(n) = n THEN Visiting(n, x) ELSE x) \in S
      BY <2>1
    <3>1. n \in 1..Len(s)
      BY <1>0, <2>1
    <3> QED
      BY <3>1, VisitingIs
  <2> HIDE DEF S, Stop, base, next, Op
  <2>6. IsChain(m, S, Stop, base, next, Op)
    BY <2>2, <2>3, <2>4 DEF IsChain
  <2>7. PICK f \in [1..m -> S] : FollowsChain(f, m, Stop, base, next, Op)
    BY <2>6, ChainRecursion
  <2>8. \A n \in 1..m : f[n] = IF n \in Stop THEN base[n] ELSE Op[n][f[next[n]]]
    BY <2>7 DEF FollowsChain
  <2> QED
    BY <2>1, <2>7, <2>8
<1>2. ASSUME NEW n \in 1..(k + 1)
      PROVE  /\ n > k => f[n] = Stopped(FALSE)
             /\ n <= k /\ to(n) = Incomplete => f[n] = Stopped(FALSE)
             /\ n <= k /\ to(n) = Malformed => f[n] = Stopped(TRUE)
             /\ n <= k /\ to(n) = n => f[n] = Visiting(n, f[n + 1])
             /\ n <= k /\ to(n) > n => f[n] = f[to(n)]
             /\ f[n] = V(f, n)
  <2>1. n > k => f[n] = Stopped(FALSE)
    BY <1>1
  <2>2. n <= k /\ to(n) = Incomplete => f[n] = Stopped(FALSE)
    BY <1>1
  <2>3. n <= k /\ to(n) = Malformed => f[n] = Stopped(TRUE)
    <3> SUFFICES ASSUME n <= k, to(n) = Malformed PROVE f[n] = Stopped(TRUE)
      OBVIOUS
    <3>0. n <= k /\ to(n) = Malformed /\ n \in Nat
      OBVIOUS
    <3>1. n \in Stop
      OBVIOUS
    <3>2. base[n] = Stopped(TRUE)
      <4>1. ~(n > k \/ to(n) = Incomplete)
        BY <3>0 DEF Incomplete, Malformed
      <4> QED
        BY <4>1
    <3> HIDE DEF Stop, base, next, Op, S
    <3> QED
      BY <1>1, <3>1, <3>2
  <2>4. ASSUME n <= k, to(n) = n PROVE f[n] = Visiting(n, f[n + 1])
    <3>1. n \notin Stop
      BY <2>4 DEF Incomplete, Malformed
    <3>2. next[n] = n + 1 /\ n + 1 \in 1..(k + 1)
      BY <2>4
    <3>3. f[n + 1] \in S
      BY <3>2
    <3>4. Op[n][f[n + 1]] = Visiting(n, f[n + 1])
      BY <2>4, <3>3
    <3> HIDE DEF Stop, base, next, Op, S
    <3> QED
      BY <1>1, <3>1, <3>2, <3>4
  <2>5. ASSUME n <= k, to(n) > n PROVE f[n] = f[to(n)]
    <3>0. n \in 1..k
      BY <2>5
    <3>1. PICK y : y = to(n)
      OBVIOUS
    <3>2. y \in {Incomplete, Malformed} \cup n..(k + 1)
      BY <1>a, <3>0, <3>1
    <3>3. y \in (n + 1)..(k + 1) /\ y \in 1..(k + 1)
      BY <2>5, <3>1, <3>2 DEF Incomplete, Malformed
    <3>4. n \notin Stop
      BY <2>5, <3>1, <3>3 DEF Incomplete, Malformed
    <3>5. next[n] = y
      BY <3>1, <3>3
    <3>6. f[y] \in S
      BY <3>3
    <3>7. Op[n][f[y]] = f[y]
      BY <3>1, <3>3, <3>6
    <3> HIDE DEF Stop, base, next, Op, S
    <3> QED
      BY <1>1, <3>1, <3>4, <3>5, <3>7
  <2>6. f[n] = V(f, n)
    <3> HIDE DEF Stop, base, next, Op, S
    <3>1. n <= k => n \in 1..k
      OBVIOUS
    <3>2. n <= k => to(n) \in {Incomplete, Malformed} \cup n..(k + 1)
      BY <1>a, <3>1
    <3>3. n <= k => to(n) \in {Incomplete, Malformed} \/ to(n) = n \/ to(n) > n
      <4>1. PICK y : y = to(n)
        OBVIOUS
      <4>2. n <= k => y \in {Incomplete, Malformed} \cup n..(k + 1)
        BY <3>2, <4>1
      <4>3. n <= k => y \in {Incomplete, Malformed} \/ y = n \/ y > n
        BY <4>2
      <4> QED
        BY <4>1, <4>3
    <3>4. PICK y : y = to(n)
      OBVIOUS
    <3>5. /\ n > k => f[n] = Stopped(FALSE)
          /\ n <= k /\ y = Incomplete => f[n] = Stopped(FALSE)
          /\ n <= k /\ y = Malformed => f[n] = Stopped(TRUE)
          /\ n <= k /\ y = n => f[n] = Visiting(n, f[n + 1])
          /\ n <= k /\ y > n => f[n] = f[y]
          /\ n <= k => y \in {Incomplete, Malformed} \/ y = n \/ y > n
      BY <2>1, <2>2, <2>3, <2>4, <2>5, <3>3, <3>4
    <3>6. f[n] = IF n > Len(s) THEN Stopped(FALSE)
                 ELSE CASE y = Incomplete -> Stopped(FALSE)
                        [] y = Malformed  -> Stopped(TRUE)
                        [] y = n          -> Visiting(n, f[n + 1])
                        [] OTHER          -> f[y]
      <4>1. n \in Nat /\ n # Incomplete /\ n # Malformed /\ Incomplete # Malformed
        BY DEF Incomplete, Malformed
      <4>0. n > k \/ n <= k
        BY <4>1
      <4>2. CASE n > k
        BY <1>0, <3>5, <4>2
      <4>3. CASE n <= k
        <5>1. CASE y = Incomplete
          BY <1>0, <3>5, <4>1, <4>3, <5>1
        <5>2. CASE y = Malformed
          BY <1>0, <3>5, <4>1, <4>3, <5>2
        <5>3. CASE y = n
          BY <1>0, <3>5, <4>1, <4>3, <5>3
        <5>4. CASE y > n /\ y \notin {Incomplete, Malformed} /\ y # n
          BY <1>0, <3>5, <4>1, <4>3, <5>4
        <5>5. y > n => y # n
          BY <3>2, <3>4, <4>3 DEF Incomplete, Malformed
        <5> QED
          BY <3>5, <4>3, <5>1, <5>2, <5>3, <5>4, <5>5
      <4> QED
        BY <4>0, <4>2, <4>3
    <3> QED
      BY <3>4, <3>6
  <2> HIDE DEF Stop, base, next, Op, S, V
  <2> QED
    BY <2>1, <2>2, <2>3, <2>4, <2>5, <2>6
<1> HIDE DEF Stop, base, next, Op
<1>b. \A n \in 1..(k + 1) : f[n] = V(f, n)
  BY <1>2
<1>3. ASSUME NEW from \in 1..(k + 1) PROVE Walk(s, from) = f[from]
  <2> DEFINE W(g, n) == IF n > Len(s) THEN Stopped(FALSE)
                        ELSE CASE to(n) = Incomplete -> Stopped(FALSE)
                               [] to(n) = Malformed  -> Stopped(TRUE)
                               [] to(n) = n          -> [g[n + 1] EXCEPT !.at = @ \cup {n}]
                               [] OTHER              -> g[to(n)]
             scan[n \in from..(Len(s) + 1)] == W(scan, n)
  <2>1. Walk(s, from) = scan[from]
    BY DEF Walk, Stopped
  <2>2. PICK g : g = [n \in from..(Len(s) + 1) |-> f[n]]
    OBVIOUS
  <2>a. ASSUME NEW n \in from..(k + 1), NEW g1, NEW g2,
               \A j \in (n + 1)..(k + 1) : g1[j] = g2[j]
        PROVE  V(g1, n) = V(g2, n)
    <3>1. CASE n > k
      BY <1>0, <3>1
    <3>2. CASE n <= k
      <4>1. PICK y : y = to(n)
        OBVIOUS
      <4>2. y \in {Incomplete, Malformed} \cup n..(k + 1)
        BY <1>a, <3>2, <4>1
      <4>3. y \notin {Incomplete, Malformed} /\ y # n => g1[y] = g2[y]
        BY <2>a, <4>2
      <4>4. g1[n + 1] = g2[n + 1]
        <5>1. n + 1 \in (n + 1)..(k + 1)
          BY <3>2
        <5> QED
          BY <2>a, <5>1
      <4>8. n # Incomplete /\ n # Malformed /\ Incomplete # Malformed
        BY DEF Incomplete, Malformed
      <4>5. CASE y \in {Incomplete, Malformed}
        <5>1. CASE y = Incomplete
          BY <4>1, <4>8, <5>1
        <5>2. CASE y = Malformed
          BY <4>1, <4>8, <5>2
        <5> QED
          BY <4>5, <5>1, <5>2
      <4>6. CASE y = n
        BY <4>1, <4>4, <4>6
      <4>7. CASE y \notin {Incomplete, Malformed} /\ y # n
        BY <4>1, <4>3, <4>7
      <4> QED
        BY <4>5, <4>6, <4>7
    <3>3. n > k \/ n <= k
      BY <2>a
    <3> QED
      BY <3>1, <3>2, <3>3
  <2>3. ASSUME NEW n \in from..(Len(s) + 1) PROVE g[n] = V(g, n)
    <3>0. n \in 1..(k + 1) /\ g[n] = f[n]
      BY <1>0, <2>2
    <3>1. f[n] = V(f, n) /\ g[n] = f[n]
      <4> HIDE DEF V
      <4> QED
        BY <1>b, <3>0
    <3>2. \A j \in (n + 1)..(k + 1) : f[j] = g[j]
      BY <1>0, <2>2
    <3>3. V(f, n) = V(g, n)
      BY <1>0, <2>a, <3>2
    <3> QED
      BY <3>1, <3>3
  <2>4. g = [n \in from..(Len(s) + 1) |-> V(g, n)]
    <3> HIDE DEF V
    <3> QED
      BY <2>2, <2>3
  <2>5. scan = [n \in from..(Len(s) + 1) |-> V(scan, n)]
    <3>1. g = [n \in from..(Len(s) + 1) |-> W(g, n)]
      BY <2>4 DEF Visiting
    <3>2. scan = [n \in from..(Len(s) + 1) |-> W(scan, n)]
      <4> HIDE DEF W
      <4> QED
        BY <3>1
    <3> QED
      BY <3>2 DEF Visiting
  <2> HIDE DEF scan
  <2>6. from..(k + 1) \subseteq {n \in from..(k + 1) : scan[n] = f[n]}
    <3> DEFINE T == {n \in from..(k + 1) : scan[n] = f[n]}
    <3>1. ASSUME NEW n \in from..(k + 1), \A j \in (n + 1)..(k + 1) : j \in T PROVE n \in T
      <4>1. scan[n] = V(scan, n)
        <5> HIDE DEF V
        <5> QED
          BY <1>0, <2>5
      <4>2. \A j \in (n + 1)..(k + 1) : scan[j] = f[j]
        BY <3>1
      <4>3. V(scan, n) = V(f, n)
        <5> HIDE DEF V
        <5> QED
          BY <2>a, <4>2
      <4> HIDE DEF V
      <4>4. f[n] = V(f, n)
        BY <1>b
      <4> QED
        BY <4>1, <4>3, <4>4
    <3> HIDE DEF T
    <3>2. from \in Int /\ k + 1 \in Int
      OBVIOUS
    <3>3. from..(k + 1) \subseteq T
      BY <3>1, <3>2, BackwardInductive
    <3> QED
      BY <3>3 DEF T
  <2> QED
    BY <2>1, <2>6
<1> HIDE DEF V
<1>4. i \in 1..(k + 1) /\ Walk(s, i) = f[i]
  BY <1>0, <1>3
<1>5. i <= k => Walk(s, i + 1) = f[i + 1]
  BY <1>0, <1>3
<1>6. i <= k /\ to(i) > i => Walk(s, to(i)) = f[to(i)]
  <2> SUFFICES ASSUME i <= k, to(i) > i PROVE Walk(s, to(i)) = f[to(i)]
    OBVIOUS
  <2>1. PICK y : y = to(i)
    OBVIOUS
  <2>2. y \in {Incomplete, Malformed} \cup i..(k + 1) /\ y > i
    BY <1>4, <1>a, <2>1
  <2>3. y \in 1..(k + 1)
    BY <1>4, <2>2 DEF Incomplete, Malformed
  <2>4. Walk(s, y) = f[y]
    BY <1>3, <2>3
  <2> QED
    BY <2>1, <2>4
<1>7. f[i] \in Walks(s)
  BY <1>1, <1>4
<1> QED
  BY <1>0, <1>2, <1>4, <1>5, <1>6, <1>7

\* A walk visits positions from its start on, at which nothing opens.
LEMMA WalkVisits ==
  ASSUME NEW s \in Seq(ByteClass), NEW i \in 1..(Len(s) + 1)
  PROVE  \A p \in Walk(s, i).at : p \in i..Len(s) /\ Skip(s, p) = p
<1>0. PICK k \in Nat : k = Len(s)
  OBVIOUS
<1> DEFINE T == {n \in 1..(k + 1) : \A p \in Walk(s, n).at : p \in n..k /\ Skip(s, p) = p}
<1>1. ASSUME NEW n \in 1..(k + 1), \A j \in (n + 1)..(k + 1) : j \in T PROVE n \in T
  <2> SUFFICES ASSUME NEW p \in Walk(s, n).at PROVE p \in n..k /\ Skip(s, p) = p
    OBVIOUS
  <2>1. PICK x : x = Skip(s, n)
    OBVIOUS
  <2>2. /\ n > k => Walk(s, n) = Stopped(FALSE)
        /\ n <= k /\ x = Incomplete => Walk(s, n) = Stopped(FALSE)
        /\ n <= k /\ x = Malformed => Walk(s, n) = Stopped(TRUE)
        /\ n <= k /\ x = n => Walk(s, n) = Visiting(n, Walk(s, n + 1))
        /\ n <= k /\ x > n => Walk(s, n) = Walk(s, x)
    BY <1>0, <2>1, WalkStep
  <2>3. n <= k /\ x \notin {Incomplete, Malformed}
    <3>1. n > k \/ n <= k
      OBVIOUS
    <3>2. Stopped(TRUE).at = {} /\ Stopped(FALSE).at = {}
      BY StoppedIs
    <3>3. Walk(s, n) # Stopped(TRUE) /\ Walk(s, n) # Stopped(FALSE)
      BY <3>2
    <3> QED
      BY <2>2, <3>1, <3>3
  <2>4. x \in n..(k + 1)
    BY <1>0, <2>1, <2>3, SkipRange
  <2>5. CASE x = n
    <3>1. n + 1 \in T /\ n + 1 \in 1..(Len(s) + 1) /\ n \in 1..Len(s)
      BY <1>0, <1>1, <2>3
    <3>2. Walk(s, n + 1) \in Walks(s)
      BY <3>1, WalkStep
    <3>3. Walk(s, n).at = Walk(s, n + 1).at \cup {n}
      BY <2>2, <2>3, <2>5, <3>1, <3>2, VisitingIs
    <3>4. p = n \/ p \in Walk(s, n + 1).at
      BY <3>3
    <3>5. p \in Walk(s, n + 1).at => p \in (n + 1)..k /\ Skip(s, p) = p
      BY <3>1
    <3>6. CASE p = n
      <4>1. n \in n..k
        BY <2>3
      <4> QED
        BY <2>1, <2>5, <3>6, <4>1
    <3>7. CASE p \in (n + 1)..k /\ Skip(s, p) = p
      BY <3>7
    <3> QED
      BY <3>4, <3>5, <3>6, <3>7
  <2>6. CASE x > n
    <3>1. x \in T /\ p \in Walk(s, x).at
      BY <1>1, <2>2, <2>3, <2>4, <2>6
    <3> QED
      BY <2>4, <3>1
  <2> QED
    BY <2>4, <2>5, <2>6
<1> HIDE DEF T
<1>2. 1 \in Int /\ k + 1 \in Int
  OBVIOUS
<1>3. 1..(k + 1) \subseteq T
  BY <1>1, <1>2, BackwardInductive
<1>4. i \in T
  BY <1>0, <1>3
<1> QED
  BY <1>0, <1>4 DEF T

\* Whether p is visited, and what is before it, has been decided by the bytes
\* up to hi.
WalkSettled(w, p, s, t, d, hi) ==
  \/ p \in w.at /\ p <= hi /\ (p < hi \/ s[p] \notin {"/", "b"})
  \/ w.malformed /\ hi = Len(s)
  \/ EndTogether(s, t, d, hi)

WalkEnds(w, s, t, d, hi) ==
  \/ w.malformed /\ hi = Len(s)
  \/ EndTogether(s, t, d, hi)

VisitAlike(w, v, p, d) == \A q \in Int : q <= p => (q \in w.at <=> q + d \in v.at)

\* What a walk visits does not depend on the bytes that follow.
LEMMA WalkMatches ==
  ASSUME NEW s \in Seq(ByteClass), NEW t \in Seq(ByteClass),
         NEW d \in Int, NEW lo \in Nat, NEW hi \in Nat, Matches(s, t, d, lo, hi),
         NEW i \in Nat, i >= lo, i <= hi + 1,
         NEW p \in Int, WalkSettled(Walk(s, i), p, s, t, d, hi)
  PROVE  /\ VisitAlike(Walk(s, i), Walk(t, i + d), p, d)
         /\ WalkEnds(Walk(s, i), s, t, d, hi)
              => (Walk(t, i + d).malformed <=> Walk(s, i).malformed)
<1>0. PICK ls \in Nat, lt \in Nat : ls = Len(s) /\ lt = Len(t)
  OBVIOUS
<1>1. 1 <= lo /\ lo <= hi + 1 /\ hi <= ls /\ 1 <= lo + d /\ hi + d <= lt
  BY <1>0 DEF Matches
<1> DEFINE Alike(w, v) == /\ VisitAlike(w, v, p, d)
                          /\ WalkEnds(w, s, t, d, hi) => (v.malformed <=> w.malformed)
           T == {n \in lo..(hi + 1) :
                   WalkSettled(Walk(s, n), p, s, t, d, hi) => Alike(Walk(s, n), Walk(t, n + d))}
<1>2. ASSUME NEW n \in Nat, n >= lo, n <= hi + 1, \A j \in (n + 1)..(hi + 1) : j \in T,
             WalkSettled(Walk(s, n), p, s, t, d, hi)
      PROVE  Alike(Walk(s, n), Walk(t, n + d))
  <2>1. PICK m \in Nat : m = n + d /\ m \in 1..(Len(t) + 1) /\ n \in 1..(Len(s) + 1)
    BY <1>0, <1>1, <1>2
  <2>2. PICK x : x = Skip(s, n)
    OBVIOUS
  <2>3. /\ n > ls => Walk(s, n) = Stopped(FALSE)
        /\ n <= ls /\ x = Incomplete => Walk(s, n) = Stopped(FALSE)
        /\ n <= ls /\ x = Malformed => Walk(s, n) = Stopped(TRUE)
        /\ n <= ls /\ x = n => Walk(s, n) = Visiting(n, Walk(s, n + 1))
        /\ n <= ls /\ x > n => Walk(s, n) = Walk(s, x)
        /\ Walk(s, n) \in Walks(s)
    BY <1>0, <2>1, <2>2, WalkStep
  <2>4. PICK y : y = Skip(t, m)
    OBVIOUS
  <2>5. /\ m > lt => Walk(t, m) = Stopped(FALSE)
        /\ m <= lt /\ y = Incomplete => Walk(t, m) = Stopped(FALSE)
        /\ m <= lt /\ y = Malformed => Walk(t, m) = Stopped(TRUE)
        /\ m <= lt /\ y = m => Walk(t, m) = Visiting(m, Walk(t, m + 1))
        /\ m <= lt /\ y > m => Walk(t, m) = Walk(t, y)
        /\ Walk(t, m) \in Walks(t)
    BY <1>0, <2>1, <2>4, WalkStep
  <2>6. \A q \in Walk(s, n).at : q >= n /\ q <= ls
    <3>1. \A q \in Walk(s, n).at : q \in n..ls
      BY <1>0, <2>1, WalkVisits
    <3> QED
      BY <3>1
  <2>7. \A q \in Walk(t, m).at : q >= m
    BY <2>1, WalkVisits
  <2>8. n <= ls => x \in {Incomplete, Malformed} \cup n..(ls + 1)
    BY <1>0, <2>1, <2>2, SkipRange
  <2>a. ASSUME NEW b \in BOOLEAN, Walk(s, n) = Stopped(b), Walk(t, m) = Stopped(b)
        PROVE  Alike(Walk(s, n), Walk(t, m))
    <3>1. /\ Walk(s, n).at = {} /\ Walk(t, m).at = {}
          /\ Walk(s, n).malformed = Walk(t, m).malformed
      BY <2>a, StoppedIs
    <3> QED
      BY <3>1 DEF VisitAlike
  <2>9. CASE n = hi + 1
    <3>1. n > ls => Walk(s, n) = Stopped(FALSE) /\ ~Walk(s, n).malformed
      BY <2>3, StoppedIs
    <3>2. EndTogether(s, t, d, hi)
      <4> HIDE DEF T
      <4>1. ~(p \in Walk(s, n).at /\ p <= hi)
        <5> SUFFICES ASSUME p \in Walk(s, n).at, p <= hi PROVE FALSE
          OBVIOUS
        <5>1. p >= n
          BY <2>6
        <5> QED
          BY <2>9, <5>1
      <4>2. Walk(s, n).malformed => hi # Len(s)
        <5>1. hi = Len(s) => n > ls
          BY <1>0, <2>9
        <5> QED
          BY <3>1, <5>1
      <4> QED
        BY <1>2, <4>1, <4>2 DEF WalkSettled
    <3>3. n > ls /\ m > lt
      <4>1. hi = ls /\ hi + d = lt
        BY <1>0, <3>2 DEF EndTogether
      <4> QED
        BY <2>1, <2>9, <4>1
    <3> QED
      BY <2>1, <2>3, <2>5, <2>a, <3>3
  <2>10. CASE n <= hi
    <3>0. n <= ls /\ m <= lt
      BY <1>1, <2>1, <2>10
    <3>1. ASSUME SkipSettled(x, n, s, t, d, hi) PROVE y = Moved(x, d)
      BY <1>2, <2>1, <2>2, <2>4, <2>10, <3>1, SkipMatches
    <3>2. CASE x = Incomplete
      <4>1. EndTogether(s, t, d, hi)
        BY <1>2, <2>3, <3>0, <3>2, StoppedIs DEF WalkSettled
      <4>2. y = Incomplete
        BY <3>1, <3>2, <4>1 DEF SkipSettled, Moved, Incomplete
      <4> QED
        BY <2>1, <2>3, <2>5, <2>a, <3>0, <3>2, <4>2
    <3>3. CASE x = Malformed
      <4>1. EndTogether(s, t, d, hi) \/ hi = Len(s)
        BY <1>2, <2>3, <3>0, <3>3, StoppedIs DEF WalkSettled
      <4>2. y = Malformed
        BY <3>1, <3>3, <4>1 DEF SkipSettled, Moved, Malformed
      <4> QED
        BY <2>1, <2>3, <2>5, <2>a, <3>0, <3>3, <4>2
    <3>4. CASE x > n /\ x \in n..(ls + 1)
      <4>1. Walk(s, n) = Walk(s, x)
        BY <2>3, <3>0, <3>4
      <4>2. PICK z \in Nat : z = x /\ z \in 1..(Len(s) + 1)
        BY <1>0, <2>1, <3>4
      <4>3. \A q \in Walk(s, n).at : q >= z
        BY <4>1, <4>2, WalkVisits
      <4>4. x <= hi \/ EndTogether(s, t, d, hi)
        <5>1. Walk(s, n).malformed => z <= ls
          <6>1. z > ls => Walk(s, z) = Stopped(FALSE) /\ ~Walk(s, z).malformed
            BY <1>0, <4>2, WalkStep, StoppedIs
          <6> QED
            BY <4>1, <4>2, <6>1
        <5> QED
          BY <1>0, <1>2, <4>2, <4>3, <5>1 DEF WalkSettled
      <4>5. y = x + d
        BY <2>1, <3>1, <3>4, <4>2, <4>4 DEF SkipSettled, Moved
      <4>6. y > m /\ Walk(t, m) = Walk(t, y)
        BY <2>1, <2>5, <3>0, <3>4, <4>2, <4>5
      <4>7. x \in T
        <5>1. x <= hi + 1
          BY <1>0, <4>2, <4>4 DEF EndTogether
        <5> QED
          BY <1>2, <3>4, <4>2, <5>1
      <4> QED
        BY <1>2, <2>1, <4>1, <4>5, <4>6, <4>7
    <3>5. CASE x = n
      <4>1. Walk(s, n) = Visiting(n, Walk(s, n + 1))
        BY <2>3, <3>0, <3>5
      <4>2. n + 1 \in 1..(Len(s) + 1) /\ n \in 1..Len(s)
        BY <1>0, <2>1, <3>0
      <4>3. Walk(s, n + 1) \in Walks(s)
        BY <4>2, WalkStep
      <4>4. /\ Walk(s, n).at = Walk(s, n + 1).at \cup {n}
            /\ Walk(s, n).malformed = Walk(s, n + 1).malformed
        BY <4>1, <4>2, <4>3, VisitingIs
      <4>5. n < hi \/ s[n] \notin {"/", "b"} \/ EndTogether(s, t, d, hi)
        <5>1. Walk(s, n).malformed => n < ls
          <6>1. n + 1 > ls => Walk(s, n + 1) = Stopped(FALSE) /\ ~Walk(s, n + 1).malformed
            BY <1>0, <4>2, WalkStep, StoppedIs
          <6>2. n < ls \/ n + 1 > ls
            BY <3>0
          <6> QED
            BY <4>4, <6>1, <6>2
        <5>2. CASE p \in Walk(s, n).at /\ p <= hi /\ (p < hi \/ s[p] \notin {"/", "b"})
          <6>1. p >= n
            BY <2>6, <5>2
          <6>2. CASE p = n
            BY <5>2, <6>2
          <6>3. CASE p > n
            BY <5>2, <6>3
          <6> QED
            BY <6>1, <6>2, <6>3
        <5> QED
          BY <1>0, <1>2, <5>1, <5>2 DEF WalkSettled
      <4>6. y = m
        BY <2>1, <3>1, <3>5, <4>5 DEF SkipSettled, Moved
      <4>7. m + 1 \in 1..(Len(t) + 1) /\ m \in 1..Len(t)
        BY <1>0, <2>1, <3>0
      <4>8. Walk(t, m + 1) \in Walks(t)
        BY <4>7, WalkStep
      <4>9. /\ Walk(t, m).at = Walk(t, m + 1).at \cup {m}
            /\ Walk(t, m).malformed = Walk(t, m + 1).malformed
        BY <2>5, <3>0, <4>6, <4>7, <4>8, VisitingIs
      <4>10. CASE WalkSettled(Walk(s, n + 1), p, s, t, d, hi)
        <5>1. n + 1 \in T
          BY <1>2, <2>10
        <5>2. (n + 1) + d = m + 1
          BY <2>1
        <5>3. Alike(Walk(s, n + 1), Walk(t, m + 1))
          BY <4>10, <5>1, <5>2
        <5>4. VisitAlike(Walk(s, n), Walk(t, m), p, d)
          <6> SUFFICES ASSUME NEW q \in Int, q <= p
                       PROVE  q \in Walk(s, n).at <=> q + d \in Walk(t, m).at
            BY DEF VisitAlike
          <6>1. q \in Walk(s, n + 1).at <=> q + d \in Walk(t, m + 1).at
            BY <5>3 DEF VisitAlike
          <6>2. q = n <=> q + d = m
            BY <2>1
          <6> QED
            BY <4>4, <4>9, <6>1, <6>2
        <5>5. WalkEnds(Walk(s, n), s, t, d, hi) => WalkEnds(Walk(s, n + 1), s, t, d, hi)
          BY <4>4 DEF WalkEnds
        <5> QED
          BY <2>1, <4>4, <4>9, <5>3, <5>4, <5>5
      <4>11. CASE ~WalkSettled(Walk(s, n + 1), p, s, t, d, hi)
        <5>1. p = n /\ ~WalkEnds(Walk(s, n), s, t, d, hi)
          BY <1>2, <4>4, <4>11 DEF WalkSettled, WalkEnds
        <5>2. VisitAlike(Walk(s, n), Walk(t, m), p, d)
          <6> SUFFICES ASSUME NEW q \in Int, q <= p
                       PROVE  q \in Walk(s, n).at <=> q + d \in Walk(t, m).at
            BY DEF VisitAlike
          <6>1. CASE q = n
            BY <2>1, <4>4, <4>9, <6>1
          <6>2. CASE q < n
            <7>1. ~(q >= n) /\ ~(q + d >= m)
              BY <2>1, <6>2
            <7> QED
              BY <2>6, <2>7, <7>1
          <6> QED
            BY <5>1, <6>1, <6>2
        <5> QED
          BY <2>1, <5>1, <5>2
      <4> QED
        BY <4>10, <4>11
    <3> QED
      BY <2>8, <3>0, <3>2, <3>3, <3>4, <3>5
  <2> QED
    BY <1>2, <2>9, <2>10
<1>3. lo..(hi + 1) \subseteq T
  <2>1. ASSUME NEW n \in lo..(hi + 1), \A j \in (n + 1)..(hi + 1) : j \in T PROVE n \in T
    <3>1. n \in Nat /\ n >= lo /\ n <= hi + 1
      BY <1>1
    <3> HIDE DEF Alike
    <3> QED
      BY <1>2, <2>1, <3>1
  <2>2. lo \in Int /\ hi + 1 \in Int
    BY <1>1
  <2> HIDE DEF T
  <2> QED
    BY <2>1, <2>2, BackwardInductive
<1>4. i \in T
  <2>1. i \in lo..(hi + 1)
    OBVIOUS
  <2> QED
    BY <1>3, <2>1
<1> QED
  BY <1>4

-----------------------------------------------------------------------------
(***************************************************************************)
(* What a scan looks for, as the set of the positions where it stands.     *)
(***************************************************************************)
StopCode(w) == IF w.malformed THEN Malformed ELSE Incomplete

NonBlanks(s, i) == {k \in i..Len(s) : k \in Walk(s, i).at /\ s[k] \notin {"sp", "nl"}}

Closers(s, i) ==
  {k \in i..Len(s) : k \in Walk(s, i).at /\ s[k] = ")" /\ Balance(s, Walk(s, i).at, k) = -1}

Chars(s, i, c) == {k \in i..Len(s) : k \in Walk(s, i).at /\ s[k] = c}

AtTables(s) ==
  {k \in 1..Len(s) : k \in Walk(s, 1).at /\ (/\ Word(s, k, <<"@", "d">>)
                                             /\ k + 2 <= Len(s)
                                             /\ ~IsIdentPart(s[k + 2]))}

\* The first position of A, or what the walk from i stops with.
FirstOf(s, i, A) == TheOne(First(A), StopCode(Walk(s, i)))

\* The searches of the scanner, as the first of a set of visited bytes.
LEMMA ScansAreFirsts ==
  ASSUME NEW s, NEW i
  PROVE  /\ FindNextRow(s) = RowAt(s, FirstOf(s, 1, NonBlanks(s, 1)))
         /\ FindMatchingParen(s, i) = FirstOf(s, i + 1, Closers(s, i + 1))
         /\ FindAtTable(s) = FirstOf(s, 1, AtTables(s))
         /\ \A c : FindNextChar(s, i, c) = FirstOf(s, i, Chars(s, i, c))
<1>1. FindNextRow(s) = RowAt(s, FirstOf(s, 1, NonBlanks(s, 1)))
  BY DEF FindNextRow, Seek, SeekOn, FirstAt, FirstOf, NonBlanks, StopCode
<1>2. FindMatchingParen(s, i) = FirstOf(s, i + 1, Closers(s, i + 1))
  BY DEF FindMatchingParen, SeekUnopened, SeekOn, FirstAt, FirstOf, Closers, StopCode
<1>3. FindAtTable(s) = FirstOf(s, 1, AtTables(s))
  BY DEF FindAtTable, Seek, SeekOn, FirstAt, FirstOf, AtTables, StopCode
<1>4. \A c : FindNextChar(s, i, c) = FirstOf(s, i, Chars(s, i, c))
  BY DEF FindNextChar, Seek, SeekOn, FirstAt, FirstOf, Chars, StopCode
<1> QED
  BY <1>1, <1>2, <1>3, <1>4

\* The positions of A up to p are those of B that are d further on.
Alike(A, B, p, d) == \A q \in Int : q <= p => (q \in A <=> q + d \in B)

IsLeast(p, A) == p \in A /\ \A q \in A : p <= q

\* What FirstAt picks of a set that has it is the least of the set.
LEMMA FirstIsLeast ==
  ASSUME NEW A, A \subseteq Nat, NEW none, NEW x, x = TheOne(First(A), none), x \in A
  PROVE  IsLeast(x, A) /\ x \in Nat
<1>1. A # {}
  OBVIOUS
<1>2. x \in A /\ \A q \in A : x <= q
  BY <1>1, LeastWhich
<1> QED
  BY <1>2 DEF IsLeast

\* The least position of a set, with the set's positions known up to there.
LEMMA LeastAlike ==
  ASSUME NEW A, A \subseteq Nat, NEW B, B \subseteq Nat, NEW d \in Int,
         NEW p \in Nat, IsLeast(p, A), Alike(A, B, p, d)
  PROVE  IsLeast(p + d, B)
<1>1. p \in A /\ \A q \in A : p <= q
  BY DEF IsLeast
<1>2. p + d \in B
  BY <1>1 DEF Alike
<1>3. ASSUME NEW q \in B PROVE p + d <= q
  <2>1. PICK r \in Int : r = q - d
    OBVIOUS
  <2>2. r <= p => r \in A
    BY <2>1 DEF Alike
  <2>3. ~(r < p)
    BY <1>1, <2>2
  <2> QED
    BY <1>1, <2>1, <2>3
<1> QED
  BY <1>2, <1>3 DEF IsLeast

\* A set that is alike an empty one everywhere is empty.
LEMMA EmptyAlike ==
  ASSUME NEW A, A = {}, NEW B, B \subseteq Nat, NEW d \in Int
  PROVE  (\A p \in Int : Alike(A, B, p, d)) => B = {}
<1> SUFFICES ASSUME \A p \in Int : Alike(A, B, p, d), NEW q \in B PROVE FALSE
  OBVIOUS
<1>1. PICK r \in Int : r = q - d
  OBVIOUS
<1>2. r + d = q /\ r <= r
  BY <1>1
<1>3. Alike(A, B, r, d)
  OBVIOUS
<1> QED
  BY <1>2, <1>3 DEF Alike

\* The positions of A and B are the same wherever the walk of s from i has been
\* decided.
AlikeOn(A, B, i, s, t, d, hi) ==
  \A q \in Int : WalkSettled(Walk(s, i), q, s, t, d, hi) => Alike(A, B, q, d)

IsFirstOf(p, s, i, A) == p = FirstOf(s, i, A)

FirstMoved(p, t, i, d, B) == FirstOf(t, i + d, B) = Moved(p, d)

VisitedSets(A, B, s, i) == A \subseteq Walk(s, i).at /\ B \subseteq Nat

\* The same positions of two walks, the same scan.
LEMMA FirstMatches ==
  ASSUME NEW s \in Seq(ByteClass), NEW t \in Seq(ByteClass),
         NEW d \in Int, NEW lo \in Nat, NEW hi \in Nat, Matches(s, t, d, lo, hi),
         NEW i \in Nat, i >= lo, i <= hi + 1,
         NEW A, NEW B, VisitedSets(A, B, s, i),
         NEW p \in Int, IsFirstOf(p, s, i, A),
         WalkSettled(Walk(s, i), p, s, t, d, hi), p > 0 \/ WalkEnds(Walk(s, i), s, t, d, hi),
         AlikeOn(A, B, i, s, t, d, hi)
  PROVE  FirstMoved(p, t, i, d, B)
<1>a. A \subseteq Walk(s, i).at /\ B \subseteq Nat
  BY DEF VisitedSets
<1>0. PICK ls \in Nat : ls = Len(s)
  OBVIOUS
<1>1. i \in 1..(Len(s) + 1)
  <2>1. 1 <= lo /\ hi <= ls
    BY <1>0 DEF Matches
  <2> QED
    BY <1>0, <2>1
<1>2. \A q \in A : q \in Nat /\ q > 0
  <2>1. ASSUME NEW q \in A PROVE q \in i..ls
    BY <1>0, <1>1, <1>a, WalkVisits
  <2>2. i > 0
    BY <1>1
  <2>3. ASSUME NEW q \in i..ls PROVE q \in Nat /\ q > 0
    BY <2>2
  <2> QED
    BY <2>1, <2>3
<1>3. A \subseteq Nat
  BY <1>2
<1>4. CASE p > 0
  <2>1. p \in A
    <3>1. p # Malformed /\ p # Incomplete
      BY <1>4 DEF Malformed, Incomplete
    <3>2. p # StopCode(Walk(s, i))
      BY <3>1 DEF StopCode
    <3> QED
      BY <1>3, <3>2, LeastWhich DEF FirstOf, IsFirstOf
  <2>2. Alike(A, B, p, d)
    BY DEF AlikeOn
  <2>4. PICK none, other : none = StopCode(Walk(s, i)) /\ other = StopCode(Walk(t, i + d))
    OBVIOUS
  <2>5. p = TheOne(First(A), none)
    BY <2>4 DEF FirstOf, IsFirstOf
  <2>6. TheOne(First(B), other) = p + d
    <3>1. IsLeast(p, A) /\ p \in Nat
      BY <1>3, <2>1, <2>5, FirstIsLeast
    <3>2. IsLeast(p + d, B)
      BY <1>3, <1>a, <2>2, <3>1, LeastAlike
    <3>3. PICK x : x = p + d
      OBVIOUS
    <3>4. x \in B /\ \A q \in B : x <= q
      BY <3>2, <3>3 DEF IsLeast
    <3>5. TheOne(First(B), other) = x
      BY <1>a, <3>4, LeastIs
    <3> QED
      BY <3>3, <3>5
  <2>3. TheOne(First(B), StopCode(Walk(t, i + d))) = p + d
    BY <2>4, <2>6
  <2> QED
    BY <1>4, <2>3 DEF FirstOf, Moved, FirstMoved
<1>5. CASE p <= 0
  <2>1. WalkEnds(Walk(s, i), s, t, d, hi)
    BY <1>5
  <2>2. \A q \in Int : WalkSettled(Walk(s, i), q, s, t, d, hi)
    BY <2>1 DEF WalkEnds, WalkSettled
  <2>3. A = {} /\ p = StopCode(Walk(s, i))
    <3>1. PICK none : none = StopCode(Walk(s, i)) /\ p = TheOne(First(A), none)
      BY DEF FirstOf, IsFirstOf
    <3>2. p \notin A
      <4>1. p \in A => p > 0
        BY <1>2
      <4> QED
        BY <1>5, <4>1
    <3>3. \/ A = {} /\ TheOne(First(A), none) = none
          \/ TheOne(First(A), none) \in A
      BY <1>3, LeastWhich
    <3> QED
      BY <3>1, <3>2, <3>3
  <2>4. B = {}
    <3>1. \A q \in Int : Alike(A, B, q, d)
      BY <2>2 DEF AlikeOn
    <3> QED
      BY <1>a, <2>3, <3>1, EmptyAlike
  <2>5. Walk(t, i + d).malformed <=> Walk(s, i).malformed
    BY <2>1, <2>2, WalkMatches
  <2>6. FirstOf(t, i + d, B) = StopCode(Walk(t, i + d))
    BY <2>4 DEF FirstOf, TheOne, First
  <2>7. StopCode(Walk(t, i + d)) = StopCode(Walk(s, i))
    BY <2>5 DEF StopCode
  <2> QED
    BY <1>5, <2>3, <2>6, <2>7 DEF Moved, FirstMoved
<1> QED
  BY <1>4, <1>5

\* The walks of s from i and of t from i + d agree on the position q of s.
AlikeAt(q, s, t, i, d, hi) ==
  /\ q \in Walk(s, i).at <=> q + d \in Walk(t, i + d).at
  /\ q \in Walk(s, i).at =>
       /\ q \in i..Len(s) /\ q <= hi /\ q + d \in (i + d)..Len(t)
       /\ t[q + d] = s[q]

\* Where both walks are known, what is visited is the same bytes.
LEMMA VisitedAlike ==
  ASSUME NEW s \in Seq(ByteClass), NEW t \in Seq(ByteClass),
         NEW d \in Int, NEW lo \in Nat, NEW hi \in Nat, Matches(s, t, d, lo, hi),
         NEW i \in Nat, i >= lo, i <= hi + 1,
         NEW p \in Int, WalkSettled(Walk(s, i), p, s, t, d, hi),
         NEW q \in Int, q <= p
  PROVE  AlikeAt(q, s, t, i, d, hi)
<1>0. PICK ls \in Nat, lt \in Nat : ls = Len(s) /\ lt = Len(t)
  OBVIOUS
<1>1. 1 <= lo /\ lo <= hi + 1 /\ hi <= ls /\ 1 <= lo + d /\ hi + d <= lt
  BY <1>0 DEF Matches
<1>2. VisitAlike(Walk(s, i), Walk(t, i + d), p, d)
  BY WalkMatches
<1>3. q \in Walk(s, i).at <=> q + d \in Walk(t, i + d).at
  BY <1>2 DEF VisitAlike
<1>4. i \in 1..(Len(s) + 1) /\ i + d \in 1..(Len(t) + 1)
  BY <1>0, <1>1
<1>5. ASSUME q \in Walk(s, i).at
      PROVE  q \in i..Len(s) /\ q <= hi /\ q + d \in (i + d)..Len(t) /\ t[q + d] = s[q]
  <2>1. q \in i..Len(s)
    BY <1>4, <1>5, WalkVisits
  <2>2. q <= hi
    <3>1. q >= i /\ q <= ls
      BY <1>0, <2>1
    <3>2. p <= hi \/ hi = ls
      BY <1>0 DEF WalkSettled, EndTogether
    <3> QED
      BY <3>1, <3>2
  <2>3. q \in lo..hi
    BY <2>1, <2>2
  <2>4. t[q + d] = s[q]
    BY <2>3 DEF Matches
  <2>5. q + d \in (i + d)..lt
    BY <1>1, <2>1, <2>2
  <2> QED
    BY <1>0, <2>1, <2>2, <2>4, <2>5
<1> QED
  BY <1>3, <1>5 DEF AlikeAt

\* Two texts with a part in common have the same visited bytes there that are not blank.
LEMMA NonBlanksAlike ==
  ASSUME NEW s \in Seq(ByteClass), NEW t \in Seq(ByteClass),
         NEW d \in Int, NEW lo \in Nat, NEW hi \in Nat, Matches(s, t, d, lo, hi),
         NEW i \in Nat, i >= lo, i <= hi + 1
  PROVE  AlikeOn(NonBlanks(s, i), NonBlanks(t, i + d), i, s, t, d, hi)
<1> SUFFICES ASSUME NEW p \in Int, WalkSettled(Walk(s, i), p, s, t, d, hi),
                    NEW q \in Int, q <= p
             PROVE  q \in NonBlanks(s, i) <=> q + d \in NonBlanks(t, i + d)
  BY DEF AlikeOn, Alike
<1>1. AlikeAt(q, s, t, i, d, hi)
  BY VisitedAlike
<1> QED
  BY <1>1 DEF NonBlanks, AlikeAt

\* The same of the visited bytes of one class.
LEMMA CharsAlike ==
  ASSUME NEW s \in Seq(ByteClass), NEW t \in Seq(ByteClass),
         NEW d \in Int, NEW lo \in Nat, NEW hi \in Nat, Matches(s, t, d, lo, hi),
         NEW i \in Nat, i >= lo, i <= hi + 1, NEW c
  PROVE  AlikeOn(Chars(s, i, c), Chars(t, i + d, c), i, s, t, d, hi)
<1> SUFFICES ASSUME NEW p \in Int, WalkSettled(Walk(s, i), p, s, t, d, hi),
                    NEW q \in Int, q <= p
             PROVE  q \in Chars(s, i, c) <=> q + d \in Chars(t, i + d, c)
  BY DEF AlikeOn, Alike
<1>1. AlikeAt(q, s, t, i, d, hi)
  BY VisitedAlike
<1> QED
  BY <1>1 DEF Chars, AlikeAt

\* Two sets of positions, one d further on than the other, are of one size.
LEMMA ShiftedCardinality ==
  ASSUME NEW A, A \subseteq Int, IsFiniteSet(A), NEW B, B \subseteq Int, NEW d \in Int,
         \A q \in Int : q \in A <=> q + d \in B
  PROVE  Cardinality(B) = Cardinality(A)
<1>1. PICK f : f = [q \in A |-> q + d]
  OBVIOUS
<1>2. ASSUME NEW b \in B PROVE \E a \in A : f[a] = b
  <2>1. PICK r \in Int : r = b - d
    OBVIOUS
  <2>2. r + d = b
    BY <2>1
  <2>3. r \in A
    BY <2>2
  <2> QED
    BY <1>1, <2>2, <2>3
<1>3. f \in Bijection(A, B)
  <2>1. f \in [A -> B]
    BY <1>1
  <2>2. \A a, b \in A : f[a] = f[b] => a = b
    BY <1>1
  <2> QED
    BY <1>2, <2>1, <2>2 DEF Bijection, Injection, Surjection, IsInjective
<1>4. ExistsBijection(A, B)
  BY <1>3 DEF ExistsBijection
<1> QED
  BY <1>4, FS_Bijection

BracketsTo(s, at, i, c) == {k \in at : k <= i /\ s[k] = c}

\* The nesting, as a difference of two cardinalities.
LEMMA BalanceIs ==
  ASSUME NEW s, NEW at, NEW i
  PROVE  Balance(s, at, i) = Cardinality(BracketsTo(s, at, i, "("))
                               - Cardinality(BracketsTo(s, at, i, ")"))
  BY DEF Balance, BracketsTo

\* Up to q, s has as many visited c as t has, d places further on.
SameBrackets(s, t, i, d, q, c) ==
  Cardinality(BracketsTo(t, Walk(t, i + d).at, q + d, c))
    = Cardinality(BracketsTo(s, Walk(s, i).at, q, c))

\* The common part has as many brackets visited in one text as in the other.
LEMMA BracketsAlike ==
  ASSUME NEW s \in Seq(ByteClass), NEW t \in Seq(ByteClass),
         NEW d \in Int, NEW lo \in Nat, NEW hi \in Nat, Matches(s, t, d, lo, hi),
         NEW i \in Nat, i >= lo, i <= hi + 1,
         NEW p \in Int, WalkSettled(Walk(s, i), p, s, t, d, hi),
         NEW q \in Int, q <= p, NEW c
  PROVE  SameBrackets(s, t, i, d, q, c)
<1>0. PICK ls \in Nat, lt \in Nat : ls = Len(s) /\ lt = Len(t)
  OBVIOUS
<1>1. 1 <= lo /\ lo <= hi + 1 /\ hi <= ls /\ 1 <= lo + d /\ hi + d <= lt
  BY <1>0 DEF Matches
<1>2. i \in 1..(Len(s) + 1) /\ i + d \in 1..(Len(t) + 1)
  BY <1>0, <1>1
<1>3. PICK A, B : /\ A = BracketsTo(s, Walk(s, i).at, q, c)
                  /\ B = BracketsTo(t, Walk(t, i + d).at, q + d, c)
  OBVIOUS
<1>4. A \subseteq 1..ls /\ B \subseteq 1..lt
  <2>1. Walk(s, i) \in Walks(s) /\ Walk(t, i + d) \in Walks(t)
    BY <1>2, WalkStep
  <2>2. Walk(s, i).at \subseteq 1..ls /\ Walk(t, i + d).at \subseteq 1..lt
    BY <1>0, <2>1 DEF Walks
  <2> QED
    BY <1>3, <2>2 DEF BracketsTo
<1>5. ASSUME NEW r \in Int PROVE r \in A <=> r + d \in B
  <2>1. CASE r <= q
    <3>1. r <= p
      BY <2>1
    <3>2. AlikeAt(r, s, t, i, d, hi)
      BY <3>1, VisitedAlike
    <3> QED
      BY <1>3, <2>1, <3>2 DEF BracketsTo, AlikeAt
  <2>2. CASE r > q
    BY <1>3, <2>2 DEF BracketsTo
  <2> QED
    BY <2>1, <2>2
<1>6. IsFiniteSet(A)
  <2>1. PICK I : I = 1..ls
    OBVIOUS
  <2>2. IsFiniteSet(I) /\ A \in SUBSET I
    BY <1>4, <2>1, FS_Interval
  <2> QED
    BY <2>2, FS_Subset
<1>7. A \subseteq Int /\ B \subseteq Int
  BY <1>4
<1>8. Cardinality(B) = Cardinality(A)
  BY <1>5, <1>6, <1>7, ShiftedCardinality
<1> QED
  BY <1>3, <1>8 DEF SameBrackets

\* So the parentheses that close the first are the same in both.
LEMMA ClosersAlike ==
  ASSUME NEW s \in Seq(ByteClass), NEW t \in Seq(ByteClass),
         NEW d \in Int, NEW lo \in Nat, NEW hi \in Nat, Matches(s, t, d, lo, hi),
         NEW i \in Nat, i >= lo, i <= hi + 1
  PROVE  AlikeOn(Closers(s, i), Closers(t, i + d), i, s, t, d, hi)
<1> SUFFICES ASSUME NEW p \in Int, WalkSettled(Walk(s, i), p, s, t, d, hi),
                    NEW q \in Int, q <= p
             PROVE  q \in Closers(s, i) <=> q + d \in Closers(t, i + d)
  BY DEF AlikeOn, Alike
<1>1. AlikeAt(q, s, t, i, d, hi)
  BY VisitedAlike
<1>2. SameBrackets(s, t, i, d, q, "(") /\ SameBrackets(s, t, i, d, q, ")")
  BY BracketsAlike
<1>3. Balance(t, Walk(t, i + d).at, q + d) = Balance(s, Walk(s, i).at, q)
  BY <1>2, BalanceIs DEF SameBrackets
<1> QED
  BY <1>1, <1>3 DEF Closers, AlikeAt

-----------------------------------------------------------------------------
(***************************************************************************)
(* What the scanner has found does not change with the bytes that follow.  *)
(***************************************************************************)
Extends(t, s) == Len(s) <= Len(t) /\ \A k \in 1..Len(s) : t[k] = s[k]

\* The first of a set of visited bytes is one of them, or is the code the walk stopped
\* with.
LEMMA FirstRange ==
  ASSUME NEW s \in Seq(ByteClass), NEW i \in 1..(Len(s) + 1),
         NEW A, A \subseteq Walk(s, i).at, NEW p, p = FirstOf(s, i, A)
  PROVE  /\ p \in Int
         /\ p > 0 => IsLeast(p, A) /\ p \in i..Len(s)
         /\ p <= 0 => p = StopCode(Walk(s, i)) /\ A = {}
<1>a. PICK none : none = StopCode(Walk(s, i))
  OBVIOUS
<1>0. PICK ls \in Nat : ls = Len(s) /\ none = StopCode(Walk(s, i))
  BY <1>a
<1>1. \A q \in A : q \in i..ls
  BY <1>0, WalkVisits
<1>2. A \subseteq Nat /\ \A q \in A : q > 0
  BY <1>1
<1>3. none \in Int /\ none <= 0
  BY <1>0 DEF StopCode, Malformed, Incomplete
<1>4. p = TheOne(First(A), none)
  BY <1>0 DEF FirstOf
<1>5. CASE A = {}
  <2>1. p = none
    BY <1>4, <1>5 DEF TheOne, First
  <2> QED
    BY <1>0, <1>3, <1>5, <2>1
<1>6. CASE A # {}
  <2>1. p \in A
    BY <1>2, <1>4, <1>6, LeastWhich
  <2>2. IsLeast(p, A)
    BY <1>2, <1>4, <2>1, FirstIsLeast
  <2> QED
    BY <1>0, <1>1, <1>2, <2>1, <2>2
<1> QED
  BY <1>5, <1>6

\* What the walk from i finds at p, not at a byte that may open something with
\* the one after it, it finds there when more bytes follow.
LEMMA FirstIsFinal ==
  ASSUME NEW s \in Seq(ByteClass), NEW t \in Seq(ByteClass), Extends(t, s),
         NEW i \in 1..(Len(s) + 1),
         NEW A, A \subseteq Walk(s, i).at, NEW B, B \subseteq Nat,
         NEW p \in Nat, p > 0, p = FirstOf(s, i, A), s[p] \notin {"/", "b"},
         AlikeOn(A, B, i, s, t, 0, Len(s))
  PROVE  FirstOf(t, i, B) = p
<1>0. PICK ls \in Nat, lt \in Nat, d \in Int, lo \in Nat :
              ls = Len(s) /\ lt = Len(t) /\ d = 0 /\ lo = 1
  OBVIOUS
<1>1. Matches(s, t, d, lo, ls)
  BY <1>0 DEF Matches, Extends
<1>2. p \in A /\ p \in i..ls
  BY <1>0, FirstRange DEF IsLeast
<1>3. WalkSettled(Walk(s, i), p, s, t, d, ls)
  BY <1>2 DEF WalkSettled
<1>4. AlikeOn(A, B, i, s, t, d, ls)
  BY <1>0
<1>5. FirstMoved(p, t, i, d, B)
  <2>1. PICK j \in Nat : j = i /\ j >= lo /\ j <= ls + 1
    BY <1>0
  <2>2. IsFirstOf(p, s, i, A)
    BY DEF IsFirstOf
  <2>3. /\ VisitedSets(A, B, s, j)
        /\ IsFirstOf(p, s, j, A)
        /\ WalkSettled(Walk(s, j), p, s, t, d, ls)
        /\ AlikeOn(A, B, j, s, t, d, ls)
    BY <1>3, <1>4, <2>1, <2>2 DEF VisitedSets
  <2>4. FirstMoved(p, t, j, d, B)
    BY <1>1, <2>1, <2>3, FirstMatches
  <2> QED
    BY <2>1, <2>4
<1>6. i + d = i /\ Moved(p, d) = p
  BY <1>0 DEF Moved
<1> QED
  BY <1>5, <1>6 DEF FirstMoved

\* A row that find_next_row has found, or the end of the rows, is found in every longer
\* text.
LEMMA RowIsFinal ==
  ASSUME NEW s \in Seq(ByteClass), NEW t \in Seq(ByteClass), Extends(t, s),
         FindNextRow(s).kind \in {"found", "done"}
  PROVE  FindNextRow(t) = FindNextRow(s)
<1>0. PICK ls \in Nat, lt \in Nat : ls = Len(s) /\ lt = Len(t)
  OBVIOUS
<1>1. ls <= lt /\ \A k \in 1..ls : t[k] = s[k]
  BY <1>0 DEF Extends
<1>m. Matches(s, t, 0, 1, ls)
  BY <1>0 DEF Matches, Extends
<1>2. PICK p : p = FirstOf(s, 1, NonBlanks(s, 1))
  OBVIOUS
<1>3. FindNextRow(s) = RowAt(s, p)
  BY <1>2, ScansAreFirsts
<1>4. p > 0 /\ p \in 1..ls /\ s[p] \in {"@", "("}
  <2>1. p \in Int /\ (p > 0 => p \in 1..ls) /\ (p <= 0 => p \in {Incomplete, Malformed})
    <3>1. 1 \in 1..(Len(s) + 1) /\ NonBlanks(s, 1) \subseteq Walk(s, 1).at
      BY <1>0 DEF NonBlanks
    <3>2. /\ p \in Int
          /\ p > 0 => p \in 1..Len(s)
          /\ p <= 0 => p = StopCode(Walk(s, 1))
      BY <1>2, <3>1, FirstRange
    <3> QED
      BY <1>0, <3>2 DEF StopCode
  <2>2. RowAt(s, p).kind \in {"found", "done"}
    BY <1>3
  <2>3. p = Incomplete => RowAt(s, p).kind = "needMore"
    BY DEF RowAt, FindRow, Malformed, Incomplete
  <2>4. p = Malformed => RowAt(s, p).kind = "error"
    BY DEF RowAt, FindRow, Malformed, Incomplete
  <2>5. p > 0
    BY <2>1, <2>2, <2>3, <2>4
  <2>6. s[p] \notin {"@", "("} => RowAt(s, p).kind = "error"
    BY <2>5 DEF RowAt, FindRow, Malformed, Incomplete
  <2> QED
    BY <2>1, <2>2, <2>5, <2>6
<1>5. FirstOf(t, 1, NonBlanks(t, 1)) = p
  <2>1. AlikeOn(NonBlanks(s, 1), NonBlanks(t, 1 + 0), 1, s, t, 0, ls)
    BY <1>0, <1>m, NonBlanksAlike
  <2>2. AlikeOn(NonBlanks(s, 1), NonBlanks(t, 1), 1, s, t, 0, Len(s))
    BY <1>0, <2>1
  <2>3. 1 \in 1..(Len(s) + 1) /\ NonBlanks(s, 1) \subseteq Walk(s, 1).at
    BY <1>0 DEF NonBlanks
  <2>4. NonBlanks(t, 1) \subseteq Nat
    BY <1>0 DEF NonBlanks
  <2>5. p \in Nat /\ s[p] \notin {"/", "b"}
    BY <1>4
  <2> QED
    BY <1>2, <1>4, <2>2, <2>3, <2>4, <2>5, FirstIsFinal
<1>6. FindNextRow(t) = RowAt(t, p)
  BY <1>5, ScansAreFirsts
<1>7. t[p] = s[p]
  BY <1>1, <1>4
<1>8. p # Incomplete /\ p # Malformed
  BY <1>4 DEF Incomplete, Malformed
<1>9. CASE s[p] = "@"
  BY <1>3, <1>4, <1>6, <1>7, <1>8, <1>9 DEF RowAt
<1>10. CASE s[p] = "("
  <2>1. PICK q : q = FindMatchingParen(s, p)
    OBVIOUS
  <2>2. RowAt(s, p) = RowBetween(p, q)
    BY <1>4, <1>8, <1>10, <2>1 DEF RowAt
  <2>3. PICK j \in 1..(ls + 1) : j = p + 1
    BY <1>4
  <2>4. q = FirstOf(s, j, Closers(s, j))
    BY <2>1, <2>3, ScansAreFirsts
  <2>5. q > 0 /\ q \in j..ls /\ s[q] = ")"
    <3>1. Closers(s, j) \subseteq Walk(s, j).at
      BY DEF Closers
    <3>2. /\ q \in Int
          /\ q > 0 => q \in Closers(s, j) /\ q \in j..Len(s)
          /\ q <= 0 => q = StopCode(Walk(s, j))
      BY <1>0, <2>3, <2>4, <3>1, FirstRange DEF IsLeast
    <3>3. RowBetween(p, q).kind \in {"found", "done"}
      BY <1>3, <2>2
    <3>4. q = Incomplete => RowBetween(p, q).kind = "inRow"
      BY DEF RowBetween, FindRow, Malformed, Incomplete
    <3>5. q = Malformed => RowBetween(p, q).kind = "error"
      BY DEF RowBetween, FindRow, Malformed, Incomplete
    <3>6. q > 0
      BY <3>2, <3>3, <3>4, <3>5 DEF StopCode
    <3> QED
      BY <1>0, <3>2, <3>6 DEF Closers
  <2>6. FirstOf(t, j, Closers(t, j)) = q
    <3>1. j >= 1 /\ j <= ls + 1 /\ j \in Nat /\ j + 0 = j
      BY <2>3
    <3>2. AlikeOn(Closers(s, j), Closers(t, j + 0), j, s, t, 0, ls)
      BY <1>0, <1>m, <3>1, ClosersAlike
    <3>3. AlikeOn(Closers(s, j), Closers(t, j), j, s, t, 0, Len(s))
      BY <1>0, <3>1, <3>2
    <3>4. Closers(s, j) \subseteq Walk(s, j).at
      BY DEF Closers
    <3>5. Closers(t, j) \subseteq Nat
      BY <1>0, <3>1 DEF Closers
    <3>6. q \in Nat /\ s[q] \notin {"/", "b"} /\ j \in 1..(Len(s) + 1)
      BY <1>0, <2>5, <3>1
    <3> QED
      BY <2>4, <2>5, <3>3, <3>4, <3>5, <3>6, FirstIsFinal
  <2>7. FindMatchingParen(t, p) = q
    BY <2>3, <2>6, ScansAreFirsts
  <2>8. RowAt(t, p) = RowBetween(p, q)
    BY <1>4, <1>7, <1>8, <1>10, <2>7 DEF RowAt
  <2> QED
    BY <1>3, <1>6, <2>2, <2>8
<1> QED
  BY <1>4, <1>9, <1>10

-----------------------------------------------------------------------------
(***************************************************************************)
(* The lexer, a token at a time.                                           *)
(***************************************************************************)

\* The position after the identifier bytes from i on.
IdentEnd(s, i) == FirstAt(s, i, LAMBDA k : ~IsIdentPart(s[k]), Len(s) + 1)

\* IdentEnd is the first place from i on with no byte of an identifier.
LEMMA IdentEndIs ==
  ASSUME NEW s \in Seq(ByteClass), NEW i \in 1..(Len(s) + 1)
  PROVE  /\ IdentEnd(s, i) \in i..(Len(s) + 1)
         /\ IdentEnd(s, i) <= Len(s) => ~IsIdentPart(s[IdentEnd(s, i)])
         /\ \A k \in i..(IdentEnd(s, i) - 1) : IsIdentPart(s[k])
<1> DEFINE S == {k \in i..Len(s) : ~IsIdentPart(s[k])}
<1>1. IdentEnd(s, i) = TheOne(First(S), Len(s) + 1)
  BY DEF IdentEnd, FirstAt
<1>2. S \subseteq Nat
  OBVIOUS
<1>3. PICK x, n : x = IdentEnd(s, i) /\ n = Len(s) + 1
  OBVIOUS
<1>4. \/ S = {} /\ x = Len(s) + 1
      \/ x \in S /\ \A q \in S : x <= q
  <2> HIDE DEF S
  <2>1. x = TheOne(First(S), n)
    BY <1>1, <1>3
  <2>2. \/ S = {} /\ x = n
        \/ x \in S /\ \A q \in S : x <= q
    BY <1>2, <2>1, LeastWhich
  <2> QED
    BY <1>3, <2>2
<1> QED
  BY <1>3, <1>4

\* The bytes that are a token each.
Punctuation == {"(", ")", ","}

\* The bytes and the kinds of tokens that are not punctuation.
Others == {"nl", "sp", "#", "/", "quote", "b", "@", "x", "d", "*", "esc", "bad",
           "Eof", "Blank", "String", "Bytes", "Ident", "Illegal", "AtDataset", "AtDirective"}

\* Parentheses are punctuation, and no punctuation is among the other bytes.
LEMMA PunctuationIs ==
  /\ "(" \in Punctuation /\ ")" \in Punctuation
  /\ \A c \in Punctuation : c \notin Others
<1>1. "(" \in Punctuation /\ ")" \in Punctuation
  BY Zenon DEF Punctuation
<1>2. ASSUME NEW c \in Punctuation PROVE c \notin Others
  <2>1. c = "(" \/ c = ")" \/ c = ","
    BY Zenon DEF Punctuation
  <2>2. CASE c = "("
    BY <2>2 DEF Others
  <2>3. CASE c = ")"
    BY <2>3 DEF Others
  <2>4. CASE c = ","
    BY <2>4, Zenon DEF Others
  <2> QED
    BY <2>1, <2>2, <2>3, <2>4, Zenon
<1> QED
  BY <1>1, <1>2

LEMMA BytesAre == ByteClass \subseteq Punctuation \cup Others
  BY Zenon DEF ByteClass, Punctuation, Others

\* The parts of a token.
LEMMA TokenFields ==
  ASSUME NEW kind, NEW from, NEW to
  PROVE  /\ Token(kind, from, to).kind = kind
         /\ Token(kind, from, to).from = from
         /\ Token(kind, from, to).to = to
  BY DEF Token

\* NextToken, by the byte the token starts with.
LEMMA NextTokenIs ==
  ASSUME NEW s \in Seq(ByteClass), NEW i \in 1..Len(s)
  PROVE  /\ s[i] \in {"nl", "sp"} => NextToken(s, i) = Token("Blank", i, i + 1)
         /\ s[i] = "#" => NextToken(s, i) = Token("Blank", i, LineComment(s, i))
         /\ s[i] = "/" /\ At(s, i + 1, "/")
              => NextToken(s, i) = Token("Blank", i, LineComment(s, i))
         /\ s[i] = "/" /\ At(s, i + 1, "*")
              => NextToken(s, i) = Literal(s, i, "Blank", AfterWord(s, i + 2, CommentEnd))
         /\ s[i] = "quote" /\ Word(s, i, Triple)
              => NextToken(s, i) = Literal(s, i, "String", AfterWord(s, i + 3, Triple))
         /\ s[i] = "quote" /\ ~Word(s, i, Triple)
              => NextToken(s, i) = Literal(s, i, "String", Quoted(s, i + 1, Escapes))
         /\ s[i] = "b" /\ At(s, i + 1, "quote") => NextToken(s, i) = LexBytes(s, i)
         /\ s[i] \in Punctuation => NextToken(s, i) = Token(s[i], i, i + 1)
         /\ s[i] = "@" => NextToken(s, i) = LexDirective(s, i)
         /\ IsIdentPart(s[i]) /\ ~(s[i] = "b" /\ At(s, i + 1, "quote"))
              => NextToken(s, i) = Token("Ident", i, IdentEnd(s, i))
         /\ s[i] \in {"*", "esc", "bad"} => NextToken(s, i) = Token("Illegal", i, Len(s) + 1)
         /\ s[i] = "/" /\ ~At(s, i + 1, "/") /\ ~At(s, i + 1, "*")
              => NextToken(s, i) = Token("Illegal", i, Len(s) + 1)
<1>0. PICK n \in Nat : n = Len(s)
  OBVIOUS
<1>1. Word(s, i, Triple) => s[i] = "quote"
  BY WordOfThree
<1>2. ASSUME NEW a, NEW b
      PROVE  Word(s, i, <<a, b>>) <=> s[i] = a /\ At(s, i + 1, b)
  <2>1. i \in 1..(Len(s) - 1) <=> i + 1 \in 1..Len(s)
    BY <1>0
  <2>2. Word(s, i, <<a, b>>) <=> i \in 1..(Len(s) - 1) /\ s[i] = a /\ s[i + 1] = b
    BY WordOfTwo
  <2> QED
    BY <2>1, <2>2 DEF At
<1>3. \A c : At(s, i, c) <=> s[i] = c
  BY DEF At
<1>4. /\ TripleQuoted(s, i + 3) = AfterWord(s, i + 3, Triple)
      /\ BlockComment(s, i + 2) = AfterWord(s, i + 2, CommentEnd)
  BY <1>0, ScansForWords DEF CommentEnd
<1> DEFINE eof == Token("Eof", i, i)
           blank == Token("Blank", i, i + 1)
           line == Token("Blank", i, LineComment(s, i))
           block == Literal(s, i, "Blank", BlockComment(s, i + 2))
           triple == Literal(s, i, "String", TripleQuoted(s, i + 3))
           quoted == Literal(s, i, "String", Quoted(s, i + 1, Escapes))
           bytes == LexBytes(s, i)
           char == Token(s[i], i, i + 1)
           directive == LexDirective(s, i)
           ident == Token("Ident", i, FirstAt(s, i, LAMBDA k : ~IsIdentPart(s[k]), Len(s) + 1))
           illegal == Token("Illegal", i, Len(s) + 1)
           lexed == CASE i > Len(s) -> eof
            [] i <= Len(s) /\ s[i] \in {"nl", "sp"} -> blank
            [] At(s, i, "#") -> line
            [] Word(s, i, <<"/", "/">>) -> line
            [] Word(s, i, <<"/", "*">>) -> block
            [] Word(s, i, Triple) -> triple
            [] At(s, i, "quote") /\ ~Word(s, i, Triple) -> quoted
            [] Word(s, i, <<"b", "quote">>) -> bytes
            [] i <= Len(s) /\ s[i] \in Punctuation -> char
            [] At(s, i, "@") -> directive
            [] i <= Len(s) /\ IsIdentPart(s[i]) /\ ~Word(s, i, <<"b", "quote">>) -> ident
            [] OTHER -> illegal
<1>5. NextToken(s, i) = lexed
  BY Zenon DEF NextToken, Punctuation
<1>6. i <= Len(s) /\ ~(i > Len(s))
  BY <1>0
<1>i. ident = Token("Ident", i, IdentEnd(s, i))
  BY DEF IdentEnd
<1>k. PICK x : x = lexed
  OBVIOUS
<1>s. /\ block = Literal(s, i, "Blank", AfterWord(s, i + 2, CommentEnd))
      /\ triple = Literal(s, i, "String", AfterWord(s, i + 3, Triple))
      /\ blank = Token("Blank", i, i + 1)
      /\ line = Token("Blank", i, LineComment(s, i))
      /\ quoted = Literal(s, i, "String", Quoted(s, i + 1, Escapes))
      /\ bytes = LexBytes(s, i)
      /\ char = Token(s[i], i, i + 1)
      /\ directive = LexDirective(s, i)
      /\ illegal = Token("Illegal", i, Len(s) + 1)
  BY <1>4
<1> HIDE DEF eof, blank, line, block, triple, quoted, bytes, char, directive, ident, illegal
<1>7. x = CASE s[i] \in {"nl", "sp"} -> blank
            [] s[i] = "#" -> line
            [] Word(s, i, <<"/", "/">>) -> line
            [] Word(s, i, <<"/", "*">>) -> block
            [] Word(s, i, Triple) -> triple
            [] s[i] = "quote" /\ ~Word(s, i, Triple) -> quoted
            [] Word(s, i, <<"b", "quote">>) -> bytes
            [] s[i] \in Punctuation -> char
            [] s[i] = "@" -> directive
            [] IsIdentPart(s[i]) /\ ~Word(s, i, <<"b", "quote">>) -> ident
            [] OTHER -> illegal
  BY <1>3, <1>6, <1>k
<1> HIDE DEF lexed
<1>p. \A c \in Punctuation : c \notin Others
  BY PunctuationIs
<1>8. /\ Word(s, i, <<"b", "quote">>) <=> s[i] = "b" /\ At(s, i + 1, "quote")
      /\ Word(s, i, <<"/", "/">>) <=> s[i] = "/" /\ At(s, i + 1, "/")
      /\ Word(s, i, <<"/", "*">>) <=> s[i] = "/" /\ At(s, i + 1, "*")
  BY <1>2
<1>9. ~(At(s, i + 1, "/") /\ At(s, i + 1, "*"))
  BY DEF At
<1>10. s[i] \in {"nl", "sp"} => x = blank
  BY <1>1, <1>7, <1>8, <1>p DEF IsIdentPart, Others
<1>11. s[i] = "#" => x = line
  BY <1>1, <1>7, <1>8, <1>p DEF IsIdentPart, Others
<1>12. /\ s[i] = "/" /\ At(s, i + 1, "/") => x = line
       /\ s[i] = "/" /\ At(s, i + 1, "*") => x = block
       /\ s[i] = "/" /\ ~At(s, i + 1, "/") /\ ~At(s, i + 1, "*") => x = illegal
  BY <1>1, <1>7, <1>8, <1>9, <1>p DEF IsIdentPart, Others
<1>13. /\ s[i] = "quote" /\ Word(s, i, Triple) => x = triple
       /\ s[i] = "quote" /\ ~Word(s, i, Triple) => x = quoted
  BY <1>1, <1>7, <1>8, <1>p DEF IsIdentPart, Others
<1>14. s[i] = "b" /\ At(s, i + 1, "quote") => x = bytes
  BY <1>1, <1>7, <1>8, <1>p DEF IsIdentPart, Others
<1>15. s[i] \in Punctuation => x = char
  BY <1>1, <1>7, <1>8, <1>p DEF IsIdentPart, Others
<1>16. s[i] = "@" => x = directive
  BY <1>1, <1>7, <1>8, <1>p DEF IsIdentPart, Others
<1>17. IsIdentPart(s[i]) /\ ~(s[i] = "b" /\ At(s, i + 1, "quote")) => x = ident
  BY <1>1, <1>7, <1>8, <1>p DEF IsIdentPart, Others
<1>18. s[i] \in {"*", "esc", "bad"} => x = illegal
  BY <1>1, <1>7, <1>8, <1>p DEF IsIdentPart, Others
<1> QED
  BY <1>5, <1>i, <1>k, <1>s, <1>10, <1>11, <1>12, <1>13, <1>14, <1>15, <1>16, <1>17, <1>18

\* A literal without backslashes that may be escaped otherwise ends where it
\* ends if any byte may be.
LEMMA QuotedWithin ==
  ASSUME NEW s \in Seq(ByteClass), NEW E, NEW F, \A c \in E : c \in F, NEW i \in 1..(Len(s) + 1),
         Quoted(s, i, E) > 0
  PROVE  Quoted(s, i, F) = Quoted(s, i, E)
<1>0. PICK l \in Nat : l = Len(s)
  OBVIOUS
<1> DEFINE T == {n \in 1..(l + 1) : Quoted(s, n, E) > 0 => Quoted(s, n, F) = Quoted(s, n, E)}
<1>1. ASSUME NEW n \in 1..(l + 1), \A j \in (n + 1)..(l + 1) : j \in T PROVE n \in T
  <2> SUFFICES ASSUME Quoted(s, n, E) > 0 PROVE Quoted(s, n, F) = Quoted(s, n, E)
    OBVIOUS
  <2>1. PICK x : x = Quoted(s, n, E)
    OBVIOUS
  <2>2. x # Incomplete /\ x # Malformed
    BY <2>1 DEF Incomplete, Malformed
  <2>3. \A G : /\ n > l => Quoted(s, n, G) = Incomplete
               /\ n <= l /\ s[n] = "quote" => Quoted(s, n, G) = n + 1
               /\ n <= l /\ s[n] = "nl" => Quoted(s, n, G) = Malformed
               /\ n = l /\ s[n] = "esc" => Quoted(s, n, G) = Incomplete
               /\ n < l /\ s[n] = "esc" /\ s[n + 1] \in G => Quoted(s, n, G) = Quoted(s, n + 2, G)
               /\ n < l /\ s[n] = "esc" /\ s[n + 1] \notin G => Quoted(s, n, G) = Malformed
               /\ n <= l /\ s[n] \notin {"quote", "nl", "esc"}
                    => Quoted(s, n, G) = Quoted(s, n + 1, G)
    BY <1>0, QuotedStep
  <2>4. n <= l /\ s[n] # "nl"
    <3>1. n > l \/ n <= l
      BY <1>0
    <3> QED
      BY <2>1, <2>2, <2>3, <3>1
  <2>5. CASE s[n] = "quote"
    BY <2>3, <2>4, <2>5
  <2>6. CASE s[n] = "esc"
    <3>1. n < l /\ s[n + 1] \in E
      <4>1. n = l \/ n < l
        BY <1>0, <2>4
      <4> QED
        BY <2>1, <2>2, <2>3, <2>6, <4>1
    <3>2. n + 2 \in T
      BY <1>0, <1>1, <3>1
    <3>3. Quoted(s, n, E) = Quoted(s, n + 2, E) /\ Quoted(s, n, F) = Quoted(s, n + 2, F)
      BY <2>3, <2>6, <3>1
    <3> QED
      BY <3>2, <3>3
  <2>7. CASE s[n] \notin {"quote", "nl", "esc"}
    <3>1. n + 1 \in T
      BY <1>0, <1>1, <2>4
    <3>2. Quoted(s, n, E) = Quoted(s, n + 1, E) /\ Quoted(s, n, F) = Quoted(s, n + 1, F)
      BY <2>3, <2>4, <2>7
    <3> QED
      BY <3>1, <3>2
  <2> QED
    BY <2>4, <2>5, <2>6, <2>7
<1> HIDE DEF T
<1>2. 1 \in Int /\ l + 1 \in Int
  OBVIOUS
<1>3. 1..(l + 1) \subseteq T
  BY <1>1, <1>2, BackwardInductive
<1>4. i \in T
  BY <1>0, <1>3
<1> QED
  BY <1>4 DEF T

\* A string of plain bytes ends behind the first quote.
LEMMA QuotedPlain ==
  ASSUME NEW s \in Seq(ByteClass), NEW F, NEW i \in 1..(Len(s) + 1),
         NEW end \in i..Len(s), s[end] = "quote", \A k \in i..(end - 1) : s[k] = "x"
  PROVE  Quoted(s, i, F) = end + 1
<1> DEFINE T == {n \in i..end : Quoted(s, n, F) = end + 1}
<1>1. ASSUME NEW n \in i..end, \A j \in (n + 1)..end : j \in T PROVE n \in T
  <2>1. n \in 1..(Len(s) + 1) /\ n <= Len(s)
    OBVIOUS
  <2>2. CASE n = end
    BY <2>1, <2>2, QuotedStep
  <2>3. CASE n < end
    <3>1. n + 1 \in T /\ s[n] = "x"
      BY <1>1, <2>3
    <3>2. Quoted(s, n, F) = Quoted(s, n + 1, F)
      BY <2>1, <3>1, QuotedStep
    <3> QED
      BY <3>1, <3>2
  <2> QED
    BY <2>2, <2>3
<1> HIDE DEF T
<1>2. i \in Int /\ end \in Int
  OBVIOUS
<1>3. i..end \subseteq T
  BY <1>1, <1>2, BackwardInductive
<1>4. i \in T
  BY <1>3
<1> QED
  BY <1>4 DEF T

\* A bytes literal is Illegal, or ends where the scanner's skip of it ends.
LEMMA LexBytesIs ==
  ASSUME NEW s \in Seq(ByteClass), NEW i \in 1..Len(s), s[i] = "b", At(s, i + 1, "quote")
  PROVE  \/ LexBytes(s, i) = Token("Illegal", i, Len(s) + 1)
         \/ LexBytes(s, i) = Token("Bytes", i, Skip(s, i)) /\ Skip(s, i) > 0
<1>0. PICK n \in Nat : n = Len(s)
  OBVIOUS
<1> DEFINE S == {k \in (i + 2)..Len(s) : s[k] # "x"}
<1>1. PICK end : end = TheOne(First(S), 0)
  OBVIOUS
<1>2. LexBytes(s, i) = Literal(s, i, "Bytes", IF At(s, end, "quote") THEN end + 1 ELSE Malformed)
  BY <1>1 DEF LexBytes, FirstAt
<1>3. S \subseteq Nat
  OBVIOUS
<1>4. \/ S = {} /\ end = 0
      \/ end \in S /\ \A q \in S : end <= q
  <2> HIDE DEF S
  <2> QED
    BY <1>1, <1>3, LeastWhich
<1>5. CASE ~At(s, end, "quote")
  BY <1>2, <1>5 DEF Literal, Malformed
<1>6. CASE At(s, end, "quote")
  <2>1. end \in S
    BY <1>4, <1>6 DEF At
  <2>2. end \in (i + 2)..Len(s) /\ s[end] = "quote" /\ i + 2 \in 1..(Len(s) + 1)
    BY <1>0, <1>6, <2>1 DEF At
  <2>3. ASSUME NEW k \in (i + 2)..(end - 1) PROVE s[k] = "x"
    <3>1. k \in (i + 2)..Len(s)
      BY <1>0, <2>2
    <3>2. ~(end <= k)
      BY <2>2
    <3> QED
      BY <1>4, <2>1, <3>1, <3>2
  <2>4. Quoted(s, i + 2, ByteClass) = end + 1
    BY <2>2, <2>3, QuotedPlain
  <2>5. Skip(s, i) = end + 1
    BY <2>4, SkipIs
  <2>6. end + 1 > 0
    BY <2>2
  <2>7. LexBytes(s, i) = Literal(s, i, "Bytes", end + 1)
    BY <1>2, <1>6
  <2> QED
    BY <2>5, <2>6, <2>7 DEF Literal
<1> QED
  BY <1>5, <1>6

\* A directive, by where its name ends.
LEMMA LexDirectiveIs ==
  ASSUME NEW s \in Seq(ByteClass), NEW i \in 1..Len(s)
  PROVE  LET to == IdentEnd(s, i + 1)
         IN  /\ to = i + 1 => LexDirective(s, i) = Token("Illegal", i, Len(s) + 1)
             /\ to = i + 2 /\ s[i + 1] = "d" => LexDirective(s, i) = Token("AtDataset", i, to)
             /\ to # i + 1 /\ ~(to = i + 2 /\ s[i + 1] = "d")
                  => LexDirective(s, i) = Token("AtDirective", i, to)
  BY DEF LexDirective, IdentEnd

\* What a token is, by its kind: where it ends, and whether the scanner steps
\* over it.
TokenShape(s, i, t) ==
  \/ t.kind = "Blank" /\ s[i] \in {"nl", "sp"} /\ t.to = i + 1
  \/ t.kind = "Blank" /\ s[i] \in {"#", "/"} /\ t.to = Skip(s, i) /\ t.to > i
  \/ t.kind = "String" /\ s[i] = "quote" /\ t.to = Skip(s, i) /\ t.to > i
  \/ t.kind = "Bytes" /\ s[i] = "b" /\ t.to = Skip(s, i) /\ t.to > i
  \/ t.kind = "Ident" /\ IsIdentPart(s[i]) /\ ~Opens(s, i) /\ t.to = IdentEnd(s, i) /\ t.to > i
  \/ t.kind \in Punctuation /\ s[i] = t.kind /\ t.to = i + 1
  \/ /\ t.kind = "AtDataset" /\ s[i] = "@"
     /\ t.to = i + 2 /\ t.to = IdentEnd(s, i + 1) /\ s[i + 1] = "d"
  \/ /\ t.kind = "AtDirective" /\ s[i] = "@" /\ t.to = IdentEnd(s, i + 1) /\ t.to > i + 1
     /\ ~(t.to = i + 2 /\ s[i + 1] = "d")
  \/ t.kind = "Illegal" /\ t.to = Len(s) + 1 /\ t.to > i

\* Every token starts where it is looked for, ends behind that, and is of the shape its
\* kind says.
LEMMA NextTokenShape ==
  ASSUME NEW s \in Seq(ByteClass), NEW i \in 1..Len(s)
  PROVE  /\ TokenShape(s, i, NextToken(s, i))
         /\ NextToken(s, i).from = i
         /\ NextToken(s, i).to \in (i + 1)..(Len(s) + 1)
         /\ s[i] = "quote" => NextToken(s, i).kind \in {"String", "Illegal"}
<1>0. PICK n \in Nat : n = Len(s) /\ i <= n
  OBVIOUS
<1> DEFINE Good(t) == /\ TokenShape(s, i, t)
                      /\ t.from = i
                      /\ t.to \in (i + 1)..(n + 1)
                      /\ s[i] = "quote" => t.kind \in {"String", "Illegal"}
<1>1. PICK t : t = NextToken(s, i)
  OBVIOUS
<1>2. /\ ~Opens(s, i) => Skip(s, i) = i
      /\ Opens(s, i) => Skip(s, i) \in {Incomplete, Malformed} \cup (i + 1)..(n + 1)
  BY <1>0, SkipRange
<1>3. Good(Token("Illegal", i, n + 1))
  BY <1>0, TokenFields DEF TokenShape
<1>4. ASSUME s[i] \in {"nl", "sp"} PROVE Good(t)
  <2>1. t = Token("Blank", i, i + 1)
    BY <1>1, <1>4, NextTokenIs
  <2>2. s[i] # "quote"
    BY <1>4
  <2> QED
    BY <1>0, <1>4, <2>1, <2>2, TokenFields DEF TokenShape
<1>5. ASSUME NEW c, s[i] = c, c \in {"#", "/"}, t = Token("Blank", i, Skip(s, i)), Opens(s, i),
             Skip(s, i) > 0
      PROVE  Good(t)
  <2>1. Skip(s, i) \in (i + 1)..(n + 1) /\ s[i] # "quote" /\ s[i] \in {"#", "/"}
    BY <1>2, <1>5 DEF Incomplete, Malformed
  <2>2. t.kind = "Blank" /\ t.to = Skip(s, i) /\ t.from = i /\ t.to > i
    BY <1>5, <2>1, TokenFields
  <2> QED
    BY <2>1, <2>2 DEF TokenShape
<1>6. ASSUME s[i] = "#" PROVE Good(t)
  <2>1. i + 1 \in 1..(n + 1)
    BY <1>0
  <2>2. PICK x : x = LineComment(s, i)
    OBVIOUS
  <2>3. x \in i..(n + 1) /\ (x <= n => s[x] = "nl") /\ \A k \in i..(x - 1) : s[k] # "nl"
    <3>1. i \in 1..(Len(s) + 1)
      BY <1>0
    <3> QED
      BY <1>0, <2>2, <3>1, LineCommentIs
  <2>4. x # i
    BY <1>0, <1>6, <2>3
  <2>5. x \in (i + 1)..(n + 1) /\ \A k \in (i + 1)..(x - 1) : s[k] # "nl"
    BY <2>3, <2>4
  <2>6. LineComment(s, i + 1) = x
    BY <1>0, <2>1, <2>3, <2>5, LineCommentUnique
  <2>7. Skip(s, i) = x /\ x > 0 /\ Opens(s, i)
    BY <1>6, <2>5, <2>6, SkipIs DEF Opens
  <2> QED
    BY <1>1, <1>5, <1>6, <2>2, <2>7, NextTokenIs
<1>7. ASSUME s[i] = "/", At(s, i + 1, "/") PROVE Good(t)
  <2>1. i + 2 \in 1..(n + 1) /\ s[i + 1] = "/" /\ i + 1 <= n
    BY <1>0, <1>7 DEF At
  <2>2. PICK x : x = LineComment(s, i)
    OBVIOUS
  <2>3. x \in i..(n + 1) /\ (x <= n => s[x] = "nl") /\ \A k \in i..(x - 1) : s[k] # "nl"
    <3>1. i \in 1..(Len(s) + 1)
      BY <1>0
    <3> QED
      BY <1>0, <2>2, <3>1, LineCommentIs
  <2>4. x # i /\ x # i + 1
    BY <1>0, <1>7, <2>1, <2>3
  <2>5. x \in (i + 2)..(n + 1) /\ \A k \in (i + 2)..(x - 1) : s[k] # "nl"
    BY <2>3, <2>4
  <2>6. LineComment(s, i + 2) = x
    BY <1>0, <2>1, <2>3, <2>5, LineCommentUnique
  <2>7. Skip(s, i) = x /\ x > 0 /\ Opens(s, i)
    BY <1>7, <2>5, <2>6, SkipIs DEF Opens
  <2> QED
    BY <1>1, <1>5, <1>7, <2>2, <2>7, NextTokenIs
<1>8. ASSUME s[i] = "/", At(s, i + 1, "*") PROVE Good(t)
  <2>1. PICK x : x = Skip(s, i)
    OBVIOUS
  <2>2. x = AfterWord(s, i + 2, CommentEnd) /\ Opens(s, i)
    BY <1>8, <2>1, SkipIs DEF Opens
  <2>3. t = Literal(s, i, "Blank", x)
    BY <1>1, <1>8, <2>2, NextTokenIs
  <2>4. x > 0 \/ ~(x > 0)
    OBVIOUS
  <2>5. x > 0 => t = Token("Blank", i, x)
    BY <2>3 DEF Literal
  <2>6. ~(x > 0) => t = Token("Illegal", i, n + 1)
    BY <1>0, <2>3 DEF Literal
  <2> QED
    BY <1>3, <1>5, <1>8, <2>1, <2>2, <2>4, <2>5, <2>6
<1>9. ASSUME s[i] = "quote" PROVE Good(t)
  <2>1. PICK x : x = Skip(s, i)
    OBVIOUS
  <2>2. t = Literal(s, i, "String", x) \/ t = Token("Illegal", i, n + 1)
    <3>1. CASE Word(s, i, Triple)
      BY <1>1, <1>9, <2>1, <3>1, SkipIs, NextTokenIs
    <3>2. CASE ~Word(s, i, Triple)
      <4>1. PICK y : y = Quoted(s, i + 1, Escapes)
        OBVIOUS
      <4>2. t = Literal(s, i, "String", y)
        BY <1>1, <1>9, <3>2, <4>1, NextTokenIs
      <4>3. x = Quoted(s, i + 1, ByteClass)
        BY <1>9, <2>1, <3>2, SkipIs
      <4>4. CASE y > 0
        <5>1. \A c \in Escapes : c \in ByteClass
          BY Zenon DEF Escapes, ByteClass
        <5>2. i + 1 \in 1..(Len(s) + 1)
          BY <1>0
        <5>3. x = y
          BY <4>1, <4>3, <4>4, <5>1, <5>2, QuotedWithin
        <5> QED
          BY <4>2, <5>3
      <4>5. CASE ~(y > 0)
        BY <1>0, <4>2, <4>5 DEF Literal
      <4> QED
        BY <4>4, <4>5
    <3> QED
      BY <3>1, <3>2
  <2>3. Opens(s, i)
    BY <1>9 DEF Opens
  <2>4. CASE x > 0 /\ t = Literal(s, i, "String", x)
    <3>1. x \in (i + 1)..(n + 1)
      BY <1>2, <2>1, <2>3, <2>4 DEF Incomplete, Malformed
    <3>2. t = Token("String", i, x)
      BY <2>4 DEF Literal
    <3>3. t.kind = "String" /\ t.to = Skip(s, i) /\ t.from = i /\ t.to > i
      BY <2>1, <3>1, <3>2, TokenFields
    <3> QED
      BY <1>9, <2>1, <3>1, <3>3 DEF TokenShape
  <2>5. CASE ~(x > 0) /\ t = Literal(s, i, "String", x)
    BY <1>0, <1>3, <2>5 DEF Literal
  <2>6. CASE t = Token("Illegal", i, n + 1)
    BY <1>3, <2>6
  <2> QED
    BY <2>2, <2>4, <2>5, <2>6
<1>10. ASSUME s[i] = "b", At(s, i + 1, "quote") PROVE Good(t)
  <2>1. PICK x : x = Skip(s, i)
    OBVIOUS
  <2>2. t = LexBytes(s, i) /\ Opens(s, i)
    BY <1>1, <1>10, NextTokenIs DEF Opens
  <2>3. t = Token("Illegal", i, n + 1) \/ (t = Token("Bytes", i, x) /\ x > 0)
    BY <1>0, <1>10, <2>1, <2>2, LexBytesIs
  <2>4. CASE t = Token("Bytes", i, x) /\ x > 0
    <3>1. x \in (i + 1)..(n + 1)
      BY <1>2, <2>1, <2>2, <2>4 DEF Incomplete, Malformed
    <3>3. t.kind = "Bytes" /\ t.to = Skip(s, i) /\ t.from = i /\ t.to > i /\ s[i] # "quote"
      BY <1>10, <2>1, <2>4, <3>1, TokenFields
    <3> QED
      BY <1>10, <2>1, <3>1, <3>3 DEF TokenShape
  <2> QED
    BY <1>3, <2>3, <2>4
<1>11. ASSUME s[i] \in Punctuation PROVE Good(t)
  <2>1. t = Token(s[i], i, i + 1)
    BY <1>1, <1>11, NextTokenIs
  <2>2. s[i] # "quote"
    BY <1>11, PunctuationIs DEF Others
  <2> QED
    BY <1>0, <1>11, <2>1, <2>2, TokenFields DEF TokenShape
<1>12. ASSUME s[i] = "@" PROVE Good(t)
  <2>1. PICK x : x = IdentEnd(s, i + 1)
    OBVIOUS
  <2>2. i + 1 \in 1..(n + 1)
    BY <1>0
  <2>3. x \in (i + 1)..(n + 1)
    BY <1>0, <2>1, <2>2, IdentEndIs
  <2>4. t = LexDirective(s, i)
    BY <1>1, <1>12, NextTokenIs
  <2>5. /\ x = i + 1 => t = Token("Illegal", i, n + 1)
        /\ x = i + 2 /\ s[i + 1] = "d" => t = Token("AtDataset", i, x)
        /\ x # i + 1 /\ ~(x = i + 2 /\ s[i + 1] = "d") => t = Token("AtDirective", i, x)
    BY <1>0, <2>1, <2>4, LexDirectiveIs
  <2>6. CASE x = i + 1
    BY <1>3, <2>5, <2>6
  <2>7. CASE x = i + 2 /\ s[i + 1] = "d"
    <3>1. /\ t.kind = "AtDataset" /\ t.to = IdentEnd(s, i + 1) /\ t.from = i
          /\ t.to = i + 2 /\ s[i + 1] = "d" /\ s[i] = "@" /\ s[i] # "quote"
      BY <1>12, <2>1, <2>5, <2>7, TokenFields
    <3>2. t.to \in (i + 1)..(n + 1)
      BY <2>1, <2>3, <3>1
    <3> QED
      BY <3>1, <3>2 DEF TokenShape
  <2>8. CASE x # i + 1 /\ ~(x = i + 2 /\ s[i + 1] = "d")
    <3>1. t.kind = "AtDirective" /\ t.to = x /\ t.from = i /\ s[i] = "@" /\ s[i] # "quote"
      BY <1>12, <2>5, <2>8, TokenFields
    <3>2. t.to = IdentEnd(s, i + 1) /\ t.to > i + 1 /\ ~(t.to = i + 2 /\ s[i + 1] = "d")
      BY <2>1, <2>3, <2>8, <3>1
    <3>3. t.to \in (i + 1)..(n + 1)
      BY <2>3, <3>1
    <3> QED
      BY <3>1, <3>2, <3>3 DEF TokenShape
  <2> QED
    BY <2>6, <2>7, <2>8
<1>13. ASSUME IsIdentPart(s[i]), ~(s[i] = "b" /\ At(s, i + 1, "quote")) PROVE Good(t)
  <2>1. PICK x : x = IdentEnd(s, i)
    OBVIOUS
  <2>2. x \in i..(n + 1) /\ (x <= n => ~IsIdentPart(s[x]))
    BY <1>0, <2>1, IdentEndIs
  <2>3. x # i
    BY <1>0, <1>13, <2>2
  <2>4. t = Token("Ident", i, x)
    BY <1>1, <1>13, <2>1, NextTokenIs
  <2>5. t.kind = "Ident" /\ t.to = x /\ t.from = i
    BY <2>4, TokenFields
  <2>6. s[i] # "quote" /\ ~Opens(s, i)
    BY <1>13 DEF IsIdentPart, Opens
  <2>7. t.to \in (i + 1)..(n + 1) /\ t.to > i /\ t.to = IdentEnd(s, i)
    BY <2>1, <2>2, <2>3, <2>5
  <2> QED
    BY <1>13, <2>5, <2>6, <2>7 DEF TokenShape
<1>14. ASSUME \/ s[i] \in {"*", "esc", "bad"}
              \/ s[i] = "/" /\ ~At(s, i + 1, "/") /\ ~At(s, i + 1, "*")
       PROVE  Good(t)
  BY <1>0, <1>1, <1>3, <1>14, NextTokenIs
<1>15. Good(t)
  <2>1. s[i] \in Punctuation \cup Others
    BY BytesAre
  <2>2. s[i] \in ByteClass
    BY <1>0
  <2>3. \A c \in ByteClass : \/ c \in {"nl", "sp", "#", "/", "quote", "b", "x", "d", "@", "*", "esc", "bad"}
                             \/ c \in Punctuation
    BY Zenon DEF ByteClass, Punctuation
  <2> HIDE DEF Good
  <2>4. CASE s[i] \in {"nl", "sp", "#", "/", "quote"}
    BY <1>4, <1>6, <1>7, <1>8, <1>9, <1>14, <2>4
  <2>5. CASE s[i] \in {"b", "x", "d"}
    BY <1>10, <1>13, <2>5 DEF IsIdentPart
  <2>6. CASE s[i] \in {"@", "*", "esc", "bad"}
    BY <1>12, <1>14, <2>6
  <2> QED
    BY <1>11, <2>2, <2>3, <2>4, <2>5, <2>6
<1> QED
  BY <1>0, <1>1, <1>15

\* Behind the last byte there is only Eof.
LEMMA EofToken ==
  ASSUME NEW s \in Seq(ByteClass), NEW i \in Nat, i > Len(s)
  PROVE  NextToken(s, i) = Token("Eof", i, i)
<1> DEFINE lexed == CASE i > Len(s) -> Token("Eof", i, i)
            [] i <= Len(s) /\ s[i] \in {"nl", "sp"} -> Token("Blank", i, i + 1)
            [] At(s, i, "#") -> Token("Blank", i, LineComment(s, i))
            [] Word(s, i, <<"/", "/">>) -> Token("Blank", i, LineComment(s, i))
            [] Word(s, i, <<"/", "*">>) -> Literal(s, i, "Blank", BlockComment(s, i + 2))
            [] Word(s, i, Triple) -> Literal(s, i, "String", TripleQuoted(s, i + 3))
            [] At(s, i, "quote") /\ ~Word(s, i, Triple) ->
                 Literal(s, i, "String", Quoted(s, i + 1, Escapes))
            [] Word(s, i, <<"b", "quote">>) -> LexBytes(s, i)
            [] i <= Len(s) /\ s[i] \in Punctuation -> Token(s[i], i, i + 1)
            [] At(s, i, "@") -> LexDirective(s, i)
            [] i <= Len(s) /\ IsIdentPart(s[i]) /\ ~Word(s, i, <<"b", "quote">>) ->
                 Token("Ident", i, FirstAt(s, i, LAMBDA k : ~IsIdentPart(s[k]), Len(s) + 1))
            [] OTHER -> Token("Illegal", i, Len(s) + 1)
<1>1. NextToken(s, i) = lexed
  BY Zenon DEF NextToken, Punctuation
<1>2. ~(i <= Len(s))
  OBVIOUS
<1>3. \A c : ~At(s, i, c)
  BY DEF At
<1>4. ~Word(s, i, Triple) /\ \A a, b : ~Word(s, i, <<a, b>>)
  BY WordOfTwo, WordOfThree
<1>5. lexed = Token("Eof", i, i)
  BY <1>2, <1>3, <1>4
<1> QED
  BY <1>1, <1>5

Lexed(s) == {NextToken(s, k) : k \in 1..(Len(s) + 1)}

\* The tokens from i on: the one at i, unless it is blank, and those after it.
LEMMA TokensStep ==
  ASSUME NEW s \in Seq(ByteClass), NEW i \in 1..(Len(s) + 1)
  PROVE  /\ TokensFrom(s, i) \in Seq(Lexed(s))
         /\ i > Len(s) => TokensFrom(s, i) = <<Token("Eof", i, i)>>
         /\ i <= Len(s) /\ NextToken(s, i).kind = "Blank"
              => TokensFrom(s, i) = TokensFrom(s, NextToken(s, i).to)
         /\ i <= Len(s) /\ NextToken(s, i).kind # "Blank"
              => TokensFrom(s, i) = <<NextToken(s, i)>> \o TokensFrom(s, NextToken(s, i).to)
<1>0. PICK k \in Nat : k = Len(s)
  OBVIOUS
<1> DEFINE S      == Seq(Lexed(s))
           tok(n) == NextToken(s, n)
           to(n)  == tok(n).to
           Stop  == {k + 1}
           base  == [n \in 1..(k + 1) |-> <<tok(n)>>]
           next  == [n \in 1..(k + 1) |-> to(n)]
           Op    == [n \in 1..(k + 1) |->
                       [x \in S |-> IF tok(n).kind = "Blank" THEN x ELSE <<tok(n)>> \o x]]
           V(f, n) == CASE tok(n).kind = "Eof"   -> <<tok(n)>>
                        [] tok(n).kind = "Blank" -> f[to(n)]
                        [] OTHER                 -> <<tok(n)>> \o f[to(n)]
<1>a. ASSUME NEW n \in 1..k
      PROVE  to(n) \in (n + 1)..(k + 1) /\ tok(n).kind # "Eof"
  <2>1. n \in 1..Len(s)
    BY <1>0
  <2>2. TokenShape(s, n, tok(n)) /\ to(n) \in (n + 1)..(k + 1)
    BY <1>0, <2>1, NextTokenShape
  <2>3. tok(n).kind \in Punctuation => tok(n).kind # "Eof"
    BY PunctuationIs DEF Others
  <2>4. tok(n).kind # "Eof"
    BY <2>2, <2>3 DEF TokenShape
  <2> QED
    BY <2>2, <2>4
<1>e. tok(k + 1) = Token("Eof", k + 1, k + 1) /\ tok(k + 1).kind = "Eof"
  <2>1. k + 1 \in Nat /\ k + 1 > Len(s)
    BY <1>0
  <2> QED
    BY <2>1, EofToken, TokenFields
<1>t. ASSUME NEW n \in 1..(k + 1) PROVE tok(n) \in Lexed(s)
  BY <1>0, <1>t DEF Lexed
<1> HIDE DEF tok, to
<1>1. PICK f \in [1..(k + 1) -> S] :
        \A n \in 1..(k + 1) : f[n] = IF n \in Stop THEN base[n] ELSE Op[n][f[next[n]]]
  <2>1. PICK m \in Nat : m = k + 1
    OBVIOUS
  <2>2. \A n \in 1..m : n \in Stop => base[n] \in S
    BY <1>t, <2>1
  <2>3. \A n \in 1..m : n \notin Stop => next[n] \in (n + 1)..m
    BY <1>a, <2>1
  <2>4. \A n \in 1..m : n \notin Stop => Op[n] \in [S -> S]
    <3> SUFFICES ASSUME NEW n \in 1..m, n \notin Stop, NEW x \in S
                 PROVE  (IF tok(n).kind = "Blank" THEN x ELSE <<tok(n)>> \o x) \in S
      BY <2>1
    <3>1. <<tok(n)>> \in S
      BY <1>t, <2>1
    <3> QED
      BY <3>1, ConcatProperties
  <2> HIDE DEF S, Stop, base, next, Op
  <2>6. IsChain(m, S, Stop, base, next, Op)
    BY <2>2, <2>3, <2>4 DEF IsChain
  <2>7. PICK f \in [1..m -> S] : FollowsChain(f, m, Stop, base, next, Op)
    BY <2>6, ChainRecursion
  <2>8. \A n \in 1..m : f[n] = IF n \in Stop THEN base[n] ELSE Op[n][f[next[n]]]
    BY <2>7 DEF FollowsChain
  <2> QED
    BY <2>1, <2>7, <2>8
<1>2. ASSUME NEW n \in 1..(k + 1)
      PROVE  /\ n > k => f[n] = <<tok(n)>>
             /\ n <= k /\ tok(n).kind = "Blank" => f[n] = f[to(n)]
             /\ n <= k /\ tok(n).kind # "Blank" => f[n] = <<tok(n)>> \o f[to(n)]
             /\ f[n] = V(f, n)
  <2>1. CASE n > k
    <3>1. n \in Stop /\ base[n] = <<tok(n)>>
      BY <2>1
    <3>2. f[n] = <<tok(n)>>
      <4> HIDE DEF Stop, base, next, Op, S
      <4> QED
        BY <1>1, <3>1
    <3>3. tok(n).kind = "Eof"
      BY <1>e, <2>1
    <3>4. V(f, n) = <<tok(n)>>
      BY <3>3
    <3>5. ~(n <= k)
      BY <2>1
    <3> QED
      BY <2>1, <3>2, <3>4, <3>5
  <2>2. CASE n <= k
    <3>1. n \in 1..k /\ n \notin Stop
      BY <2>2
    <3>2. PICK y : y = to(n)
      OBVIOUS
    <3>3. y \in 1..(k + 1) /\ tok(n).kind # "Eof" /\ next[n] = y
      BY <1>a, <3>1, <3>2
    <3>4. f[y] \in S
      BY <3>3
    <3>5. Op[n][f[y]] = IF tok(n).kind = "Blank" THEN f[y] ELSE <<tok(n)>> \o f[y]
      BY <3>1, <3>4
    <3>6. f[n] = IF tok(n).kind = "Blank" THEN f[y] ELSE <<tok(n)>> \o f[y]
      <4> HIDE DEF Stop, base, next, Op, S
      <4> QED
        BY <1>1, <3>1, <3>3, <3>5
    <3>7. V(f, n) = IF tok(n).kind = "Blank" THEN f[y] ELSE <<tok(n)>> \o f[y]
      BY <3>2, <3>3
    <3>8. ~(n > k)
      BY <2>2
    <3> HIDE DEF V
    <3> QED
      BY <3>2, <3>6, <3>7, <3>8
  <2>3. n > k \/ n <= k
    OBVIOUS
  <2> QED
    BY <2>1, <2>2, <2>3
<1> HIDE DEF Stop, base, next, Op
<1>b. \A n \in 1..(k + 1) : f[n] = V(f, n)
  BY <1>2
<1>3. ASSUME NEW from \in 1..(k + 1) PROVE TokensFrom(s, from) = f[from]
  <2> DEFINE lex[n \in from..(Len(s) + 1)] == V(lex, n)
  <2>1. TokensFrom(s, from) = lex[from]
    BY DEF TokensFrom, tok, to
  <2>2. PICK g : g = [n \in from..(Len(s) + 1) |-> f[n]]
    OBVIOUS
  <2>a. ASSUME NEW n \in from..(k + 1), NEW g1, NEW g2,
               \A j \in (n + 1)..(k + 1) : g1[j] = g2[j]
        PROVE  V(g1, n) = V(g2, n)
    <3>1. CASE n > k
      BY <1>e, <3>1
    <3>2. CASE n <= k
      <4>0. PICK y : y = to(n)
        OBVIOUS
      <4>2. n \in 1..k
        BY <3>2
      <4>3. y \in (n + 1)..(k + 1)
        BY <1>a, <4>0, <4>2
      <4>1. g1[to(n)] = g2[to(n)]
        BY <2>a, <4>0, <4>3
      <4> QED
        BY <4>1
    <3>3. n > k \/ n <= k
      BY <2>a
    <3> QED
      BY <3>1, <3>2, <3>3
  <2>3. ASSUME NEW n \in from..(Len(s) + 1) PROVE g[n] = V(g, n)
    <3>0. n \in 1..(k + 1) /\ g[n] = f[n]
      BY <1>0, <2>2
    <3>1. f[n] = V(f, n) /\ g[n] = f[n]
      <4> HIDE DEF V
      <4> QED
        BY <1>b, <3>0
    <3>2. \A j \in (n + 1)..(k + 1) : f[j] = g[j]
      BY <1>0, <2>2
    <3>3. V(f, n) = V(g, n)
      BY <1>0, <2>a, <3>2
    <3> QED
      BY <3>1, <3>3
  <2>4. g = [n \in from..(Len(s) + 1) |-> V(g, n)]
    <3> HIDE DEF V
    <3> QED
      BY <2>2, <2>3
  <2>5. lex = [n \in from..(Len(s) + 1) |-> V(lex, n)]
    <3> HIDE DEF V
    <3> QED
      BY <2>4
  <2> HIDE DEF lex
  <2>6. from..(k + 1) \subseteq {n \in from..(k + 1) : lex[n] = f[n]}
    <3> DEFINE T == {n \in from..(k + 1) : lex[n] = f[n]}
    <3>1. ASSUME NEW n \in from..(k + 1), \A j \in (n + 1)..(k + 1) : j \in T PROVE n \in T
      <4>1. lex[n] = V(lex, n)
        <5> HIDE DEF V
        <5> QED
          BY <1>0, <2>5
      <4>2. \A j \in (n + 1)..(k + 1) : lex[j] = f[j]
        BY <3>1
      <4>3. V(lex, n) = V(f, n)
        <5> HIDE DEF V
        <5> QED
          BY <2>a, <4>2
      <4> HIDE DEF V
      <4>4. f[n] = V(f, n)
        BY <1>b
      <4> QED
        BY <4>1, <4>3, <4>4
    <3> HIDE DEF T
    <3>2. from \in Int /\ k + 1 \in Int
      OBVIOUS
    <3>3. from..(k + 1) \subseteq T
      BY <3>1, <3>2, BackwardInductive
    <3> QED
      BY <3>3 DEF T
  <2> QED
    BY <2>1, <2>6
<1> HIDE DEF V
<1>4. i \in 1..(k + 1) /\ TokensFrom(s, i) = f[i]
  BY <1>0, <1>3
<1>5. i <= k => TokensFrom(s, to(i)) = f[to(i)]
  <2>1. i <= k => i \in 1..k
    BY <1>4
  <2>2. i <= k => to(i) \in 1..(k + 1)
    BY <1>a, <2>1
  <2> QED
    BY <1>3, <2>2
<1>6. f[i] \in Seq(Lexed(s))
  BY <1>1, <1>4
<1>7. i > k => tok(i) = Token("Eof", i, i)
  BY <1>4, <1>e
<1>8. tok(i) = NextToken(s, i) /\ to(i) = NextToken(s, i).to
  BY DEF tok, to
<1> QED
  BY <1>0, <1>2, <1>4, <1>5, <1>6, <1>7, <1>8

-----------------------------------------------------------------------------
(***************************************************************************)
(* The scanner's walk along the lexer's tokens.                            *)
(***************************************************************************)

\* The walk from i passes k and sees no byte of C before it.
Reaches(s, i, k, C) ==
  /\ i <= k
  /\ \A p \in Walk(s, i).at : p < k => s[p] \notin C
  /\ \A p \in Int : p >= k => (p \in Walk(s, i).at <=> p \in Walk(s, k).at)
  /\ Walk(s, i).malformed <=> Walk(s, k).malformed

\* A walk reaches where it begins.
LEMMA ReachesItself ==
  ASSUME NEW s \in Seq(ByteClass), NEW i \in 1..(Len(s) + 1), NEW C
  PROVE  Reaches(s, i, i, C)
<1>1. \A p \in Walk(s, i).at : p \in i..Len(s)
  BY WalkVisits
<1>2. PICK A : A = Walk(s, i).at
  OBVIOUS
<1>3. ASSUME NEW p \in A, p < i PROVE FALSE
  <2>1. p \in i..Len(s)
    BY <1>1, <1>2
  <2> QED
    BY <1>3, <2>1
<1> QED
  BY <1>2, <1>3 DEF Reaches

\* A walk that reaches k, and from there m, reaches m.
LEMMA ReachesOn ==
  ASSUME NEW s \in Seq(ByteClass), NEW i \in Int, NEW k \in Int, NEW m \in Int, NEW C,
         i \in 1..(Len(s) + 1),
         Reaches(s, i, k, C), Reaches(s, k, m, C)
  PROVE  Reaches(s, i, m, C)
<1>1. PICK A, B, D : A = Walk(s, i).at /\ B = Walk(s, k).at /\ D = Walk(s, m).at
  OBVIOUS
<1>2. /\ i <= k /\ k <= m
      /\ \A p \in A : p < k => s[p] \notin C
      /\ \A p \in B : p < m => s[p] \notin C
      /\ \A p \in Int : p >= k => (p \in A <=> p \in B)
      /\ \A p \in Int : p >= m => (p \in B <=> p \in D)
      /\ Walk(s, i).malformed <=> Walk(s, k).malformed
      /\ Walk(s, k).malformed <=> Walk(s, m).malformed
  BY <1>1 DEF Reaches
<1>3. \A p \in A : p \in Int
  BY <1>1, WalkVisits
<1>4. ASSUME NEW p \in A, p < m PROVE s[p] \notin C
  <2>1. p \in Int
    BY <1>3
  <2>2. p < k \/ p >= k
    BY <2>1
  <2> QED
    BY <1>2, <1>4, <2>1, <2>2
<1>5. ASSUME NEW p \in Int, p >= m PROVE p \in A <=> p \in D
  BY <1>2, <1>5
<1> QED
  BY <1>1, <1>2, <1>4, <1>5 DEF Reaches

\* One step of a walk reaches the next byte, or the end of what it skips.
LEMMA StepReaches ==
  ASSUME NEW s \in Seq(ByteClass), NEW i \in 1..Len(s), NEW C
  PROVE  /\ Skip(s, i) = i /\ s[i] \notin C => Reaches(s, i, i + 1, C)
         /\ Skip(s, i) > i => Reaches(s, i, Skip(s, i), C)
<1>0. PICK l \in Nat : l = Len(s) /\ i <= l
  OBVIOUS
<1>1. i \in 1..(Len(s) + 1) /\ i + 1 \in 1..(Len(s) + 1)
  BY <1>0
<1>2. ASSUME Skip(s, i) = i, s[i] \notin C PROVE Reaches(s, i, i + 1, C)
  <2>1. Walk(s, i) = Visiting(i, Walk(s, i + 1)) /\ Walk(s, i + 1) \in Walks(s)
    BY <1>0, <1>1, <1>2, WalkStep
  <2>2. /\ Walk(s, i).at = Walk(s, i + 1).at \cup {i}
        /\ Walk(s, i).malformed = Walk(s, i + 1).malformed
    BY <2>1, VisitingIs
  <2>3. PICK A, B, x, y : /\ A = Walk(s, i).at /\ B = Walk(s, i + 1).at
                          /\ x = Walk(s, i).malformed /\ y = Walk(s, i + 1).malformed
    OBVIOUS
  <2>4. A = B \cup {i} /\ x = y
    BY <2>2, <2>3
  <2>5. \A p \in B : p \in (i + 1)..l
    BY <1>0, <1>1, <2>3, WalkVisits
  <2>6. ASSUME NEW p \in A, p < i + 1 PROVE s[p] \notin C
    <3>1. p \notin B
      <4>1. ASSUME p \in B PROVE FALSE
        <5>1. p \in (i + 1)..l
          BY <2>5, <4>1
        <5> QED
          BY <2>6, <5>1
      <4> QED
        BY <4>1
    <3>2. p = i
      BY <2>4, <3>1
    <3> QED
      BY <1>2, <3>2
  <2>7. \A p \in Int : p >= i + 1 => (p \in A <=> p \in B)
    BY <1>0, <2>4
  <2> QED
    BY <1>0, <2>3, <2>4, <2>6, <2>7 DEF Reaches
<1>3. ASSUME Skip(s, i) > i PROVE Reaches(s, i, Skip(s, i), C)
  <2>1. PICK y : y = Skip(s, i)
    OBVIOUS
  <2>2. y \in 1..(Len(s) + 1) /\ y >= i
    <3>1. y = i \/ y \in {Incomplete, Malformed} \cup (i + 1)..(Len(s) + 1)
      BY <2>1, SkipRange
    <3> QED
      BY <1>0, <1>3, <2>1, <3>1 DEF Incomplete, Malformed
  <2>3. Walk(s, i) = Walk(s, y)
    BY <1>0, <1>1, <1>3, <2>1, WalkStep
  <2>4. Reaches(s, y, y, C)
    BY <2>2, ReachesItself
  <2> QED
    BY <2>1, <2>2, <2>3, <2>4 DEF Reaches
<1> QED
  BY <1>2, <1>3

IdentBytes == {"x", "b", "d"}

\* The walk visits the bytes of an identifier, unless its last one opens a bytes
\* literal with the quote after it.
LEMMA IdentReaches ==
  ASSUME NEW s \in Seq(ByteClass), NEW i \in 1..(Len(s) + 1),
         NEW end \in i..(Len(s) + 1), \A k \in i..(end - 1) : IsIdentPart(s[k]),
         ~At(s, end, "quote"),
         NEW C, \A c \in IdentBytes : c \notin C
  PROVE  Reaches(s, i, end, C)
<1>0. PICK l \in Nat : l = Len(s)
  OBVIOUS
<1> DEFINE T == {n \in i..end : Reaches(s, n, end, C)}
<1>1. ASSUME NEW n \in i..end, \A j \in (n + 1)..end : j \in T PROVE n \in T
  <2>0. n \in 1..(Len(s) + 1) /\ n \in Int /\ end \in Int
    BY <1>0
  <2>1. CASE n = end
    BY <2>0, <2>1, ReachesItself
  <2>2. CASE n < end
    <3>1. n \in i..(end - 1) /\ n \in 1..Len(s) /\ n + 1 \in (n + 1)..end /\ n + 1 \in Int
      BY <1>0, <2>2
    <3>2. s[n] \in IdentBytes
      BY <3>1 DEF IsIdentPart, IdentBytes
    <3>3. ~At(s, n + 1, "quote")
      <4>1. CASE n + 1 = end
        BY <4>1
      <4>2. CASE n + 1 < end
        <5>1. n + 1 \in i..(end - 1)
          BY <3>1, <4>2
        <5> QED
          BY <5>1 DEF IsIdentPart, At
      <4> QED
        BY <3>1, <4>1, <4>2
    <3>4. Skip(s, n) = n
      BY <3>1, <3>2, <3>3, SkipIs DEF IdentBytes
    <3>5. Reaches(s, n, n + 1, C)
      BY <3>1, <3>2, <3>4, StepReaches
    <3>6. Reaches(s, n + 1, end, C)
      BY <1>1, <3>1
    <3>7. Reaches(s, n, end, C)
      BY <2>0, <3>1, <3>5, <3>6, ReachesOn
    <3> QED
      BY <3>7
  <2> QED
    BY <2>0, <2>1, <2>2
<1> HIDE DEF T
<1>2. i \in Int /\ end \in Int
  OBVIOUS
<1>3. i..end \subseteq T
  BY <1>1, <1>2, BackwardInductive
<1>4. i \in T
  BY <1>3
<1> QED
  BY <1>4 DEF T

\* What the walk sees of a token: nothing of a literal or a comment, and the
\* bytes of the others.
LEMMA TokenReaches ==
  ASSUME NEW s \in Seq(ByteClass), NEW i \in 1..Len(s), NEW C
  PROVE  LET t == NextToken(s, i)
         IN  /\ t.kind = "Blank" /\ "nl" \notin C /\ "sp" \notin C => Reaches(s, i, t.to, C)
             /\ t.kind \in {"String", "Bytes"} => Reaches(s, i, t.to, C)
             /\ t.kind \in Punctuation /\ t.kind \notin C => Reaches(s, i, t.to, C)
             /\ t.kind = "Ident" /\ ~At(s, t.to, "quote") /\ (\A c \in IdentBytes : c \notin C)
                  => Reaches(s, i, t.to, C)
             /\ t.kind \in {"AtDirective", "AtDataset"} /\ ~At(s, t.to, "quote")
                  /\ (\A c \in IdentBytes \cup {"@"} : c \notin C)
                  => Reaches(s, i, t.to, C)
<1>0. PICK l \in Nat : l = Len(s) /\ i <= l
  OBVIOUS
<1>1. PICK t : t = NextToken(s, i)
  OBVIOUS
<1>2. TokenShape(s, i, t) /\ t.to \in (i + 1)..(l + 1)
  BY <1>0, <1>1, NextTokenShape
<1>k. t.kind \in Punctuation => t.kind \notin Others
  BY PunctuationIs
<1>3. PICK x, to : x = Skip(s, i) /\ to = t.to
  OBVIOUS
<1>4. x > i => Reaches(s, i, x, C)
  BY <1>3, StepReaches
<1>5. x = i /\ s[i] \notin C => Reaches(s, i, i + 1, C)
  BY <1>3, StepReaches
<1>6. s[i] \notin {"quote", "b", "#", "/"} => x = i
  BY <1>3, SkipIs
<1>7. ASSUME t.kind = "Blank", "nl" \notin C, "sp" \notin C PROVE Reaches(s, i, t.to, C)
  <2>1. \/ s[i] \in {"nl", "sp"} /\ t.to = i + 1
        \/ t.to = x /\ x > i
    BY <1>2, <1>3, <1>7, <1>k DEF TokenShape, Others
  <2> QED
    BY <1>4, <1>5, <1>6, <1>7, <2>1
<1>8. ASSUME t.kind \in {"String", "Bytes"} PROVE Reaches(s, i, t.to, C)
  <2>1. t.to = x /\ x > i
    BY <1>2, <1>3, <1>8, <1>k DEF TokenShape, Others
  <2> QED
    BY <1>4, <2>1
<1>9. ASSUME t.kind \in Punctuation, t.kind \notin C PROVE Reaches(s, i, t.to, C)
  <2>1. s[i] = t.kind /\ t.to = i + 1
    BY <1>2, <1>9, <1>k DEF TokenShape, Others
  <2>2. s[i] \notin {"quote", "b", "#", "/"}
    BY <1>9, <1>k, <2>1 DEF Others
  <2> QED
    BY <1>5, <1>6, <1>9, <2>1, <2>2
<1>10. ASSUME t.kind = "Ident", ~At(s, t.to, "quote"), \A c \in IdentBytes : c \notin C
       PROVE  Reaches(s, i, t.to, C)
  <2>1. to = IdentEnd(s, i)
    BY <1>2, <1>3, <1>10, <1>k DEF TokenShape, Others
  <2>2. i \in 1..(Len(s) + 1) /\ to \in i..(Len(s) + 1)
    BY <1>0, <1>2, <1>3
  <2>3. \A k \in i..(to - 1) : IsIdentPart(s[k])
    BY <2>1, <2>2, IdentEndIs
  <2> QED
    BY <1>3, <1>10, <2>2, <2>3, IdentReaches
<1>11. ASSUME t.kind \in {"AtDirective", "AtDataset"}, ~At(s, t.to, "quote"),
              \A c \in IdentBytes \cup {"@"} : c \notin C
       PROVE  Reaches(s, i, t.to, C)
  <2>1. to = IdentEnd(s, i + 1) /\ s[i] = "@"
    BY <1>2, <1>3, <1>11, <1>k DEF TokenShape, Others
  <2>2. i + 1 \in 1..(Len(s) + 1) /\ to \in (i + 1)..(Len(s) + 1)
    BY <1>0, <1>2, <1>3
  <2>3. \A k \in (i + 1)..(to - 1) : IsIdentPart(s[k])
    BY <2>1, <2>2, IdentEndIs
  <2>4. Reaches(s, i + 1, to, C)
    BY <1>3, <1>11, <2>2, <2>3, IdentReaches
  <2>5. Reaches(s, i, i + 1, C)
    BY <1>5, <1>6, <1>11, <2>1
  <2>6. i \in Int /\ i + 1 \in Int /\ to \in Int /\ i \in 1..(Len(s) + 1)
    BY <1>0, <2>2
  <2>7. Reaches(s, i, to, C)
    BY <2>4, <2>5, <2>6, ReachesOn
  <2> QED
    BY <1>3, <2>7
<1> QED
  BY <1>1, <1>7, <1>8, <1>9, <1>10, <1>11

\* The first token of t is the one at m, and those after it are the tokens
\* from its end on.
TokensAt(s, t, m) ==
  /\ NextToken(s, m).kind # "Blank"
  /\ Len(t) >= 1 /\ t[1] = NextToken(s, m) /\ t[1].from = m
  /\ m > Len(s) => Len(t) = 1 /\ t[1].kind = "Eof"
  /\ m <= Len(s) =>
       /\ t[1].kind # "Eof"
       /\ t[1].to \in (m + 1)..(Len(s) + 1)
       /\ Len(t) = 1 + Len(TokensFrom(s, t[1].to))
       /\ \A j \in 1..Len(TokensFrom(s, t[1].to)) : t[j + 1] = TokensFrom(s, t[1].to)[j]

\* A token that is not blank is the first of the tokens from its place on.
LEMMA TokensStart ==
  ASSUME NEW s \in Seq(ByteClass), NEW m \in 1..(Len(s) + 1), NextToken(s, m).kind # "Blank"
  PROVE  TokensAt(s, TokensFrom(s, m), m)
<1>0. PICK l \in Nat : l = Len(s)
  OBVIOUS
<1>1. CASE m > l
  <2>1. m \in Nat /\ m > Len(s)
    BY <1>0, <1>1
  <2>2. NextToken(s, m) = Token("Eof", m, m)
    BY <2>1, EofToken
  <2>3. TokensFrom(s, m) = <<Token("Eof", m, m)>>
    BY <2>1, TokensStep
  <2>4. ~(m <= Len(s))
    BY <2>1
  <2> QED
    BY <2>2, <2>3, <2>4, TokenFields DEF TokensAt
<1>2. CASE m <= l
  <2>1. m \in 1..Len(s)
    BY <1>0, <1>2
  <2>2. PICK h : h = NextToken(s, m)
    OBVIOUS
  <2>3. TokenShape(s, m, h) /\ h.from = m /\ h.to \in (m + 1)..(l + 1)
    BY <1>0, <2>1, <2>2, NextTokenShape
  <2>4. h.kind # "Eof"
    <3>1. h.kind \in Punctuation => h.kind # "Eof"
      BY PunctuationIs DEF Others
    <3> QED
      BY <2>3, <3>1 DEF TokenShape
  <2>5. PICK r : r = TokensFrom(s, h.to)
    OBVIOUS
  <2>6. h.to \in 1..(Len(s) + 1)
    BY <1>0, <2>3
  <2>7. r \in Seq(Lexed(s)) /\ h \in Lexed(s)
    BY <2>2, <2>5, <2>6, TokensStep DEF Lexed
  <2>8. TokensFrom(s, m) = <<h>> \o r
    BY <1>0, <1>2, <2>2, <2>5, TokensStep
  <2>9. PICK t : t = TokensFrom(s, m)
    OBVIOUS
  <2>10. <<h>> \in Seq(Lexed(s)) /\ Len(<<h>>) = 1 /\ <<h>>[1] = h
    BY <2>7
  <2>11. /\ Len(t) = 1 + Len(r)
         /\ \A j \in 1..(1 + Len(r)) : t[j] = IF j <= 1 THEN h ELSE r[j - 1]
    <3>1. Len(t) = 1 + Len(r)
      BY <2>7, <2>8, <2>9, <2>10, ConcatProperties
    <3>2. \A j \in 1..(1 + Len(r)) : t[j] = IF j <= 1 THEN <<h>>[j] ELSE r[j - 1]
      BY <2>7, <2>8, <2>9, <2>10, ConcatProperties
    <3>3. ASSUME NEW j \in 1..(1 + Len(r)) PROVE t[j] = IF j <= 1 THEN h ELSE r[j - 1]
      <4>1. j <= 1 => j = 1
        OBVIOUS
      <4> QED
        BY <2>10, <3>2, <4>1
    <3> QED
      BY <3>1, <3>3
  <2>12. PICK n \in Nat : n = Len(r)
    BY <2>7
  <2>13. t[1] = h
    BY <2>11, <2>12
  <2>14. ASSUME NEW j \in 1..n PROVE t[j + 1] = r[j]
    <3>1. j + 1 \in 1..(1 + n) /\ ~(j + 1 <= 1) /\ (j + 1) - 1 = j
      OBVIOUS
    <3> QED
      BY <2>11, <2>12, <3>1
  <2>15. Len(t) >= 1
    BY <2>11, <2>12
  <2>16. ~(m > Len(s))
    BY <1>0, <1>2
  <2> QED
    BY <1>0, <2>2, <2>3, <2>4, <2>5, <2>9, <2>11, <2>12, <2>13, <2>14, <2>15, <2>16 DEF TokensAt
<1>3. m > l \/ m <= l
  BY <1>0
<1> QED
  BY <1>1, <1>2, <1>3

GapTo(s, i, m, C) ==
  /\ m \in i..(Len(s) + 1)
  /\ TokensAt(s, TokensFrom(s, i), m)
  /\ Reaches(s, i, m, C)

\* Before the first token the walk sees blanks only.
LEMMA GapReaches ==
  ASSUME NEW s \in Seq(ByteClass), NEW C, "nl" \notin C, "sp" \notin C,
         NEW i \in 1..(Len(s) + 1)
  PROVE  \E m \in 1..(Len(s) + 1) : GapTo(s, i, m, C)
<1>0. PICK l \in Nat : l = Len(s)
  OBVIOUS
<1> DEFINE T == {n \in 1..(l + 1) : \E m \in 1..(l + 1) : GapTo(s, n, m, C)}
<1>1. ASSUME NEW n \in 1..(l + 1), \A j \in (n + 1)..(l + 1) : j \in T PROVE n \in T
  <2>0. n \in 1..(Len(s) + 1)
    BY <1>0
  <2>1. CASE NextToken(s, n).kind # "Blank"
    <3>1. TokensAt(s, TokensFrom(s, n), n)
      BY <2>0, <2>1, TokensStart
    <3>2. Reaches(s, n, n, C)
      BY <2>0, ReachesItself
    <3>3. n \in n..(Len(s) + 1)
      BY <1>0
    <3> QED
      BY <3>1, <3>2, <3>3 DEF GapTo
  <2>2. CASE NextToken(s, n).kind = "Blank"
    <3>1. n \in 1..Len(s)
      <4>1. n > l => NextToken(s, n).kind = "Eof"
        BY <1>0, <2>0, EofToken, TokenFields
      <4>2. ~(n > l)
        BY <2>2, <4>1
      <4> QED
        BY <1>0, <4>2
    <3>2. PICK y : y = NextToken(s, n).to
      OBVIOUS
    <3>3. y \in (n + 1)..(l + 1)
      BY <1>0, <3>1, <3>2, NextTokenShape
    <3>4. PICK m \in 1..(l + 1) : GapTo(s, y, m, C)
      BY <1>1, <3>3
    <3>5. Reaches(s, n, y, C)
      BY <2>2, <3>1, <3>2, TokenReaches
    <3>6. n \in Int /\ y \in Int /\ m \in Int
      BY <3>3
    <3>7. Reaches(s, n, m, C)
      BY <2>0, <3>4, <3>5, <3>6, ReachesOn DEF GapTo
    <3>8. TokensFrom(s, n) = TokensFrom(s, y)
      <4>1. n <= Len(s)
        BY <1>0, <3>1
      <4> QED
        BY <2>0, <2>2, <3>2, <4>1, TokensStep
    <3>9. m \in y..(Len(s) + 1)
      BY <3>4 DEF GapTo
    <3>10. m \in n..(Len(s) + 1)
      BY <1>0, <3>3, <3>9
    <3>11. GapTo(s, n, m, C)
      BY <3>4, <3>7, <3>8, <3>10 DEF GapTo
    <3> QED
      BY <3>11
  <2> QED
    BY <2>1, <2>2
<1> HIDE DEF T
<1>2. 1 \in Int /\ l + 1 \in Int
  OBVIOUS
<1>3. 1..(l + 1) \subseteq T
  BY <1>1, <1>2, BackwardInductive
<1>4. i \in T
  BY <1>0, <1>3
<1> QED
  BY <1>0, <1>4 DEF T

Brackets == {"(", ")"}

\* The kinds of the tokens of a row.
CellKinds == Values \cup {","}

\* The kinds of tokens a row may have between its parentheses.
LEMMA CellKindsAre ==
  /\ \A c \in CellKinds : c \in Values \/ (c \in Punctuation /\ c \notin Brackets)
  /\ \A c \in Values : c \in CellKinds
  /\ ")" \notin CellKinds /\ "(" \notin CellKinds
<1>1. ASSUME NEW c \in CellKinds PROVE c \in Values \/ (c \in Punctuation /\ c \notin Brackets)
  <2>1. c \in Values \/ c = ","
    BY Zenon DEF CellKinds
  <2>2. "," \in Punctuation /\ "," \notin Brackets
    BY Zenon DEF Punctuation, Brackets
  <2> QED
    BY <2>1, <2>2, Zenon
<1>2. \A c \in Values : c \in CellKinds
  BY Zenon DEF CellKinds
<1>3. ")" \notin CellKinds /\ "(" \notin CellKinds
  BY Zenon DEF CellKinds, Values
<1> QED
  BY <1>1, <1>2, <1>3

\* The tokens of t up to the j-th, a parenthesis that closes, are the rest of a row.
RowRest(t, j) ==
  /\ t[j].kind = ")"
  /\ \A n \in 1..(j - 1) : t[n].kind \in CellKinds
  /\ \A n \in 1..(j - 2) : ~(t[n].kind \in Values /\ t[n + 1].kind \in Values)

RowReach(s, n, q) ==
  q \in n..Len(s) /\ NextToken(s, q).kind = ")" /\ Reaches(s, n, q, Brackets)

\* In the rest of a row the walk meets no parenthesis but the one that closes it.
LEMMA RowReaches ==
  ASSUME NEW s \in Seq(ByteClass), NEW i \in 1..(Len(s) + 1),
         NEW j \in 1..Len(TokensFrom(s, i)), RowRest(TokensFrom(s, i), j)
  PROVE  RowReach(s, i, TokensFrom(s, i)[j].from)
<1>0. PICK l \in Nat : l = Len(s)
  OBVIOUS
<1> DEFINE tf(n) == TokensFrom(s, n)
           T == {n \in 1..(l + 1) : \A k \in 1..Len(tf(n)) :
                   RowRest(tf(n), k) => RowReach(s, n, tf(n)[k].from)}
<1>c. "nl" \notin Brackets /\ "sp" \notin Brackets /\ \A c \in IdentBytes : c \notin Brackets
  BY DEF Brackets, IdentBytes
<1>1. ASSUME NEW n \in 1..(l + 1), \A k \in (n + 1)..(l + 1) : k \in T PROVE n \in T
  <2> SUFFICES ASSUME NEW k \in 1..Len(tf(n)), RowRest(tf(n), k)
               PROVE  RowReach(s, n, tf(n)[k].from)
    OBVIOUS
  <2>0. n \in 1..(Len(s) + 1) /\ n \in Int
    BY <1>0
  <2>1. PICK m \in 1..(Len(s) + 1) : GapTo(s, n, m, Brackets)
    BY <1>c, <2>0, GapReaches
  <2>2. PICK t : t = tf(n)
    OBVIOUS
  <2>3. m \in n..(Len(s) + 1) /\ TokensAt(s, t, m) /\ Reaches(s, n, m, Brackets)
    BY <2>1, <2>2 DEF GapTo
  <2>4. m \in n..(l + 1) /\ m \in Int
    BY <1>0, <2>3
  <2>5. t[1] = NextToken(s, m) /\ t[1].from = m /\ RowRest(t, k) /\ k \in 1..Len(t)
    BY <2>2, <2>3 DEF TokensAt
  <2>6. CASE k = 1
    <3>1. t[1].kind = ")"
      BY <2>5, <2>6 DEF RowRest
    <3>2. m <= l
      <4>1. m > Len(s) => t[1].kind = "Eof"
        BY <2>3 DEF TokensAt
      <4>2. ~(m > Len(s))
        BY <3>1, <4>1
      <4> QED
        BY <1>0, <2>4, <4>2
    <3>3. m \in n..Len(s)
      BY <1>0, <2>4, <3>2
    <3> QED
      BY <2>2, <2>3, <2>5, <2>6, <3>1, <3>3 DEF RowReach
  <2>7. CASE k > 1
    <3>1. PICK h : h = t[1]
      OBVIOUS
    <3>2. h.kind \in CellKinds
      <4>1. 1 \in 1..(k - 1)
        BY <2>7
      <4> QED
        BY <2>5, <3>1, <4>1 DEF RowRest
    <3>3. m <= l
      <4>1. m > Len(s) => Len(t) = 1
        BY <2>3 DEF TokensAt
      <4>2. ~(m > Len(s))
        <5>1. ASSUME Len(t) = 1 PROVE FALSE
          <6>1. k \in 1..1
            BY <2>5, <5>1
          <6> QED
            BY <2>7, <6>1
        <5> QED
          BY <4>1, <5>1
      <4> QED
        BY <1>0, <2>4, <4>2
    <3>4. PICK e, r : e = h.to /\ r = TokensFrom(s, h.to)
      OBVIOUS
    <3>5. e \in (m + 1)..(l + 1) /\ Len(t) = 1 + Len(r) /\ \A u \in 1..Len(r) : t[u + 1] = r[u]
      BY <1>0, <2>3, <3>1, <3>3, <3>4 DEF TokensAt
    <3>6. e \in 1..(Len(s) + 1) /\ e \in (n + 1)..(l + 1) /\ e \in Int
      BY <1>0, <2>4, <3>5
    <3>7. PICK lr \in Nat : lr = Len(r)
      <4>1. r \in Seq(Lexed(s))
        BY <3>4, <3>6, TokensStep
      <4> QED
        BY <4>1
    <3>8. PICK v \in 1..lr : k = v + 1
      <4>1. k - 1 \in 1..lr /\ k = (k - 1) + 1
        BY <2>5, <2>7, <3>5, <3>7
      <4> QED
        BY <4>1
    <3>9. RowRest(r, v)
      <4>1. \A u \in 1..v : t[u + 1] = r[u]
        <5> SUFFICES ASSUME NEW u \in 1..v PROVE t[u + 1] = r[u]
          OBVIOUS
        <5>1. u \in 1..Len(r)
          BY <3>7, <3>8
        <5> QED
          BY <3>5, <5>1
      <4>2. r[v].kind = ")"
        <5>1. v \in 1..v
          BY <3>8
        <5>2. t[k] = r[v]
          BY <3>8, <4>1, <5>1
        <5>3. t[k].kind = ")"
          BY <2>5 DEF RowRest
        <5> QED
          BY <5>2, <5>3
      <4>3. ASSUME NEW u \in 1..(v - 1) PROVE r[u].kind \in CellKinds
        <5>1. u + 1 \in 1..(k - 1) /\ u \in 1..v
          BY <3>8
        <5> QED
          BY <2>5, <4>1, <5>1 DEF RowRest
      <4>4. ASSUME NEW u \in 1..(v - 2) PROVE ~(r[u].kind \in Values /\ r[u + 1].kind \in Values)
        <5>1. u + 1 \in 1..(k - 2) /\ u \in 1..v /\ u + 1 \in 1..v
          BY <3>8
        <5>2. t[u + 1] = r[u] /\ t[(u + 1) + 1] = r[u + 1]
          BY <4>1, <5>1
        <5>3. ~(t[u + 1].kind \in Values /\ t[(u + 1) + 1].kind \in Values)
          BY <2>5, <5>1 DEF RowRest
        <5> QED
          BY <5>2, <5>3
      <4> QED
        BY <4>2, <4>3, <4>4 DEF RowRest
    <3>10. RowReach(s, e, r[v].from)
      <4>1. e \in T
        BY <1>1, <3>6
      <4> QED
        BY <3>4, <3>7, <3>9, <4>1
    <3>11. Reaches(s, m, e, Brackets)
      <4>1. m \in 1..Len(s) /\ h = NextToken(s, m)
        BY <1>0, <2>4, <2>5, <3>1, <3>3
      <4>2. h.kind \in Values \/ (h.kind \in Punctuation /\ h.kind \notin Brackets)
        BY <3>2, CellKindsAre
      <4>3. h.kind = "Ident" => ~At(s, e, "quote")
        <5> SUFFICES ASSUME h.kind = "Ident", At(s, e, "quote") PROVE FALSE
          OBVIOUS
        <5>1. e \in 1..Len(s) /\ s[e] = "quote"
          BY DEF At
        <5>2. NextToken(s, e).kind \in {"String", "Illegal"}
          BY <5>1, NextTokenShape
        <5>3. TokensAt(s, r, e)
          BY <3>4, <3>6, <5>2, TokensStart
        <5>4. r[1] = NextToken(s, e)
          BY <5>3 DEF TokensAt
        <5>5. CASE v = 1
          BY <3>9, <5>2, <5>4, <5>5 DEF RowRest
        <5>6. CASE v > 1
          <6>1. 1 \in 1..(v - 1) /\ 1 \in 1..(k - 2) /\ 1 \in 1..lr
            BY <3>8, <5>6
          <6>2. r[1].kind \in CellKinds
            BY <3>9, <6>1 DEF RowRest
          <6>3. "Illegal" \notin CellKinds
            BY CellKindsAre, PunctuationIs DEF Values, Others
          <6>4. r[1].kind = "String" /\ t[1 + 1] = r[1]
            BY <3>5, <3>7, <5>2, <5>4, <6>1, <6>2, <6>3
          <6>5. ~(t[1].kind \in Values /\ t[1 + 1].kind \in Values)
            BY <2>5, <6>1 DEF RowRest
          <6> QED
            BY <3>1, <6>4, <6>5 DEF Values
        <5> QED
          BY <3>8, <5>5, <5>6
      <4> QED
        BY <1>c, <3>4, <4>1, <4>2, <4>3, TokenReaches DEF Values
    <3>12. PICK q : q = r[v].from
      OBVIOUS
    <3>13. q \in e..l /\ NextToken(s, q).kind = ")" /\ Reaches(s, e, q, Brackets)
      BY <1>0, <3>10, <3>12 DEF RowReach
    <3>14. Reaches(s, n, q, Brackets)
      <4>1. q \in Int /\ m \in 1..(Len(s) + 1)
        BY <3>6, <3>13
      <4>2. Reaches(s, m, q, Brackets)
        BY <2>4, <3>6, <3>11, <3>13, <4>1, ReachesOn
      <4> QED
        BY <2>0, <2>3, <2>4, <4>1, <4>2, ReachesOn
    <3>15. q = tf(n)[k].from
      BY <2>2, <3>5, <3>7, <3>8, <3>12
    <3>16. q \in n..Len(s)
      BY <1>0, <3>6, <3>13
    <3> QED
      BY <3>13, <3>14, <3>15, <3>16 DEF RowReach
  <2>8. k = 1 \/ k > 1
    BY <2>5
  <2> QED
    BY <2>6, <2>7, <2>8
<1> HIDE DEF T
<1>2. 1 \in Int /\ l + 1 \in Int
  OBVIOUS
<1>3. 1..(l + 1) \subseteq T
  BY <1>1, <1>2, BackwardInductive
<1>4. i \in T
  BY <1>0, <1>3
<1> QED
  BY <1>4 DEF T

-----------------------------------------------------------------------------
(***************************************************************************)
(* The parser's lists and rows.                                            *)
(***************************************************************************)
Comma == {","}

\* A list of the grammar: its parentheses and what stands between them.
IsList(t, k, end) ==
  /\ t[k].kind = "("
  /\ end \in (k + 1)..Len(t) /\ t[end].kind = ")"
  /\ \A n \in (k + 1)..(end - 1) : t[n].kind \in CellKinds
  /\ \A n \in (k + 1)..(end - 2) : ~(t[n].kind \in Values /\ t[n + 1].kind \in Values)

\* What ListEnd accepts is a parenthesis, values with commas, and a parenthesis.
LEMMA ListIs ==
  ASSUME NEW T, NEW t \in Seq(T), NEW k \in 1..Len(t), NEW items, NEW empty,
         \A c \in items : c \in Values,
         ListEnd(t, k, items, empty) # 0
  PROVE  IsList(t, k, ListEnd(t, k, items, empty))
<1>0. PICK l \in Nat : l = Len(t)
  OBVIOUS
<1> DEFINE S == {i \in (k + 1)..Len(t) : t[i].kind \notin items \cup Comma}
           neighbours(e) == {<<t[i].kind, t[i + 1].kind>> : i \in k..(e - 1)}
<1>1. PICK end : end = TheOne(First(S), 0)
  OBVIOUS
<1> DEFINE good == /\ t[k].kind = "(" /\ t[end].kind = ")"
                   /\ \A p \in neighbours(end) :
                        /\ ~(p[1] \in items /\ p[2] \in items)
                        /\ empty \/ p[1] \in items \/ p[2] \in items
<1>2. ListEnd(t, k, items, empty) = IF good THEN end ELSE 0
  BY <1>1, Zenon DEF ListEnd, FirstAt, Comma
<1> DEFINE apart == \A p \in neighbours(end) : ~(p[1] \in items /\ p[2] \in items)
<1>3. ListEnd(t, k, items, empty) = end /\ end # 0 /\ t[k].kind = "(" /\ t[end].kind = ")" /\ apart
  <2>1. good => apart
    OBVIOUS
  <2>2. good => t[k].kind = "(" /\ t[end].kind = ")"
    OBVIOUS
  <2> HIDE DEF good, apart
  <2> QED
    BY <1>2, <2>1, <2>2
<1>4. S \subseteq Nat
  OBVIOUS
<1>5. end \in S /\ \A q \in S : end <= q
  <2> HIDE DEF S
  <2>1. PICK none : none = 0
    OBVIOUS
  <2>2. PICK x : x = TheOne(First(S), none)
    OBVIOUS
  <2>3. x = end /\ x # none
    BY <1>1, <1>3, <2>1, <2>2
  <2>5. \/ S = {} /\ x = none
        \/ x \in S /\ \A q \in S : x <= q
    BY <1>4, <2>2, LeastWhich
  <2>4. x \in S /\ \A q \in S : x <= q
    BY <2>3, <2>5
  <2> QED
    BY <2>3, <2>4
<1>6. end \in (k + 1)..Len(t)
  BY <1>5
<1>7. ASSUME NEW n \in (k + 1)..(end - 1)
      PROVE  t[n].kind \in items \cup Comma
  <2>1. n \in (k + 1)..Len(t) /\ ~(end <= n)
    BY <1>0, <1>6
  <2>2. n \notin S
    BY <1>5, <2>1
  <2> QED
    BY <2>1, <2>2
<1>8. \A c : c \in items \cup Comma => c \in CellKinds /\ (c \in Values => c \in items)
  <2> SUFFICES ASSUME NEW c \in items \cup Comma
               PROVE  c \in CellKinds /\ (c \in Values => c \in items)
    OBVIOUS
  <2>1. c \in items \/ c = ","
    BY Zenon DEF Comma
  <2>2. "," \notin Values /\ "," \in CellKinds
    BY Zenon DEF Values, CellKinds
  <2>3. c \in items => c \in CellKinds
    BY CellKindsAre
  <2> QED
    BY <2>1, <2>2, <2>3, Zenon
<1>9. ASSUME NEW n \in (k + 1)..(end - 2)
      PROVE  ~(t[n].kind \in Values /\ t[n + 1].kind \in Values)
  <2>1. n \in (k + 1)..(end - 1) /\ n + 1 \in (k + 1)..(end - 1) /\ n \in k..(end - 1)
    BY <1>6
  <2>2. PICK p : p = <<t[n].kind, t[n + 1].kind>>
    OBVIOUS
  <2>3. p \in neighbours(end) /\ p[1] = t[n].kind /\ p[2] = t[n + 1].kind
    BY <2>1, <2>2
  <2>4. ~(t[n].kind \in items /\ t[n + 1].kind \in items)
    BY <1>3, <2>3
  <2> QED
    BY <1>7, <1>8, <2>1, <2>4
<1>10. \A n \in (k + 1)..(end - 1) : t[n].kind \in CellKinds
  BY <1>7, <1>8
<1> HIDE DEF S, neighbours, apart, good
<1> QED
  BY <1>3, <1>6, <1>9, <1>10 DEF IsList

\* The tokens of a text end in Eof.
LEMMA LastIsEof ==
  ASSUME NEW s \in Seq(ByteClass), NEW i \in 1..(Len(s) + 1)
  PROVE  LET t == TokensFrom(s, i) IN Len(t) >= 1 /\ t[Len(t)].kind = "Eof"
<1>0. PICK l \in Nat : l = Len(s)
  OBVIOUS
<1> DEFINE tf(n) == TokensFrom(s, n)
           T == {n \in 1..(l + 1) : Len(tf(n)) >= 1 /\ tf(n)[Len(tf(n))].kind = "Eof"}
<1>1. ASSUME NEW n \in 1..(l + 1), \A k \in (n + 1)..(l + 1) : k \in T PROVE n \in T
  <2>0. n \in 1..(Len(s) + 1) /\ n \in Int
    BY <1>0
  <2>1. PICK m \in 1..(Len(s) + 1) : GapTo(s, n, m, {})
    BY <2>0, GapReaches
  <2>2. PICK t : t = tf(n)
    OBVIOUS
  <2>3. m \in n..(Len(s) + 1) /\ TokensAt(s, t, m)
    BY <2>1, <2>2 DEF GapTo
  <2>4. m \in n..(l + 1) /\ m \in Int
    BY <1>0, <2>3
  <2>5. Len(t) >= 1 /\ t[1] = NextToken(s, m)
    BY <2>3 DEF TokensAt
  <2>6. CASE m > l
    <3>1. Len(t) = 1 /\ t[1].kind = "Eof"
      BY <1>0, <2>3, <2>6 DEF TokensAt
    <3>2. Len(t) >= 1 /\ t[Len(t)].kind = "Eof"
      BY <3>1
    <3> QED
      BY <2>2, <3>2
  <2>7. CASE m <= l
    <3>1. PICK e, r : e = t[1].to /\ r = TokensFrom(s, e)
      OBVIOUS
    <3>2. e \in (m + 1)..(l + 1) /\ Len(t) = 1 + Len(r) /\ \A u \in 1..Len(r) : t[u + 1] = r[u]
      BY <1>0, <2>3, <2>7, <3>1 DEF TokensAt
    <3>3. e \in 1..(Len(s) + 1) /\ e \in (n + 1)..(l + 1)
      BY <1>0, <2>4, <3>2
    <3>4. PICK lr \in Nat : lr = Len(r)
      <4>1. r \in Seq(Lexed(s))
        BY <3>1, <3>3, TokensStep
      <4> QED
        BY <4>1
    <3>5. e \in T
      BY <1>1, <3>3
    <3>6. lr >= 1 /\ r[lr].kind = "Eof"
      BY <3>1, <3>4, <3>5
    <3>7. lr \in 1..Len(r) /\ Len(t) = lr + 1
      BY <3>2, <3>4, <3>6
    <3>8. t[lr + 1] = r[lr]
      BY <3>2, <3>7
    <3>9. t[Len(t)].kind = "Eof"
      BY <3>6, <3>7, <3>8
    <3> QED
      BY <2>2, <2>5, <3>9
  <2>8. m > l \/ m <= l
    BY <2>4
  <2> QED
    BY <2>6, <2>7, <2>8
<1> HIDE DEF T
<1>2. 1 \in Int /\ l + 1 \in Int
  OBVIOUS
<1>3. 1..(l + 1) \subseteq T
  BY <1>1, <1>2, BackwardInductive
<1>4. i \in T
  BY <1>0, <1>3
<1> QED
  BY <1>4 DEF T

\* The row that starts at token n; 0 when none does.
RowAtToken(t, n, arity) == IF t[n].kind = "(" THEN RowEnd(t, n, arity) ELSE 0

Span(t, n, end) == [from |-> t[n].from, to |-> t[end].from]

RowFirst(span, rows) == [rows EXCEPT !.spans = <<span>> \o @]

Spans(t) == {Span(t, n, end) : n \in 1..Len(t), end \in 1..Len(t)}

RowLists(t) == [spans : Seq(Spans(t)), next : 1..Len(t)]

\* Rows with one more in front.
LEMMA RowFirstIs ==
  ASSUME NEW t, NEW rows \in RowLists(t), NEW span \in Spans(t)
  PROVE  /\ RowFirst(span, rows) \in RowLists(t)
         /\ RowFirst(span, rows).spans = <<span>> \o rows.spans
         /\ RowFirst(span, rows).next = rows.next
<1>1. rows.spans \in Seq(Spans(t)) /\ <<span>> \in Seq(Spans(t)) /\ rows.next \in 1..Len(t)
  BY DEF RowLists
<1>2. <<span>> \o rows.spans \in Seq(Spans(t))
  BY <1>1, ConcatProperties
<1> QED
  BY <1>1, <1>2 DEF RowFirst, RowLists

\* What the parser accepts as a row is such a list.
LEMMA RowEndIs ==
  ASSUME NEW T, NEW t \in Seq(T), NEW n \in 1..Len(t), NEW arity, RowAtToken(t, n, arity) # 0
  PROVE  IsList(t, n, RowAtToken(t, n, arity))
<1>1. \A c \in Values : c \in Values
  OBVIOUS
<1>2. RowAtToken(t, n, arity) = ListEnd(t, n, Values, TRUE)
  BY DEF RowAtToken, RowEnd
<1> QED
  BY <1>1, <1>2, ListIs

\* The rows from token k on: the one that starts there, and those after it.
LEMMA RowsStep ==
  ASSUME NEW T, NEW t \in Seq(T), Len(t) >= 1, t[Len(t)].kind = "Eof",
         NEW k \in 1..Len(t), NEW arity
  PROVE  LET end == RowAtToken(t, k, arity)
         IN  /\ RowsFrom(t, k, arity) \in RowLists(t)
             /\ end = 0 => RowsFrom(t, k, arity) = [spans |-> <<>>, next |-> k]
             /\ end # 0 => /\ end + 1 \in (k + 1)..Len(t)
                           /\ RowsFrom(t, k, arity)
                                = RowFirst(Span(t, k, end), RowsFrom(t, end + 1, arity))
<1>0. PICK l \in Nat : l = Len(t) /\ l >= 1
  OBVIOUS
<1> DEFINE S      == RowLists(t)
           ends(n) == RowAtToken(t, n, arity)
           none(n) == [spans |-> <<>>, next |-> n]
           Stop  == {n \in 1..l : ends(n) = 0}
           base  == [n \in 1..l |-> none(n)]
           next  == [n \in 1..l |-> ends(n) + 1]
           Op    == [n \in 1..l |-> [x \in S |-> RowFirst(Span(t, n, ends(n)), x)]]
           V(f, n) == IF ends(n) = 0 THEN none(n)
                      ELSE RowFirst(Span(t, n, ends(n)), f[ends(n) + 1])
<1>a. ASSUME NEW n \in 1..l, ends(n) # 0
      PROVE  /\ ends(n) \in 1..l /\ ends(n) + 1 \in (n + 1)..l
             /\ Span(t, n, ends(n)) \in Spans(t)
  <2>1. PICK e : e = ends(n)
    OBVIOUS
  <2>2. e \in (n + 1)..Len(t) /\ t[e].kind = ")"
    BY <1>0, <1>a, <2>1, RowEndIs DEF IsList
  <2>3. e # l
    BY <1>0, <2>2
  <2>4. e \in 1..l /\ e + 1 \in (n + 1)..l
    BY <1>0, <2>2, <2>3
  <2>5. Span(t, n, e) \in Spans(t)
    BY <1>0, <2>4 DEF Spans
  <2> QED
    BY <2>1, <2>4, <2>5
<1>s. ASSUME NEW n \in 1..l PROVE none(n) \in S
  BY <1>0 DEF RowLists
<1> HIDE DEF ends, none
<1>1. PICK f \in [1..l -> S] :
        \A n \in 1..l : f[n] = IF n \in Stop THEN base[n] ELSE Op[n][f[next[n]]]
  <2>2. \A n \in 1..l : n \in Stop => base[n] \in S
    BY <1>s
  <2>3. \A n \in 1..l : n \notin Stop => next[n] \in (n + 1)..l
    BY <1>a
  <2>4. \A n \in 1..l : n \notin Stop => Op[n] \in [S -> S]
    <3> SUFFICES ASSUME NEW n \in 1..l, n \notin Stop, NEW x \in S
                 PROVE  RowFirst(Span(t, n, ends(n)), x) \in S
      OBVIOUS
    <3>1. Span(t, n, ends(n)) \in Spans(t)
      BY <1>a
    <3> QED
      BY <3>1, RowFirstIs
  <2> HIDE DEF S, Stop, base, next, Op
  <2>6. IsChain(l, S, Stop, base, next, Op)
    BY <2>2, <2>3, <2>4 DEF IsChain
  <2>7. PICK f \in [1..l -> S] : FollowsChain(f, l, Stop, base, next, Op)
    BY <2>6, ChainRecursion
  <2>8. \A n \in 1..l : f[n] = IF n \in Stop THEN base[n] ELSE Op[n][f[next[n]]]
    BY <2>7 DEF FollowsChain
  <2> QED
    BY <2>7, <2>8
<1>2. ASSUME NEW n \in 1..l PROVE f[n] = V(f, n)
  <2>1. CASE ends(n) = 0
    <3>1. n \in Stop /\ base[n] = none(n)
      BY <2>1
    <3>2. f[n] = none(n)
      <4> HIDE DEF Stop, base, next, Op, S
      <4> QED
        BY <1>1, <3>1
    <3> QED
      BY <2>1, <3>2
  <2>2. CASE ends(n) # 0
    <3>1. n \notin Stop
      BY <2>2
    <3>2. PICK y : y = ends(n) + 1
      OBVIOUS
    <3>3. y \in (n + 1)..l
      BY <1>a, <2>2, <3>2
    <3>4. next[n] = y /\ f[y] \in S
      BY <3>2, <3>3
    <3>5. Op[n][f[y]] = RowFirst(Span(t, n, ends(n)), f[y])
      BY <3>4
    <3>6. f[n] = RowFirst(Span(t, n, ends(n)), f[y])
      <4> HIDE DEF Stop, base, next, Op, S
      <4> QED
        BY <1>1, <3>1, <3>4, <3>5
    <3> QED
      BY <2>2, <3>2, <3>6
  <2> QED
    BY <2>1, <2>2
<1> HIDE DEF Stop, base, next, Op
<1>3. ASSUME NEW from \in 1..l PROVE RowsFrom(t, from, arity) = f[from]
  <2> DEFINE rows[n \in from..Len(t)] == V(rows, n)
  <2>1. RowsFrom(t, from, arity) = rows[from]
    BY DEF RowsFrom, RowAtToken, Span, RowFirst, ends, none
  <2>2. PICK g : g = [n \in from..Len(t) |-> f[n]]
    OBVIOUS
  <2>a. ASSUME NEW n \in from..l, NEW g1, NEW g2,
               \A j \in (n + 1)..l : g1[j] = g2[j]
        PROVE  V(g1, n) = V(g2, n)
    <3>1. CASE ends(n) = 0
      BY <3>1
    <3>2. CASE ends(n) # 0
      <4>0. PICK y : y = ends(n) + 1
        OBVIOUS
      <4>2. n \in 1..l
        OBVIOUS
      <4>3. y \in (n + 1)..l
        BY <1>a, <3>2, <4>0, <4>2
      <4>1. g1[y] = g2[y]
        BY <2>a, <4>3
      <4> QED
        BY <3>2, <4>0, <4>1
    <3> QED
      BY <3>1, <3>2
  <2>3. ASSUME NEW n \in from..Len(t) PROVE g[n] = V(g, n)
    <3>0. n \in 1..l /\ g[n] = f[n]
      BY <1>0, <2>2
    <3>1. f[n] = V(f, n) /\ g[n] = f[n]
      <4> HIDE DEF V
      <4> QED
        BY <1>2, <3>0
    <3>2. \A j \in (n + 1)..l : f[j] = g[j]
      BY <1>0, <2>2
    <3>3. V(f, n) = V(g, n)
      BY <1>0, <2>a, <3>2
    <3> QED
      BY <3>1, <3>3
  <2>4. g = [n \in from..Len(t) |-> V(g, n)]
    <3> HIDE DEF V
    <3> QED
      BY <2>2, <2>3
  <2>5. rows = [n \in from..Len(t) |-> V(rows, n)]
    <3> HIDE DEF V
    <3> QED
      BY <2>4
  <2> HIDE DEF rows
  <2>6. from..l \subseteq {n \in from..l : rows[n] = f[n]}
    <3> DEFINE U == {n \in from..l : rows[n] = f[n]}
    <3>1. ASSUME NEW n \in from..l, \A j \in (n + 1)..l : j \in U PROVE n \in U
      <4>1. rows[n] = V(rows, n)
        <5> HIDE DEF V
        <5> QED
          BY <1>0, <2>5
      <4>2. \A j \in (n + 1)..l : rows[j] = f[j]
        BY <3>1
      <4>3. V(rows, n) = V(f, n)
        <5> HIDE DEF V
        <5> QED
          BY <2>a, <4>2
      <4> HIDE DEF V
      <4>4. f[n] = V(f, n)
        BY <1>2
      <4> QED
        BY <4>1, <4>3, <4>4
    <3> HIDE DEF U
    <3>2. from \in Int /\ l \in Int
      OBVIOUS
    <3>3. from..l \subseteq U
      BY <3>1, <3>2, BackwardInductive
    <3> QED
      BY <3>3 DEF U
  <2> QED
    BY <2>1, <2>6
<1>4. k \in 1..l /\ RowsFrom(t, k, arity) = f[k] /\ f[k] = V(f, k)
  <2> HIDE DEF V
  <2> QED
    BY <1>0, <1>2, <1>3
<1>5. ASSUME ends(k) # 0
      PROVE  /\ ends(k) + 1 \in (k + 1)..Len(t)
             /\ RowsFrom(t, ends(k) + 1, arity) = f[ends(k) + 1]
  <2>1. PICK y : y = ends(k) + 1
    OBVIOUS
  <2>2. y \in (k + 1)..l
    BY <1>4, <1>5, <1>a, <2>1
  <2>3. y \in 1..l
    BY <1>4, <2>2
  <2>4. RowsFrom(t, y, arity) = f[y]
    BY <1>3, <2>3
  <2> QED
    BY <1>0, <2>1, <2>2, <2>4
<1>6. f[k] \in RowLists(t)
  BY <1>1, <1>4
<1>7. ends(k) = 0 => f[k] = [spans |-> <<>>, next |-> k]
  BY <1>4 DEF none
<1>8. ends(k) # 0 => f[k] = RowFirst(Span(t, k, ends(k)), f[ends(k) + 1])
  BY <1>4
<1> HIDE DEF V, S
<1> QED
  BY <1>4, <1>5, <1>6, <1>7, <1>8 DEF ends

-----------------------------------------------------------------------------
(***************************************************************************)
(* The scanner finds the parser's row.                                     *)
(***************************************************************************)
LEMMA WalkAt ==
  ASSUME NEW s \in Seq(ByteClass), NEW i \in 1..Len(s), Skip(s, i) = i
  PROVE  i \in Walk(s, i).at
<1>1. i \in 1..(Len(s) + 1) /\ i + 1 \in 1..(Len(s) + 1) /\ i <= Len(s)
  OBVIOUS
<1>2. Walk(s, i) = Visiting(i, Walk(s, i + 1)) /\ Walk(s, i + 1) \in Walks(s)
  BY <1>1, WalkStep
<1> QED
  BY <1>2, VisitingIs

\* A token of one byte is where the lexer says, and the walk visits it.
LEMMA PunctuationAt ==
  ASSUME NEW s \in Seq(ByteClass), NEW i \in 1..Len(s), NextToken(s, i).kind \in Punctuation
  PROVE  /\ s[i] = NextToken(s, i).kind /\ NextToken(s, i).to = i + 1
         /\ Skip(s, i) = i /\ i \in Walk(s, i).at
<1>1. PICK t : t = NextToken(s, i)
  OBVIOUS
<1>2. TokenShape(s, i, t)
  BY <1>1, NextTokenShape
<1>3. t.kind \in Punctuation /\ t.kind \notin Others
  BY <1>1, PunctuationIs
<1>4. s[i] = t.kind /\ t.to = i + 1
  BY <1>2, <1>3 DEF TokenShape, Others
<1>5. s[i] \notin {"quote", "b", "#", "/"}
  BY <1>3, <1>4 DEF Others
<1>6. Skip(s, i) = i
  BY <1>5, SkipIs
<1> QED
  BY <1>1, <1>4, <1>6, WalkAt

\* The least visited position of a kind, when the walk sees none before it.
LEMMA FirstReached ==
  ASSUME NEW s \in Seq(ByteClass), NEW i \in 1..(Len(s) + 1), NEW C,
         NEW m \in Int, Reaches(s, i, m, C),
         NEW A, m \in A, \A p \in A : p \in Walk(s, i).at /\ s[p] \in C
  PROVE  FirstOf(s, i, A) = m
<1>1. PICK W : W = Walk(s, i).at
  OBVIOUS
<1>2. \A p \in W : p \in i..Len(s)
  BY <1>1, WalkVisits
<1>3. \A p \in A : p \in W /\ s[p] \in C /\ p \in Nat
  BY <1>1, <1>2
<1>4. \A p \in W : p < m => s[p] \notin C
  BY <1>1 DEF Reaches
<1>5. ASSUME NEW p \in A PROVE m <= p
  <2>1. ~(p < m) /\ p \in Int
    BY <1>3, <1>4
  <2> QED
    BY <2>1
<1>6. PICK x, none : x = m /\ none = StopCode(Walk(s, i))
  OBVIOUS
<1>7. x \in A /\ \A q \in A : x <= q
  BY <1>5, <1>6
<1>8. TheOne(First(A), none) = x
  <2>1. A \subseteq Nat
    BY <1>3
  <2> QED
    BY <1>7, <2>1, LeastIs
<1> QED
  BY <1>6, <1>8 DEF FirstOf

\* The parenthesis at q closes the list whose tokens the walk has seen from i on.
LEMMA CloserReached ==
  ASSUME NEW s \in Seq(ByteClass), NEW i \in 1..(Len(s) + 1), NEW q \in Int,
         RowReach(s, i, q)
  PROVE  FirstOf(s, i, Closers(s, i)) = q /\ q \in i..Len(s)
<1>0. PICK l \in Nat : l = Len(s) /\ i >= 1
  OBVIOUS
<1>1. q \in i..l /\ NextToken(s, q).kind = ")" /\ Reaches(s, i, q, Brackets)
  BY <1>0 DEF RowReach
<1>2. q \in 1..Len(s)
  BY <1>0, <1>1
<1>3. s[q] = ")" /\ q \in Walk(s, q).at
  BY <1>1, <1>2, PunctuationAt, PunctuationIs
<1>4. PICK W : W = Walk(s, i).at
  OBVIOUS
<1>5. q \in W
  <2>1. \A p \in Int : p >= q => (p \in W <=> p \in Walk(s, q).at)
    BY <1>1, <1>4 DEF Reaches
  <2> QED
    BY <1>3, <2>1
<1>6. \A p \in W : p < q => s[p] \notin Brackets
  BY <1>1, <1>4 DEF Reaches
<1>7. \A p \in W : p \in Int
  BY <1>4, WalkVisits
<1>8. BracketsTo(s, W, q, "(") = {} /\ BracketsTo(s, W, q, ")") = {q}
  <2>1. ASSUME NEW p \in W, p <= q, s[p] \in Brackets PROVE p = q
    <3>1. ~(p < q) /\ p \in Int
      BY <1>6, <1>7, <2>1
    <3> QED
      BY <2>1, <3>1
  <2>2. "(" \in Brackets /\ ")" \in Brackets
    BY DEF Brackets
  <2>3. \A p : p \in BracketsTo(s, W, q, "(") => FALSE
    BY <1>3, <2>1, <2>2 DEF BracketsTo
  <2>4. \A p : p \in BracketsTo(s, W, q, ")") <=> p = q
    <3>1. q <= q
      OBVIOUS
    <3> QED
      BY <1>3, <1>5, <2>1, <2>2, <3>1 DEF BracketsTo
  <2> QED
    BY <2>3, <2>4
<1>9. Balance(s, W, q) = -1
  <2>1. Cardinality({}) = 0
    BY FS_EmptySet
  <2>2. Cardinality({q}) = 1
    BY FS_Singleton
  <2>3. Balance(s, W, q) = Cardinality(BracketsTo(s, W, q, "("))
                               - Cardinality(BracketsTo(s, W, q, ")"))
    BY BalanceIs
  <2>4. Balance(s, W, q) = 0 - 1
    BY <1>8, <2>1, <2>2, <2>3
  <2> QED
    BY <2>4
<1>10. q \in Closers(s, i)
  BY <1>0, <1>1, <1>3, <1>4, <1>5, <1>9 DEF Closers
<1>11. \A p \in Closers(s, i) : p \in Walk(s, i).at /\ s[p] \in Brackets
  BY DEF Closers, Brackets
<1>12. FirstOf(s, i, Closers(s, i)) = q
  BY <1>1, <1>10, <1>11, FirstReached
<1> QED
  BY <1>0, <1>1, <1>12

\* The rest of a list, as the tokens after its opening parenthesis.
LEMMA ListRest ==
  ASSUME NEW s \in Seq(ByteClass), NEW i \in 1..(Len(s) + 1), NEW t, t = TokensFrom(s, i),
         NEW m \in 1..Len(s), TokensAt(s, t, m),
         NEW end \in Int, IsList(t, 1, end)
  PROVE  /\ s[m] = "(" /\ Skip(s, m) = m /\ m \in Walk(s, m).at
         /\ RowReach(s, m + 1, t[end].from)
<1>0. PICK l \in Nat : l = Len(s) /\ m <= l
  OBVIOUS
<1>1. /\ t[1] = NextToken(s, m)
      /\ Len(t) = 1 + Len(TokensFrom(s, t[1].to))
      /\ \A j \in 1..Len(TokensFrom(s, t[1].to)) : t[j + 1] = TokensFrom(s, t[1].to)[j]
  BY <1>0 DEF TokensAt
<1>2. t[1].kind = "(" /\ end \in (1 + 1)..Len(t) /\ t[end].kind = ")"
  BY DEF IsList
<1>3. /\ s[m] = "(" /\ NextToken(s, m).to = m + 1
      /\ Skip(s, m) = m /\ m \in Walk(s, m).at
  <2>1. NextToken(s, m).kind \in Punctuation
    BY <1>1, <1>2, PunctuationIs
  <2> QED
    BY <1>1, <1>2, <2>1, PunctuationAt
<1>4. PICK r : r = TokensFrom(s, m + 1)
  OBVIOUS
<1>5. m + 1 \in 1..(Len(s) + 1) /\ m + 1 \in Int
  BY <1>0
<1>6. PICK lr \in Nat : lr = Len(r)
  <2>1. r \in Seq(Lexed(s))
    BY <1>4, <1>5, TokensStep
  <2> QED
    BY <2>1
<1>7. Len(t) = 1 + lr /\ \A j \in 1..lr : t[j + 1] = r[j]
  BY <1>1, <1>3, <1>4, <1>6
<1>8. PICK v \in 1..lr : end = v + 1
  <2>1. end - 1 \in 1..lr /\ end = (end - 1) + 1
    BY <1>2, <1>7
  <2> QED
    BY <2>1
<1>9. RowRest(r, v)
  <2>1. ASSUME NEW u \in 1..v PROVE t[u + 1] = r[u]
    <3>1. u \in 1..lr
      BY <1>8
    <3> QED
      BY <1>7, <3>1
  <2>2. r[v].kind = ")"
    <3>1. v \in 1..v
      BY <1>8
    <3>2. t[end] = r[v]
      BY <1>8, <2>1, <3>1
    <3> QED
      BY <1>2, <3>2
  <2>3. ASSUME NEW u \in 1..(v - 1) PROVE r[u].kind \in CellKinds
    <3>1. u + 1 \in (1 + 1)..(end - 1) /\ u \in 1..v
      BY <1>8
    <3> QED
      BY <2>1, <3>1 DEF IsList
  <2>4. ASSUME NEW u \in 1..(v - 2) PROVE ~(r[u].kind \in Values /\ r[u + 1].kind \in Values)
    <3>1. u + 1 \in (1 + 1)..(end - 2) /\ u \in 1..v /\ u + 1 \in 1..v
      BY <1>8
    <3>2. t[u + 1] = r[u] /\ t[(u + 1) + 1] = r[u + 1]
      BY <2>1, <3>1
    <3>3. ~(t[u + 1].kind \in Values /\ t[(u + 1) + 1].kind \in Values)
      BY <3>1 DEF IsList
    <3> QED
      BY <3>2, <3>3
  <2> QED
    BY <2>2, <2>3, <2>4 DEF RowRest
<1>10. RowReach(s, m + 1, r[v].from)
  <2>1. PICK i1 \in 1..(Len(s) + 1) : i1 = m + 1
    BY <1>5
  <2>2. v \in 1..Len(TokensFrom(s, i1)) /\ RowRest(TokensFrom(s, i1), v)
    BY <1>4, <1>6, <1>9, <2>1
  <2>3. RowReach(s, i1, TokensFrom(s, i1)[v].from)
    BY <2>2, RowReaches
  <2> QED
    BY <1>4, <2>1, <2>3
<1>11. t[end] = r[v]
  BY <1>7, <1>8
<1> QED
  BY <1>3, <1>10, <1>11

\* The first row the parser reads in a text is what find_next_row finds there.
LEMMA ParsersRowFound ==
  ASSUME NEW s \in Seq(ByteClass), NEW arity, NEW rows,
         rows = RowsFrom(Tokens(s), 1, arity).spans, rows # <<>>
  PROVE  FindNextRow(s) = FindRow("found", rows[1].from, rows[1].to)
<1>0. PICK l \in Nat : l = Len(s)
  OBVIOUS
<1> DEFINE C == ByteClass \ {"nl", "sp"}
<1>1. "nl" \notin C /\ "sp" \notin C /\ 1 \in 1..(Len(s) + 1)
  BY <1>0
<1> HIDE DEF C
<1>2. PICK m \in 1..(Len(s) + 1) : GapTo(s, 1, m, C)
  BY <1>1, GapReaches
<1>3. PICK t : t = TokensFrom(s, 1)
  OBVIOUS
<1>4. TokensAt(s, t, m) /\ Reaches(s, 1, m, C)
  BY <1>2, <1>3 DEF GapTo
<1>5. t \in Seq(Lexed(s)) /\ Len(t) >= 1 /\ t[Len(t)].kind = "Eof" /\ 1 \in 1..Len(t)
  <2>1. t \in Seq(Lexed(s))
    BY <1>1, <1>3, TokensStep
  <2>2. Len(t) >= 1 /\ t[Len(t)].kind = "Eof"
    BY <1>1, <1>3, LastIsEof
  <2> QED
    BY <2>1, <2>2
<1>6. PICK end : end = RowAtToken(t, 1, arity)
  OBVIOUS
<1>7. PICK R : R = RowsFrom(t, 1, arity)
  OBVIOUS
<1>8. rows = R.spans
  BY <1>3, <1>7 DEF Tokens
<1>9. /\ end = 0 => R = [spans |-> <<>>, next |-> 1]
      /\ end # 0 => /\ end + 1 \in (1 + 1)..Len(t)
                    /\ R = RowFirst(Span(t, 1, end), RowsFrom(t, end + 1, arity))
  BY <1>5, <1>6, <1>7, RowsStep
<1>10. end # 0
  BY <1>8, <1>9
<1>11. IsList(t, 1, end) /\ end \in 1..Len(t)
  <2>1. IsList(t, 1, end)
    BY <1>5, <1>6, <1>10, RowEndIs
  <2>2. end \in (1 + 1)..Len(t)
    BY <2>1 DEF IsList
  <2> QED
    BY <2>1, <2>2
<1>12. rows[1] = Span(t, 1, end)
  <2>1. PICK S : S = RowsFrom(t, end + 1, arity)
    OBVIOUS
  <2>2. PICK y : y = end + 1
    OBVIOUS
  <2>3. y \in 1..Len(t)
    BY <1>9, <1>10, <2>2
  <2>4. S \in RowLists(t)
    BY <1>5, <2>1, <2>2, <2>3, RowsStep
  <2>5. Span(t, 1, end) \in Spans(t)
    <3>1. PICK n \in 1..Len(t), e \in 1..Len(t) : n = 1 /\ e = end
      BY <1>5, <1>11
    <3>2. Span(t, n, e) \in Spans(t)
      BY DEF Spans
    <3> QED
      BY <3>1, <3>2
  <2>6. rows = <<Span(t, 1, end)>> \o S.spans
    BY <1>8, <1>9, <1>10, <2>1, <2>4, <2>5, RowFirstIs
  <2>7. S.spans \in Seq(Spans(t)) /\ <<Span(t, 1, end)>> \in Seq(Spans(t))
    BY <2>4, <2>5 DEF RowLists
  <2> QED
    BY <2>6, <2>7
<1>13. m \in 1..Len(s)
  <2>1. t[1].kind = "("
    BY <1>11 DEF IsList
  <2>2. m > Len(s) => t[1].kind = "Eof"
    BY <1>4 DEF TokensAt
  <2>3. ~(m > l)
    BY <1>0, <2>1, <2>2
  <2> QED
    BY <1>0, <2>3
<1>14. PICK q : q = t[end].from
  OBVIOUS
<1>15. /\ s[m] = "(" /\ m \in Walk(s, m).at
       /\ RowReach(s, m + 1, q)
  <2>1. end \in Int
    BY <1>11
  <2> QED
    BY <1>1, <1>3, <1>4, <1>11, <1>13, <1>14, <2>1, ListRest
<1>16. rows[1].from = m /\ rows[1].to = q
  BY <1>4, <1>12, <1>14 DEF Span, TokensAt
<1>17. FirstOf(s, 1, NonBlanks(s, 1)) = m
  <2>1. m \in Walk(s, 1).at
    <3>1. \A p \in Int : p >= m => (p \in Walk(s, 1).at <=> p \in Walk(s, m).at)
      BY <1>4 DEF Reaches
    <3> QED
      BY <1>15, <3>1
  <2>2. m \in NonBlanks(s, 1)
    BY <1>13, <1>15, <2>1 DEF NonBlanks
  <2>3. ASSUME NEW p \in NonBlanks(s, 1) PROVE p \in Walk(s, 1).at /\ s[p] \in C
    BY DEF NonBlanks, C
  <2>4. m \in Int
    OBVIOUS
  <2> QED
    BY <1>1, <1>4, <2>2, <2>3, <2>4, FirstReached
<1>18. FindNextRow(s) = RowAt(s, m)
  BY <1>17, ScansAreFirsts
<1>19. PICK j \in 1..(Len(s) + 1) : j = m + 1
  BY <1>13
<1>20. q \in Int /\ q > 0
  <2>1. q \in j..Len(s)
    BY <1>15, <1>19 DEF RowReach
  <2> QED
    BY <2>1
<1>21. FindMatchingParen(s, m) = q
  <2>1. FirstOf(s, j, Closers(s, j)) = q
    BY <1>15, <1>19, <1>20, CloserReached
  <2> QED
    BY <1>19, <2>1, ScansAreFirsts
<1>22. RowAt(s, m) = RowBetween(m, q)
  BY <1>13, <1>15, <1>21 DEF RowAt, Incomplete, Malformed
<1>23. RowBetween(m, q) = FindRow("found", m, q)
  BY <1>20 DEF RowBetween, Incomplete, Malformed
<1> QED
  BY <1>16, <1>18, <1>22, <1>23

-----------------------------------------------------------------------------
(***************************************************************************)
(* The lexer on two texts that begin alike.                                *)
(***************************************************************************)

\* Both texts have the bytes of s up to hi.
Agree(s, u, hi) == hi <= Len(s) /\ hi <= Len(u) /\ \A k \in 1..hi : u[k] = s[k]

\* Texts that agree up to hi have that part in common.
LEMMA AgreeMatches ==
  ASSUME NEW s \in Seq(ByteClass), NEW u \in Seq(ByteClass), NEW hi \in Nat, Agree(s, u, hi)
  PROVE  Matches(s, u, 0, 1, hi)
<1>1. \A k \in 1..hi : u[k + 0] = s[k]
  BY DEF Agree
<1> QED
  BY <1>1 DEF Agree, Matches

\* An identifier that ends before hi.
LEMMA IdentEndAgrees ==
  ASSUME NEW s \in Seq(ByteClass), NEW u \in Seq(ByteClass), NEW hi \in Nat, Agree(s, u, hi),
         NEW i \in 1..(hi + 1), IdentEnd(s, i) <= hi
  PROVE  IdentEnd(u, i) = IdentEnd(s, i)
<1>0. PICK ls \in Nat, lu \in Nat : ls = Len(s) /\ lu = Len(u)
  OBVIOUS
<1>1. hi <= ls /\ hi <= lu /\ \A k \in 1..hi : u[k] = s[k]
  BY <1>0 DEF Agree
<1>2. i \in 1..(Len(s) + 1) /\ i \in 1..(Len(u) + 1)
  BY <1>0, <1>1
<1>3. PICK a, b : a = IdentEnd(s, i) /\ b = IdentEnd(u, i)
  OBVIOUS
<1>4. /\ a \in i..(ls + 1) /\ (a <= ls => ~IsIdentPart(s[a]))
      /\ \A k \in i..(a - 1) : IsIdentPart(s[k])
  BY <1>0, <1>2, <1>3, IdentEndIs
<1>5. /\ b \in i..(lu + 1) /\ (b <= lu => ~IsIdentPart(u[b]))
      /\ \A k \in i..(b - 1) : IsIdentPart(u[k])
  BY <1>0, <1>2, <1>3, IdentEndIs
<1>6. a <= hi
  BY <1>3
<1>7. ~(b < a)
  <2> SUFFICES ASSUME b < a PROVE FALSE
    OBVIOUS
  <2>1. b \in i..(a - 1) /\ b <= lu /\ b \in 1..hi
    BY <1>1, <1>4, <1>5, <1>6
  <2> QED
    BY <1>1, <1>4, <1>5, <2>1
<1>8. ~(a < b)
  <2> SUFFICES ASSUME a < b PROVE FALSE
    OBVIOUS
  <2>1. a \in i..(b - 1) /\ a <= ls /\ a \in 1..hi
    BY <1>1, <1>4, <1>5, <1>6
  <2> QED
    BY <1>1, <1>4, <1>5, <2>1
<1> QED
  BY <1>3, <1>4, <1>5, <1>7, <1>8

\* A bytes literal that ends before hi.
LEMMA LexBytesAgrees ==
  ASSUME NEW s \in Seq(ByteClass), NEW u \in Seq(ByteClass), NEW hi \in Nat, Agree(s, u, hi),
         NEW i \in 1..hi, s[i] = "b", At(s, i + 1, "quote"), LexBytes(s, i).to <= hi
  PROVE  LexBytes(u, i) = LexBytes(s, i)
<1>0. PICK ls \in Nat, lu \in Nat : ls = Len(s) /\ lu = Len(u)
  OBVIOUS
<1>1. hi <= ls /\ hi <= lu /\ \A k \in 1..hi : u[k] = s[k]
  BY <1>0 DEF Agree
<1> DEFINE S == {k \in (i + 2)..Len(s) : s[k] # "x"}
           U == {k \in (i + 2)..Len(u) : u[k] # "x"}
<1>2. PICK none : none = 0
  OBVIOUS
<1>3. PICK a, b : a = TheOne(First(S), none) /\ b = TheOne(First(U), none)
  OBVIOUS
<1>4. /\ LexBytes(s, i) = Literal(s, i, "Bytes", IF At(s, a, "quote") THEN a + 1 ELSE Malformed)
      /\ LexBytes(u, i) = Literal(u, i, "Bytes", IF At(u, b, "quote") THEN b + 1 ELSE Malformed)
  BY <1>2, <1>3 DEF LexBytes, FirstAt
<1>5. At(s, a, "quote")
  <2>1. ~At(s, a, "quote") => LexBytes(s, i).to = ls + 1
    BY <1>0, <1>4, TokenFields DEF Literal, Malformed
  <2> QED
    BY <1>1, <2>1
<1>6. a \in 1..ls /\ s[a] = "quote"
  BY <1>0, <1>5 DEF At
<1>7. LexBytes(s, i) = Token("Bytes", i, a + 1)
  BY <1>4, <1>5, <1>6 DEF Literal
<1>8. a < hi
  <2>1. a + 1 <= hi
    BY <1>7, TokenFields
  <2> QED
    BY <1>6, <2>1
<1>9. a \in S /\ \A q \in S : a <= q
  <2>1. S \subseteq Nat
    BY <1>0
  <2>2. a # none
    BY <1>2, <1>6
  <2> HIDE DEF S
  <2>3. \/ S = {} /\ a = none
        \/ a \in S /\ \A q \in S : a <= q
    BY <1>3, <2>1, LeastWhich
  <2> QED
    BY <2>2, <2>3
<1>10. a \in U /\ u[a] = "quote"
  <2>1. a \in (i + 2)..ls /\ a \in 1..hi
    BY <1>0, <1>6, <1>8, <1>9
  <2>2. a \in (i + 2)..lu /\ u[a] = "quote"
    BY <1>1, <1>6, <2>1
  <2> QED
    BY <1>0, <2>2
<1>11. ASSUME NEW q \in U PROVE a <= q
  <2> SUFFICES ASSUME q < a PROVE FALSE
    BY <1>0, <1>6
  <2>1. q \in (i + 2)..lu /\ u[q] # "x"
    BY <1>0
  <2>2. q \in (i + 2)..ls /\ q \in 1..hi
    BY <1>1, <1>6, <1>8, <2>1
  <2>3. q \in S
    BY <1>0, <1>1, <2>1, <2>2
  <2> QED
    BY <1>6, <1>9, <2>1, <2>3
<1>12. b = a
  <2>1. U \subseteq Nat
    BY <1>0
  <2> HIDE DEF U
  <2> QED
    BY <1>3, <1>10, <1>11, <2>1, LeastIs
<1>13. At(u, b, "quote")
  BY <1>0, <1>1, <1>6, <1>8, <1>10, <1>12 DEF At
<1>14. LexBytes(u, i) = Token("Bytes", i, a + 1)
  BY <1>4, <1>6, <1>12, <1>13 DEF Literal
<1> QED
  BY <1>7, <1>14

\* A token that ends before hi, or is one byte long, is the same token of a text
\* that has the same bytes up to hi.
LEMMA NextTokenAgrees ==
  ASSUME NEW s \in Seq(ByteClass), NEW u \in Seq(ByteClass), NEW hi \in Nat, Agree(s, u, hi),
         NEW i \in 1..hi,
         NextToken(s, i).to <= hi \/ NextToken(s, i).kind \in Punctuation
  PROVE  NextToken(u, i) = NextToken(s, i)
<1>0. PICK ls \in Nat, lu \in Nat, d \in Int, lo \in Nat :
              ls = Len(s) /\ lu = Len(u) /\ d = 0 /\ lo = 1
  OBVIOUS
<1>1. hi <= ls /\ hi <= lu /\ \A k \in 1..hi : u[k] = s[k]
  BY <1>0 DEF Agree
<1>2. i \in 1..Len(s) /\ i \in 1..Len(u) /\ i <= hi /\ i \in Nat
  BY <1>0, <1>1
<1>3. u[i] = s[i]
  BY <1>1
<1>m. Matches(s, u, d, lo, hi)
  BY <1>0, AgreeMatches
<1>4. PICK t : t = NextToken(s, i)
  OBVIOUS
<1>5. TokenShape(s, i, t) /\ t.to \in (i + 1)..(ls + 1) /\ (s[i] = "quote" => t.kind \in {"String", "Illegal"})
  BY <1>0, <1>2, <1>4, NextTokenShape
<1>6. CASE t.kind \in Punctuation
  <2>1. s[i] = t.kind /\ t.kind \in Punctuation
    BY <1>2, <1>4, <1>6, PunctuationAt
  <2>2. NextToken(s, i) = Token(s[i], i, i + 1)
    BY <1>2, <2>1, NextTokenIs
  <2>3. NextToken(u, i) = Token(u[i], i, i + 1)
    BY <1>2, <1>3, <2>1, NextTokenIs
  <2> QED
    BY <1>3, <2>2, <2>3
<1>7. CASE t.kind \notin Punctuation
  <2>1. t.to <= hi /\ t.to < ls + 1
    BY <1>1, <1>4, <1>5, <1>7
  <2>2. i + 1 \in 1..hi /\ i + 1 \in 1..Len(s) /\ i + 1 \in 1..Len(u)
    BY <1>0, <1>1, <1>5, <2>1
  <2>3. u[i + 1] = s[i + 1]
    BY <1>1, <2>2
  <2>4. ASSUME NEW c PROVE At(u, i + 1, c) <=> At(s, i + 1, c)
    BY <2>2, <2>3 DEF At
  <2>5. ASSUME NEW kind, NEW x \in Int, t = Literal(s, i, kind, x)
        PROVE  x > 0 /\ x <= hi /\ t = Token(kind, i, x)
    <3>1. ~(x > 0) => t.to = ls + 1
      BY <1>0, <2>5, TokenFields DEF Literal
    <3>2. x > 0
      BY <2>1, <3>1
    <3>3. t = Token(kind, i, x)
      BY <2>5, <3>2 DEF Literal
    <3> QED
      BY <2>1, <3>2, <3>3, TokenFields
  <2>6. ASSUME NEW j \in Nat, j >= 1, j <= hi + 1, NEW w \in Seq(ByteClass), w # <<>>,
               NEW x \in Int, x = AfterWord(s, j, w), x > 0, x <= hi
        PROVE  AfterWord(u, j, w) = x
    <3>1. Settled(AfterWord(s, j, w), s, u, d, hi)
      BY <2>6 DEF Settled
    <3>2. AfterWord(u, j + d, w) = Moved(AfterWord(s, j, w), d)
      BY <1>0, <1>m, <2>6, <3>1, AfterWordMatches
    <3>3. j + d = j /\ Moved(x, d) = x
      BY <1>0, <2>6 DEF Moved
    <3> QED
      BY <2>6, <3>2, <3>3
  <2>7. CASE s[i] \in {"nl", "sp"}
    BY <1>2, <1>3, <2>7, NextTokenIs
  <2>8. ASSUME s[i] = "#" \/ (s[i] = "/" /\ At(s, i + 1, "/")) PROVE NextToken(u, i) = t
    <3>1. t = Token("Blank", i, LineComment(s, i))
      BY <1>2, <1>4, <2>8, NextTokenIs
    <3>2. NextToken(u, i) = Token("Blank", i, LineComment(u, i))
      BY <1>2, <1>3, <2>4, <2>8, NextTokenIs
    <3>3. LineComment(s, i) <= hi
      BY <2>1, <3>1, TokenFields
    <3>4. LineComment(u, i + d) = LineComment(s, i) + d
      <4>1. StopsBefore(LineComment(s, i), s, u, d, hi)
        BY <3>3 DEF StopsBefore
      <4>2. i >= lo /\ i <= hi + 1
        BY <1>0, <1>2
      <4> QED
        BY <1>2, <1>m, <4>1, <4>2, LineCommentMatches
    <3>5. LineComment(s, i) \in Int
      BY <1>2, LineCommentIs
    <3>6. LineComment(u, i) = LineComment(s, i)
      BY <1>0, <1>2, <3>4, <3>5
    <3> QED
      BY <3>1, <3>2, <3>6
  <2>9. CASE s[i] = "/" /\ At(s, i + 1, "*")
    <3>1. PICK x : x = AfterWord(s, i + 2, CommentEnd)
      OBVIOUS
    <3>2. t = Literal(s, i, "Blank", x)
      BY <1>2, <1>4, <2>9, <3>1, NextTokenIs
    <3>3. NextToken(u, i) = Literal(u, i, "Blank", AfterWord(u, i + 2, CommentEnd))
      BY <1>2, <1>3, <2>4, <2>9, NextTokenIs
    <3>4. i + 2 \in Nat /\ i + 2 >= 1 /\ i + 2 <= hi + 1 /\ i + 2 \in 1..(Len(s) + 1)
      BY <1>0, <1>1, <2>2
    <3>5. x \in Int
      BY <3>1, <3>4, AfterWordRange, CommentEndWord
    <3>6. x > 0 /\ x <= hi /\ t = Token("Blank", i, x)
      BY <2>5, <3>2, <3>5
    <3>7. AfterWord(u, i + 2, CommentEnd) = x
      BY <2>6, <3>1, <3>4, <3>5, <3>6, CommentEndWord
    <3> QED
      BY <1>4, <3>3, <3>6, <3>7 DEF Literal
  <2>10. CASE s[i] = "quote" /\ Word(s, i, Triple)
    <3>1. PICK x : x = AfterWord(s, i + 3, Triple)
      OBVIOUS
    <3>2. t = Literal(s, i, "String", x)
      BY <1>2, <1>4, <2>10, <3>1, NextTokenIs
    <3>3. i + 2 <= ls /\ s[i] = "quote" /\ s[i + 1] = "quote" /\ s[i + 2] = "quote"
      BY <1>0, <2>10, WordOfThree
    <3>4. i + 3 \in Nat /\ i + 3 >= 1 /\ i + 3 \in 1..(Len(s) + 1)
      BY <1>0, <1>2, <3>3
    <3>5. x \in {0} \cup (i + 6)..(ls + 1)
      <4>1. x \in {0} \cup ((i + 3) + Len(Triple))..(Len(s) + 1)
        BY <3>1, <3>4, AfterWordRange, TripleWord
      <4>2. (i + 3) + Len(Triple) = i + 6
        BY TripleWord
      <4> QED
        BY <1>0, <4>1, <4>2
    <3>6. x > 0 /\ x <= hi /\ t = Token("String", i, x)
      BY <2>5, <3>2, <3>5
    <3>7. i + 3 <= hi + 1 /\ i + 2 \in 1..hi
      BY <1>2, <3>5, <3>6
    <3>8. AfterWord(u, i + 3, Triple) = x
      <4>1. x \in Int
        BY <3>5
      <4> QED
        BY <2>6, <3>1, <3>4, <3>6, <3>7, <4>1, TripleWord
    <3>9. Word(u, i, Triple)
      <4>1. u[i + 2] = s[i + 2]
        BY <1>1, <3>7
      <4>2. i \in 1..(Len(u) - 2)
        BY <1>0, <1>1, <1>2, <3>7
      <4> QED
        BY <1>2, <1>3, <2>3, <3>3, <4>1, <4>2, WordOfThree
    <3>10. NextToken(u, i) = Literal(u, i, "String", AfterWord(u, i + 3, Triple))
      BY <1>2, <1>3, <2>10, <3>9, NextTokenIs
    <3> QED
      BY <1>4, <3>6, <3>8, <3>10 DEF Literal
  <2>11. CASE s[i] = "quote" /\ ~Word(s, i, Triple)
    <3>1. PICK x : x = Quoted(s, i + 1, Escapes)
      OBVIOUS
    <3>2. t = Literal(s, i, "String", x)
      BY <1>2, <1>4, <2>11, <3>1, NextTokenIs
    <3>3. i + 1 \in 1..(Len(s) + 1) /\ i + 1 \in Nat /\ i + 1 \in lo..(hi + 1)
      BY <1>0, <2>2
    <3>4. x \in {Incomplete, Malformed} \cup (i + 2)..(ls + 1)
      <4>1. x \in {Incomplete, Malformed} \cup ((i + 1) + 1)..(Len(s) + 1)
        BY <3>1, <3>3, QuotedStep
      <4>2. (i + 1) + 1 = i + 2
        BY <1>2
      <4> QED
        BY <1>0, <4>1, <4>2
    <3>5. x \in Int
      BY <3>4 DEF Incomplete, Malformed
    <3>6. x > 0 /\ x <= hi /\ t = Token("String", i, x)
      BY <2>5, <3>2, <3>5
    <3>7. i + 2 \in 1..hi
      BY <1>2, <3>4, <3>6 DEF Incomplete, Malformed
    <3>8. Quoted(u, (i + 1) + d, Escapes) = Moved(x, d)
      <4>1. Settled(Quoted(s, i + 1, Escapes), s, u, d, hi)
        BY <3>1, <3>5, <3>6 DEF Settled
      <4>2. PICK e : e = Escapes
        OBVIOUS
      <4> QED
        BY <1>m, <3>1, <3>3, <4>1, QuotedMatches
    <3>9. Quoted(u, i + 1, Escapes) = x
      <4>1. (i + 1) + d = i + 1 /\ Moved(x, d) = x
        BY <1>0, <1>2, <3>5 DEF Moved
      <4> QED
        BY <3>8, <4>1
    <3>10. ~Word(u, i, Triple)
      <4>1. u[i + 2] = s[i + 2]
        BY <1>1, <3>7
      <4>2. i \in 1..(Len(s) - 2)
        BY <1>0, <1>1, <1>2, <3>7
      <4>3. ~(s[i + 1] = "quote" /\ s[i + 2] = "quote")
        BY <1>2, <2>11, <4>2, WordOfThree
      <4> QED
        BY <1>2, <2>3, <4>1, <4>3, WordOfThree
    <3>11. NextToken(u, i) = Literal(u, i, "String", Quoted(u, i + 1, Escapes))
      BY <1>2, <1>3, <2>11, <3>10, NextTokenIs
    <3> QED
      BY <1>4, <3>6, <3>9, <3>11 DEF Literal
  <2>12. CASE s[i] = "b" /\ At(s, i + 1, "quote")
    <3>1. t = LexBytes(s, i)
      BY <1>2, <1>4, <2>12, NextTokenIs
    <3>2. NextToken(u, i) = LexBytes(u, i)
      BY <1>2, <1>3, <2>4, <2>12, NextTokenIs
    <3> QED
      BY <1>4, <2>1, <2>12, <3>1, <3>2, LexBytesAgrees
  <2>13. CASE s[i] = "@"
    <3>1. t = LexDirective(s, i) /\ NextToken(u, i) = LexDirective(u, i)
      BY <1>2, <1>3, <1>4, <2>13, NextTokenIs
    <3>2. PICK to : to = IdentEnd(s, i + 1)
      OBVIOUS
    <3>3. /\ to = i + 1 => t = Token("Illegal", i, ls + 1)
          /\ to = i + 2 /\ s[i + 1] = "d" => t = Token("AtDataset", i, to)
          /\ to # i + 1 /\ ~(to = i + 2 /\ s[i + 1] = "d") => t = Token("AtDirective", i, to)
      BY <1>0, <1>2, <3>1, <3>2, LexDirectiveIs
    <3>4. to # i + 1 /\ to <= hi
      <4>1. to = i + 1 => t.to = ls + 1
        BY <3>3, TokenFields
      <4>2. to # i + 1
        BY <1>0, <2>1, <4>1
      <4>3. t.to = to
        BY <3>3, <4>2, TokenFields
      <4> QED
        BY <2>1, <4>2, <4>3
    <3>5. IdentEnd(u, i + 1) = to
      <4>1. i + 1 \in 1..(hi + 1)
        BY <2>2
      <4> QED
        BY <3>2, <3>4, <4>1, IdentEndAgrees
    <3>6. /\ to = i + 2 /\ u[i + 1] = "d" => NextToken(u, i) = Token("AtDataset", i, to)
          /\ to # i + 1 /\ ~(to = i + 2 /\ u[i + 1] = "d")
               => NextToken(u, i) = Token("AtDirective", i, to)
      BY <1>2, <3>1, <3>5, LexDirectiveIs
    <3> QED
      BY <1>4, <2>3, <3>3, <3>4, <3>6
  <2>14. CASE IsIdentPart(s[i]) /\ ~(s[i] = "b" /\ At(s, i + 1, "quote"))
    <3>1. t = Token("Ident", i, IdentEnd(s, i))
      BY <1>2, <1>4, <2>14, NextTokenIs
    <3>2. NextToken(u, i) = Token("Ident", i, IdentEnd(u, i))
      BY <1>2, <1>3, <2>4, <2>14, NextTokenIs
    <3>3. IdentEnd(s, i) <= hi /\ i \in 1..(hi + 1)
      BY <1>2, <2>1, <3>1, TokenFields
    <3>4. IdentEnd(u, i) = IdentEnd(s, i)
      BY <3>3, IdentEndAgrees
    <3> QED
      BY <1>4, <3>1, <3>2, <3>4
  <2>15. ~(s[i] \in {"*", "esc", "bad"})
    <3>1. s[i] \in {"*", "esc", "bad"} => t = Token("Illegal", i, ls + 1)
      BY <1>0, <1>2, <1>4, NextTokenIs
    <3> QED
      BY <2>1, <3>1, TokenFields
  <2>16. ~(s[i] = "/" /\ ~At(s, i + 1, "/") /\ ~At(s, i + 1, "*"))
    <3>1. s[i] = "/" /\ ~At(s, i + 1, "/") /\ ~At(s, i + 1, "*") => t = Token("Illegal", i, ls + 1)
      BY <1>0, <1>2, <1>4, NextTokenIs
    <3> QED
      BY <2>1, <3>1, TokenFields
  <2>17. s[i] \notin Punctuation
    <3>1. s[i] \in Punctuation => t = Token(s[i], i, i + 1)
      BY <1>2, <1>4, NextTokenIs
    <3> QED
      BY <1>7, <3>1, TokenFields
  <2>18. s[i] \in {"nl", "sp", "#", "/", "quote", "b", "x", "d", "@", "*", "esc", "bad"}
    <3>1. s[i] \in ByteClass
      BY <1>2
    <3> QED
      BY <2>17, <3>1, Zenon DEF ByteClass, Punctuation
  <2>19. \/ s[i] \in {"nl", "sp"} \/ s[i] = "#" \/ s[i] = "/" \/ s[i] = "quote"
         \/ s[i] \in {"b", "x", "d"} \/ s[i] = "@" \/ s[i] \in {"*", "esc", "bad"}
    BY <2>18
  <2>20. s[i] \in {"b", "x", "d"} => IsIdentPart(s[i])
    BY DEF IsIdentPart
  <2> QED
    BY <1>4, <2>7, <2>8, <2>9, <2>10, <2>11, <2>12, <2>13, <2>14, <2>15, <2>16, <2>19, <2>20
<1> QED
  BY <1>6, <1>7

-----------------------------------------------------------------------------
(***************************************************************************)
(* Where the tokens of a text stand in it.                                 *)
(***************************************************************************)

\* r is t from its n-th element on.
IsTail(r, t, n) == Len(r) = Len(t) - n + 1 /\ \A j \in 1..Len(r) : r[j] = t[n + j - 1]

\* The tokens of s from the place of the n-th on are those of t.
TokenPlace(s, t, n, i) ==
  /\ t[n].from \in i..(Len(s) + 1)
  /\ TokensAt(s, TokensFrom(s, t[n].from), t[n].from)
  /\ IsTail(TokensFrom(s, t[n].from), t, n)

\* Tokens are a sequence.
LEMMA TokensLength ==
  ASSUME NEW s \in Seq(ByteClass), NEW i \in 1..(Len(s) + 1)
  PROVE  Len(TokensFrom(s, i)) \in Nat
<1>1. TokensFrom(s, i) \in Seq(Lexed(s))
  BY TokensStep
<1> QED
  BY <1>1

\* Two lists that TokensAt describes at one place are element for element the same.
LEMMA TokensAtSame ==
  ASSUME NEW s \in Seq(ByteClass), NEW m \in 1..(Len(s) + 1), NEW t, TokensAt(s, t, m),
         NEW r, TokensAt(s, r, m)
  PROVE  IsTail(r, t, 1)
<1>0. PICK l \in Nat : l = Len(s)
  OBVIOUS
<1>1. t[1] = NextToken(s, m) /\ r[1] = NextToken(s, m)
  BY DEF TokensAt
<1>2. CASE m > l
  <2>1. Len(t) = 1 /\ Len(r) = 1
    BY <1>0, <1>2 DEF TokensAt
  <2>2. ASSUME NEW j \in 1..Len(r) PROVE r[j] = t[1 + j - 1]
    <3>1. j = 1
      BY <2>1
    <3> QED
      BY <1>1, <3>1
  <2>3. Len(r) = Len(t) - 1 + 1
    BY <2>1
  <2> QED
    BY <2>2, <2>3 DEF IsTail
<1>3. CASE m <= l
  <2>1. PICK e, q : e = NextToken(s, m).to /\ q = TokensFrom(s, e)
    OBVIOUS
  <2>2. /\ e \in (m + 1)..(l + 1)
        /\ Len(t) = 1 + Len(q) /\ \A j \in 1..Len(q) : t[j + 1] = q[j]
        /\ Len(r) = 1 + Len(q) /\ \A j \in 1..Len(q) : r[j + 1] = q[j]
    BY <1>0, <1>1, <1>3, <2>1 DEF TokensAt
  <2>3. PICK lq \in Nat : lq = Len(q)
    <3>1. e \in 1..(Len(s) + 1)
      BY <1>0, <2>2
    <3> QED
      BY <2>1, <3>1, TokensLength
  <2>4. ASSUME NEW j \in 1..Len(r) PROVE r[j] = t[1 + j - 1]
    <3>1. j \in 1..(1 + lq) /\ 1 + j - 1 = j
      BY <2>2, <2>3
    <3>2. CASE j = 1
      BY <1>1, <3>1, <3>2
    <3>3. CASE j > 1
      <4>1. PICK k \in 1..lq : j = k + 1
        <5>1. j - 1 \in 1..lq /\ j = (j - 1) + 1
          BY <3>1, <3>3
        <5> QED
          BY <5>1
      <4>2. t[k + 1] = q[k] /\ r[k + 1] = q[k]
        BY <2>2, <2>3
      <4> QED
        BY <3>1, <4>1, <4>2
    <3>4. j = 1 \/ j > 1
      BY <3>1
    <3> QED
      BY <3>2, <3>3, <3>4
  <2>5. Len(r) = Len(t) - 1 + 1
    BY <2>2, <2>3
  <2> QED
    BY <2>4, <2>5 DEF IsTail
<1>4. m > l \/ m <= l
  OBVIOUS
<1> QED
  BY <1>2, <1>3, <1>4

\* The tokens from the n-th token's place on are the tokens from the n-th on.
LEMMA TokenPlaces ==
  ASSUME NEW s \in Seq(ByteClass), NEW i \in 1..(Len(s) + 1),
         NEW n \in 1..Len(TokensFrom(s, i))
  PROVE  TokenPlace(s, TokensFrom(s, i), n, i)
<1>0. PICK l \in Nat : l = Len(s)
  OBVIOUS
<1> DEFINE tf(k) == TokensFrom(s, k)
           T == {k \in 1..(l + 1) : \A j \in 1..Len(tf(k)) : TokenPlace(s, tf(k), j, k)}
<1>1. ASSUME NEW k \in 1..(l + 1), \A j \in (k + 1)..(l + 1) : j \in T PROVE k \in T
  <2> SUFFICES ASSUME NEW j \in 1..Len(tf(k)) PROVE TokenPlace(s, tf(k), j, k)
    OBVIOUS
  <2>0. k \in 1..(Len(s) + 1)
    BY <1>0
  <2>1. PICK m \in 1..(Len(s) + 1) : GapTo(s, k, m, {})
    BY <2>0, GapReaches
  <2>2. PICK t : t = tf(k)
    OBVIOUS
  <2>3. m \in k..(l + 1) /\ TokensAt(s, t, m)
    BY <1>0, <2>1, <2>2 DEF GapTo
  <2>4. /\ t[1] = NextToken(s, m) /\ t[1].from = m /\ NextToken(s, m).kind # "Blank"
        /\ j \in 1..Len(t)
    BY <2>2, <2>3 DEF TokensAt
  <2>5. CASE j = 1
    <3>1. TokensAt(s, tf(m), m)
      BY <2>4, TokensStart
    <3>2. IsTail(tf(m), t, 1)
      BY <2>3, <3>1, TokensAtSame
    <3>3. t[j].from = m /\ m \in k..(Len(s) + 1)
      BY <1>0, <2>3, <2>4, <2>5
    <3> QED
      BY <2>2, <2>5, <3>1, <3>2, <3>3 DEF TokenPlace
  <2>6. CASE j > 1
    <3>1. m <= l
      <4>1. m > Len(s) => Len(t) = 1
        BY <2>3 DEF TokensAt
      <4>2. ASSUME Len(t) = 1 PROVE FALSE
        <5>1. j \in 1..1
          BY <2>4, <4>2
        <5> QED
          BY <2>6, <5>1
      <4> QED
        BY <1>0, <2>3, <4>1, <4>2
    <3>2. PICK e, r : e = t[1].to /\ r = tf(e)
      OBVIOUS
    <3>3. e \in (m + 1)..(l + 1) /\ Len(t) = 1 + Len(r) /\ \A v \in 1..Len(r) : t[v + 1] = r[v]
      BY <1>0, <2>3, <3>1, <3>2 DEF TokensAt
    <3>4. e \in (k + 1)..(l + 1) /\ e \in 1..(Len(s) + 1)
      BY <1>0, <2>3, <3>3
    <3>5. PICK lr \in Nat : lr = Len(r)
      BY <3>2, <3>4, TokensLength
    <3>6. PICK v \in 1..lr : j = v + 1
      <4>1. j - 1 \in 1..lr /\ j = (j - 1) + 1
        BY <2>4, <2>6, <3>3, <3>5
      <4> QED
        BY <4>1
    <3>7. TokenPlace(s, r, v, e)
      <4>1. e \in T
        BY <1>1, <3>4
      <4> QED
        BY <3>2, <3>5, <4>1
    <3>8. t[j] = r[v]
      BY <3>3, <3>5, <3>6
    <3>9. PICK p, q : p = r[v].from /\ q = tf(p)
      OBVIOUS
    <3>10. p \in e..(l + 1) /\ TokensAt(s, q, p) /\ IsTail(q, r, v)
      BY <1>0, <3>7, <3>9 DEF TokenPlace
    <3>11. p \in k..(Len(s) + 1)
      BY <1>0, <3>4, <3>10
    <3>12. IsTail(q, t, j)
      <4>1. Len(q) = lr - v + 1 /\ \A h \in 1..Len(q) : q[h] = r[v + h - 1]
        BY <3>5, <3>10 DEF IsTail
      <4>2. Len(q) = Len(t) - j + 1
        BY <3>3, <3>5, <3>6, <4>1
      <4>3. ASSUME NEW h \in 1..Len(q) PROVE q[h] = t[j + h - 1]
        <5>1. PICK x \in Nat : x = v + h - 1 /\ x \in 1..lr /\ j + h - 1 = x + 1
          BY <3>6, <4>1
        <5> QED
          BY <3>3, <3>5, <4>1, <5>1
      <4> QED
        BY <4>2, <4>3 DEF IsTail
    <3> QED
      BY <2>2, <3>8, <3>9, <3>10, <3>11, <3>12 DEF TokenPlace
  <2>7. j = 1 \/ j > 1
    OBVIOUS
  <2> QED
    BY <2>5, <2>6, <2>7
<1> HIDE DEF T
<1>2. 1 \in Int /\ l + 1 \in Int
  OBVIOUS
<1>3. 1..(l + 1) \subseteq T
  BY <1>1, <1>2, BackwardInductive
<1>4. i \in T
  BY <1>0, <1>3
<1> QED
  BY <1>4 DEF T

\* Each token but the last ends before the next one starts, and the walk meets
\* nothing but blanks between the two.
TokenGap(s, t, n, i, C) ==
  /\ t[n].from \in i..Len(s)
  /\ t[n] = NextToken(s, t[n].from)
  /\ t[n].to \in (t[n].from + 1)..t[n + 1].from
  /\ t[n + 1].from \in (i + 1)..(Len(s) + 1)
  /\ Reaches(s, t[n].to, t[n + 1].from, C)

\* Between two tokens there are only blanks and comments, which a walk steps over.
LEMMA TokenGaps ==
  ASSUME NEW s \in Seq(ByteClass), NEW i \in 1..(Len(s) + 1),
         NEW n \in 1..(Len(TokensFrom(s, i)) - 1), NEW C, "nl" \notin C, "sp" \notin C
  PROVE  TokenGap(s, TokensFrom(s, i), n, i, C)
<1>0. PICK l \in Nat, lt \in Nat : l = Len(s) /\ lt = Len(TokensFrom(s, i))
  BY TokensLength
<1>1. PICK t, m : t = TokensFrom(s, i) /\ m = t[n].from
  OBVIOUS
<1>2. PICK r : r = TokensFrom(s, m)
  OBVIOUS
<1>3. m \in i..(l + 1) /\ TokensAt(s, r, m) /\ IsTail(r, t, n)
  <2>1. n \in 1..Len(TokensFrom(s, i))
    BY <1>0
  <2> QED
    BY <1>0, <1>1, <1>2, <2>1, TokenPlaces DEF TokenPlace
<1>4. Len(r) = lt - n + 1 /\ \A j \in 1..Len(r) : r[j] = t[n + j - 1]
  BY <1>0, <1>1, <1>3 DEF IsTail
<1>5. n \in 1..(lt - 1)
  BY <1>0
<1>6. r[1] = t[n] /\ r[2] = t[n + 1]
  <2>1. PICK k \in Nat : k = Len(r) /\ k >= 2
    BY <1>4, <1>5
  <2>2. 1 \in 1..k /\ 2 \in 1..k /\ n + 1 - 1 = n /\ n + 2 - 1 = n + 1
    BY <2>1
  <2> QED
    BY <1>4, <2>1, <2>2
<1>7. m <= l
  <2>1. m > Len(s) => Len(r) = 1
    BY <1>3 DEF TokensAt
  <2>2. Len(r) # 1
    BY <1>4, <1>5
  <2> QED
    BY <1>0, <1>3, <2>1, <2>2
<1>8. PICK e, q : e = r[1].to /\ q = TokensFrom(s, e)
  OBVIOUS
<1>9. /\ r[1] = NextToken(s, m)
      /\ e \in (m + 1)..(l + 1) /\ Len(r) = 1 + Len(q)
      /\ \A j \in 1..Len(q) : r[j + 1] = q[j]
  BY <1>0, <1>3, <1>7, <1>8 DEF TokensAt
<1>10. e \in 1..(Len(s) + 1)
  BY <1>0, <1>3, <1>9
<1>11. PICK p \in 1..(Len(s) + 1) : GapTo(s, e, p, C)
  BY <1>10, GapReaches
<1>12. p \in e..(l + 1) /\ Len(q) >= 1 /\ q[1].from = p /\ Reaches(s, e, p, C)
  BY <1>0, <1>8, <1>11 DEF GapTo, TokensAt
<1>13. t[n + 1].from = p
  <2>1. 1 \in 1..Len(q)
    BY <1>8, <1>10, <1>12, TokensLength
  <2>2. r[1 + 1] = q[1]
    BY <1>9, <2>1
  <2> QED
    BY <1>6, <1>12, <2>2
<1>14. t[n].to = e /\ t[n] = NextToken(s, m)
  BY <1>6, <1>8, <1>9
<1>15. /\ m \in i..Len(s) /\ e \in (m + 1)..p /\ p \in (i + 1)..(Len(s) + 1)
  BY <1>0, <1>3, <1>7, <1>9, <1>12
<1>16. TokenGap(s, t, n, i, C)
  BY <1>1, <1>12, <1>13, <1>14, <1>15 DEF TokenGap
<1> QED
  BY <1>1, <1>16

\* The n-th token of t is a byte of the first hi ones.
ByteWithin(t, n, hi) == t[n].from <= hi /\ t[n].kind \in Punctuation

\* Texts with the same bytes up to hi have the same tokens up to a token of one
\* byte that stands in them.
LEMMA TokensAgree ==
  ASSUME NEW s \in Seq(ByteClass), NEW u \in Seq(ByteClass), NEW hi \in Nat, Agree(s, u, hi),
         NEW i \in 1..(hi + 1), NEW n \in 1..Len(TokensFrom(s, i)),
         ByteWithin(TokensFrom(s, i), n, hi)
  PROVE  /\ n <= Len(TokensFrom(u, i))
         /\ \A j \in 1..n : TokensFrom(u, i)[j] = TokensFrom(s, i)[j]
<1>0. PICK ls \in Nat, lu \in Nat : ls = Len(s) /\ lu = Len(u)
  OBVIOUS
<1>1. hi <= ls /\ hi <= lu
  BY <1>0 DEF Agree
<1> DEFINE sf(k) == TokensFrom(s, k)
           uf(k) == TokensFrom(u, k)
           Same(k, h) == h <= Len(uf(k)) /\ \A j \in 1..h : uf(k)[j] = sf(k)[j]
           T == {k \in 1..(hi + 1) : \A h \in 1..Len(sf(k)) :
                   ByteWithin(sf(k), h, hi) => Same(k, h)}
<1>2. ASSUME NEW k \in 1..(hi + 1), \A j \in (k + 1)..(hi + 1) : j \in T PROVE k \in T
  <2> SUFFICES ASSUME NEW h \in 1..Len(sf(k)), ByteWithin(sf(k), h, hi)
               PROVE  Same(k, h)
    OBVIOUS
  <2>0. k \in 1..(Len(s) + 1) /\ k \in 1..(Len(u) + 1)
    BY <1>0, <1>1
  <2>1. PICK place : place = sf(k)[h].from
    OBVIOUS
  <2>2. k <= hi /\ k \in 1..hi /\ k \in 1..Len(s) /\ k \in 1..Len(u) /\ k <= Len(s) /\ k <= Len(u)
    <3>1. place \in k..(ls + 1)
      BY <1>0, <2>0, <2>1, TokenPlaces DEF TokenPlace
    <3>2. place <= hi
      BY <2>1 DEF ByteWithin
    <3>3. PICK y \in Nat : y = k /\ y >= 1
      OBVIOUS
    <3>4. y <= hi /\ y <= ls /\ y <= lu
      BY <1>1, <3>1, <3>2, <3>3
    <3>5. y \in 1..hi /\ y \in 1..ls /\ y \in 1..lu
      BY <3>3, <3>4
    <3> QED
      BY <1>0, <3>3, <3>4, <3>5
  <2>3. PICK x, e : x = NextToken(s, k) /\ e = x.to
    OBVIOUS
  <2>4. e \in (k + 1)..(ls + 1)
    BY <1>0, <2>2, <2>3, NextTokenShape
  <2>5. ASSUME e <= hi PROVE e \in T /\ e \in 1..(Len(s) + 1) /\ e \in 1..(Len(u) + 1)
    <3>1. e \in (k + 1)..(hi + 1)
      BY <2>4, <2>5
    <3>2. e \in T
      BY <1>2, <3>1
    <3>3. e \in 1..(ls + 1) /\ e \in 1..(lu + 1)
      BY <1>1, <2>2, <3>1
    <3> QED
      BY <1>0, <3>2, <3>3
  <2>6. CASE x.kind = "Blank"
    <3>1. sf(k) = sf(e)
      BY <2>0, <2>2, <2>3, <2>6, TokensStep
    <3>2. e <= hi
      <4>1. e \in 1..(Len(s) + 1)
        BY <1>0, <2>0, <2>4
      <4>2. sf(e)[h].from \in e..(ls + 1)
        BY <1>0, <3>1, <4>1, TokenPlaces DEF TokenPlace
      <4>3. sf(e)[h].from <= hi
        BY <3>1 DEF ByteWithin
      <4> QED
        BY <2>4, <4>2, <4>3
    <3>3. NextToken(u, k) = x
      BY <2>2, <2>3, <3>2, NextTokenAgrees
    <3>4. uf(k) = uf(e)
      BY <2>0, <2>2, <2>3, <2>6, <3>3, TokensStep
    <3>5. Same(e, h)
      BY <2>5, <3>1, <3>2
    <3> QED
      BY <3>1, <3>4, <3>5
  <2>7. CASE x.kind # "Blank"
    <3>1. TokensAt(s, sf(k), k)
      BY <2>0, <2>3, <2>7, TokensStart
    <3>2. PICK t, r : t = sf(k) /\ r = sf(e)
      OBVIOUS
    <3>3. /\ t[1] = x
          /\ Len(t) = 1 + Len(r) /\ \A j \in 1..Len(r) : t[j + 1] = r[j]
      BY <2>2, <2>3, <3>1, <3>2 DEF TokensAt
    <3>4. PICK lr \in Nat : lr = Len(r)
      <4>1. e \in 1..(Len(s) + 1)
        BY <1>0, <2>0, <2>4
      <4> QED
        BY <3>2, <4>1, TokensLength
    <3>5. ASSUME e <= hi \/ x.kind \in Punctuation
          PROVE  /\ uf(k)[1] = x
                 /\ Len(uf(k)) = 1 + Len(uf(e))
                 /\ \A j \in 1..Len(uf(e)) : uf(k)[j + 1] = uf(e)[j]
      <4>1. NextToken(u, k) = x
        BY <2>2, <2>3, <3>5, NextTokenAgrees
      <4>2. TokensAt(u, uf(k), k)
        BY <2>0, <2>7, <4>1, TokensStart
      <4> QED
        BY <2>2, <2>3, <4>1, <4>2 DEF TokensAt
    <3>6. CASE h = 1
      <4>1. x.kind \in Punctuation
        BY <3>2, <3>3, <3>6 DEF ByteWithin
      <4>2. uf(k)[1] = x /\ Len(uf(k)) = 1 + Len(uf(e))
        BY <3>5, <4>1
      <4>3. Len(uf(k)) \in Nat
        BY <2>0, TokensLength
      <4>4. 1 <= Len(uf(k))
        <5>1. e \in 1..(Len(u) + 1)
          <6>1. x.to = k + 1
            BY <2>2, <2>3, <4>1, PunctuationAt
          <6> QED
            BY <1>0, <2>2, <2>3, <6>1
        <5>2. Len(uf(e)) \in Nat
          BY <5>1, TokensLength
        <5> QED
          BY <4>2, <5>2
      <4>5. \A j \in 1..1 : uf(k)[j] = sf(k)[j]
        BY <3>2, <3>3, <4>2
      <4> QED
        BY <3>6, <4>4, <4>5
    <3>7. CASE h > 1
      <4>1. PICK v \in 1..lr : h = v + 1
        <5>1. h - 1 \in 1..lr /\ h = (h - 1) + 1
          BY <3>2, <3>3, <3>4, <3>7
        <5> QED
          BY <5>1
      <4>2. t[h] = r[v]
        BY <3>3, <3>4, <4>1
      <4>3. e <= hi
        <5>1. e \in 1..(Len(s) + 1)
          BY <1>0, <2>0, <2>4
        <5>2. r[v].from \in e..(ls + 1)
          BY <1>0, <3>2, <3>4, <5>1, TokenPlaces DEF TokenPlace
        <5>3. t[h].from <= hi
          BY <3>2 DEF ByteWithin
        <5> QED
          BY <2>4, <4>2, <5>2, <5>3
      <4>4. Same(e, v)
        <5>1. e \in T
          BY <2>5, <4>3
        <5>2. v \in 1..Len(sf(e)) /\ ByteWithin(sf(e), v, hi)
          BY <3>2, <3>4, <4>2 DEF ByteWithin
        <5> QED
          BY <5>1, <5>2
      <4>5. /\ uf(k)[1] = x /\ Len(uf(k)) = 1 + Len(uf(e))
            /\ \A j \in 1..Len(uf(e)) : uf(k)[j + 1] = uf(e)[j]
        BY <3>5, <4>3
      <4>6. PICK le \in Nat : le = Len(uf(e))
        BY <2>5, <4>3, TokensLength
      <4>7. v <= le /\ \A j \in 1..v : uf(e)[j] = r[j]
        BY <3>2, <4>4, <4>6
      <4>8. h <= Len(uf(k))
        BY <4>1, <4>5, <4>6, <4>7
      <4>9. ASSUME NEW j \in 1..h PROVE uf(k)[j] = t[j]
        <5>1. CASE j = 1
          BY <3>3, <4>5, <5>1
        <5>2. CASE j > 1
          <6>1. PICK w \in 1..v : j = w + 1
            <7>1. j - 1 \in 1..v /\ j = (j - 1) + 1
              BY <4>1, <5>2
            <7> QED
              BY <7>1
          <6>2. w \in 1..Len(uf(e)) /\ w \in 1..Len(r)
            BY <3>4, <4>6, <4>7, <6>1
          <6> QED
            BY <3>3, <4>5, <4>7, <6>1, <6>2
        <5>3. j = 1 \/ j > 1
          OBVIOUS
        <5> QED
          BY <5>1, <5>2, <5>3
      <4> QED
        BY <3>2, <4>8, <4>9
    <3>8. h = 1 \/ h > 1
      OBVIOUS
    <3> QED
      BY <3>6, <3>7, <3>8
  <2> QED
    BY <2>6, <2>7
<1> HIDE DEF T
<1>3. 1 \in Int /\ hi + 1 \in Int
  OBVIOUS
<1>4. 1..(hi + 1) \subseteq T
  BY <1>2, <1>3, BackwardInductive
<1>5. i \in T
  BY <1>4
<1> QED
  BY <1>5 DEF T

-----------------------------------------------------------------------------
(***************************************************************************)
(* The parser's header, by the tokens it is made of.                       *)
(***************************************************************************)
IsPrelude(t, at) ==
  /\ at \in 1..Len(t) /\ t[at].kind = "AtDataset"
  /\ \A i \in 1..(at - 1) : t[i].kind = "AtDirective" \/ (t[i].kind = "Ident" /\ i # 1)

Named == {"Ident"}

\* The list of columns, after the directive and the type's name.
IsColumns(t, at, list, end) ==
  /\ list = IF t[at + 1].kind = "Ident" THEN at + 2 ELSE at + 1
  /\ ListEnd(t, list, Named, FALSE) = end /\ end # 0

IsHeader(t, at, list, end) == IsPrelude(t, at) /\ IsColumns(t, at, list, end)

HeaderOf(t, list, end) == [next |-> end + 1, columns |-> Items(t, list, end)]

\* The tokens PreludeEnd stops at.
AfterPrelude(t) ==
  {i \in 1..Len(t) : /\ t[i].kind # "AtDirective"
                     /\ t[i].kind = "Ident" => i = 1}

\* Before the header the parser passes over directives and their names only.
LEMMA PreludeIs ==
  ASSUME NEW T, NEW t \in Seq(T), Len(t) >= 1, t[Len(t)].kind = "Eof",
         NEW at, at = PreludeEnd(t)
  PROVE  /\ at \in 1..Len(t)
         /\ \A i \in 1..(at - 1) : t[i].kind = "AtDirective" \/ (t[i].kind = "Ident" /\ i # 1)
<1>0. PICK l \in Nat : l = Len(t)
  OBVIOUS
<1>1. PICK none, S : none = 0 /\ S = AfterPrelude(t)
  OBVIOUS
<1>2. at = TheOne(First(S), none)
  BY <1>1 DEF PreludeEnd, FirstAt, AfterPrelude
<1>3. S \subseteq Nat /\ l \in S /\ \A i \in 1..l : i \notin S =>
         t[i].kind = "AtDirective" \/ (t[i].kind = "Ident" /\ i # 1)
  BY <1>0, <1>1 DEF AfterPrelude
<1>4. at \in S /\ \A q \in S : at <= q
  <2>1. S # {} /\ S \subseteq Nat
    BY <1>3
  <2>2. \/ S = {} /\ TheOne(First(S), none) = none
        \/ TheOne(First(S), none) \in S /\ \A q \in S : TheOne(First(S), none) <= q
    BY <2>1, LeastWhich
  <2> QED
    BY <1>2, <2>1, <2>2
<1>5. at \in 1..l
  BY <1>0, <1>1, <1>4 DEF AfterPrelude
<1>6. ASSUME NEW i \in 1..(at - 1) PROVE i \in 1..l /\ i \notin S
  <2>1. i \in 1..l /\ ~(at <= i)
    BY <1>5
  <2> QED
    BY <1>4, <2>1
<1> QED
  BY <1>0, <1>3, <1>5, <1>6

\* And over as many of them as there are.
LEMMA PreludeOf ==
  ASSUME NEW T, NEW t \in Seq(T), NEW at, IsPrelude(t, at)
  PROVE  PreludeEnd(t) = at
<1>1. PICK none, S : none = 0 /\ S = AfterPrelude(t)
  OBVIOUS
<1>2. PreludeEnd(t) = TheOne(First(S), none)
  BY <1>1 DEF PreludeEnd, FirstAt, AfterPrelude
<1>3. at \in 1..Len(t) /\ t[at].kind = "AtDataset"
      /\ \A i \in 1..(at - 1) : t[i].kind = "AtDirective" \/ (t[i].kind = "Ident" /\ i # 1)
  BY DEF IsPrelude
<1>4. S \subseteq Nat /\ at \in S
  BY <1>1, <1>3 DEF AfterPrelude
<1>5. ASSUME NEW q \in S PROVE at <= q
  <2>1. q \in 1..Len(t) /\ t[q].kind # "AtDirective" /\ (t[q].kind = "Ident" => q = 1)
    BY <1>1 DEF AfterPrelude
  <2>2. q \notin 1..(at - 1)
    BY <1>3, <2>1
  <2> QED
    BY <1>3, <2>1, <2>2
<1> QED
  BY <1>2, <1>4, <1>5, LeastIs

\* A header the parser reads has a prelude, @dataset, a type's name or none, and a list
\* of columns.
LEMMA HeaderIs ==
  ASSUME NEW T, NEW t \in Seq(T), Len(t) >= 1, t[Len(t)].kind = "Eof",
         Header(t).columns # 0
  PROVE  \E at, list, end :
           IsHeader(t, at, list, end) /\ Header(t) = HeaderOf(t, list, end)
<1>1. PICK at : at = PreludeEnd(t)
  OBVIOUS
<1>2. /\ at \in 1..Len(t)
      /\ \A i \in 1..(at - 1) : t[i].kind = "AtDirective" \/ (t[i].kind = "Ident" /\ i # 1)
  BY <1>1, PreludeIs
<1>3. PICK list : list = IF t[at + 1].kind = "Ident" THEN at + 2 ELSE at + 1
  OBVIOUS
<1>4. PICK end : end = ListEnd(t, list, Named, FALSE)
  OBVIOUS
<1>5. PICK items : items = Items(t, list, end)
  OBVIOUS
<1>6. Header(t) = IF t[at].kind # "AtDataset"
                    THEN [next |-> 0 + 1, columns |-> 0]
                    ELSE [next |-> end + 1, columns |-> IF end = 0 THEN 0 ELSE items]
  BY <1>1, <1>3, <1>4, <1>5 DEF Header, Named
<1>7. t[at].kind = "AtDataset" /\ end # 0
  BY <1>6
<1>8. IsHeader(t, at, list, end)
  BY <1>2, <1>3, <1>4, <1>7 DEF IsHeader, IsPrelude, IsColumns
<1>9. Header(t) = HeaderOf(t, list, end)
  BY <1>5, <1>6, <1>7 DEF HeaderOf
<1> QED
  BY <1>2, <1>8, <1>9

\* Where these parts are, the parser reads a header.
LEMMA HeaderFromParts ==
  ASSUME NEW T, NEW t \in Seq(T), NEW at, NEW list, NEW end, IsHeader(t, at, list, end)
  PROVE  Header(t) = HeaderOf(t, list, end)
<1>1. PreludeEnd(t) = at /\ t[at].kind = "AtDataset"
  BY PreludeOf DEF IsHeader, IsPrelude
<1>2. /\ list = IF t[at + 1].kind = "Ident" THEN at + 2 ELSE at + 1
      /\ ListEnd(t, list, Named, FALSE) = end /\ end # 0
  BY DEF IsHeader, IsColumns
<1>3. PICK items : items = Items(t, list, end)
  OBVIOUS
<1>4. Header(t) = [next |-> end + 1, columns |-> IF end = 0 THEN 0 ELSE items]
  BY <1>1, <1>2, <1>3 DEF Header, Named
<1> QED
  BY <1>2, <1>3, <1>4 DEF HeaderOf

\* The first n elements of two lists.
SameUpTo(a, b, n) == n <= Len(a) /\ n <= Len(b) /\ \A j \in 1..n : b[j] = a[j]

\* A list that ends among the first n tokens ends there in every sequence with the same
\* first n.
LEMMA ListEndSame ==
  ASSUME NEW T, NEW a \in Seq(T), NEW b \in Seq(T), NEW n \in Nat, SameUpTo(a, b, n),
         NEW k \in 1..n, NEW items, \A c \in items : c \in Values, NEW empty,
         NEW end, ListEnd(a, k, items, empty) = end, end # 0, end \in 1..n
  PROVE  ListEnd(b, k, items, empty) = end
<1>0. PICK la \in Nat, lb \in Nat : la = Len(a) /\ lb = Len(b)
  OBVIOUS
<1>1. n <= la /\ n <= lb /\ \A j \in 1..n : b[j] = a[j]
  BY <1>0 DEF SameUpTo
<1> DEFINE S(t) == {i \in (k + 1)..Len(t) : t[i].kind \notin items \cup Comma}
           neighbours(t, e) == {<<t[i].kind, t[i + 1].kind>> : i \in k..(e - 1)}
           good(t, e) == /\ t[k].kind = "(" /\ t[e].kind = ")"
                         /\ \A p \in neighbours(t, e) :
                              /\ ~(p[1] \in items /\ p[2] \in items)
                              /\ empty \/ p[1] \in items \/ p[2] \in items
<1>2. PICK none, x, y : none = 0 /\ x = TheOne(First(S(a)), none) /\ y = TheOne(First(S(b)), none)
  OBVIOUS
<1>3. /\ ListEnd(a, k, items, empty) = IF good(a, x) THEN x ELSE 0
      /\ ListEnd(b, k, items, empty) = IF good(b, y) THEN y ELSE 0
  BY <1>2, Zenon DEF ListEnd, FirstAt, Comma
<1>4. good(a, x) /\ x = end
  <2> HIDE DEF good
  <2> QED
    BY <1>3
<1>5. S(a) \subseteq Nat /\ S(b) \subseteq Nat
  OBVIOUS
<1>6. x \in S(a) /\ \A q \in S(a) : x <= q
  <2> HIDE DEF S
  <2>1. x # none
    BY <1>2, <1>4
  <2>2. \/ S(a) = {} /\ x = none
        \/ x \in S(a) /\ \A q \in S(a) : x <= q
    BY <1>2, <1>5, LeastWhich
  <2> QED
    BY <2>1, <2>2
<1>7. x \in 1..n
  BY <1>4
<1>8. x \in S(b)
  <2>1. x \in (k + 1)..la /\ a[x].kind \notin items \cup Comma /\ b[x] = a[x]
    BY <1>0, <1>1, <1>6, <1>7
  <2>2. x \in (k + 1)..lb
    BY <1>1, <1>7, <2>1
  <2> QED
    BY <1>0, <2>1, <2>2
<1>9. ASSUME NEW q \in S(b) PROVE x <= q
  <2> SUFFICES ASSUME q < x PROVE FALSE
    BY <1>0, <1>7
  <2>1. q \in (k + 1)..lb /\ b[q].kind \notin items \cup Comma
    BY <1>0
  <2>2. q \in 1..n /\ q \in (k + 1)..la
    BY <1>1, <1>7, <2>1
  <2>3. q \in S(a)
    BY <1>0, <1>1, <2>1, <2>2
  <2> QED
    BY <1>6, <1>7, <2>2, <2>3
<1>10. y = x
  <2> HIDE DEF S
  <2> QED
    BY <1>2, <1>5, <1>8, <1>9, LeastIs
<1>11. neighbours(b, x) = neighbours(a, x)
  <2>1. ASSUME NEW i \in k..(x - 1) PROVE b[i] = a[i] /\ b[i + 1] = a[i + 1]
    <3>1. i \in 1..n /\ i + 1 \in 1..n
      BY <1>7
    <3> QED
      BY <1>1, <3>1
  <2> QED
    BY <2>1
<1>12. b[k] = a[k] /\ b[x] = a[x]
  BY <1>1, <1>7
<1>13. good(b, x)
  <2> HIDE DEF neighbours
  <2> QED
    BY <1>4, <1>11, <1>12
<1> HIDE DEF good
<1> QED
  BY <1>3, <1>4, <1>10, <1>13

\* And it has as many items there.
LEMMA ItemsSame ==
  ASSUME NEW a, NEW b, NEW n \in Nat, SameUpTo(a, b, n), NEW k \in 1..n, NEW end \in 1..n
  PROVE  Items(b, k, end) = Items(a, k, end)
<1>1. \A j \in 1..n : b[j] = a[j]
  BY DEF SameUpTo
<1>2. ASSUME NEW c PROVE {i \in k..end : b[i].kind = c} = {i \in k..end : a[i].kind = c}
  <2>1. ASSUME NEW i \in k..end PROVE b[i] = a[i]
    <3>1. i \in 1..n
      OBVIOUS
    <3> QED
      BY <1>1, <3>1
  <2> QED
    BY <2>1
<1> QED
  BY <1>2, Zenon DEF Items

\* The header is decided by the tokens up to its closing parenthesis.
LEMMA HeaderSame ==
  ASSUME NEW T, NEW a \in Seq(T), NEW b \in Seq(T), NEW n \in Nat, SameUpTo(a, b, n),
         NEW at, NEW list, NEW end, IsHeader(a, at, list, end), end <= n
  PROVE  IsHeader(b, at, list, end) /\ Header(b) = Header(a)
<1>0. PICK la \in Nat, lb \in Nat : la = Len(a) /\ lb = Len(b)
  OBVIOUS
<1>1. n <= la /\ n <= lb /\ \A j \in 1..n : b[j] = a[j]
  BY <1>0 DEF SameUpTo
<1>2. at \in 1..la /\ a[at].kind = "AtDataset"
      /\ \A i \in 1..(at - 1) : a[i].kind = "AtDirective" \/ (a[i].kind = "Ident" /\ i # 1)
  BY <1>0 DEF IsHeader, IsPrelude
<1>3. /\ list = IF a[at + 1].kind = "Ident" THEN at + 2 ELSE at + 1
      /\ ListEnd(a, list, Named, FALSE) = end /\ end # 0
  BY DEF IsHeader, IsColumns
<1>c. Named \subseteq Values
  BY DEF Named, Values
<1>4. list \in Int /\ list >= at + 1 /\ (a[at + 1].kind = "Ident" => list = at + 2)
  BY <1>2, <1>3
<1>5. end \in Int /\ end > list
  <2>1. PICK S : S = {i \in (list + 1)..Len(a) : a[i].kind \notin Named \cup Comma}
    OBVIOUS
  <2>2. PICK none, x : none = 0 /\ x = TheOne(First(S), none)
    OBVIOUS
  <2>3. end = x \/ end = 0
    BY <1>3, <2>1, <2>2, Zenon DEF ListEnd, FirstAt, Comma
  <2>4. \A q \in S : q \in (list + 1)..la
    BY <1>0, <2>1
  <2>5. S \subseteq Nat
    BY <1>2, <1>4, <2>4
  <2>6. \/ S = {} /\ x = none
        \/ x \in S
    BY <2>2, <2>5, LeastWhich
  <2>7. end \in S
    BY <1>3, <2>2, <2>3, <2>6
  <2>8. end \in (list + 1)..la
    BY <2>4, <2>7
  <2> QED
    BY <1>0, <1>4, <2>8
<1>6. list \in 1..n /\ end \in 1..n /\ at \in 1..n /\ at + 1 \in 1..n
  BY <1>2, <1>4, <1>5
<1>7. b[at] = a[at] /\ b[at + 1] = a[at + 1]
  BY <1>1, <1>6
<1>8. IsPrelude(b, at)
  <2>1. at \in 1..lb
    BY <1>1, <1>6
  <2>2. ASSUME NEW i \in 1..(at - 1)
        PROVE  b[i].kind = "AtDirective" \/ (b[i].kind = "Ident" /\ i # 1)
    <3>1. i \in 1..n
      BY <1>6
    <3> QED
      BY <1>1, <1>2, <3>1
  <2> QED
    BY <1>0, <1>2, <1>7, <2>1, <2>2 DEF IsPrelude
<1>9. ListEnd(b, list, Named, FALSE) = end
  <2>1. PICK empty : empty = FALSE
    OBVIOUS
  <2>2. ListEnd(a, list, Named, empty) = end
    BY <1>3, <2>1
  <2>3. ListEnd(b, list, Named, empty) = end
    <3>1. \A c \in Named : c \in Values
      BY <1>c
    <3> QED
      BY <1>3, <1>6, <2>2, <3>1, ListEndSame
  <2> QED
    BY <2>1, <2>3
<1>10. IsHeader(b, at, list, end)
  BY <1>3, <1>7, <1>8, <1>9 DEF IsHeader, IsColumns
<1>11. Items(b, list, end) = Items(a, list, end)
  BY <1>6, ItemsSame
<1>12. Header(a) = HeaderOf(a, list, end) /\ Header(b) = HeaderOf(b, list, end)
  BY <1>10, HeaderFromParts
<1> QED
  BY <1>10, <1>11, <1>12 DEF HeaderOf

\* The parts of a header lie in this order among the tokens.
LEMMA HeaderShape ==
  ASSUME NEW T, NEW t \in Seq(T), Len(t) >= 1, t[Len(t)].kind = "Eof",
         NEW at, NEW list, NEW end, IsHeader(t, at, list, end)
  PROVE  /\ at \in 1..(Len(t) - 1) /\ at + 1 \in 1..(Len(t) - 1)
         /\ list \in (at + 1)..(Len(t) - 1) /\ end \in (list + 1)..(Len(t) - 1)
         /\ IsList(t, list, end)
<1>0. PICK l \in Nat : l = Len(t)
  OBVIOUS
<1>1. at \in 1..l /\ t[at].kind = "AtDataset"
  BY <1>0 DEF IsHeader, IsPrelude
<1>2. /\ list = IF t[at + 1].kind = "Ident" THEN at + 2 ELSE at + 1
      /\ ListEnd(t, list, Named, FALSE) = end /\ end # 0
  BY DEF IsHeader, IsColumns
<1>3. at # l
  BY <1>0, <1>1
<1>4. at + 1 \in 1..l
  BY <1>1, <1>3
<1>5. t[at + 1].kind = "Ident" => at + 1 # l
  BY <1>0
<1>6. list \in 1..l /\ list >= at + 1
  BY <1>1, <1>2, <1>4, <1>5
<1>7. IsList(t, list, end)
  <2>1. PICK empty : empty = FALSE
    OBVIOUS
  <2>2. ListEnd(t, list, Named, empty) = end
    BY <1>2, <2>1
  <2>3. \A c \in Named : c \in Values
    BY DEF Named, Values
  <2>4. list \in 1..Len(t)
    BY <1>0, <1>6
  <2> QED
    BY <1>2, <2>2, <2>3, <2>4, ListIs
<1>8. t[list].kind = "(" /\ end \in (list + 1)..l /\ t[end].kind = ")"
  BY <1>0, <1>7 DEF IsList
<1>9. end # l
  BY <1>0, <1>8
<1>10. end \in (list + 1)..(l - 1)
  BY <1>6, <1>8, <1>9
<1>11. at \in 1..(l - 1) /\ at + 1 \in 1..(l - 1) /\ list \in (at + 1)..(l - 1)
  BY <1>1, <1>4, <1>6, <1>10
<1> QED
  BY <1>0, <1>7, <1>10, <1>11

\* The header of a text, where its tokens say it is.
HeaderIn(s, at, list, end) == IsHeader(Tokens(s), at, list, end)

\* The tokens of a text are a sequence that ends in Eof.
LEMMA TokensAre ==
  ASSUME NEW s \in Seq(ByteClass)
  PROVE  /\ Tokens(s) = TokensFrom(s, 1) /\ 1 \in 1..(Len(s) + 1)
         /\ Tokens(s) \in Seq(Lexed(s)) /\ Len(Tokens(s)) \in Nat
         /\ Len(Tokens(s)) >= 1 /\ Tokens(s)[Len(Tokens(s))].kind = "Eof"
<1>1. 1 \in 1..(Len(s) + 1)
  <2>1. Len(s) \in Nat
    OBVIOUS
  <2> QED
    BY <2>1
<1>2. TokensFrom(s, 1) \in Seq(Lexed(s)) /\ Len(TokensFrom(s, 1)) \in Nat
  BY <1>1, TokensStep, TokensLength
<1>3. Len(TokensFrom(s, 1)) >= 1 /\ TokensFrom(s, 1)[Len(TokensFrom(s, 1))].kind = "Eof"
  BY <1>1, LastIsEof
<1> QED
  BY <1>1, <1>2, <1>3 DEF Tokens

\* A text that begins with a header's bytes has this header.
LEMMA HeaderAgree ==
  ASSUME NEW s \in Seq(ByteClass), NEW u \in Seq(ByteClass), NEW hi \in Nat, Agree(s, u, hi),
         NEW at, NEW list, NEW end, HeaderIn(s, at, list, end),
         Tokens(s)[end].from <= hi
  PROVE  /\ HeaderIn(u, at, list, end)
         /\ Header(Tokens(u)) = Header(Tokens(s))
         /\ Tokens(u)[end] = Tokens(s)[end]
<1>1. PICK a, b : a = Tokens(s) /\ b = Tokens(u)
  OBVIOUS
<1>2. PICK la \in Nat, lb \in Nat : la = Len(a) /\ lb = Len(b)
  BY <1>1, TokensAre
<1>3. a \in Seq(Lexed(s)) /\ la >= 1 /\ a[la].kind = "Eof" /\ IsHeader(a, at, list, end)
  BY <1>1, <1>2, TokensAre DEF HeaderIn
<1>4. end \in (list + 1)..(la - 1) /\ list \in (at + 1)..(la - 1) /\ at \in 1..(la - 1)
      /\ IsList(a, list, end)
  BY <1>2, <1>3, HeaderShape
<1>5. PICK n \in 1..la : n = end
  BY <1>4
<1>6. ByteWithin(a, n, hi)
  <2>1. a[n].kind = ")"
    BY <1>4, <1>5 DEF IsList
  <2> QED
    BY <1>1, <1>5, <2>1, PunctuationIs DEF ByteWithin
<1>7. n <= lb /\ \A j \in 1..n : b[j] = a[j]
  <2>1. PICK i \in 1..(hi + 1) : i = 1
    OBVIOUS
  <2>2. a = TokensFrom(s, i) /\ b = TokensFrom(u, i)
    BY <1>1, <2>1, TokensAre
  <2>3. n \in 1..Len(TokensFrom(s, i)) /\ ByteWithin(TokensFrom(s, i), n, hi)
    BY <1>2, <1>6, <2>2
  <2>4. /\ n <= Len(TokensFrom(u, i))
        /\ \A j \in 1..n : TokensFrom(u, i)[j] = TokensFrom(s, i)[j]
    BY <2>3, TokensAgree
  <2> QED
    BY <1>2, <2>2, <2>4
<1>8. SameUpTo(a, b, n)
  BY <1>2, <1>7 DEF SameUpTo
<1>9. IsHeader(b, at, list, end) /\ Header(b) = Header(a)
  <2>1. PICK U : U = Lexed(s) \cup Lexed(u)
    OBVIOUS
  <2>2. a \in Seq(U) /\ b \in Seq(U)
    <3>1. Lexed(s) \subseteq U /\ Lexed(u) \subseteq U
      BY <2>1
    <3>2. a \in Seq(Lexed(s)) /\ b \in Seq(Lexed(u))
      BY <1>1, TokensAre
    <3> QED
      BY <3>1, <3>2
  <2>3. end <= n /\ n \in Nat
    BY <1>5
  <2> QED
    BY <1>3, <1>8, <2>2, <2>3, HeaderSame
<1>10. b[end] = a[end]
  BY <1>5, <1>7
<1> QED
  BY <1>1, <1>9, <1>10 DEF HeaderIn

\* A header has a column.
LEMMA HeaderPositive ==
  ASSUME NEW s \in Seq(ByteClass), Header(Tokens(s)).columns # 0
  PROVE  Header(Tokens(s)).columns > 0
<1>1. PICK t : t = Tokens(s)
  OBVIOUS
<1>2. t \in Seq(Lexed(s)) /\ Len(t) >= 1 /\ t[Len(t)].kind = "Eof"
  BY <1>1, TokensAre
<1>3. PICK at, list, end : IsHeader(t, at, list, end) /\ Header(t) = HeaderOf(t, list, end)
  BY <1>1, <1>2, HeaderIs
<1>4. end \in (list + 1)..(Len(t) - 1) /\ list \in (at + 1)..(Len(t) - 1) /\ at \in 1..(Len(t) - 1)
  BY <1>2, <1>3, HeaderShape
<1>5. list \in Int /\ end \in Int
  BY <1>4
<1>6. PICK A : A = {i \in list..end : t[i].kind \in Comma}
  OBVIOUS
<1>7. Cardinality(A) \in Nat
  <2>1. A \subseteq list..end
    BY <1>6
  <2>2. IsFiniteSet(list..end)
    BY <1>5, FS_Interval
  <2>3. IsFiniteSet(A)
    BY <2>1, <2>2, FS_Subset
  <2> QED
    BY <2>3, FS_CardinalityType
<1>8. Items(t, list, end) = 1 + Cardinality(A)
  <2>1. A = {i \in list..end : t[i].kind = ","}
    BY <1>6, Zenon DEF Comma
  <2> QED
    BY <2>1, Zenon DEF Items
<1>9. Header(t).columns = 1 + Cardinality(A)
  BY <1>3, <1>8 DEF HeaderOf
<1>10. Header(t).columns > 0
  BY <1>7, <1>9
<1> QED
  BY <1>1, <1>10

\* A document with columns has a header with them.
LEMMA HeaderColumns ==
  ASSUME NEW s, Dataset(s).columns # 0
  PROVE  Header(Tokens(s)).columns # 0 /\ Dataset(s).columns = Header(Tokens(s)).columns
<1>1. PICK t, h : t = Tokens(s) /\ h = Header(t)
  OBVIOUS
<1>2. PICK r, e : r = RowsFrom(t, h.next, h.columns).spans /\ e = Dataset(s).end
  OBVIOUS
<1>3. Dataset(s).columns = IF h.columns = 0 THEN 0 ELSE h.columns
  BY <1>1 DEF Dataset
<1> QED
  BY <1>1, <1>3

\* And a header with columns gives the document its columns.
LEMMA ColumnsOfDataset ==
  ASSUME NEW s, Header(Tokens(s)).columns # 0
  PROVE  Dataset(s).columns = Header(Tokens(s)).columns
<1>1. PICK t, h : t = Tokens(s) /\ h = Header(t)
  OBVIOUS
<1>3. Dataset(s).columns = IF h.columns = 0 THEN 0 ELSE h.columns
  BY <1>1 DEF Dataset
<1> QED
  BY <1>1, <1>3

\* The parts of the header of a text, and where its last parenthesis stands.
LEMMA HeaderParts ==
  ASSUME NEW s \in Seq(ByteClass), Header(Tokens(s)).columns # 0
  PROVE  \E at, list, end : /\ HeaderIn(s, at, list, end)
                            /\ end \in 1..(Len(Tokens(s)) - 1)
                            /\ Header(Tokens(s)).next = end + 1
                            /\ Tokens(s)[end].from \in 1..Len(s)
<1>1. PICK t : t = Tokens(s)
  OBVIOUS
<1>2. t \in Seq(Lexed(s)) /\ Len(t) >= 1 /\ t[Len(t)].kind = "Eof" /\ Len(t) \in Nat
  BY <1>1, TokensAre
<1>3. PICK at, list, end : IsHeader(t, at, list, end) /\ Header(t) = HeaderOf(t, list, end)
  BY <1>1, <1>2, HeaderIs
<1>4. end \in (list + 1)..(Len(t) - 1) /\ list \in (at + 1)..(Len(t) - 1) /\ at \in 1..(Len(t) - 1)
  BY <1>2, <1>3, HeaderShape
<1>5. end \in 1..(Len(t) - 1)
  BY <1>2, <1>4
<1>6. t[end].from \in 1..Len(s)
  <2>1. TokenGap(s, TokensFrom(s, 1), end, 1, {})
    <3>1. PICK C : C = {}
      OBVIOUS
    <3>2. PICK n \in 1..(Len(TokensFrom(s, 1)) - 1) : n = end
      BY <1>1, <1>5, TokensAre
    <3>3. "nl" \notin C /\ "sp" \notin C /\ 1 \in 1..(Len(s) + 1)
      BY <3>1, TokensAre
    <3>4. TokenGap(s, TokensFrom(s, 1), n, 1, C)
      BY <3>3, TokenGaps
    <3> QED
      BY <3>1, <3>2, <3>4
  <2> QED
    BY <1>1, <2>1, TokensAre DEF TokenGap
<1>7. Header(t).next = end + 1
  BY <1>3 DEF HeaderOf
<1> QED
  BY <1>1, <1>3, <1>5, <1>6, <1>7 DEF HeaderIn

\* What the parser makes of a header that was cut out of a document is what it
\* makes of the document.
LEMMA HeaderOfSlice ==
  ASSUME NEW s \in Seq(ByteClass), NEW u \in Seq(ByteClass), Extends(u, s), ParseHeader(s) > 0
  PROVE  Dataset(u).columns = ParseHeader(s)
<1>1. PICK t, h : t = Tokens(s) /\ h = Header(t)
  OBVIOUS
<1>2. ParseHeader(s) = IF h.columns > 0 /\ t[h.next].kind = "Eof" THEN h.columns ELSE 0
  BY <1>1 DEF ParseHeader
<1>3. ParseHeader(s) = Header(Tokens(s)).columns /\ Header(Tokens(s)).columns > 0
  BY <1>1, <1>2
<1>4. PICK at, list, end : HeaderIn(s, at, list, end) /\ Tokens(s)[end].from \in 1..Len(s)
  BY <1>3, HeaderParts
<1>5. PICK hi \in Nat : hi = Len(s)
  OBVIOUS
<1>6. Agree(s, u, hi) /\ Tokens(s)[end].from <= hi
  BY <1>4, <1>5 DEF Agree, Extends
<1>7. Header(Tokens(u)) = Header(Tokens(s))
  BY <1>4, <1>6, HeaderAgree
<1> QED
  BY <1>3, <1>7, ColumnsOfDataset

\* The bytes of a document up to the parenthesis of its header are a header.
LEMMA SliceOfHeader ==
  ASSUME NEW u \in Seq(ByteClass), NEW at, NEW list, NEW end, HeaderIn(u, at, list, end),
         Header(Tokens(u)).columns > 0, Header(Tokens(u)).next = end + 1,
         NEW h \in 1..Len(u), Tokens(u)[end].from = h
  PROVE  ParseHeader(SubSeq(u, 1, h)) = Header(Tokens(u)).columns
<1>0. PICK lu \in Nat : lu = Len(u)
  OBVIOUS
<1>1. PICK s : s = SubSeq(u, 1, h)
  OBVIOUS
<1>2. s \in Seq(ByteClass) /\ Len(s) = h /\ \A k \in 1..h : s[k] = u[k]
  <2>1. 1 \in Int /\ h \in Int /\ \A k \in 1..h : k \in 1..Len(u)
    BY <1>0
  <2>2. \A k \in 1..h : u[k] \in ByteClass
    BY <2>1
  <2> QED
    BY <1>0, <1>1, <2>1, <2>2
<1>3. h \in Nat /\ Agree(u, s, h)
  BY <1>0, <1>2 DEF Agree
<1>4. HeaderIn(s, at, list, end) /\ Header(Tokens(s)) = Header(Tokens(u))
      /\ Tokens(s)[end] = Tokens(u)[end]
  <2>1. Tokens(u)[end].from <= h
    BY <1>3
  <2> QED
    BY <1>2, <1>3, <2>1, HeaderAgree
<1>5. PICK t : t = Tokens(s)
  OBVIOUS
<1>6. PICK l \in Nat : l = Len(t)
  BY <1>2, <1>5, TokensAre
<1>7. end \in 1..(l - 1)
  <2>1. IsHeader(t, at, list, end) /\ t \in Seq(Lexed(s)) /\ Len(t) >= 1 /\ t[Len(t)].kind = "Eof"
    BY <1>2, <1>4, <1>5, TokensAre DEF HeaderIn
  <2>2. end \in (list + 1)..(Len(t) - 1) /\ list \in (at + 1)..(Len(t) - 1) /\ at \in 1..(Len(t) - 1)
    BY <2>1, HeaderShape
  <2> QED
    BY <1>6, <2>2
<1>8. PICK m : m = t[end + 1].from
  OBVIOUS
<1>9. m > h
  <2>1. PICK C : C = {}
    OBVIOUS
  <2>2. PICK n \in 1..(Len(TokensFrom(s, 1)) - 1) : n = end
    BY <1>2, <1>5, <1>6, <1>7, TokensAre
  <2>3. "nl" \notin C /\ "sp" \notin C /\ 1 \in 1..(Len(s) + 1)
    BY <1>2, <2>1, TokensAre
  <2>4. TokenGap(s, TokensFrom(s, 1), n, 1, C)
    BY <1>2, <2>3, TokenGaps
  <2>5. t[end].from \in 1..Len(s) /\ t[end].to \in (t[end].from + 1)..m /\ m \in (1 + 1)..(Len(s) + 1)
    BY <1>2, <1>5, <1>8, <2>2, <2>4, TokensAre DEF TokenGap
  <2>6. t[end].from = h
    BY <1>4, <1>5
  <2> QED
    BY <1>2, <2>5, <2>6
<1>10. t[end + 1].kind = "Eof"
  <2>1. PICK n \in 1..Len(TokensFrom(s, 1)) : n = end + 1
    BY <1>2, <1>5, <1>6, <1>7, TokensAre
  <2>2. TokenPlace(s, TokensFrom(s, 1), n, 1)
    BY <1>2, TokensAre, TokenPlaces
  <2>3. PICK r : r = TokensFrom(s, m)
    OBVIOUS
  <2>4. TokensAt(s, r, m) /\ IsTail(r, t, n)
    BY <1>2, <1>5, <1>8, <2>1, <2>2, <2>3, TokensAre DEF TokenPlace
  <2>5. Len(r) = 1 /\ r[1].kind = "Eof"
    BY <1>2, <1>9, <2>4 DEF TokensAt
  <2>6. r[1] = t[n + 1 - 1]
    <3>1. 1 \in 1..Len(r)
      BY <2>5
    <3> QED
      BY <2>4, <3>1 DEF IsTail
  <2>7. n + 1 - 1 = end + 1
    BY <1>7, <2>1
  <2> QED
    BY <2>5, <2>6, <2>7
<1>11. ParseHeader(s) = IF Header(t).columns > 0 /\ t[Header(t).next].kind = "Eof"
                          THEN Header(t).columns ELSE 0
  BY <1>5 DEF ParseHeader
<1> QED
  BY <1>1, <1>4, <1>5, <1>10, <1>11

-----------------------------------------------------------------------------
(***************************************************************************)
(* The scanner finds the parser's header.                                  *)
(***************************************************************************)

\* The walk from i passes k and sees no @dataset before it.
Clear(s, i, k) ==
  Reaches(s, i, k, {}) /\ \A p \in Walk(s, i).at : p < k => p \notin AtTables(s)

\* A walk that passes no byte of C, "@" among them, passes no @dataset.
LEMMA ReachesClear ==
  ASSUME NEW s \in Seq(ByteClass), NEW i \in 1..(Len(s) + 1), NEW k \in Int, NEW C, "@" \in C,
         Reaches(s, i, k, C)
  PROVE  Clear(s, i, k)
<1>1. Reaches(s, i, k, {})
  BY DEF Reaches
<1>2. ASSUME NEW p \in AtTables(s) PROVE s[p] = "@"
  <2>1. Word(s, p, <<"@", "d">>) /\ p \in Int
    BY DEF AtTables
  <2> QED
    BY <2>1, WordOfTwo
<1>3. \A p \in Walk(s, i).at : p < k => p \notin AtTables(s)
  BY <1>2 DEF Reaches
<1> QED
  BY <1>1, <1>3 DEF Clear

\* A walk that reaches k clear of any visited byte, and from there m, reaches m so.
LEMMA ClearOn ==
  ASSUME NEW s \in Seq(ByteClass), NEW i \in Int, NEW k \in Int, NEW m \in Int,
         i \in 1..(Len(s) + 1), Clear(s, i, k), Clear(s, k, m)
  PROVE  Clear(s, i, m)
<1>1. PICK C : C = {}
  OBVIOUS
<1>2. Reaches(s, i, k, C) /\ Reaches(s, k, m, C)
  BY <1>1 DEF Clear
<1>3. Reaches(s, i, m, C)
  BY <1>2, ReachesOn
<1>4. ASSUME NEW p \in Walk(s, i).at, p < m PROVE p \notin AtTables(s)
  <2>1. p \in Int
    BY WalkVisits
  <2>2. CASE p < k
    BY <2>2 DEF Clear
  <2>3. CASE p >= k
    <3>1. p \in Walk(s, k).at
      BY <1>2, <2>1, <2>3 DEF Reaches
    <3> QED
      BY <1>4, <3>1 DEF Clear
  <2> QED
    BY <2>1, <2>2, <2>3
<1> QED
  BY <1>1, <1>3, <1>4 DEF Clear

\* The walk takes no directive but @dataset, and no name, for a header.
LEMMA DirectiveClear ==
  ASSUME NEW s \in Seq(ByteClass), NEW i \in 1..Len(s),
         NextToken(s, i).kind \in {"Ident", "AtDirective"}, ~At(s, NextToken(s, i).to, "quote")
  PROVE  Clear(s, i, NextToken(s, i).to)
<1>0. PICK l \in Nat : l = Len(s) /\ i <= l
  OBVIOUS
<1>1. PICK t, to : t = NextToken(s, i) /\ to = t.to
  OBVIOUS
<1>2. TokenShape(s, i, t) /\ to \in (i + 1)..(l + 1)
  BY <1>0, <1>1, NextTokenShape
<1>3. to \in Int /\ i \in 1..(Len(s) + 1) /\ i + 1 \in 1..(Len(s) + 1) /\ i + 1 \in Int
  BY <1>0, <1>2
<1>4. PICK C : C = {"@"}
  OBVIOUS
<1>5. "@" \in C /\ \A c \in IdentBytes : c \notin C
  BY <1>4 DEF IdentBytes
<1>6. CASE t.kind = "Ident"
  <2>1. Reaches(s, i, to, C)
    BY <1>1, <1>5, <1>6, TokenReaches
  <2> QED
    BY <1>1, <1>3, <1>5, <2>1, ReachesClear
<1>7. CASE t.kind = "AtDirective"
  <2>1. t.kind \notin Punctuation
    BY <1>7, PunctuationIs DEF Others
  <2>2. s[i] = "@" /\ to = IdentEnd(s, i + 1) /\ to > i + 1 /\ ~(to = i + 2 /\ s[i + 1] = "d")
    BY <1>1, <1>2, <1>7, <2>1 DEF TokenShape
  <2>3. i \notin AtTables(s)
    <3>1. ASSUME i \in AtTables(s) PROVE FALSE
      <4>1. Word(s, i, <<"@", "d">>) /\ i + 2 <= Len(s) /\ ~IsIdentPart(s[i + 2])
        BY <3>1 DEF AtTables
      <4>2. s[i + 1] = "d"
        BY <4>1, WordOfTwo
      <4>3. to # i + 2
        BY <2>2, <4>2
      <4>4. i + 2 \in (i + 1)..(to - 1)
        BY <1>2, <2>2, <4>3
      <4>5. IsIdentPart(s[i + 2])
        BY <1>3, <2>2, <4>4, IdentEndIs
      <4> QED
        BY <4>1, <4>5
    <3> QED
      BY <3>1
  <2>4. Clear(s, i, i + 1)
    <3>1. PICK N : N = {}
      OBVIOUS
    <3>2. Skip(s, i) = i /\ s[i] \notin N
      BY <2>2, <3>1, SkipIs
    <3>3. Reaches(s, i, i + 1, N)
      BY <3>2, StepReaches
    <3>4. ASSUME NEW p \in Walk(s, i).at, p < i + 1 PROVE p \notin AtTables(s)
      <4>1. p \in i..Len(s)
        BY <1>3, WalkVisits
      <4>2. p = i
        BY <3>4, <4>1
      <4> QED
        BY <2>3, <4>2
    <3> QED
      BY <3>1, <3>3, <3>4 DEF Clear
  <2>5. Clear(s, i + 1, to)
    <3>1. PICK j \in 1..(Len(s) + 1) : j = i + 1
      BY <1>3
    <3>2. to \in j..(Len(s) + 1) /\ to \in Int
      BY <1>0, <1>2, <3>1
    <3>3. \A k \in j..(to - 1) : IsIdentPart(s[k])
      BY <2>2, <3>1, IdentEndIs
    <3>4. Reaches(s, j, to, C)
      BY <1>1, <1>5, <3>2, <3>3, IdentReaches
    <3>5. Clear(s, j, to)
      BY <1>5, <3>2, <3>4, ReachesClear
    <3> QED
      BY <3>1, <3>5
  <2>6. Clear(s, i, to)
    BY <1>3, <2>4, <2>5, ClearOn
  <2> QED
    BY <1>1, <2>6
<1> QED
  BY <1>1, <1>6, <1>7

\* After a token a quote can only open the next one.
LEMMA QuoteFollows ==
  ASSUME NEW s \in Seq(ByteClass), NEW t, t = Tokens(s), NEW n \in 1..(Len(t) - 1),
         At(s, t[n].to, "quote")
  PROVE  t[n + 1].kind \in {"String", "Illegal"}
<1>0. PICK l \in Nat, lt \in Nat : l = Len(s) /\ lt = Len(t)
  BY TokensAre
<1>1. PICK m : m = t[n].from
  OBVIOUS
<1>2. PICK r : r = TokensFrom(s, m)
  OBVIOUS
<1>3. m \in 1..(l + 1) /\ TokensAt(s, r, m) /\ IsTail(r, t, n)
  <2>1. PICK k \in 1..Len(TokensFrom(s, 1)) : k = n
    BY <1>0, TokensAre
  <2>2. TokenPlace(s, TokensFrom(s, 1), k, 1)
    BY TokensAre, TokenPlaces
  <2> QED
    BY <1>0, <1>1, <1>2, <2>1, <2>2, TokensAre DEF TokenPlace
<1>4. Len(r) = lt - n + 1 /\ \A j \in 1..Len(r) : r[j] = t[n + j - 1]
  BY <1>0, <1>3 DEF IsTail
<1>5. n \in 1..(lt - 1)
  BY <1>0
<1>6. r[1] = t[n] /\ r[2] = t[n + 1]
  <2>1. PICK k \in Nat : k = Len(r) /\ k >= 2
    BY <1>4, <1>5
  <2>2. 1 \in 1..k /\ 2 \in 1..k /\ n + 1 - 1 = n /\ n + 2 - 1 = n + 1
    BY <2>1
  <2> QED
    BY <1>4, <2>1, <2>2
<1>7. m <= l
  <2>1. m > Len(s) => Len(r) = 1
    BY <1>3 DEF TokensAt
  <2>2. Len(r) # 1
    BY <1>4, <1>5
  <2> QED
    BY <1>0, <1>3, <2>1, <2>2
<1>8. PICK e, q : e = r[1].to /\ q = TokensFrom(s, e)
  OBVIOUS
<1>9. Len(r) = 1 + Len(q) /\ \A j \in 1..Len(q) : r[j + 1] = q[j]
  BY <1>0, <1>3, <1>7, <1>8 DEF TokensAt
<1>10. e = t[n].to /\ At(s, e, "quote")
  BY <1>6, <1>8
<1>11. PICK f \in 1..Len(s) : f = e /\ s[f] = "quote"
  BY <1>10 DEF At
<1>12. NextToken(s, f).kind \in {"String", "Illegal"}
  BY <1>11, NextTokenShape
<1>13. f \in 1..(Len(s) + 1) /\ NextToken(s, f).kind # "Blank"
  BY <1>0, <1>12
<1>14. TokensAt(s, q, f)
  BY <1>8, <1>11, <1>13, TokensStart
<1>15. Len(q) >= 1 /\ q[1] = NextToken(s, f)
  BY <1>14 DEF TokensAt
<1>16. Len(q) \in Nat
  BY <1>8, <1>11, <1>13, TokensLength
<1>17. r[1 + 1] = q[1]
  <2>1. 1 \in 1..Len(q)
    BY <1>15, <1>16
  <2> QED
    BY <1>9, <2>1
<1> QED
  BY <1>6, <1>12, <1>15, <1>17

\* The walk meets no @dataset before that of the parser's header.
LEMMA PreludeClear ==
  ASSUME NEW s \in Seq(ByteClass), NEW t, t = Tokens(s), NEW at \in 1..(Len(t) - 1),
         IsPrelude(t, at)
  PROVE  Clear(s, 1, t[at].from)
<1>0. PICK l \in Nat, lt \in Nat : l = Len(s) /\ lt = Len(t)
  BY TokensAre
<1>1. PICK C : C = {"@"}
  OBVIOUS
<1>2. "@" \in C /\ "nl" \notin C /\ "sp" \notin C
  BY <1>1
<1>3. t = TokensFrom(s, 1) /\ 1 \in 1..(Len(s) + 1) /\ t[at].kind = "AtDataset"
  BY TokensAre DEF IsPrelude
<1>4. ASSUME NEW n \in 1..at PROVE TokenGap(s, t, n, 1, C)
  <2>1. n \in 1..(Len(TokensFrom(s, 1)) - 1)
    BY <1>0, <1>3
  <2> QED
    BY <1>2, <1>3, <2>1, TokenGaps
<1>5. PICK f : f = t[at].from
  OBVIOUS
<1>6. f \in 1..Len(s) /\ f \in Int /\ f \in 1..(Len(s) + 1)
  <2>1. TokenGap(s, t, at, 1, C)
    BY <1>0, <1>4
  <2>2. f \in 1..Len(s)
    BY <1>5, <2>1 DEF TokenGap
  <2> QED
    BY <1>0, <2>2
<1> DEFINE T == {n \in 1..at : Clear(s, t[n].from, f)}
<1>7. ASSUME NEW n \in 1..at, \A j \in (n + 1)..at : j \in T PROVE n \in T
  <2>1. CASE n = at
    <3>1. Reaches(s, f, f, C)
      BY <1>6, ReachesItself
    <3> QED
      BY <1>2, <1>5, <1>6, <2>1, <3>1, ReachesClear
  <2>2. CASE n # at
    <3>1. n \in 1..(at - 1) /\ n + 1 \in (n + 1)..at /\ n \in 1..(Len(t) - 1)
      BY <1>0, <2>2
    <3>2. t[n].kind \in {"Ident", "AtDirective"}
      BY <3>1 DEF IsPrelude
    <3>3. t[n + 1].kind \notin {"String", "Illegal"}
      <4>1. n + 1 = at \/ n + 1 \in 1..(at - 1)
        BY <3>1
      <4> QED
        BY <4>1 DEF IsPrelude
    <3>4. ~At(s, t[n].to, "quote")
      BY <3>1, <3>3, QuoteFollows
    <3>5. PICK g, e, m : g = t[n].from /\ e = t[n].to /\ m = t[n + 1].from
      OBVIOUS
    <3>6. /\ g \in 1..Len(s) /\ t[n] = NextToken(s, g) /\ e \in (g + 1)..m
          /\ m \in (1 + 1)..(Len(s) + 1) /\ Reaches(s, e, m, C)
      BY <1>4, <3>1, <3>5 DEF TokenGap
    <3>7. /\ g \in Int /\ e \in Int /\ m \in Int
          /\ g \in 1..(Len(s) + 1) /\ e \in 1..(Len(s) + 1)
      <4>1. g \in 1..l /\ m \in 2..(l + 1)
        BY <1>0, <3>6
      <4>2. e \in (g + 1)..m
        BY <3>6
      <4>3. e \in 1..(l + 1) /\ g \in 1..(l + 1) /\ g \in Int /\ e \in Int /\ m \in Int
        BY <4>1, <4>2
      <4> QED
        BY <1>0, <4>3
    <3>8. Clear(s, g, e)
      BY <3>2, <3>4, <3>5, <3>6, DirectiveClear
    <3>9. Clear(s, e, m)
      BY <1>2, <3>6, <3>7, ReachesClear
    <3>10. Clear(s, m, f)
      BY <1>7, <3>1, <3>5
    <3>11. Clear(s, g, m)
      BY <3>7, <3>8, <3>9, ClearOn
    <3>12. Clear(s, g, f)
      BY <1>6, <3>7, <3>10, <3>11, ClearOn
    <3> QED
      BY <3>5, <3>12
  <2> QED
    BY <2>1, <2>2
<1> HIDE DEF T
<1>8. 1 \in Int /\ at \in Int /\ 1 \in 1..at
  BY <1>0
<1>9. 1..at \subseteq T
  BY <1>7, <1>8, BackwardInductive
<1>10. Clear(s, t[1].from, f)
  BY <1>8, <1>9 DEF T
<1>11. PICK m \in 1..(Len(s) + 1) : GapTo(s, 1, m, C)
  BY <1>2, <1>3, GapReaches
<1>12. t[1].from = m /\ Reaches(s, 1, m, C) /\ m \in Int
  BY <1>3, <1>11 DEF GapTo, TokensAt
<1>13. Clear(s, 1, m)
  BY <1>2, <1>3, <1>12, ReachesClear
<1>14. 1 \in Int
  OBVIOUS
<1>15. Clear(s, 1, f)
  BY <1>3, <1>6, <1>10, <1>12, <1>13, <1>14, ClearOn
<1> QED
  BY <1>5, <1>15

\* The token that opens the parser's header is what the scanner takes for it.
LEMMA AtTableIs ==
  ASSUME NEW s \in Seq(ByteClass), NEW t, t = Tokens(s), NEW at \in 1..(Len(t) - 1),
         IsPrelude(t, at), t[at + 1].from <= Len(s), ~At(s, t[at].to, "quote")
  PROVE  FindAtTable(s) = t[at].from /\ t[at].to = t[at].from + 2
<1>0. PICK l \in Nat, lt \in Nat : l = Len(s) /\ lt = Len(t)
  BY TokensAre
<1>1. PICK p, e, m : p = t[at].from /\ e = t[at].to /\ m = t[at + 1].from
  OBVIOUS
<1>2. /\ p \in 1..Len(s) /\ t[at] = NextToken(s, p) /\ e \in (p + 1)..m
      /\ m \in (1 + 1)..(Len(s) + 1) /\ t[at].kind = "AtDataset"
  <2>1. PICK C : C = {"@"}
    OBVIOUS
  <2>2. at \in 1..(Len(TokensFrom(s, 1)) - 1) /\ t = TokensFrom(s, 1)
        /\ 1 \in 1..(Len(s) + 1) /\ "nl" \notin C /\ "sp" \notin C
    BY <2>1, TokensAre
  <2>3. TokenGap(s, t, at, 1, C)
    BY <2>2, TokenGaps
  <2> QED
    BY <1>1, <2>3 DEF TokenGap, IsPrelude
<1>3. s[p] = "@" /\ e = p + 2 /\ e = IdentEnd(s, p + 1) /\ s[p + 1] = "d"
  <2>1. TokenShape(s, p, t[at])
    BY <1>2, NextTokenShape
  <2>2. t[at].kind \notin Punctuation
    BY <1>2, PunctuationIs DEF Others
  <2> QED
    BY <1>1, <1>2, <2>1, <2>2 DEF TokenShape
<1>4. p + 2 <= Len(s) /\ ~IsIdentPart(s[p + 2])
  <2>1. p + 2 <= Len(s)
    <3>1. m <= l /\ p \in 1..l /\ m \in 2..(l + 1)
      BY <1>0, <1>1, <1>2
    <3>2. p + 2 \in (p + 1)..m
      BY <1>2, <1>3
    <3>3. p + 2 <= l
      BY <3>1, <3>2
    <3> QED
      BY <1>0, <3>3
  <2>2. PICK j \in 1..(Len(s) + 1) : j = p + 1
    BY <1>0, <1>2
  <2>3. IdentEnd(s, j) <= Len(s) => ~IsIdentPart(s[IdentEnd(s, j)])
    BY IdentEndIs
  <2> QED
    BY <1>3, <2>1, <2>2, <2>3
<1>5. Word(s, p, <<"@", "d">>)
  <2>1. p \in Int /\ p \in 1..(Len(s) - 1)
    BY <1>0, <1>2, <1>4
  <2> QED
    BY <1>3, <2>1, WordOfTwo
<1>6. Clear(s, 1, p)
  BY <1>1, PreludeClear
<1>7. p \in Walk(s, 1).at
  <2>1. Skip(s, p) = p
    BY <1>2, <1>3, SkipIs
  <2>2. p \in Walk(s, p).at
    BY <1>2, <2>1, WalkAt
  <2>3. \A q \in Int : q >= p => (q \in Walk(s, 1).at <=> q \in Walk(s, p).at)
    BY <1>6 DEF Clear, Reaches
  <2>4. p \in Int /\ p >= p
    BY <1>2
  <2> QED
    BY <2>2, <2>3, <2>4
<1>8. PICK A, none : A = AtTables(s) /\ none = StopCode(Walk(s, 1))
  OBVIOUS
<1>9. p \in A /\ A \subseteq Nat
  BY <1>2, <1>4, <1>5, <1>7, <1>8 DEF AtTables
<1>10. ASSUME NEW q \in A PROVE p <= q
  <2>1. q \in Walk(s, 1).at /\ q \in Int
    BY <1>8 DEF AtTables
  <2>2. ~(q < p)
    BY <1>6, <1>8, <1>10, <2>1 DEF Clear
  <2> QED
    BY <1>2, <2>1, <2>2
<1>11. TheOne(First(A), none) = p
  BY <1>9, <1>10, LeastIs
<1>12. FindAtTable(s) = p
  BY <1>8, <1>11, ScansAreFirsts DEF FirstOf
<1> QED
  BY <1>1, <1>3, <1>12

\* A list of t is a list of its tail from the list's parenthesis on.
LEMMA ListInTail ==
  ASSUME NEW T, NEW t \in Seq(T), NEW k \in 1..Len(t), NEW end \in Int, IsList(t, k, end),
         NEW r, IsTail(r, t, k)
  PROVE  IsList(r, 1, end - k + 1) /\ r[end - k + 1] = t[end]
<1>0. PICK l \in Nat : l = Len(t)
  OBVIOUS
<1>1. Len(r) = l - k + 1 /\ \A j \in 1..Len(r) : r[j] = t[k + j - 1]
  BY <1>0 DEF IsTail
<1>2. k \in 1..l /\ end \in (k + 1)..l
  BY <1>0 DEF IsList
<1>3. PICK v \in 2..(l - k + 1) : v = end - k + 1
  BY <1>2
<1>4. ASSUME NEW j \in 1..(l - k + 1) PROVE r[j] = t[k + j - 1]
  BY <1>1
<1>5. r[1].kind = "("
  <2>1. 1 \in 1..(l - k + 1) /\ k + 1 - 1 = k
    BY <1>2
  <2>2. r[1] = t[k + 1 - 1]
    BY <1>4, <2>1
  <2> QED
    BY <2>1, <2>2 DEF IsList
<1>6. r[v] = t[end]
  <2>1. v \in 1..(l - k + 1) /\ k + v - 1 = end
    BY <1>2, <1>3
  <2>2. r[v] = t[k + v - 1]
    BY <1>4, <2>1
  <2> QED
    BY <2>1, <2>2
<1>7. ASSUME NEW n \in (1 + 1)..(v - 1) PROVE r[n].kind \in CellKinds
  <2>1. PICK h \in (k + 1)..(end - 1) : h = k + n - 1
    BY <1>2, <1>3
  <2>2. n \in 1..(l - k + 1)
    BY <1>2, <1>3
  <2>3. r[n] = t[h]
    BY <1>4, <2>1, <2>2
  <2> QED
    BY <2>3 DEF IsList
<1>8. ASSUME NEW n \in (1 + 1)..(v - 2) PROVE ~(r[n].kind \in Values /\ r[n + 1].kind \in Values)
  <2>1. PICK h \in (k + 1)..(end - 2) : h = k + n - 1
    BY <1>2, <1>3
  <2>2. n \in 1..(l - k + 1) /\ n + 1 \in 1..(l - k + 1) /\ k + (n + 1) - 1 = h + 1
    BY <1>2, <1>3, <2>1
  <2>3. r[n] = t[h] /\ r[n + 1] = t[h + 1]
    BY <1>4, <2>1, <2>2
  <2> QED
    BY <2>3 DEF IsList
<1>9. v \in (1 + 1)..Len(r) /\ r[v].kind = ")"
  BY <1>1, <1>3, <1>6 DEF IsList
<1>10. IsList(r, 1, v)
  BY <1>5, <1>7, <1>8, <1>9 DEF IsList
<1> QED
  BY <1>3, <1>6, <1>10

\* Between the @dataset and the list of its columns the walk meets no parenthesis.
ListAhead(s, i, g, C) == g \in i..Len(s) /\ s[g] = "(" /\ g \in Walk(s, g).at /\ Reaches(s, i, g, C)

\* From @dataset on, the first parenthesis the scanner visits is the list's.
LEMMA ListReached ==
  ASSUME NEW s \in Seq(ByteClass), NEW t, t = Tokens(s),
         NEW at \in 1..(Len(t) - 1), NEW list \in (at + 1)..(Len(t) - 1),
         t[list].kind = "(", list = IF t[at + 1].kind = "Ident" THEN at + 2 ELSE at + 1
  PROVE  ListAhead(s, t[at].to, t[list].from, {"("})
<1>0. PICK l \in Nat, lt \in Nat : l = Len(s) /\ lt = Len(t)
  BY TokensAre
<1>1. PICK C : C = {"("}
  OBVIOUS
<1>2. "nl" \notin C /\ "sp" \notin C /\ \A c \in IdentBytes : c \notin C
  BY <1>1 DEF IdentBytes
<1>3. t = TokensFrom(s, 1) /\ 1 \in 1..(Len(s) + 1)
  BY TokensAre
<1>4. ASSUME NEW n \in 1..(lt - 1) PROVE TokenGap(s, t, n, 1, C)
  <2>1. n \in 1..(Len(TokensFrom(s, 1)) - 1)
    BY <1>0, <1>3
  <2> QED
    BY <1>2, <1>3, <2>1, TokenGaps
<1>5. at \in 1..(lt - 1) /\ list \in 1..(lt - 1) /\ list \in {at + 1, at + 2}
  BY <1>0
<1>6. PICK p, e, m, g : /\ p = t[at].from /\ e = t[at].to /\ m = t[at + 1].from
                        /\ g = t[list].from
  OBVIOUS
<1>7. /\ p \in 1..l /\ e \in (p + 1)..m /\ m \in (1 + 1)..(l + 1)
      /\ Reaches(s, e, m, C)
  BY <1>0, <1>4, <1>5, <1>6 DEF TokenGap
<1>8. e \in 1..(Len(s) + 1) /\ e \in Int /\ m \in Int /\ e <= m
  <2>1. p \in 1..l /\ m \in 2..(l + 1)
    BY <1>7
  <2>2. e \in (p + 1)..m
    BY <1>7
  <2>3. e \in 1..(l + 1) /\ e <= m /\ m \in Int /\ e \in Int
    BY <2>1, <2>2
  <2> QED
    BY <1>0, <2>3
<1>9. g \in 1..Len(s) /\ t[list] = NextToken(s, g) /\ g \in Int
  <2>1. TokenGap(s, t, list, 1, C)
    BY <1>4, <1>5
  <2>2. g \in 1..Len(s) /\ t[list] = NextToken(s, g)
    BY <1>6, <2>1 DEF TokenGap
  <2> QED
    BY <2>2
<1>10. s[g] = "(" /\ g \in Walk(s, g).at
  <2>1. NextToken(s, g).kind \in Punctuation
    BY <1>9, PunctuationIs
  <2> QED
    BY <1>9, <2>1, PunctuationAt
<1>11. Reaches(s, e, g, C) /\ e <= g
  <2>1. CASE list = at + 1
    BY <1>6, <1>7, <1>8, <2>1
  <2>2. CASE list # at + 1
    <3>1. list = at + 2 /\ t[at + 1].kind = "Ident" /\ at + 1 \in 1..(lt - 1)
      BY <1>5, <2>2
    <3>2. PICK f, n : f = t[at + 1].to /\ n = at + 1
      OBVIOUS
    <3>3. n \in 1..(lt - 1) /\ n + 1 = list /\ n \in 1..(Len(t) - 1)
      BY <1>0, <1>5, <3>1, <3>2
    <3>4. TokenGap(s, t, n, 1, C)
      BY <1>4, <3>3
    <3>5. m \in 1..Len(s) /\ t[n] = NextToken(s, m) /\ f \in (m + 1)..g /\ Reaches(s, f, g, C)
      BY <1>6, <3>2, <3>3, <3>4 DEF TokenGap
    <3>6. ~At(s, f, "quote")
      BY <3>2, <3>3, QuoteFollows
    <3>7. Reaches(s, m, f, C)
      BY <1>2, <3>1, <3>2, <3>5, <3>6, TokenReaches
    <3>8. f \in Int /\ m \in 1..(Len(s) + 1) /\ m <= g
      <4>1. f \in (m + 1)..g /\ m \in 1..l /\ g \in Int
        BY <1>0, <1>9, <3>5
      <4> QED
        BY <1>0, <4>1
    <3>9. Reaches(s, m, g, C)
      BY <1>8, <1>9, <3>5, <3>7, <3>8, ReachesOn
    <3>10. Reaches(s, e, g, C)
      BY <1>7, <1>8, <1>9, <3>9, ReachesOn
    <3>11. e <= g
      BY <1>8, <1>9, <3>8
    <3> QED
      BY <3>10, <3>11
  <2> QED
    BY <2>1, <2>2
<1>12. g \in e..Len(s)
  BY <1>8, <1>9, <1>11
<1> QED
  BY <1>1, <1>6, <1>10, <1>11, <1>12 DEF ListAhead

\* Where the parser reads a header the scanner ends it at the same parenthesis.
LEMMA HeaderIsScanned ==
  ASSUME NEW s \in Seq(ByteClass), NEW at, NEW list, NEW end, HeaderIn(s, at, list, end)
  PROVE  ScanHeaderEnd(s) = Tokens(s)[end].from /\ ScanHeaderEnd(s) \in 1..Len(s)
<1>a. PICK t : t = Tokens(s)
  OBVIOUS
<1>0. PICK l \in Nat : l = Len(s) /\ t = Tokens(s)
  BY <1>a
<1>1. PICK lt \in Nat : lt = Len(t)
  BY <1>0, TokensAre
<1>2. /\ t \in Seq(Lexed(s)) /\ Len(t) >= 1 /\ t[Len(t)].kind = "Eof"
      /\ IsHeader(t, at, list, end) /\ t = TokensFrom(s, 1) /\ 1 \in 1..(Len(s) + 1)
  BY <1>0, TokensAre DEF HeaderIn
<1>3. /\ at \in 1..(lt - 1) /\ at + 1 \in 1..(lt - 1)
      /\ list \in (at + 1)..(lt - 1) /\ end \in (list + 1)..(lt - 1)
      /\ IsList(t, list, end)
  BY <1>1, <1>2, HeaderShape
<1>4. /\ t[list].kind = "(" /\ IsPrelude(t, at)
      /\ list = IF t[at + 1].kind = "Ident" THEN at + 2 ELSE at + 1
  BY <1>2, <1>3 DEF IsHeader, IsColumns, IsList
<1>5. PICK p, e, g, q : /\ p = t[at].from /\ e = t[at].to
                        /\ g = t[list].from /\ q = t[end].from
  OBVIOUS
<1>6. FindAtTable(s) = p /\ e = p + 2 /\ p \in 1..l
  <2>1. ~At(s, t[at].to, "quote")
    <3>1. t[at + 1].kind \notin {"String", "Illegal"}
      BY <1>3, <1>4
    <3> QED
      BY <1>0, <1>1, <1>3, <3>1, QuoteFollows
  <2>2. t[at + 1].from <= Len(s) /\ p \in 1..l
    <3>1. PICK C : C = {}
      OBVIOUS
    <3>2. "nl" \notin C /\ "sp" \notin C
      BY <3>1
    <3>3. PICK n \in 1..(Len(TokensFrom(s, 1)) - 1) : n = at + 1
      BY <1>1, <1>2, <1>3
    <3>4. TokenGap(s, t, n, 1, C)
      BY <1>2, <3>2, TokenGaps
    <3>5. PICK k \in 1..(Len(TokensFrom(s, 1)) - 1) : k = at
      BY <1>1, <1>2, <1>3
    <3>6. TokenGap(s, t, k, 1, C)
      BY <1>2, <3>2, TokenGaps
    <3>7. t[n].from \in 1..l /\ t[k].from \in 1..l
      BY <1>0, <3>4, <3>6 DEF TokenGap
    <3> QED
      BY <1>0, <1>5, <3>3, <3>5, <3>7
  <2> QED
    BY <1>0, <1>1, <1>3, <1>4, <1>5, <2>1, <2>2, AtTableIs
<1>7. ListAhead(s, e, g, {"("})
  BY <1>0, <1>1, <1>3, <1>4, <1>5, ListReached
<1>8. g \in e..l /\ s[g] = "(" /\ g \in Walk(s, g).at /\ e \in 1..(Len(s) + 1)
  BY <1>0, <1>6, <1>7 DEF ListAhead
<1>9. Lparen(s, p) = g
  <2>1. PICK C, A : C = {"("} /\ A = Chars(s, e, "(")
    OBVIOUS
  <2>2. Reaches(s, e, g, C) /\ g \in Int
    BY <1>6, <1>7, <1>8, <2>1 DEF ListAhead
  <2>3. g \in A
    <3>1. \A k \in Int : k >= g => (k \in Walk(s, e).at <=> k \in Walk(s, g).at)
      BY <2>2 DEF Reaches
    <3>2. g \in Walk(s, e).at
      BY <1>8, <2>2, <3>1
    <3> QED
      BY <1>0, <1>8, <2>1, <3>2 DEF Chars
  <2>4. \A k \in A : k \in Walk(s, e).at /\ s[k] \in C
    BY <2>1 DEF Chars
  <2>5. FirstOf(s, e, A) = g
    BY <1>8, <2>2, <2>3, <2>4, FirstReached
  <2>6. FindNextChar(s, e, "(") = g
    BY <2>1, <2>5, ScansAreFirsts
  <2> QED
    BY <1>6, <2>6 DEF Lparen
<1>10. RowReach(s, g + 1, q) /\ g \in 1..Len(s)
  <2>1. PICK r : r = TokensFrom(s, g)
    OBVIOUS
  <2>2. PICK n \in 1..Len(TokensFrom(s, 1)) : n = list
    BY <1>1, <1>2, <1>3
  <2>3. TokensAt(s, r, g) /\ IsTail(r, t, n)
    <3>1. TokenPlace(s, t, n, 1)
      BY <1>2, TokenPlaces
    <3> QED
      BY <1>5, <2>1, <2>2, <3>1 DEF TokenPlace
  <2>4. g \in 1..Len(s) /\ g \in 1..(Len(s) + 1)
    BY <1>0, <1>6, <1>8
  <2>5. PICK v \in Int : v = end - list + 1
    BY <1>3
  <2>6. IsList(r, 1, v) /\ r[v] = t[end]
    <3>1. list \in 1..Len(t) /\ end \in Int
      BY <1>1, <1>3
    <3> QED
      BY <1>2, <1>3, <2>2, <2>3, <2>5, <3>1, ListInTail
  <2>7. RowReach(s, g + 1, r[v].from)
    BY <2>1, <2>3, <2>4, <2>6, ListRest
  <2> QED
    BY <1>5, <2>4, <2>6, <2>7
<1>11. PICK j \in 1..(Len(s) + 1) : j = g + 1
  BY <1>0, <1>10
<1>12. q \in j..Len(s) /\ q \in Int
  BY <1>10, <1>11 DEF RowReach
<1>13. FindMatchingParen(s, g) = q
  <2>1. FirstOf(s, j, Closers(s, j)) = q
    BY <1>10, <1>11, <1>12, CloserReached
  <2> QED
    BY <1>11, <2>1, ScansAreFirsts
<1>14. Rparen(s, g) = q
  BY <1>10, <1>13 DEF Rparen
<1>15. ScanHeaderEnd(s) = q
  BY <1>6, <1>9, <1>14 DEF ScanHeaderEnd
<1> QED
  BY <1>0, <1>5, <1>11, <1>12, <1>15

-----------------------------------------------------------------------------
(***************************************************************************)
(* What the scanner has made of a header does not change with the bytes    *)
(* that follow.                                                            *)
(***************************************************************************)

\* What the last byte of a text opens, more bytes can mend.
LEMMA SkipAtEnd ==
  ASSUME NEW s \in Seq(ByteClass), NEW i \in 1..Len(s), Skip(s, i) = Malformed
  PROVE  i + 1 <= Len(s)
<1>0. PICK n \in Nat : n = Len(s) /\ i <= n
  OBVIOUS
<1>1. SUFFICES ASSUME i = n PROVE FALSE
  BY <1>0
<1>2. /\ ~Word(s, i, Triple) /\ \A c : ~At(s, i + 1, c)
      /\ i + 1 \in 1..(Len(s) + 1) /\ i + 1 > Len(s)
  BY <1>0, <1>1, WordOfThree DEF At
<1>3. Malformed # i /\ Malformed # Incomplete /\ ~(Malformed > 0)
  BY DEF Malformed, Incomplete
<1>4. CASE s[i] = "quote"
  <2>1. Skip(s, i) = Quoted(s, i + 1, ByteClass)
    BY <1>2, <1>4, SkipIs
  <2>2. Quoted(s, i + 1, ByteClass) = Incomplete
    BY <1>2, QuotedStep
  <2> QED
    BY <1>3, <2>1, <2>2
<1>5. CASE s[i] = "#"
  <2>1. Skip(s, i) = LineComment(s, i + 1)
    BY <1>5, SkipIs
  <2>2. LineComment(s, i + 1) \in (i + 1)..(Len(s) + 1)
    BY <1>2, LineCommentIs
  <2>3. LineComment(s, i + 1) > 0
    BY <1>0, <2>2
  <2> QED
    BY <1>3, <2>1, <2>3
<1>6. CASE s[i] \notin {"quote", "#"}
  <2>1. Skip(s, i) = i
    BY <1>2, <1>6, SkipIs
  <2> QED
    BY <1>3, <2>1
<1> QED
  BY <1>4, <1>5, <1>6

\* A walk that ends at a literal no byte can mend has visited nothing that could
\* depend on the bytes after the text.
LEMMA MalformedVisits ==
  ASSUME NEW s \in Seq(ByteClass), NEW i \in 1..(Len(s) + 1), Walk(s, i).malformed
  PROVE  \A p \in Walk(s, i).at : p \in Int /\ p + 2 <= Len(s)
<1>0. PICK k \in Nat : k = Len(s)
  OBVIOUS
<1> DEFINE Before(n) == n + 1 <= k /\ \A p \in Walk(s, n).at : p \in Int /\ p + 2 <= k
           T == {n \in 1..(k + 1) : Walk(s, n).malformed => Before(n)}
<1>1. ASSUME NEW n \in 1..(k + 1), \A j \in (n + 1)..(k + 1) : j \in T PROVE n \in T
  <2> SUFFICES ASSUME Walk(s, n).malformed PROVE Before(n)
    OBVIOUS
  <2>1. PICK x : x = Skip(s, n)
    OBVIOUS
  <2>2. /\ n > k => Walk(s, n) = Stopped(FALSE)
        /\ n <= k /\ x = Incomplete => Walk(s, n) = Stopped(FALSE)
        /\ n <= k /\ x = Malformed => Walk(s, n) = Stopped(TRUE)
        /\ n <= k /\ x = n => Walk(s, n) = Visiting(n, Walk(s, n + 1))
        /\ n <= k /\ x > n => Walk(s, n) = Walk(s, x)
    BY <1>0, <2>1, WalkStep
  <2>3. n <= k /\ x # Incomplete
    <3>1. ~Stopped(FALSE).malformed
      BY StoppedIs
    <3>2. ~(n > k) /\ ~(n <= k /\ x = Incomplete)
      BY <2>2, <3>1
    <3> QED
      BY <3>2
  <2>4. n \in 1..Len(s)
    BY <1>0, <2>3
  <2>5. CASE x = Malformed
    <3>1. n + 1 <= k
      BY <1>0, <2>1, <2>4, <2>5, SkipAtEnd
    <3>2. Walk(s, n).at = {}
      BY <2>2, <2>3, <2>5, StoppedIs
    <3> QED
      BY <3>1, <3>2
  <2>6. CASE x = n
    <3>1. n + 1 \in T /\ n + 1 \in 1..(Len(s) + 1)
      BY <1>0, <1>1, <2>3
    <3>2. Walk(s, n + 1) \in Walks(s)
      BY <3>1, WalkStep
    <3>3. /\ Walk(s, n).at = Walk(s, n + 1).at \cup {n}
          /\ Walk(s, n).malformed = Walk(s, n + 1).malformed
      <4>1. PICK w : w = Walk(s, n + 1)
        OBVIOUS
      <4>2. Walk(s, n) = Visiting(n, w)
        BY <2>2, <2>3, <2>6, <4>1
      <4>3. Visiting(n, w).at = w.at \cup {n} /\ Visiting(n, w).malformed = w.malformed
        BY <2>4, <3>2, <4>1, VisitingIs
      <4> QED
        BY <4>1, <4>2, <4>3
    <3>4. n + 1 + 1 <= k /\ \A p \in Walk(s, n + 1).at : p \in Int /\ p + 2 <= k
      BY <3>1, <3>3
    <3>5. n \in Int /\ n + 2 <= k /\ n + 1 <= k
      BY <3>4
    <3> QED
      BY <3>3, <3>4, <3>5
  <2>7. CASE x \notin {Incomplete, Malformed, n}
    <3>1. x \in (n + 1)..(k + 1)
      BY <1>0, <2>1, <2>4, <2>7, SkipRange
    <3>2. x \in T /\ x > n
      BY <1>1, <3>1
    <3>3. Walk(s, n) = Walk(s, x)
      BY <2>2, <2>3, <3>2
    <3>4. Before(x)
      BY <3>2, <3>3
    <3>5. n + 1 <= k
      BY <3>1, <3>4
    <3> QED
      BY <3>3, <3>4, <3>5
  <2> QED
    BY <2>3, <2>5, <2>6, <2>7
<1> HIDE DEF T
<1>2. 1 \in Int /\ k + 1 \in Int
  OBVIOUS
<1>3. 1..(k + 1) \subseteq T
  BY <1>1, <1>2, BackwardInductive
<1>4. i \in T
  BY <1>0, <1>3
<1>5. Before(i)
  BY <1>4 DEF T
<1> QED
  BY <1>0, <1>5

\* p is where a scan of s ended, not because the bytes did, and not at a byte
\* that may open something with the one after it.
EndsAt(p, s) == p # Incomplete /\ (p > 0 => s[p] \notin {"/", "b"})

\* A scan that did not end because the bytes did ends alike when more follow.
LEMMA ScanIsFinal ==
  ASSUME NEW s \in Seq(ByteClass), NEW t \in Seq(ByteClass), Extends(t, s),
         NEW i \in 1..(Len(s) + 1),
         NEW A, NEW B, VisitedSets(A, B, s, i),
         NEW p, IsFirstOf(p, s, i, A), EndsAt(p, s),
         AlikeOn(A, B, i, s, t, 0, Len(s))
  PROVE  IsFirstOf(p, t, i, B)
<1>0. A \subseteq Walk(s, i).at /\ B \subseteq Nat /\ p = FirstOf(s, i, A)
  BY DEF VisitedSets, IsFirstOf
<1>1. /\ p \in Int
      /\ p > 0 => IsLeast(p, A) /\ p \in i..Len(s)
      /\ p <= 0 => p = StopCode(Walk(s, i)) /\ A = {}
  BY <1>0, FirstRange
<1>2. CASE p > 0
  <2>1. p \in Nat /\ s[p] \notin {"/", "b"}
    BY <1>1, <1>2 DEF EndsAt
  <2> QED
    BY <1>0, <1>2, <2>1, FirstIsFinal DEF IsFirstOf
<1>3. CASE p <= 0
  <2>0. PICK ls \in Nat, lt \in Nat, d \in Int, lo \in Nat :
                ls = Len(s) /\ lt = Len(t) /\ d = 0 /\ lo = 1
    OBVIOUS
  <2>1. Matches(s, t, d, lo, ls)
    BY <2>0 DEF Matches, Extends
  <2>2. Walk(s, i).malformed /\ p = Malformed
    BY <1>1, <1>3 DEF StopCode, EndsAt
  <2>3. PICK j \in Nat : j = i /\ j >= lo /\ j <= ls + 1
    BY <2>0
  <2>5. /\ VisitedSets(A, B, s, j)
        /\ IsFirstOf(p, s, j, A)
        /\ WalkSettled(Walk(s, j), p, s, t, d, ls)
        /\ WalkEnds(Walk(s, j), s, t, d, ls)
        /\ AlikeOn(A, B, j, s, t, d, ls)
    BY <2>0, <2>2, <2>3 DEF WalkSettled, WalkEnds
  <2>6. FirstMoved(p, t, j, d, B)
    BY <1>1, <2>1, <2>3, <2>5, FirstMatches
  <2>7. i + d = i /\ Moved(p, d) = p
    BY <1>1, <1>3, <2>0 DEF Moved
  <2> QED
    BY <2>2, <2>3, <2>6, <2>7 DEF FirstMoved, IsFirstOf
<1> QED
  BY <1>1, <1>2, <1>3

\* The @dataset of a longer text that stands, with the byte after it, in the
\* first bytes of the text.
AtTablesWithin(t, n) == {k \in AtTables(t) : k + 2 <= n}

\* Where find_at_table looks in a text, and in a longer one, @dataset stands alike.
LEMMA AtTablesAlike ==
  ASSUME NEW s \in Seq(ByteClass), NEW t \in Seq(ByteClass), Extends(t, s)
  PROVE  AlikeOn(AtTables(s), AtTablesWithin(t, Len(s)), 1, s, t, 0, Len(s))
<1>0. PICK ls \in Nat, lt \in Nat : ls = Len(s) /\ lt = Len(t)
  OBVIOUS
<1>1. ls <= lt /\ \A k \in 1..ls : t[k] = s[k]
  BY <1>0 DEF Extends
<1>2. Matches(s, t, 0, 1, ls)
  BY <1>0, <1>1 DEF Matches
<1>3. SUFFICES ASSUME NEW p \in Int, WalkSettled(Walk(s, 1), p, s, t, 0, ls),
                      NEW q \in Int, q <= p
               PROVE  q \in AtTables(s) <=> q \in AtTablesWithin(t, ls)
  BY <1>0 DEF AlikeOn, Alike
<1>4. AlikeAt(q, s, t, 1, 0, ls)
  <2>1. PICK d \in Int, i \in Nat : d = 0 /\ i = 1
    OBVIOUS
  <2>2. Matches(s, t, d, i, ls) /\ WalkSettled(Walk(s, i), p, s, t, d, ls)
        /\ i <= ls + 1 /\ i >= i
    BY <1>2, <1>3, <2>1
  <2>3. AlikeAt(q, s, t, i, d, ls)
    BY <1>3, <2>2, VisitedAlike
  <2> QED
    BY <2>1, <2>3
<1>5. q \in Walk(s, 1).at <=> q \in Walk(t, 1).at
  BY <1>4 DEF AlikeAt
<1>6. CASE q \in 1..(ls - 2)
  <2>1. t[q] = s[q] /\ t[q + 1] = s[q + 1] /\ t[q + 2] = s[q + 2]
    <3>1. q \in 1..ls /\ q + 1 \in 1..ls /\ q + 2 \in 1..ls
      BY <1>6
    <3> QED
      BY <1>1, <3>1
  <2>2. q \in 1..(Len(s) - 1) /\ q \in 1..(Len(t) - 1) /\ q + 2 <= Len(s) /\ q + 2 <= Len(t)
        /\ q \in 1..Len(s) /\ q \in 1..Len(t)
    BY <1>0, <1>1, <1>6
  <2>3. Word(s, q, <<"@", "d">>) <=> Word(t, q, <<"@", "d">>)
    BY <2>1, <2>2, WordOfTwo
  <2> QED
    BY <1>0, <1>5, <2>1, <2>2, <2>3 DEF AtTables, AtTablesWithin
<1>7. CASE q \notin 1..(ls - 2)
  <2>1. q \notin AtTables(s)
    <3>1. ASSUME q \in 1..Len(s), q + 2 <= Len(s) PROVE q \in 1..(ls - 2)
      BY <1>0, <3>1
    <3> QED
      BY <1>7, <3>1 DEF AtTables
  <2>2. q \notin AtTablesWithin(t, ls)
    <3>1. ASSUME q \in 1..Len(t), q + 2 <= ls PROVE q \in 1..(ls - 2)
      BY <1>0, <3>1
    <3> QED
      BY <1>7, <3>1 DEF AtTables, AtTablesWithin
  <2> QED
    BY <2>1, <2>2
<1> QED
  BY <1>6, <1>7

\* Where the scanner found @dataset, or why it will find none, stays.
LEMMA AtTableIsFinal ==
  ASSUME NEW s \in Seq(ByteClass), NEW t \in Seq(ByteClass), Extends(t, s),
         FindAtTable(s) # Incomplete
  PROVE  /\ FindAtTable(t) = FindAtTable(s)
         /\ FindAtTable(s) \in {Malformed} \cup 1..(Len(s) - 2)
<1>0. PICK ls \in Nat, lt \in Nat : ls = Len(s) /\ lt = Len(t)
  OBVIOUS
<1>1. PICK A, B, D : A = AtTables(s) /\ B = AtTablesWithin(t, Len(s)) /\ D = AtTables(t)
  OBVIOUS
<1>2. PICK p : p = FirstOf(s, 1, A)
  OBVIOUS
<1>3. p = FindAtTable(s) /\ p # Incomplete
  BY <1>1, <1>2, ScansAreFirsts
<1>4. /\ A \subseteq Walk(s, 1).at /\ B \subseteq Nat /\ D \subseteq Nat
      /\ 1 \in 1..(Len(s) + 1) /\ 1 \in 1..(Len(t) + 1)
  BY <1>0, <1>1 DEF AtTables, AtTablesWithin
<1>5. \A k \in A : s[k] = "@" /\ k \in 1..(Len(s) - 2)
  <2>1. ASSUME NEW k \in A PROVE s[k] = "@" /\ k \in 1..(Len(s) - 2)
    <3>1. k \in 1..Len(s) /\ k \in Int /\ Word(s, k, <<"@", "d">>) /\ k + 2 <= Len(s)
      BY <1>1 DEF AtTables
    <3>2. k \in 1..(ls - 2)
      BY <1>0, <3>1
    <3> QED
      BY <1>0, <3>1, <3>2, WordOfTwo
  <2> QED
    BY <2>1
<1>6. /\ p \in Int
      /\ p > 0 => p \in A
      /\ p <= 0 => p = StopCode(Walk(s, 1)) /\ A = {}
  BY <1>2, <1>4, FirstRange DEF IsLeast
<1>7. FirstOf(t, 1, B) = p /\ (p > 0 \/ Walk(s, 1).malformed)
  <2>0. VisitedSets(A, B, s, 1) /\ IsFirstOf(p, s, 1, A)
    BY <1>2, <1>4 DEF VisitedSets, IsFirstOf
  <2>1. AlikeOn(A, B, 1, s, t, 0, Len(s))
    BY <1>1, AtTablesAlike
  <2>2. EndsAt(p, s)
    BY <1>3, <1>5, <1>6 DEF EndsAt
  <2>3. PICK i \in 1..(Len(s) + 1) : i = 1
    BY <1>4
  <2>4. IsFirstOf(p, t, i, B)
    BY <2>0, <2>1, <2>2, <2>3, ScanIsFinal
  <2>5. p <= 0 => Walk(s, 1).malformed
    BY <1>3, <1>6 DEF StopCode
  <2> QED
    BY <1>6, <2>3, <2>4, <2>5 DEF IsFirstOf
<1>8. FirstOf(t, 1, D) = p
  <2>1. PICK none : none = StopCode(Walk(t, 1))
    OBVIOUS
  <2>2. TheOne(First(B), none) = p
    BY <1>7, <2>1 DEF FirstOf
  <2>3. CASE p > 0
    <3>1. p \in 1..(Len(s) - 2)
      BY <1>5, <1>6, <2>3
    <3>2. p \notin {Incomplete, Malformed}
      BY <2>3 DEF Incomplete, Malformed
    <3>3. p # none
      BY <2>1, <3>2 DEF StopCode
    <3>4. p \in B /\ \A q \in B : p <= q
      BY <1>4, <2>2, <3>3, LeastWhich
    <3>5. p \in D
      BY <1>1, <3>4 DEF AtTablesWithin
    <3>6. ASSUME NEW q \in D PROVE p <= q
      <4>1. q \in Int
        BY <1>4
      <4>2. CASE q + 2 <= Len(s)
        <5>1. q \in B
          BY <1>1, <4>2 DEF AtTablesWithin
        <5> QED
          BY <3>4, <5>1
      <4>3. CASE ~(q + 2 <= Len(s))
        BY <1>0, <3>1, <4>1, <4>3
      <4> QED
        BY <4>2, <4>3
    <3>7. TheOne(First(D), none) = p
      BY <1>4, <3>5, <3>6, LeastIs
    <3> QED
      BY <2>1, <3>7 DEF FirstOf
  <2>4. CASE ~(p > 0)
    <3>1. Walk(s, 1).malformed
      BY <1>7, <2>4
    <3>2. ASSUME NEW q \in D PROVE q \in B
      <4>1. q \in Walk(t, 1).at /\ q \in Int
        BY <1>1, <1>4 DEF AtTables
      <4>2. PICK d \in Int, i \in Nat : d = 0 /\ i = 1
        OBVIOUS
      <4>3. Matches(s, t, d, i, ls) /\ WalkSettled(Walk(s, i), q, s, t, d, ls) /\ i <= ls + 1
            /\ i >= i
        BY <1>0, <3>1, <4>2 DEF Matches, Extends, WalkSettled
      <4>4. q <= q /\ q + d = q /\ i + d = i
        BY <4>1, <4>2
      <4>5. AlikeAt(q, s, t, i, d, ls)
        BY <4>1, <4>3, <4>4, VisitedAlike
      <4>6. q \in Walk(s, 1).at
        BY <4>1, <4>2, <4>4, <4>5 DEF AlikeAt
      <4>7. q + 2 <= Len(s)
        BY <1>4, <3>1, <4>6, MalformedVisits
      <4> QED
        BY <1>1, <4>7 DEF AtTablesWithin
    <3>3. B \subseteq D
      BY <1>1 DEF AtTablesWithin
    <3>4. B = D
      BY <3>2, <3>3
    <3> QED
      BY <1>7, <3>4
  <2> QED
    BY <2>3, <2>4
<1>9. FindAtTable(t) = p
  BY <1>1, <1>8, ScansAreFirsts
<1>10. p \in {Malformed} \cup 1..(Len(s) - 2)
  <2>1. p > 0 => p \in 1..(Len(s) - 2)
    BY <1>5, <1>6
  <2>2. p <= 0 => p = Malformed
    BY <1>3, <1>6 DEF StopCode
  <2> QED
    BY <1>6, <2>1, <2>2
<1> QED
  BY <1>3, <1>9, <1>10

\* The position of a byte the scanner looked for, or why it stopped, stays.
LEMMA CharIsFinal ==
  ASSUME NEW s \in Seq(ByteClass), NEW t \in Seq(ByteClass), Extends(t, s),
         NEW i \in 1..(Len(s) + 1), NEW c, c \notin {"/", "b"},
         FindNextChar(s, i, c) # Incomplete
  PROVE  /\ FindNextChar(t, i, c) = FindNextChar(s, i, c)
         /\ FindNextChar(s, i, c) \in {Malformed} \cup i..Len(s)
<1>0. PICK ls \in Nat, lt \in Nat, d \in Int, lo \in Nat :
              ls = Len(s) /\ lt = Len(t) /\ d = 0 /\ lo = 1
  OBVIOUS
<1>1. Matches(s, t, d, lo, ls)
  BY <1>0 DEF Matches, Extends
<1>2. PICK A, B : A = Chars(s, i, c) /\ B = Chars(t, i, c)
  OBVIOUS
<1>3. PICK p : p = FirstOf(s, i, A)
  OBVIOUS
<1>4. FindNextChar(s, i, c) = p /\ FindNextChar(t, i, c) = FirstOf(t, i, B)
  BY <1>2, <1>3, ScansAreFirsts
<1>5. A \subseteq Walk(s, i).at /\ B \subseteq Nat /\ \A k \in A : s[k] = c
  BY <1>2 DEF Chars
<1>6. AlikeOn(A, B, i, s, t, 0, Len(s))
  <2>1. PICK j \in Nat : j = i /\ j >= lo /\ j <= ls + 1 /\ j + d = i
    BY <1>0
  <2>2. AlikeOn(Chars(s, j, c), Chars(t, j + d, c), j, s, t, d, ls)
    BY <1>1, <2>1, CharsAlike
  <2> QED
    BY <1>0, <1>2, <2>1, <2>2
<1>7. /\ p \in Int
      /\ p > 0 => p \in A /\ p \in i..Len(s)
      /\ p <= 0 => p = StopCode(Walk(s, i))
  BY <1>3, <1>5, FirstRange DEF IsLeast
<1>8. p # Incomplete /\ EndsAt(p, s)
  BY <1>4, <1>5, <1>7 DEF EndsAt
<1>9. FirstOf(t, i, B) = p
  <2>1. VisitedSets(A, B, s, i) /\ IsFirstOf(p, s, i, A)
    BY <1>3, <1>5 DEF VisitedSets, IsFirstOf
  <2>2. IsFirstOf(p, t, i, B)
    BY <1>6, <1>8, <2>1, ScanIsFinal
  <2> QED
    BY <2>2 DEF IsFirstOf
<1>10. p \in {Malformed} \cup i..Len(s)
  BY <1>7, <1>8 DEF StopCode
<1> QED
  BY <1>4, <1>9, <1>10

\* So does the parenthesis that closes one.
LEMMA CloserIsFinal ==
  ASSUME NEW s \in Seq(ByteClass), NEW t \in Seq(ByteClass), Extends(t, s),
         NEW g \in 1..Len(s), FindMatchingParen(s, g) # Incomplete
  PROVE  /\ FindMatchingParen(t, g) = FindMatchingParen(s, g)
         /\ FindMatchingParen(s, g) \in {Malformed} \cup (g + 1)..Len(s)
<1>0. PICK ls \in Nat, lt \in Nat, d \in Int, lo \in Nat :
              ls = Len(s) /\ lt = Len(t) /\ d = 0 /\ lo = 1
  OBVIOUS
<1>1. Matches(s, t, d, lo, ls)
  BY <1>0 DEF Matches, Extends
<1>a. PICK i \in 1..(Len(s) + 1) : i = g + 1
  BY <1>0
<1>2. PICK A, B : A = Closers(s, i) /\ B = Closers(t, i)
  OBVIOUS
<1>3. PICK p : p = FirstOf(s, i, A)
  OBVIOUS
<1>4. FindMatchingParen(s, g) = p /\ FindMatchingParen(t, g) = FirstOf(t, i, B)
  BY <1>a, <1>2, <1>3, ScansAreFirsts
<1>5. A \subseteq Walk(s, i).at /\ B \subseteq Nat
  BY <1>2 DEF Closers
<1>c. \A k \in A : s[k] \notin {"/", "b"}
  BY <1>2 DEF Closers
<1>6. AlikeOn(A, B, i, s, t, 0, Len(s))
  <2>1. PICK j \in Nat : j = i /\ j >= lo /\ j <= ls + 1 /\ j + d = i
    BY <1>0
  <2>2. AlikeOn(Closers(s, j), Closers(t, j + d), j, s, t, d, ls)
    BY <1>1, <2>1, ClosersAlike
  <2> QED
    BY <1>0, <1>2, <2>1, <2>2
<1>7. /\ p \in Int
      /\ p > 0 => p \in A /\ p \in i..Len(s)
      /\ p <= 0 => p = StopCode(Walk(s, i))
  BY <1>3, <1>5, FirstRange DEF IsLeast
<1>8. p # Incomplete /\ EndsAt(p, s)
  BY <1>4, <1>c, <1>7 DEF EndsAt
<1>9. FirstOf(t, i, B) = p
  <2>1. VisitedSets(A, B, s, i) /\ IsFirstOf(p, s, i, A)
    BY <1>3, <1>5 DEF VisitedSets, IsFirstOf
  <2>2. IsFirstOf(p, t, i, B)
    BY <1>6, <1>8, <2>1, ScanIsFinal
  <2> QED
    BY <2>2 DEF IsFirstOf
<1>10. p \in {Malformed} \cup i..Len(s)
  BY <1>7, <1>8 DEF StopCode
<1> QED
  BY <1>a, <1>4, <1>9, <1>10

\* The end of the header the scanner found, or that it will find none, does not
\* change with the bytes that follow.
LEMMA HeaderEndIsFinal ==
  ASSUME NEW s \in Seq(ByteClass), NEW t \in Seq(ByteClass), Extends(t, s),
         ScanHeaderEnd(s) # Incomplete
  PROVE  /\ ScanHeaderEnd(t) = ScanHeaderEnd(s)
         /\ ScanHeaderEnd(s) \in {Malformed} \cup 1..Len(s)
<1>0. PICK ls \in Nat : ls = Len(s)
  OBVIOUS
<1>1. PICK p : p = FindAtTable(s)
  OBVIOUS
<1>2. PICK g : g = Lparen(s, p)
  OBVIOUS
<1>3. ScanHeaderEnd(s) = Rparen(s, g)
  BY <1>1, <1>2 DEF ScanHeaderEnd
<1>4. ~(Malformed > 0) /\ ~(Incomplete > 0)
  BY DEF Malformed, Incomplete
<1>5. Rparen(s, Incomplete) = Incomplete /\ Rparen(s, Malformed) = Malformed
      /\ Rparen(t, Malformed) = Malformed
  BY <1>4 DEF Rparen
<1>6. Lparen(s, Incomplete) = Incomplete /\ Lparen(s, Malformed) = Malformed
      /\ Lparen(t, Malformed) = Malformed
  BY <1>4 DEF Lparen
<1>7. g # Incomplete /\ p # Incomplete
  BY <1>2, <1>3, <1>5, <1>6
<1>8. FindAtTable(t) = p /\ p \in {Malformed} \cup 1..(Len(s) - 2)
  BY <1>1, <1>7, AtTableIsFinal
<1>9. Lparen(t, p) = g /\ g \in {Malformed} \cup 1..Len(s)
  <2>1. CASE p = Malformed
    BY <1>2, <1>6, <2>1
  <2>2. CASE p \in 1..(Len(s) - 2)
    <3>1. PICK i \in 1..(Len(s) + 1) : i = p + 2
      BY <1>0, <2>2
    <3>2. p > 0
      BY <2>2
    <3>3. g = FindNextChar(s, i, "(") /\ Lparen(t, p) = FindNextChar(t, i, "(")
      BY <1>2, <3>1, <3>2 DEF Lparen
    <3>4. FindNextChar(s, i, "(") # Incomplete
      BY <1>7, <3>3
    <3>5. PICK c : c = "("
      OBVIOUS
    <3>6. c \notin {"/", "b"} /\ FindNextChar(s, i, c) # Incomplete
      BY <3>4, <3>5
    <3>7. FindNextChar(t, i, c) = FindNextChar(s, i, c)
          /\ FindNextChar(s, i, c) \in {Malformed} \cup i..Len(s)
      BY <3>6, CharIsFinal
    <3>8. i..Len(s) \subseteq 1..Len(s)
      BY <1>0
    <3> QED
      BY <3>3, <3>5, <3>7, <3>8
  <2> QED
    BY <1>8, <2>1, <2>2
<1>10. Rparen(t, g) = Rparen(s, g) /\ Rparen(s, g) \in {Malformed} \cup 1..Len(s)
  <2>1. CASE g = Malformed
    BY <1>5, <2>1
  <2>2. CASE g \in 1..Len(s)
    <3>1. g > 0
      BY <2>2
    <3>2. Rparen(s, g) = FindMatchingParen(s, g) /\ Rparen(t, g) = FindMatchingParen(t, g)
      BY <3>1 DEF Rparen
    <3>3. FindMatchingParen(s, g) # Incomplete
      BY <1>3, <3>2
    <3>4. FindMatchingParen(t, g) = FindMatchingParen(s, g)
          /\ FindMatchingParen(s, g) \in {Malformed} \cup (g + 1)..Len(s)
      BY <2>2, <3>3, CloserIsFinal
    <3>5. (g + 1)..Len(s) \subseteq 1..Len(s)
      BY <1>0, <2>2
    <3> QED
      BY <3>2, <3>4, <3>5
  <2> QED
    BY <1>9, <2>1, <2>2
<1>11. ScanHeaderEnd(t) = Rparen(t, g)
  BY <1>8, <1>9 DEF ScanHeaderEnd
<1> QED
  BY <1>3, <1>10, <1>11

\* The scanner has the parser's header as soon as it says that it has one or
\* that there is none: on any first part of a text with a header.
LEMMA HeaderCut ==
  ASSUME NEW s \in Seq(ByteClass), NEW u \in Seq(ByteClass), Extends(u, s),
         Dataset(u).columns # 0, ScanHeaderEnd(s) # Incomplete
  PROVE  /\ ScanHeaderEnd(s) \in 1..Len(s)
         /\ ParseHeader(SubSeq(s, 1, ScanHeaderEnd(s))) = Dataset(u).columns
<1>0. PICK ls \in Nat, lu \in Nat : ls = Len(s) /\ lu = Len(u)
  OBVIOUS
<1>1. ls <= lu /\ \A k \in 1..ls : u[k] = s[k]
  BY <1>0 DEF Extends
<1>2. PICK h : h = ScanHeaderEnd(s)
  OBVIOUS
<1>3. Header(Tokens(u)).columns # 0 /\ Dataset(u).columns = Header(Tokens(u)).columns
  BY HeaderColumns
<1>4. PICK at, list, end : /\ HeaderIn(u, at, list, end)
                           /\ Header(Tokens(u)).next = end + 1
                           /\ Tokens(u)[end].from \in 1..Len(u)
  BY <1>3, HeaderParts
<1>5. ScanHeaderEnd(u) = Tokens(u)[end].from
  BY <1>4, HeaderIsScanned
<1>6. ScanHeaderEnd(u) = h /\ h \in {Malformed} \cup 1..Len(s)
  BY <1>2, HeaderEndIsFinal
<1>7. h \in 1..Len(s) /\ h \in 1..Len(u)
  <2>1. h \in 1..lu
    BY <1>0, <1>4, <1>5, <1>6
  <2>2. h # Malformed
    BY <2>1 DEF Malformed
  <2> QED
    BY <1>0, <1>6, <2>1, <2>2
<1>8. ParseHeader(SubSeq(u, 1, h)) = Header(Tokens(u)).columns
  <2>1. Header(Tokens(u)).columns > 0
    BY <1>3, HeaderPositive
  <2> QED
    BY <1>4, <1>5, <1>6, <1>7, <2>1, SliceOfHeader
<1>9. SubSeq(s, 1, h) = SubSeq(u, 1, h)
  <2>1. h \in 1..ls /\ h \in 1..lu /\ \A k \in 1..h : u[k] = s[k]
    BY <1>0, <1>1, <1>7
  <2>2. SubSeq(s, 1, h) = [k \in 1..h |-> s[k]] /\ SubSeq(u, 1, h) = [k \in 1..h |-> u[k]]
    BY <1>0, <2>1
  <2> QED
    BY <2>1, <2>2
<1> QED
  BY <1>2, <1>3, <1>7, <1>8, <1>9

\* In a text with a header the scanner finds it.
LEMMA HeaderComplete ==
  ASSUME NEW u \in Seq(ByteClass), Dataset(u).columns # 0
  PROVE  ScanHeaderEnd(u) \in 1..Len(u)
<1>1. Header(Tokens(u)).columns # 0
  BY HeaderColumns
<1>2. PICK at, list, end : HeaderIn(u, at, list, end)
  BY <1>1, HeaderParts
<1> QED
  BY <1>2, HeaderIsScanned

-----------------------------------------------------------------------------
(***************************************************************************)
(* The lexer on the rest of a text.                                        *)
(***************************************************************************)

\* s is what t holds after its first d bytes.
RestOf(s, t, d) == Len(t) = d + Len(s) /\ \A k \in 1..Len(s) : t[k + d] = s[k]

MovedToken(t, d) == Token(t.kind, t.from + d, t.to + d)

\* The rest of a text matches it, byte for byte, to the end of both.
LEMMA RestMatches ==
  ASSUME NEW s \in Seq(ByteClass), NEW t \in Seq(ByteClass), NEW d \in Nat, RestOf(s, t, d)
  PROVE  Matches(s, t, d, 1, Len(s)) /\ EndTogether(s, t, d, Len(s))
<1>0. PICK ls \in Nat, lt \in Nat : ls = Len(s) /\ lt = Len(t)
  OBVIOUS
<1>1. lt = d + ls /\ \A k \in 1..ls : t[k + d] = s[k]
  BY <1>0 DEF RestOf
<1> QED
  BY <1>0, <1>1 DEF Matches, EndTogether

\* An identifier ends at the first byte that cannot be part of one.
LEMMA IdentEndUnique ==
  ASSUME NEW s \in Seq(ByteClass), NEW i \in 1..(Len(s) + 1), NEW x \in i..(Len(s) + 1),
         x <= Len(s) => ~IsIdentPart(s[x]),
         \A k \in i..(x - 1) : IsIdentPart(s[k])
  PROVE  IdentEnd(s, i) = x
<1>0. PICK l \in Nat, a \in Nat : l = Len(s) /\ a = IdentEnd(s, i)
  BY IdentEndIs
<1>1. /\ a \in i..(l + 1) /\ (a <= l => ~IsIdentPart(s[a]))
      /\ \A k \in i..(a - 1) : IsIdentPart(s[k])
  BY <1>0, IdentEndIs
<1>2. ~(a < x)
  <2> SUFFICES ASSUME a < x PROVE FALSE
    OBVIOUS
  <2>1. a \in i..(x - 1) /\ a <= l
    BY <1>0, <1>1
  <2> QED
    BY <1>1, <2>1
<1>3. ~(x < a)
  <2> SUFFICES ASSUME x < a PROVE FALSE
    OBVIOUS
  <2>1. x \in i..(a - 1) /\ x <= l
    BY <1>0, <1>1
  <2> QED
    BY <1>0, <1>1, <2>1
<1> QED
  BY <1>0, <1>1, <1>2, <1>3

\* An identifier in the rest of a text is one in the text, d places further on.
LEMMA IdentEndMoves ==
  ASSUME NEW s \in Seq(ByteClass), NEW t \in Seq(ByteClass), NEW d \in Nat, RestOf(s, t, d),
         NEW i \in 1..(Len(s) + 1)
  PROVE  IdentEnd(t, i + d) = IdentEnd(s, i) + d
<1>0. PICK ls \in Nat, lt \in Nat, x \in Nat :
              ls = Len(s) /\ lt = Len(t) /\ x = IdentEnd(s, i)
  BY IdentEndIs
<1>1. lt = d + ls /\ \A k \in 1..ls : t[k + d] = s[k]
  BY <1>0 DEF RestOf
<1>2. /\ x \in i..(ls + 1) /\ (x <= ls => ~IsIdentPart(s[x]))
      /\ \A k \in i..(x - 1) : IsIdentPart(s[k])
  BY <1>0, IdentEndIs
<1>i. i \in 1..(ls + 1) /\ i \in Nat
  BY <1>0
<1>x. x \in i..(ls + 1) /\ x >= i /\ x <= ls + 1
  BY <1>2, <1>i
<1>3. PICK m \in Nat, y \in Nat : m = i + d /\ y = x + d
  BY <1>i
<1>l. lt = d + ls
  BY <1>1
<1>y. m \in 1..(lt + 1) /\ y \in m..(lt + 1) /\ (y <= lt => x \in 1..ls)
  BY <1>3, <1>i, <1>x, <1>l
<1>4. m \in 1..(Len(t) + 1) /\ y \in m..(Len(t) + 1)
  BY <1>0, <1>y
<1>5. y <= Len(t) => ~IsIdentPart(t[y])
  <2> SUFFICES ASSUME y <= Len(t) PROVE ~IsIdentPart(t[y])
    OBVIOUS
  <2>1. x \in 1..ls
    BY <1>0, <1>y
  <2> QED
    BY <1>1, <1>2, <1>3, <2>1
<1>6. ASSUME NEW k \in m..(y - 1) PROVE IsIdentPart(t[k])
  <2>1. PICK q \in Int : q = k - d
    OBVIOUS
  <2>2. q \in i..(x - 1) /\ q \in 1..ls /\ q + d = k
    BY <1>2, <1>3, <2>1
  <2>3. t[q + d] = s[q]
    BY <1>1, <2>2
  <2> QED
    BY <1>2, <2>2, <2>3
<1>7. IdentEnd(t, m) = y
  BY <1>4, <1>5, <1>6, IdentEndUnique
<1> QED
  BY <1>0, <1>3, <1>7

\* So is a bytes literal, finished or not.
LEMMA LexBytesMoves ==
  ASSUME NEW s \in Seq(ByteClass), NEW t \in Seq(ByteClass), NEW d \in Nat, RestOf(s, t, d),
         NEW i \in 1..Len(s)
  PROVE  LexBytes(t, i + d) = MovedToken(LexBytes(s, i), d)
<1>0. PICK ls \in Nat, lt \in Nat, m \in Nat : ls = Len(s) /\ lt = Len(t) /\ m = i + d
  OBVIOUS
<1>1. lt = d + ls /\ \A k \in 1..ls : t[k + d] = s[k]
  BY <1>0 DEF RestOf
<1> DEFINE S == {k \in (i + 2)..Len(s) : s[k] # "x"}
           U == {k \in (m + 2)..Len(t) : t[k] # "x"}
<1>2. PICK none, a, b : none = 0 /\ a = TheOne(First(S), none) /\ b = TheOne(First(U), none)
  OBVIOUS
<1>3. /\ LexBytes(s, i) = Literal(s, i, "Bytes", IF At(s, a, "quote") THEN a + 1 ELSE Malformed)
      /\ LexBytes(t, m) = Literal(t, m, "Bytes", IF At(t, b, "quote") THEN b + 1 ELSE Malformed)
  BY <1>2 DEF LexBytes, FirstAt
<1>4. ASSUME NEW q \in Int PROVE q \in S <=> q + d \in U
  <2>1. q \in (i + 2)..ls <=> q + d \in (m + 2)..lt
    BY <1>0, <1>1
  <2>2. q \in (i + 2)..ls => t[q + d] = s[q]
    BY <1>1
  <2> QED
    BY <1>0, <2>1, <2>2
<1>5. S \subseteq Nat /\ U \subseteq Nat
  OBVIOUS
<1>6. \/ S = {} /\ a = none
      \/ a \in S /\ \A q \in S : a <= q
  <2> HIDE DEF S, U
  <2> QED
    BY <1>2, <1>5, LeastWhich
<1>7. CASE S = {} /\ a = none
  <2>1. U = {}
    <3> SUFFICES ASSUME NEW y \in U PROVE FALSE
      OBVIOUS
    <3>1. PICK q \in Int : q = y - d
      OBVIOUS
    <3>2. q + d = y
      BY <3>1
    <3> QED
      BY <1>4, <1>7, <3>2
  <2>2. b = none
    <3> HIDE DEF S, U
    <3>1. \/ U = {} /\ b = none
          \/ b \in U
      BY <1>2, <1>5, LeastWhich
    <3> QED
      BY <2>1, <3>1
  <2>3. ~At(s, a, "quote") /\ ~At(t, b, "quote")
    BY <1>2, <1>7, <2>2 DEF At
  <2>4. LexBytes(s, i) = Token("Illegal", i, ls + 1) /\ LexBytes(t, m) = Token("Illegal", m, lt + 1)
    BY <1>0, <1>3, <2>3 DEF Literal, Malformed
  <2>5. lt + 1 = (ls + 1) + d
    BY <1>1
  <2> QED
    BY <1>0, <2>4, <2>5, TokenFields DEF MovedToken
<1>8. CASE a \in S /\ \A q \in S : a <= q
  <2>1. a \in 1..ls /\ a + d \in U
    BY <1>0, <1>4, <1>8
  <2>2. ASSUME NEW y \in U PROVE a + d <= y
    <3>1. PICK q \in Int : q = y - d
      OBVIOUS
    <3>2. q + d = y
      BY <3>1
    <3>3. q \in S
      BY <1>4, <3>2
    <3> QED
      BY <1>8, <2>1, <3>2, <3>3
  <2>3. b = a + d
    <3> HIDE DEF S, U
    <3> QED
      BY <1>2, <1>5, <2>1, <2>2, LeastIs
  <2>4. t[b] = s[a] /\ b \in 1..lt
    BY <1>0, <1>1, <2>1, <2>3
  <2>5. At(t, b, "quote") <=> At(s, a, "quote")
    BY <1>0, <2>1, <2>4 DEF At
  <2>6. CASE At(s, a, "quote")
    <3>0. PICK x \in Nat, y \in Nat : x = a + 1 /\ y = b + 1 /\ x > 0 /\ y > 0
      BY <2>1, <2>4
    <3>1. LexBytes(s, i) = Token("Bytes", i, a + 1) /\ LexBytes(t, m) = Token("Bytes", m, b + 1)
      <4>1. LexBytes(s, i) = Literal(s, i, "Bytes", x) /\ LexBytes(t, m) = Literal(t, m, "Bytes", y)
        BY <1>3, <2>5, <2>6, <3>0
      <4> QED
        BY <3>0, <4>1 DEF Literal
    <3>2. b + 1 = (a + 1) + d
      BY <2>1, <2>3
    <3> QED
      BY <1>0, <3>1, <3>2, TokenFields DEF MovedToken
  <2>7. CASE ~At(s, a, "quote")
    <3>1. LexBytes(s, i) = Token("Illegal", i, ls + 1) /\ LexBytes(t, m) = Token("Illegal", m, lt + 1)
      BY <1>0, <1>3, <2>5, <2>7 DEF Literal, Malformed
    <3>2. lt + 1 = (ls + 1) + d
      BY <1>1
    <3> QED
      BY <1>0, <3>1, <3>2, TokenFields DEF MovedToken
  <2> QED
    BY <2>6, <2>7
<1> QED
  BY <1>6, <1>7, <1>8

\* The token of a literal moves with the position it ends at.
LEMMA LiteralMoves ==
  ASSUME NEW s \in Seq(ByteClass), NEW t \in Seq(ByteClass), NEW d \in Nat, RestOf(s, t, d),
         NEW i \in Nat, NEW kind, NEW x \in Int
  PROVE  Literal(t, i + d, kind, Moved(x, d)) = MovedToken(Literal(s, i, kind, x), d)
<1>0. PICK ls \in Nat, lt \in Nat : ls = Len(s) /\ lt = Len(t)
  OBVIOUS
<1>1. lt + 1 = (ls + 1) + d
  <2>1. lt = d + ls
    BY <1>0 DEF RestOf
  <2> QED
    BY ONLY <2>1, d \in Nat, ls \in Nat
<1>2. PICK y \in Int : y = Moved(x, d) /\ (x > 0 => y = x + d) /\ (~(x > 0) => y = x)
  BY DEF Moved
<1>3. CASE x > 0
  <2>1. y > 0
    BY <1>2, <1>3
  <2>2. Literal(s, i, kind, x) = Token(kind, i, x)
    BY <1>3 DEF Literal
  <2>3. Literal(t, i + d, kind, y) = Token(kind, i + d, y)
    BY <2>1 DEF Literal
  <2> QED
    BY <1>2, <1>3, <2>2, <2>3, TokenFields DEF MovedToken
<1>4. CASE ~(x > 0)
  <2>2. Literal(s, i, kind, x) = Token("Illegal", i, ls + 1)
    BY <1>0, <1>4 DEF Literal
  <2>3. Literal(t, i + d, kind, y) = Token("Illegal", i + d, lt + 1)
    BY <1>0, <1>2, <1>4 DEF Literal
  <2>4. MovedToken(Token("Illegal", i, ls + 1), d) = Token("Illegal", i + d, (ls + 1) + d)
    BY TokenFields DEF MovedToken
  <2> QED
    BY <1>1, <1>2, <2>2, <2>3, <2>4
<1> QED
  BY <1>3, <1>4

\* The rest of a text has the tokens the text has there.
LEMMA NextTokenMoves ==
  ASSUME NEW s \in Seq(ByteClass), NEW t \in Seq(ByteClass), NEW d \in Nat, RestOf(s, t, d),
         NEW i \in 1..(Len(s) + 1)
  PROVE  NextToken(t, i + d) = MovedToken(NextToken(s, i), d)
<1>0. PICK ls \in Nat, lt \in Nat, m \in Nat, lo \in Nat :
              ls = Len(s) /\ lt = Len(t) /\ m = i + d /\ lo = 1
  OBVIOUS
<1>l. lt = d + ls
  BY <1>0 DEF RestOf
<1>i. i \in 1..(ls + 1) /\ i \in Nat
  BY <1>0
<1>m. Matches(s, t, d, lo, ls) /\ EndTogether(s, t, d, ls)
  BY <1>0, RestMatches
<1>1. CASE i = ls + 1
  <2>1. NextToken(s, i) = Token("Eof", i, i)
    BY <1>0, <1>1, <1>i, EofToken
  <2>2. m > Len(t)
    BY <1>0, <1>1, <1>l
  <2>3. NextToken(t, m) = Token("Eof", m, m)
    BY <2>2, EofToken
  <2> QED
    BY <1>0, <2>1, <2>3, TokenFields DEF MovedToken
<1>2. CASE i \in 1..ls
  <2>1. i \in 1..Len(s) /\ m \in 1..Len(t)
    BY <1>0, <1>2, <1>l
  <2>2. t[m] = s[i]
    BY <1>0, <2>1 DEF RestOf
  <2>3. ASSUME NEW c PROVE At(t, m + 1, c) <=> At(s, i + 1, c)
    <3>1. PICK q \in Nat : q = i + 1 /\ q >= lo /\ q + d = m + 1
      BY <1>0, <1>2
    <3>2. At(t, q + d, c) <=> At(s, q, c)
      BY <1>m, <3>1, AtMatches
    <3> QED
      BY <3>1, <3>2
  <2>4. Word(t, m, Triple) <=> Word(s, i, Triple)
    <3>1. Word(t, i + d, Triple) <=> Word(s, i, Triple)
      BY <1>0, <1>i, <1>m, TripleWord, WordMatches
    <3> QED
      BY <1>0, <3>1
  <2>5. ASSUME NEW j \in Nat, j >= 1, j <= ls + 1, NEW w \in Seq(ByteClass), w # <<>>
        PROVE  AfterWord(t, j + d, w) = Moved(AfterWord(s, j, w), d)
    <3>1. Settled(AfterWord(s, j, w), s, t, d, ls)
      BY <1>m DEF Settled
    <3> QED
      BY <1>0, <1>m, <2>5, <3>1, AfterWordMatches
  <2>6. ASSUME NEW kind, NEW x \in Int, NextToken(s, i) = Literal(s, i, kind, x),
               NextToken(t, m) = Literal(t, m, kind, Moved(x, d))
        PROVE  NextToken(t, m) = MovedToken(NextToken(s, i), d)
    BY <1>0, <1>i, <2>6, LiteralMoves
  <2>7. ASSUME NEW kind, NEW x \in Int, NEW y \in Int, y = x + d,
               NextToken(s, i) = Token(kind, i, x), NextToken(t, m) = Token(kind, m, y)
        PROVE  NextToken(t, m) = MovedToken(NextToken(s, i), d)
    BY <1>0, <2>7, TokenFields DEF MovedToken
  <2>8. ASSUME NextToken(s, i) = Token("Illegal", i, ls + 1),
               NextToken(t, m) = Token("Illegal", m, lt + 1)
        PROVE  NextToken(t, m) = MovedToken(NextToken(s, i), d)
    <3>1. PICK kind : kind = "Illegal"
      OBVIOUS
    <3>2. PICK x \in Int, y \in Int : x = ls + 1 /\ y = lt + 1
      OBVIOUS
    <3>3. y = x + d
      BY <1>l, <3>2
    <3>4. NextToken(s, i) = Token(kind, i, x) /\ NextToken(t, m) = Token(kind, m, y)
      BY <2>8, <3>1, <3>2
    <3> QED
      BY <2>7, <3>3, <3>4
  <2>9. CASE s[i] \in {"nl", "sp"}
    <3>1. NextToken(s, i) = Token("Blank", i, i + 1) /\ NextToken(t, m) = Token("Blank", m, m + 1)
      BY <2>1, <2>2, <2>9, NextTokenIs
    <3>2. i + 1 \in Int /\ m + 1 \in Int /\ m + 1 = (i + 1) + d
      BY <1>0, <1>i
    <3> QED
      BY <1>0, <2>7, <3>1, <3>2
  <2>10. CASE s[i] = "#" \/ (s[i] = "/" /\ At(s, i + 1, "/"))
    <3>1. /\ NextToken(s, i) = Token("Blank", i, LineComment(s, i))
          /\ NextToken(t, m) = Token("Blank", m, LineComment(t, m))
      BY <2>1, <2>2, <2>3, <2>10, NextTokenIs
    <3>2. PICK x \in Int : x = LineComment(s, i)
      <4>1. i \in 1..(Len(s) + 1)
        OBVIOUS
      <4> QED
        BY <4>1, LineCommentIs
    <3>3. LineComment(t, i + d) = LineComment(s, i) + d
      <4>1. StopsBefore(LineComment(s, i), s, t, d, ls)
        BY <1>m DEF StopsBefore
      <4> QED
        BY <1>0, <1>i, <1>m, <4>1, LineCommentMatches
    <3>4. PICK y \in Int : y = x + d
      OBVIOUS
    <3> QED
      BY <1>0, <2>7, <3>1, <3>2, <3>3, <3>4
  <2>11. CASE s[i] = "/" /\ At(s, i + 1, "*")
    <3>1. PICK j \in Nat : j = i + 2 /\ j >= 1 /\ j <= ls + 1
      <4>1. i + 1 \in 1..ls
        BY <1>0, <2>11 DEF At
      <4> QED
        BY <1>i, <4>1
    <3>2. PICK x \in Int : x = AfterWord(s, j, CommentEnd)
      <4>1. j \in 1..(Len(s) + 1)
        BY <1>0, <3>1
      <4> QED
        BY <4>1, AfterWordRange, CommentEndWord
    <3>3. AfterWord(t, j + d, CommentEnd) = Moved(x, d)
      BY <2>5, <3>1, <3>2, CommentEndWord
    <3>4. j + d = m + 2
      BY <1>0, <1>i, <3>1
    <3>5. /\ NextToken(s, i) = Literal(s, i, "Blank", AfterWord(s, i + 2, CommentEnd))
          /\ NextToken(t, m) = Literal(t, m, "Blank", AfterWord(t, m + 2, CommentEnd))
      BY <2>1, <2>2, <2>3, <2>11, NextTokenIs
    <3> QED
      BY <1>0, <2>6, <3>1, <3>2, <3>3, <3>4, <3>5
  <2>12. CASE s[i] = "quote" /\ Word(s, i, Triple)
    <3>1. PICK j \in Nat : j = i + 3 /\ j >= 1 /\ j <= ls + 1
      <4>1. i \in 1..(ls - 2)
        BY <1>0, <1>i, <2>12, WordOfThree
      <4> QED
        BY <1>i, <4>1
    <3>2. PICK x \in Int : x = AfterWord(s, j, Triple)
      <4>1. j \in 1..(Len(s) + 1)
        BY <1>0, <3>1
      <4> QED
        BY <4>1, AfterWordRange, TripleWord
    <3>3. AfterWord(t, j + d, Triple) = Moved(x, d)
      BY <2>5, <3>1, <3>2, TripleWord
    <3>4. j + d = m + 3
      BY <1>0, <1>i, <3>1
    <3>5. /\ NextToken(s, i) = Literal(s, i, "String", AfterWord(s, i + 3, Triple))
          /\ NextToken(t, m) = Literal(t, m, "String", AfterWord(t, m + 3, Triple))
      BY <2>1, <2>2, <2>4, <2>12, NextTokenIs
    <3> QED
      BY <1>0, <2>6, <3>1, <3>2, <3>3, <3>4, <3>5
  <2>13. CASE s[i] = "quote" /\ ~Word(s, i, Triple)
    <3>1. PICK j \in Nat : j = i + 1 /\ j \in lo..(ls + 1) /\ j \in 1..(Len(s) + 1)
      BY <1>0, <1>2
    <3>2. PICK x \in Int : x = Quoted(s, j, Escapes)
      <4>1. Quoted(s, j, Escapes) \in {Incomplete, Malformed} \cup (j + 1)..(Len(s) + 1)
        BY <3>1, QuotedStep
      <4>2. Quoted(s, j, Escapes) \in Int
        BY <3>1, <4>1 DEF Incomplete, Malformed
      <4> QED
        BY <4>2
    <3>3. Quoted(t, j + d, Escapes) = Moved(x, d)
      <4>1. Settled(Quoted(s, j, Escapes), s, t, d, ls)
        BY <1>m DEF Settled
      <4> QED
        BY <1>m, <3>1, <3>2, <4>1, QuotedMatches
    <3>4. j + d = m + 1
      BY <1>0, <1>i, <3>1
    <3>5. /\ NextToken(s, i) = Literal(s, i, "String", Quoted(s, i + 1, Escapes))
          /\ NextToken(t, m) = Literal(t, m, "String", Quoted(t, m + 1, Escapes))
      BY <2>1, <2>2, <2>4, <2>13, NextTokenIs
    <3> QED
      BY <1>0, <2>6, <3>1, <3>2, <3>3, <3>4, <3>5
  <2>14. CASE s[i] = "b" /\ At(s, i + 1, "quote")
    <3>1. NextToken(s, i) = LexBytes(s, i) /\ NextToken(t, m) = LexBytes(t, m)
      BY <2>1, <2>2, <2>3, <2>14, NextTokenIs
    <3> QED
      BY <1>0, <2>1, <3>1, LexBytesMoves
  <2>15. CASE s[i] \in Punctuation
    <3>1. NextToken(s, i) = Token(s[i], i, i + 1) /\ NextToken(t, m) = Token(s[i], m, m + 1)
      BY <2>1, <2>2, <2>15, NextTokenIs
    <3>2. i + 1 \in Int /\ m + 1 \in Int /\ m + 1 = (i + 1) + d
      BY <1>0, <1>i
    <3> QED
      BY <1>0, <2>7, <3>1, <3>2
  <2>16. CASE s[i] = "@"
    <3>1. PICK q \in Nat : q = i + 1 /\ q \in 1..(Len(s) + 1) /\ q + d = m + 1
      BY <1>0, <1>2
    <3>2. PICK x \in Int : x = IdentEnd(s, q)
      BY <3>1, IdentEndIs
    <3>3. PICK y \in Int : y = x + d
      OBVIOUS
    <3>4. IdentEnd(t, m + 1) = y
      <4>1. IdentEnd(t, q + d) = IdentEnd(s, q) + d
        BY <3>1, IdentEndMoves
      <4> QED
        BY <3>1, <3>2, <3>3, <4>1
    <3>5. NextToken(s, i) = LexDirective(s, i) /\ NextToken(t, m) = LexDirective(t, m)
      BY <2>1, <2>2, <2>16, NextTokenIs
    <3>6. /\ x = i + 1 => LexDirective(s, i) = Token("Illegal", i, ls + 1)
          /\ x = i + 2 /\ s[i + 1] = "d" => LexDirective(s, i) = Token("AtDataset", i, x)
          /\ x # i + 1 /\ ~(x = i + 2 /\ s[i + 1] = "d")
               => LexDirective(s, i) = Token("AtDirective", i, x)
      BY <1>0, <2>1, <3>1, <3>2, LexDirectiveIs
    <3>7. /\ y = m + 1 => LexDirective(t, m) = Token("Illegal", m, lt + 1)
          /\ y = m + 2 /\ t[m + 1] = "d" => LexDirective(t, m) = Token("AtDataset", m, y)
          /\ y # m + 1 /\ ~(y = m + 2 /\ t[m + 1] = "d")
               => LexDirective(t, m) = Token("AtDirective", m, y)
      BY <1>0, <2>1, <3>4, LexDirectiveIs
    <3>8. (y = m + 1 <=> x = i + 1) /\ (y = m + 2 <=> x = i + 2)
      BY <1>0, <1>i, <3>3
    <3>9. x = i + 2 => t[m + 1] = s[i + 1]
      <4> SUFFICES ASSUME x = i + 2 PROVE t[m + 1] = s[i + 1]
        OBVIOUS
      <4>1. x \in q..(ls + 1)
        BY <1>0, <3>1, <3>2, IdentEndIs
      <4>2. q \in 1..Len(s)
        BY <1>0, <1>i, <3>1, <4>1
      <4>3. t[q + d] = s[q]
        BY <4>2 DEF RestOf
      <4> QED
        BY <3>1, <4>3
    <3>10. CASE x = i + 1
      BY <1>0, <2>8, <3>5, <3>6, <3>7, <3>8, <3>10
    <3>11. CASE x = i + 2 /\ s[i + 1] = "d"
      <4>1. y = m + 2 /\ t[m + 1] = "d"
        BY <3>8, <3>9, <3>11
      <4> QED
        BY <1>0, <2>7, <3>3, <3>5, <3>6, <3>7, <3>11, <4>1
    <3>12. CASE x # i + 1 /\ ~(x = i + 2 /\ s[i + 1] = "d")
      <4>1. y # m + 1 /\ ~(y = m + 2 /\ t[m + 1] = "d")
        BY <3>8, <3>9, <3>12
      <4> QED
        BY <1>0, <2>7, <3>3, <3>5, <3>6, <3>7, <3>12, <4>1
    <3> QED
      BY <1>0, <3>10, <3>11, <3>12
  <2>17. CASE IsIdentPart(s[i]) /\ ~(s[i] = "b" /\ At(s, i + 1, "quote"))
    <3>1. NextToken(s, i) = Token("Ident", i, IdentEnd(s, i))
          /\ NextToken(t, m) = Token("Ident", m, IdentEnd(t, m))
      BY <2>1, <2>2, <2>3, <2>17, NextTokenIs
    <3>2. PICK x \in Int : x = IdentEnd(s, i)
      BY IdentEndIs
    <3>3. PICK y \in Int : y = x + d
      OBVIOUS
    <3>4. IdentEnd(t, m) = y
      BY <1>0, <3>2, <3>3, IdentEndMoves
    <3> QED
      BY <1>0, <2>7, <3>1, <3>2, <3>3, <3>4
  <2>18. CASE \/ s[i] \in {"*", "esc", "bad"}
              \/ s[i] = "/" /\ ~At(s, i + 1, "/") /\ ~At(s, i + 1, "*")
    <3>1. NextToken(s, i) = Token("Illegal", i, ls + 1)
          /\ NextToken(t, m) = Token("Illegal", m, lt + 1)
      BY <1>0, <2>1, <2>2, <2>3, <2>18, NextTokenIs
    <3> QED
      BY <1>0, <2>8, <3>1
  <2>19. \/ s[i] \in Punctuation \/ s[i] \in {"nl", "sp"} \/ s[i] = "#" \/ s[i] = "/"
         \/ s[i] = "quote" \/ s[i] \in {"b", "x", "d"} \/ s[i] = "@" \/ s[i] \in {"*", "esc", "bad"}
    <3>1. s[i] \in ByteClass
      BY <2>1
    <3> QED
      BY <3>1, Zenon DEF ByteClass, Punctuation
  <2>20. s[i] \in {"b", "x", "d"} => IsIdentPart(s[i])
    BY DEF IsIdentPart
  <2> QED
    BY <1>0, <2>9, <2>10, <2>11, <2>12, <2>13, <2>14, <2>15, <2>16, <2>17, <2>18, <2>19, <2>20
<1> QED
  BY <1>1, <1>2, <1>i

-----------------------------------------------------------------------------
(***************************************************************************)
(* The tokens and rows of the rest of a text.                              *)
(***************************************************************************)

\* b has the tokens a has after its first p, each d places further back.
TailOf(b, a, p, d) ==
  Len(a) = p + Len(b) /\ \A j \in 1..Len(b) : a[p + j] = MovedToken(b[j], d)

\* A sequence with one element more in front.
LEMMA InFront ==
  ASSUME NEW T, NEW b \in Seq(T), NEW x \in T, NEW n \in Nat, n = Len(b)
  PROVE  /\ Len(<<x>> \o b) = 1 + n
         /\ \A j \in 1..(1 + n) : (<<x>> \o b)[j] = IF j <= 1 THEN x ELSE b[j - 1]
<1>1. PICK p \in Seq(T) : p = <<x>> /\ Len(p) = 1 /\ p[1] = x
  <2>1. <<x>> \in Seq(T) /\ Len(<<x>>) = 1 /\ <<x>>[1] = x
    OBVIOUS
  <2> QED
    BY <2>1
<1>2. /\ Len(p \o b) = 1 + n
      /\ \A j \in 1..(1 + n) : (p \o b)[j] = (IF j <= 1 THEN p[j] ELSE b[j - 1])
  BY <1>1, ConcatProperties
<1>3. ASSUME NEW j \in 1..(1 + n) PROVE j <= 1 => p[j] = x
  <2>1. j <= 1 => j = 1
    OBVIOUS
  <2> QED
    BY <1>1, <2>1
<1> QED
  BY <1>1, <1>2, <1>3

\* One token more in front of both.
LEMMA TailGrows ==
  ASSUME NEW S, NEW a \in Seq(S), NEW T, NEW b \in Seq(T), NEW d, TailOf(b, a, 0, d),
         NEW y \in S, NEW x \in T, y = MovedToken(x, d)
  PROVE  TailOf(<<x>> \o b, <<y>> \o a, 0, d)
<1>0. PICK n \in Nat : n = Len(a) /\ n = Len(b)
  BY DEF TailOf
<1>1. \A j \in 1..n : a[j] = MovedToken(b[j], d)
  <2> SUFFICES ASSUME NEW j \in 1..n PROVE a[j] = MovedToken(b[j], d)
    OBVIOUS
  <2>1. a[0 + j] = MovedToken(b[j], d) /\ 0 + j = j
    BY <1>0 DEF TailOf
  <2> QED
    BY <2>1
<1>2. PICK u, v : u = <<x>> \o b /\ v = <<y>> \o a
  OBVIOUS
<1>3. /\ Len(u) = 1 + n /\ Len(v) = 1 + n
      /\ \A j \in 1..(1 + n) : u[j] = (IF j <= 1 THEN x ELSE b[j - 1])
      /\ \A j \in 1..(1 + n) : v[j] = (IF j <= 1 THEN y ELSE a[j - 1])
  <2>1. /\ Len(u) = 1 + n
        /\ \A j \in 1..(1 + n) : u[j] = (IF j <= 1 THEN x ELSE b[j - 1])
    BY <1>0, <1>2, InFront
  <2>2. /\ Len(v) = 1 + n
        /\ \A j \in 1..(1 + n) : v[j] = (IF j <= 1 THEN y ELSE a[j - 1])
    <3>1. n = Len(a)
      BY <1>0
    <3>2. /\ Len(<<y>> \o a) = 1 + n
          /\ \A j \in 1..(1 + n) : (<<y>> \o a)[j] = (IF j <= 1 THEN y ELSE a[j - 1])
      BY ONLY <3>1, InFront, a \in Seq(S), y \in S, n \in Nat
    <3> QED
      BY <1>2, <3>2
  <2> QED
    BY <2>1, <2>2
<1>4. ASSUME NEW j \in 1..(1 + n) PROVE v[0 + j] = MovedToken(u[j], d)
  <2>0. 0 + j = j
    OBVIOUS
  <2>1. CASE j = 1
    <3>1. u[j] = x /\ v[j] = y
      BY <1>3, <2>1
    <3> QED
      BY <2>0, <3>1
  <2>2. CASE j > 1
    <3>1. PICK k \in 1..n : k = j - 1
      <4>1. j - 1 \in 1..n
        BY <2>2
      <4> QED
        BY <4>1
    <3>2. u[j] = b[k] /\ v[j] = a[k]
      BY <1>3, <2>2, <3>1
    <3> QED
      BY <1>1, <2>0, <3>2
  <2> QED
    BY <2>1, <2>2
<1>5. Len(v) = 0 + Len(u)
  BY <1>3
<1>6. TailOf(u, v, 0, d)
  BY <1>3, <1>4, <1>5 DEF TailOf
<1> QED
  BY <1>2, <1>6

\* The rest of a text has the tokens the text has there.
LEMMA TokensMove ==
  ASSUME NEW s \in Seq(ByteClass), NEW t \in Seq(ByteClass), NEW d \in Nat, RestOf(s, t, d),
         NEW i \in 1..(Len(s) + 1)
  PROVE  TailOf(TokensFrom(s, i), TokensFrom(t, i + d), 0, d)
<1>0. PICK ls \in Nat, lt \in Nat : ls = Len(s) /\ lt = Len(t)
  OBVIOUS
<1>l. lt = d + ls
  BY <1>0 DEF RestOf
<1> DEFINE T == {k \in 1..(ls + 1) : TailOf(TokensFrom(s, k), TokensFrom(t, k + d), 0, d)}
<1>2. ASSUME NEW k \in 1..(ls + 1), \A j \in (k + 1)..(ls + 1) : j \in T PROVE k \in T
  <2>0. PICK m \in Nat : m = k + d
    OBVIOUS
  <2>1. k \in 1..(Len(s) + 1) /\ m \in 1..(Len(t) + 1)
    BY <1>0, <1>l, <2>0
  <2>2. PICK x, y : x = NextToken(s, k) /\ y = NextToken(t, m)
    OBVIOUS
  <2>3. y = MovedToken(x, d)
    BY <2>0, <2>1, <2>2, NextTokenMoves
  <2>4. y.kind = x.kind /\ y.to = x.to + d
    BY <2>3, TokenFields DEF MovedToken
  <2>5. CASE k > ls
    <3>1. k > Len(s) /\ m > Len(t) /\ k \in Nat
      BY <1>0, <1>l, <2>0, <2>5
    <3>2. TokensFrom(s, k) = <<Token("Eof", k, k)>> /\ TokensFrom(t, m) = <<Token("Eof", m, m)>>
      BY <2>1, <3>1, TokensStep
    <3>3. x = Token("Eof", k, k) /\ y = Token("Eof", m, m)
      BY <2>2, <3>1, EofToken
    <3>4. PICK b, a : b = <<x>> /\ a = <<y>>
      OBVIOUS
    <3>5. Len(a) = 0 + Len(b) /\ \A j \in 1..Len(b) : a[0 + j] = MovedToken(b[j], d)
      BY <2>3, <3>4
    <3>6. TailOf(b, a, 0, d)
      BY <3>5 DEF TailOf
    <3> QED
      BY <2>0, <3>2, <3>3, <3>4, <3>6
  <2>6. CASE k <= ls
    <3>1. k \in 1..Len(s) /\ k <= Len(s) /\ m <= Len(t)
      BY <1>0, <1>l, <2>0, <2>6
    <3>2. PICK e \in Int : e = x.to /\ e \in (k + 1)..(ls + 1)
      BY <1>0, <2>2, <3>1, NextTokenShape
    <3>3. PICK g \in Int : g = e + d
      OBVIOUS
    <3>4. e \in 1..(Len(s) + 1) /\ g \in 1..(Len(t) + 1)
      <4>1. e \in 1..(ls + 1)
        BY <3>2
      <4>2. g \in 1..(lt + 1)
        BY <1>l, <3>3, <4>1
      <4> QED
        BY <1>0, <4>1, <4>2
    <3>5. PICK b, a : b = TokensFrom(s, e) /\ a = TokensFrom(t, g)
      OBVIOUS
    <3>6. TailOf(b, a, 0, d)
      BY <1>2, <3>2, <3>3, <3>5
    <3>7. CASE x.kind = "Blank"
      <4>1. TokensFrom(s, k) = b
        BY <2>1, <2>2, <3>1, <3>2, <3>5, <3>7, TokensStep
      <4>2. TokensFrom(t, m) = a
        BY <2>1, <2>2, <2>4, <3>1, <3>2, <3>3, <3>5, <3>7, TokensStep
      <4> QED
        BY <2>0, <3>6, <4>1, <4>2
    <3>8. CASE x.kind # "Blank"
      <4>1. TokensFrom(s, k) = <<x>> \o b
        BY <2>1, <2>2, <3>1, <3>2, <3>5, <3>8, TokensStep
      <4>2. TokensFrom(t, m) = <<y>> \o a
        BY <2>1, <2>2, <2>4, <3>1, <3>2, <3>3, <3>5, <3>8, TokensStep
      <4>3. b \in Seq(Lexed(s)) /\ a \in Seq(Lexed(t))
        BY <3>4, <3>5, TokensStep
      <4>4. x \in Lexed(s) /\ y \in Lexed(t)
        BY <2>1, <2>2 DEF Lexed
      <4>5. TailOf(<<x>> \o b, <<y>> \o a, 0, d)
        BY <2>3, <3>6, <4>3, <4>4, TailGrows
      <4> QED
        BY <2>0, <4>1, <4>2, <4>5
    <3> QED
      BY <3>7, <3>8
  <2> QED
    BY <2>5, <2>6
<1> HIDE DEF T
<1>3. 1 \in Int /\ ls + 1 \in Int
  OBVIOUS
<1>4. 1..(ls + 1) \subseteq T
  BY <1>2, <1>3, BackwardInductive
<1>5. i \in T
  BY <1>0, <1>4
<1> QED
  BY <1>5 DEF T

\* The tokens after one of a single byte are those of the bytes after it.
LEMMA TokensAfter ==
  ASSUME NEW u \in Seq(ByteClass), NEW n \in 1..(Len(Tokens(u)) - 1),
         Tokens(u)[n].kind \in Punctuation,
         NEW e \in Nat, e = Tokens(u)[n].from, NEW w \in Seq(ByteClass), RestOf(w, u, e)
  PROVE  TailOf(Tokens(w), Tokens(u), n, e)
<1>t. PICK t : t = TokensFrom(u, 1)
  OBVIOUS
<1>0. PICK lt \in Nat, lu \in Nat : t = TokensFrom(u, 1) /\ t = Tokens(u) /\ lt = Len(t) /\ lu = Len(u)
  BY <1>t, TokensAre
<1>1. 1 \in 1..(Len(u) + 1) /\ n \in 1..lt /\ n \in 1..(lt - 1) /\ 1 \in 1..(Len(w) + 1)
  BY <1>0, TokensAre
<1>2. e \in 1..Len(u) /\ t[n] = NextToken(u, e)
  <2>1. TokenGap(u, t, n, 1, {})
    BY <1>0, <1>1, TokenGaps
  <2> QED
    BY <1>0, <2>1 DEF TokenGap
<1>3. t[n].to = e + 1
  <2>1. PICK k, h : k = t[n].kind /\ h = t[n]
    OBVIOUS
  <2>2. TokenShape(u, e, h)
    BY <1>2, <2>1, NextTokenShape
  <2>3. h.kind = k /\ k \notin Others
    BY <1>0, <2>1, PunctuationIs
  <2> QED
    BY <2>1, <2>2, <2>3 DEF TokenShape, Others
<1>4. PICK q : q = TokensFrom(u, e)
  OBVIOUS
<1>5. TokensAt(u, q, e) /\ IsTail(q, t, n)
  <2>1. TokenPlace(u, t, n, 1)
    BY <1>0, <1>1, TokenPlaces
  <2> QED
    BY <1>0, <1>4, <2>1 DEF TokenPlace
<1>6. PICK r : r = TokensFrom(u, e + 1)
  OBVIOUS
<1>7. PICK lr \in Nat : lr = Len(r)
  <2>1. e + 1 \in 1..(Len(u) + 1)
    <3>1. e \in 1..lu
      BY <1>0, <1>2
    <3>2. e + 1 \in 1..(lu + 1)
      BY <3>1
    <3> QED
      BY <1>0, <3>2
  <2> QED
    BY <1>6, <2>1, TokensLength
<1>8. Len(q) = 1 + lr /\ \A j \in 1..lr : q[j + 1] = r[j]
  <2>1. e <= Len(u)
    BY <1>0, <1>2
  <2>2. /\ q[1] = NextToken(u, e)
        /\ Len(q) = 1 + Len(TokensFrom(u, q[1].to))
        /\ \A j \in 1..Len(TokensFrom(u, q[1].to)) : q[j + 1] = TokensFrom(u, q[1].to)[j]
    BY <1>5, <2>1 DEF TokensAt
  <2>3. q[1].to = e + 1
    BY <1>2, <1>3, <2>2
  <2>4. TokensFrom(u, q[1].to) = r
    BY <1>6, <2>3
  <2> QED
    BY <1>7, <2>2, <2>4
<1>9. Len(q) = lt - n + 1 /\ \A j \in 1..Len(q) : q[j] = t[n + j - 1]
  BY <1>0, <1>5 DEF IsTail
<1>10. TailOf(Tokens(w), r, 0, e)
  <2>1. TailOf(TokensFrom(w, 1), TokensFrom(u, 1 + e), 0, e)
    BY <1>1, TokensMove
  <2>2. 1 + e = e + 1
    OBVIOUS
  <2>3. Tokens(w) = TokensFrom(w, 1)
    BY DEF Tokens
  <2> QED
    BY <1>6, <2>1, <2>2, <2>3
<1>11. Len(Tokens(w)) = lr /\ Len(t) = n + lr
  BY <1>0, <1>7, <1>8, <1>9, <1>10 DEF TailOf
<1>12. ASSUME NEW j \in 1..lr PROVE t[n + j] = MovedToken(Tokens(w)[j], e)
  <2>0. 0 + j = j
    OBVIOUS
  <2>1. r[0 + j] = MovedToken(Tokens(w)[j], e)
    BY <1>10, <1>11 DEF TailOf
  <2>2. PICK k \in Nat : k = j + 1 /\ k \in 1..(1 + lr) /\ n + k - 1 = n + j
    BY <1>1
  <2>3. q[k] = r[j] /\ q[k] = t[n + k - 1]
    BY <1>8, <1>9, <2>2
  <2> QED
    BY <2>0, <2>1, <2>2, <2>3
<1>13. TailOf(Tokens(w), t, n, e)
  BY <1>11, <1>12 DEF TailOf
<1> QED
  BY <1>0, <1>13

\* And what stands before the first token holds none.
LEMMA TokensOfFirst ==
  ASSUME NEW w \in Seq(ByteClass), NEW d \in Nat, Tokens(w)[1].from = d + 1,
         NEW v \in Seq(ByteClass), RestOf(v, w, d)
  PROVE  TailOf(Tokens(v), Tokens(w), 0, d)
<1>t. PICK t : t = TokensFrom(w, 1)
  OBVIOUS
<1>0. PICK lt \in Nat : t = TokensFrom(w, 1) /\ t = Tokens(w) /\ lt = Len(t) /\ lt >= 1
  BY <1>t, TokensAre
<1>1. 1 \in 1..(Len(w) + 1) /\ 1 \in 1..lt /\ 1 \in 1..(Len(v) + 1)
  BY <1>0, TokensAre
<1>2. PICK r : r = TokensFrom(w, 1 + d)
  OBVIOUS
<1>3. IsTail(r, t, 1)
  <2>1. TokenPlace(w, t, 1, 1)
    BY <1>0, <1>1, TokenPlaces
  <2>2. t[1].from = 1 + d
    BY <1>0
  <2> QED
    BY <1>0, <1>2, <2>1, <2>2 DEF TokenPlace
<1>4. Len(r) = lt /\ \A j \in 1..lt : r[j] = t[j]
  <2>1. Len(r) = lt - 1 + 1 /\ \A j \in 1..Len(r) : r[j] = t[1 + j - 1]
    BY <1>0, <1>3 DEF IsTail
  <2>2. Len(r) = lt
    BY <2>1
  <2>3. ASSUME NEW j \in 1..lt PROVE r[j] = t[j]
    <3>1. 1 + j - 1 = j
      OBVIOUS
    <3> QED
      BY <2>1, <2>2, <3>1
  <2> QED
    BY <2>2, <2>3
<1>5. TailOf(Tokens(v), r, 0, d)
  <2>1. TailOf(TokensFrom(v, 1), TokensFrom(w, 1 + d), 0, d)
    BY <1>1, TokensMove
  <2> QED
    BY <1>2, <2>1 DEF Tokens
<1>6. PICK lv \in Nat : lv = Len(Tokens(v))
  BY TokensAre
<1>7. lt = 0 + lv
  BY <1>4, <1>5, <1>6 DEF TailOf
<1>8. ASSUME NEW j \in 1..lv PROVE t[0 + j] = MovedToken(Tokens(v)[j], d)
  <2>1. r[0 + j] = MovedToken(Tokens(v)[j], d) /\ 0 + j = j /\ j \in 1..lt
    BY <1>5, <1>6, <1>7 DEF TailOf
  <2> QED
    BY <1>4, <2>1
<1>9. TailOf(Tokens(v), t, 0, d)
  BY <1>0, <1>6, <1>7, <1>8 DEF TailOf
<1> QED
  BY <1>0, <1>9

\* A list among the last tokens is one of the rest.
LEMMA ListEndTail ==
  ASSUME NEW S, NEW a \in Seq(S), NEW T, NEW b \in Seq(T), NEW p \in Nat, NEW d,
         TailOf(b, a, p, d), NEW k \in 1..Len(b), NEW m \in Nat, m = p + k,
         NEW items, NEW empty
  PROVE  ListEnd(a, m, items, empty)
           = IF ListEnd(b, k, items, empty) = 0 THEN 0 ELSE p + ListEnd(b, k, items, empty)
<1>0. PICK la \in Nat, lb \in Nat : la = Len(a) /\ lb = Len(b)
  OBVIOUS
<1>1. la = p + lb
  BY <1>0 DEF TailOf
<1>2. ASSUME NEW j \in 1..lb PROVE a[p + j].kind = b[j].kind
  <2>1. a[p + j] = MovedToken(b[j], d)
    BY <1>0 DEF TailOf
  <2> QED
    BY <2>1, TokenFields DEF MovedToken
<1>k. k \in 1..lb /\ k \in Nat
  BY <1>0
<1> DEFINE SA == {i \in (m + 1)..Len(a) : a[i].kind \notin items \cup Comma}
           SB == {i \in (k + 1)..Len(b) : b[i].kind \notin items \cup Comma}
           apart(x, y) == ~(x \in items /\ y \in items) /\ (empty \/ x \in items \/ y \in items)
           goodA(e) == /\ a[m].kind = "(" /\ a[e].kind = ")"
                       /\ \A i \in m..(e - 1) : apart(a[i].kind, a[i + 1].kind)
           goodB(e) == /\ b[k].kind = "(" /\ b[e].kind = ")"
                       /\ \A i \in k..(e - 1) : apart(b[i].kind, b[i + 1].kind)
<1>3. PICK none, x, y : none = 0 /\ x = TheOne(First(SB), none) /\ y = TheOne(First(SA), none)
  OBVIOUS
<1>4. ListEnd(b, k, items, empty) = IF goodB(x) THEN x ELSE 0
  <2> DEFINE pairs == {<<b[i].kind, b[i + 1].kind>> : i \in k..(x - 1)}
             good  == /\ b[k].kind = "(" /\ b[x].kind = ")"
                      /\ \A q \in pairs : /\ ~(q[1] \in items /\ q[2] \in items)
                                          /\ empty \/ q[1] \in items \/ q[2] \in items
  <2>1. ListEnd(b, k, items, empty) = IF good THEN x ELSE 0
    BY <1>3, Zenon DEF ListEnd, FirstAt, Comma
  <2> DEFINE far(q) == ~(q[1] \in items /\ q[2] \in items) /\ (empty \/ q[1] \in items \/ q[2] \in items)
  <2>3. ASSUME NEW i \in k..(x - 1)
        PROVE  /\ <<b[i].kind, b[i + 1].kind>> \in pairs
               /\ far(<<b[i].kind, b[i + 1].kind>>) <=> apart(b[i].kind, b[i + 1].kind)
    <3>1. PICK c, c1 : c = b[i].kind /\ c1 = b[i + 1].kind
      OBVIOUS
    <3>2. PICK q : q = <<c, c1>>
      OBVIOUS
    <3>3. q[1] = c /\ q[2] = c1
      BY <3>2
    <3>4. far(q) <=> apart(c, c1)
      BY <3>3
    <3>5. q \in pairs
      BY <3>1, <3>2
    <3> HIDE DEF far, apart, pairs
    <3> QED
      BY <3>1, <3>2, <3>4, <3>5
  <2>4. \A q \in pairs : \E i \in k..(x - 1) : q = <<b[i].kind, b[i + 1].kind>>
    OBVIOUS
  <2>5. (\A q \in pairs : far(q)) <=> \A i \in k..(x - 1) : apart(b[i].kind, b[i + 1].kind)
    <3> HIDE DEF far, apart, pairs
    <3> QED
      BY <2>3, <2>4
  <2>2. good <=> goodB(x)
    <3> HIDE DEF apart, pairs
    <3> QED
      BY <2>5
  <2> HIDE DEF good, goodB
  <2> QED
    BY <2>1, <2>2
<1>5. ListEnd(a, m, items, empty) = IF goodA(y) THEN y ELSE 0
  <2> DEFINE pairs == {<<a[i].kind, a[i + 1].kind>> : i \in m..(y - 1)}
             good  == /\ a[m].kind = "(" /\ a[y].kind = ")"
                      /\ \A q \in pairs : /\ ~(q[1] \in items /\ q[2] \in items)
                                          /\ empty \/ q[1] \in items \/ q[2] \in items
  <2>1. ListEnd(a, m, items, empty) = IF good THEN y ELSE 0
    BY <1>3, Zenon DEF ListEnd, FirstAt, Comma
  <2> DEFINE far(q) == ~(q[1] \in items /\ q[2] \in items) /\ (empty \/ q[1] \in items \/ q[2] \in items)
  <2>3. ASSUME NEW i \in m..(y - 1)
        PROVE  /\ <<a[i].kind, a[i + 1].kind>> \in pairs
               /\ far(<<a[i].kind, a[i + 1].kind>>) <=> apart(a[i].kind, a[i + 1].kind)
    <3>1. PICK c, c1 : c = a[i].kind /\ c1 = a[i + 1].kind
      OBVIOUS
    <3>2. PICK q : q = <<c, c1>>
      OBVIOUS
    <3>3. q[1] = c /\ q[2] = c1
      BY <3>2
    <3>4. far(q) <=> apart(c, c1)
      BY <3>3
    <3>5. q \in pairs
      BY <3>1, <3>2
    <3> HIDE DEF far, apart, pairs
    <3> QED
      BY <3>1, <3>2, <3>4, <3>5
  <2>4. \A q \in pairs : \E i \in m..(y - 1) : q = <<a[i].kind, a[i + 1].kind>>
    OBVIOUS
  <2>5. (\A q \in pairs : far(q)) <=> \A i \in m..(y - 1) : apart(a[i].kind, a[i + 1].kind)
    <3> HIDE DEF far, apart, pairs
    <3> QED
      BY <2>3, <2>4
  <2>2. good <=> goodA(y)
    <3> HIDE DEF apart, pairs
    <3> QED
      BY <2>5
  <2> HIDE DEF good, goodA
  <2> QED
    BY <2>1, <2>2
<1>6. SA \subseteq Nat /\ SB \subseteq Nat
  OBVIOUS
<1>7. ASSUME NEW q \in Int PROVE q \in SB <=> p + q \in SA
  <2>1. q \in (k + 1)..lb <=> p + q \in (m + 1)..la
    BY <1>1
  <2>2. q \in (k + 1)..lb => q \in 1..lb
    BY <1>k
  <2> QED
    BY <1>0, <1>2, <2>1, <2>2
<1>8. CASE SB = {}
  <2>1. SA = {}
    <3> SUFFICES ASSUME NEW q \in SA PROVE FALSE
      OBVIOUS
    <3>1. PICK r \in Int : r = q - p
      OBVIOUS
    <3>2. p + r = q
      BY <3>1
    <3> QED
      BY <1>7, <1>8, <3>1, <3>2
  <2> HIDE DEF SA, SB, goodA, goodB
  <2>2. x = 0 /\ y = 0
    BY <1>3, <1>8, <2>1, LeastWhich
  <2> QED
    BY <1>4, <1>5, <2>2
<1>9. CASE SB # {}
  <2>1. x \in SB /\ \A q \in SB : x <= q
    <3> HIDE DEF SB
    <3>1. \/ SB = {} /\ TheOne(First(SB), none) = none
          \/ TheOne(First(SB), none) \in SB /\ \A q \in SB : TheOne(First(SB), none) <= q
      BY <1>6, LeastWhich
    <3> QED
      BY <1>3, <1>9, <3>1
  <2>2. x \in (k + 1)..lb
    BY <1>0, <2>1
  <2>3. PICK z \in Nat : z = p + x
    BY <2>2
  <2>4. z \in SA
    BY <1>7, <2>1, <2>2, <2>3
  <2>5. ASSUME NEW q \in SA PROVE z <= q
    <3>1. PICK r \in Int : r = q - p
      OBVIOUS
    <3>2. p + r = q
      BY <3>1
    <3>3. r \in SB
      BY <1>7, <3>2
    <3> QED
      BY <2>1, <2>2, <2>3, <3>2, <3>3
  <2>6. y = z
    <3> HIDE DEF SA, SB
    <3>1. TheOne(First(SA), none) = z
      BY <1>6, <2>4, <2>5, LeastIs
    <3> QED
      BY <1>3, <3>1
  <2>7. goodA(z) <=> goodB(x)
    <3>1. a[m].kind = b[k].kind /\ a[z].kind = b[x].kind
      <4>1. x \in 1..lb
        BY <1>k, <2>2
      <4> QED
        BY <1>2, <1>k, <2>3, <4>1
    <3>2. ASSUME NEW i \in k..(x - 1)
          PROVE  /\ p + i \in m..(z - 1)
                 /\ a[p + i].kind = b[i].kind /\ a[(p + i) + 1].kind = b[i + 1].kind
      <4>1. i \in 1..lb /\ i + 1 \in 1..lb /\ (p + i) + 1 = p + (i + 1)
        BY <1>k, <2>2
      <4>2. p + i \in m..(z - 1)
        BY <1>k, <2>2, <2>3
      <4> QED
        BY <1>2, <4>1, <4>2
    <3>3. ASSUME NEW j \in m..(z - 1) PROVE \E i \in k..(x - 1) : j = p + i
      <4>1. j - p \in k..(x - 1) /\ j = p + (j - p)
        BY <1>k, <2>2, <2>3
      <4> QED
        BY <4>1
    <3> HIDE DEF apart
    <3>4. ASSUME goodB(x), NEW j \in m..(z - 1) PROVE apart(a[j].kind, a[j + 1].kind)
      <4>1. PICK i \in k..(x - 1) : j = p + i
        BY <3>3
      <4> QED
        BY <3>2, <3>4, <4>1
    <3>5. ASSUME goodA(z), NEW i \in k..(x - 1) PROVE apart(b[i].kind, b[i + 1].kind)
      <4>1. PICK j \in m..(z - 1) : j = p + i
        BY <3>2
      <4>2. apart(a[j].kind, a[j + 1].kind)
        BY <3>5
      <4> QED
        BY <3>2, <4>1, <4>2
    <3> QED
      BY <3>1, <3>4, <3>5
  <2>8. x # 0 /\ x \in Int
    BY <1>k, <2>2
  <2> HIDE DEF goodA, goodB
  <2> QED
    BY <1>4, <1>5, <2>3, <2>6, <2>7, <2>8
<1> QED
  BY <1>8, <1>9

\* With as many items.
LEMMA ItemsTail ==
  ASSUME NEW S, NEW a \in Seq(S), NEW T, NEW b \in Seq(T), NEW p \in Nat, NEW d,
         TailOf(b, a, p, d), NEW k \in 1..Len(b), NEW e \in 1..Len(b),
         NEW m \in Nat, m = p + k, NEW y \in Nat, y = p + e
  PROVE  Items(a, m, y) = Items(b, k, e)
<1>0. PICK lb \in Nat : lb = Len(b) /\ k \in 1..lb /\ e \in 1..lb
  OBVIOUS
<1>2. ASSUME NEW j \in 1..lb PROVE a[p + j].kind = b[j].kind
  <2>1. a[p + j] = MovedToken(b[j], d)
    BY <1>0 DEF TailOf
  <2> QED
    BY <2>1, TokenFields DEF MovedToken
<1>3. ASSUME NEW c
      PROVE  Cardinality({i \in m..y : a[i].kind = c}) = Cardinality({i \in k..e : b[i].kind = c})
  <2>1. PICK A, B : /\ A = {i \in k..e : b[i].kind = c}
                    /\ B = {i \in m..y : a[i].kind = c}
    OBVIOUS
  <2>2. A \subseteq Int /\ B \subseteq Int
    BY <2>1
  <2>3. IsFiniteSet(A)
    <3>1. IsFiniteSet(k..e)
      BY FS_Interval
    <3>2. A \subseteq k..e
      BY <2>1
    <3> QED
      BY <3>1, <3>2, FS_Subset
  <2>4. ASSUME NEW q \in Int PROVE q \in A <=> q + p \in B
    <3>1. q \in k..e <=> q + p \in m..y
      BY <1>0
    <3>2. q \in k..e => q \in 1..lb /\ q + p = p + q
      BY <1>0
    <3> QED
      BY <1>2, <2>1, <3>1, <3>2
  <2>5. \A q \in Int : q \in A <=> q + p \in B
    BY <2>4
  <2>6. p \in Int
    OBVIOUS
  <2>7. Cardinality(B) = Cardinality(A)
    BY ONLY <2>2, <2>3, <2>5, <2>6, ShiftedCardinality
  <2> QED
    BY <2>1, <2>7
<1> QED
  BY <1>3, Zenon DEF Items

\* So the rows of the rest are the last ones.
LEMMA RowTail ==
  ASSUME NEW S, NEW a \in Seq(S), NEW T, NEW b \in Seq(T), NEW p \in Nat, NEW d,
         TailOf(b, a, p, d), NEW k \in 1..Len(b), NEW m \in Nat, m = p + k, NEW arity
  PROVE  RowAtToken(a, m, arity)
           = IF RowAtToken(b, k, arity) = 0 THEN 0 ELSE p + RowAtToken(b, k, arity)
<1>0. PICK lb \in Nat : lb = Len(b)
  OBVIOUS
<1>1. a[m].kind = b[k].kind
  <2>1. a[p + k] = MovedToken(b[k], d)
    BY DEF TailOf
  <2> QED
    BY <2>1, TokenFields DEF MovedToken
<1>2. PICK x, y : x = ListEnd(b, k, Values, TRUE) /\ y = ListEnd(a, m, Values, TRUE)
  OBVIOUS
<1>3. y = IF x = 0 THEN 0 ELSE p + x
  <2>1. PICK all, yes : all = Values /\ yes = TRUE
    OBVIOUS
  <2>2. ListEnd(a, m, all, yes) = IF ListEnd(b, k, all, yes) = 0 THEN 0 ELSE p + ListEnd(b, k, all, yes)
    BY ListEndTail
  <2> QED
    BY <1>2, <2>1, <2>2
<1>4. /\ RowAtToken(b, k, arity)
           = IF b[k].kind = "(" THEN (IF x > 0 /\ Items(b, k, x) = arity THEN x ELSE 0) ELSE 0
      /\ RowAtToken(a, m, arity)
           = IF a[m].kind = "(" THEN (IF y > 0 /\ Items(a, m, y) = arity THEN y ELSE 0) ELSE 0
  BY <1>2 DEF RowAtToken, RowEnd
<1>5. CASE x = 0
  <2>1. ~(0 > 0)
    OBVIOUS
  <2>2. y = 0
    BY <1>3, <1>5
  <2> QED
    BY <1>4, <1>5, <2>1, <2>2
<1>6. CASE x # 0
  <2>1. x \in 1..lb
    <3>1. \A c \in Values : c \in Values
      OBVIOUS
    <3>2. IsList(b, k, x)
      BY <1>2, <1>6, <3>1, ListIs
    <3>3. x \in (k + 1)..Len(b)
      BY <3>2 DEF IsList
    <3> QED
      BY <1>0, <3>3
  <2>2. y = p + x /\ x > 0 /\ y > 0 /\ y # 0
    BY <1>3, <1>6, <2>1
  <2>3. PICK e \in 1..Len(b) : e = x
    BY <1>0, <2>1
  <2>4. PICK z \in Nat : z = y /\ z = p + e
    BY <2>1, <2>2, <2>3
  <2>5. Items(a, m, z) = Items(b, k, e)
    BY <2>4, ItemsTail
  <2> QED
    BY <1>1, <1>4, <2>2, <2>3, <2>4, <2>5
<1> QED
  BY <1>5, <1>6

MovedSpan(span, d) == [from |-> d + span.from, to |-> d + span.to]

\* The spans of rows, each d places further on.
MovedSpans(spans, moved, d) ==
  Len(moved) = Len(spans) /\ \A i \in 1..Len(spans) : moved[i] = MovedSpan(spans[i], d)

\* One span more in front of both.
LEMMA MovedSpansGrow ==
  ASSUME NEW S, NEW a \in Seq(S), NEW T, NEW b \in Seq(T), NEW d, MovedSpans(b, a, d),
         NEW y \in S, NEW x \in T, y = MovedSpan(x, d)
  PROVE  MovedSpans(<<x>> \o b, <<y>> \o a, d)
<1>0. PICK n \in Nat : n = Len(a) /\ n = Len(b)
  BY DEF MovedSpans
<1>1. \A j \in 1..n : a[j] = MovedSpan(b[j], d)
  BY <1>0 DEF MovedSpans
<1>2. PICK u, v : u = <<x>> \o b /\ v = <<y>> \o a
  OBVIOUS
<1>3. /\ Len(u) = 1 + n
      /\ \A j \in 1..(1 + n) : u[j] = (IF j <= 1 THEN x ELSE b[j - 1])
  BY <1>0, <1>2, InFront
<1>4. /\ Len(v) = 1 + n
      /\ \A j \in 1..(1 + n) : v[j] = (IF j <= 1 THEN y ELSE a[j - 1])
  <2>1. n = Len(a)
    BY <1>0
  <2>2. /\ Len(<<y>> \o a) = 1 + n
        /\ \A j \in 1..(1 + n) : (<<y>> \o a)[j] = (IF j <= 1 THEN y ELSE a[j - 1])
    BY ONLY <2>1, InFront, a \in Seq(S), y \in S, n \in Nat
  <2> QED
    BY <1>2, <2>2
<1>5. ASSUME NEW j \in 1..(1 + n) PROVE v[j] = MovedSpan(u[j], d)
  <2>1. CASE j = 1
    <3>1. u[j] = x /\ v[j] = y
      BY <1>3, <1>4, <2>1
    <3> QED
      BY <3>1
  <2>2. CASE j > 1
    <3>1. PICK k \in 1..n : k = j - 1
      <4>1. j - 1 \in 1..n
        BY <2>2
      <4> QED
        BY <4>1
    <3>2. u[j] = b[k] /\ v[j] = a[k]
      BY <1>3, <1>4, <2>2, <3>1
    <3> QED
      BY <1>1, <3>2
  <2> QED
    BY <2>1, <2>2
<1>6. MovedSpans(u, v, d)
  BY <1>3, <1>4, <1>5 DEF MovedSpans
<1> QED
  BY <1>2, <1>6

\* The span between two tokens is one of the spans.
LEMMA SpanIn ==
  ASSUME NEW t, NEW n \in 1..Len(t), NEW end \in 1..Len(t)
  PROVE  Span(t, n, end) \in Spans(t)
BY DEF Spans

\* Rows that are the same tokens, d further on, are the same rows.
LEMMA RowsTail ==
  ASSUME NEW S, NEW a \in Seq(S), NEW T, NEW b \in Seq(T), NEW p \in Nat, NEW d \in Int,
         TailOf(b, a, p, d), Len(b) >= 1, b[Len(b)].kind = "Eof",
         \A j \in 1..Len(b) : b[j].from \in Int,
         NEW arity, NEW at \in 1..Len(b), NEW m \in Nat, m = p + at
  PROVE  MovedSpans(RowsFrom(b, at, arity).spans, RowsFrom(a, m, arity).spans, d)
<1>0. PICK lb \in Nat : lb = Len(b) /\ lb >= 1
  OBVIOUS
<1>1. ASSUME NEW j \in 1..lb PROVE a[p + j].kind = b[j].kind /\ a[p + j].from = d + b[j].from
  <2>1. a[p + j] = MovedToken(b[j], d) /\ b[j].from \in Int
    BY <1>0 DEF TailOf
  <2>2. a[p + j].kind = b[j].kind /\ a[p + j].from = b[j].from + d
    BY <2>1, TokenFields DEF MovedToken
  <2> QED
    BY <2>1, <2>2
<1>2. PICK la \in Nat : la = Len(a) /\ la = p + lb
  BY <1>0 DEF TailOf
<1>3. Len(a) >= 1 /\ a[Len(a)].kind = "Eof"
  BY <1>0, <1>1, <1>2
<1> DEFINE U == {k \in 1..lb : MovedSpans(RowsFrom(b, k, arity).spans, RowsFrom(a, p + k, arity).spans, d)}
<1>4. ASSUME NEW k \in 1..lb, \A j \in (k + 1)..lb : j \in U PROVE k \in U
  <2>0. k \in 1..Len(b)
    BY <1>0
  <2>1. PICK n \in Nat : n = p + k /\ n \in 1..la /\ n \in 1..Len(a)
    <3>1. p + k \in Nat /\ p + k \in 1..la
      BY <1>2
    <3> QED
      BY <1>2, <3>1
  <2>2. PICK x, y : x = RowAtToken(b, k, arity) /\ y = RowAtToken(a, n, arity)
    OBVIOUS
  <2>3. y = IF x = 0 THEN 0 ELSE p + x
    BY <2>0, <2>1, <2>2, RowTail
  <2>4. /\ x = 0 => RowsFrom(b, k, arity) = [spans |-> <<>>, next |-> k]
        /\ x # 0 => /\ x + 1 \in (k + 1)..Len(b)
                    /\ RowsFrom(b, k, arity) = RowFirst(Span(b, k, x), RowsFrom(b, x + 1, arity))
    BY <2>0, <2>2, RowsStep
  <2>5. /\ y = 0 => RowsFrom(a, n, arity) = [spans |-> <<>>, next |-> n]
        /\ y # 0 => /\ y + 1 \in (n + 1)..Len(a)
                    /\ RowsFrom(a, n, arity) = RowFirst(Span(a, n, y), RowsFrom(a, y + 1, arity))
    BY <1>3, <2>1, <2>2, RowsStep
  <2>6. CASE x = 0
    <3>1. RowsFrom(b, k, arity).spans = <<>> /\ RowsFrom(a, n, arity).spans = <<>>
      BY <2>3, <2>4, <2>5, <2>6
    <3>2. PICK none : none = <<>>
      OBVIOUS
    <3>3. MovedSpans(none, none, d)
      BY <3>2 DEF MovedSpans
    <3> QED
      BY <2>1, <3>1, <3>2, <3>3
  <2>7. CASE x # 0
    <3>1. x + 1 \in (k + 1)..lb
      BY <1>0, <2>4, <2>7
    <3>2. PICK e \in k..lb : e = x
      <4>1. \A c \in Values : c \in Values
        OBVIOUS
      <4>2. IsList(b, k, x)
        BY <2>0, <2>2, <2>7, RowEndIs
      <4>3. x \in (k + 1)..Len(b)
        BY <4>2 DEF IsList
      <4> QED
        BY <1>0, <4>3
    <3>3. y = p + e /\ y \in Nat /\ y # 0 /\ e \in 1..lb
      BY <2>3, <2>7, <3>2
    <3>4. PICK f, g : f = e + 1 /\ g = y + 1
      OBVIOUS
    <3>5. f \in (k + 1)..lb /\ f \in 1..lb /\ g = p + f /\ y \in 1..la /\ g \in 1..la
      BY <1>2, <2>5, <3>1, <3>2, <3>3, <3>4
    <3>6. PICK rb, ra : rb = RowsFrom(b, f, arity) /\ ra = RowsFrom(a, g, arity)
      OBVIOUS
    <3>7. MovedSpans(rb.spans, ra.spans, d)
      BY <1>4, <3>5, <3>6
    <3>8. rb \in RowLists(b) /\ ra \in RowLists(a)
      <4>1. f \in 1..Len(b) /\ g \in 1..Len(a)
        BY <1>0, <1>2, <3>5
      <4>2. RowsFrom(b, f, arity) \in RowLists(b)
        BY <4>1, RowsStep
      <4>3. RowsFrom(a, g, arity) \in RowLists(a)
        BY <1>3, <4>1, RowsStep
      <4> QED
        BY <3>6, <4>2, <4>3
    <3>9. PICK sb, sa : sb = Span(b, k, e) /\ sa = Span(a, n, y)
      OBVIOUS
    <3>10. sb \in Spans(b) /\ sa \in Spans(a)
      <4>1. /\ k \in 1..Len(b) /\ e \in 1..Len(b)
            /\ n \in 1..Len(a) /\ y \in 1..Len(a)
        BY <1>0, <1>2, <2>0, <2>1, <3>3, <3>5
      <4>2. Span(b, k, e) \in Spans(b)
        BY <4>1, SpanIn
      <4>3. Span(a, n, y) \in Spans(a)
        BY <4>1, SpanIn
      <4> QED
        BY <3>9, <4>2, <4>3
    <3>11. sa = MovedSpan(sb, d)
      <4>1. a[n].from = d + b[k].from /\ a[y].from = d + b[e].from
        BY <1>1, <2>1, <3>3
      <4> QED
        BY <3>9, <4>1 DEF Span, MovedSpan
    <3>12. RowsFrom(b, k, arity) = RowFirst(sb, rb) /\ RowsFrom(a, n, arity) = RowFirst(sa, ra)
      BY <2>4, <2>5, <2>7, <3>2, <3>3, <3>4, <3>6, <3>9
    <3>13. RowFirst(sb, rb).spans = <<sb>> \o rb.spans
      BY <3>8, <3>10, RowFirstIs
    <3>14. RowFirst(sa, ra).spans = <<sa>> \o ra.spans
      BY <3>8, <3>10, RowFirstIs
    <3>15. rb.spans \in Seq(Spans(b)) /\ ra.spans \in Seq(Spans(a))
      BY <3>8 DEF RowLists
    <3>16. MovedSpans(<<sb>> \o rb.spans, <<sa>> \o ra.spans, d)
      BY <3>7, <3>10, <3>11, <3>15, MovedSpansGrow
    <3>17. MovedSpans(RowsFrom(b, k, arity).spans, RowsFrom(a, n, arity).spans, d)
      BY <3>12, <3>13, <3>14, <3>16
    <3> QED
      BY <2>1, <3>17
  <2> QED
    BY <2>6, <2>7
<1> HIDE DEF U
<1>5. 1 \in Int /\ lb \in Int
  OBVIOUS
<1>6. 1..lb \subseteq U
  BY <1>4, <1>5, BackwardInductive
<1>7. at \in U
  BY <1>0, <1>6
<1> QED
  BY <1>7 DEF U

\* The rows after a punctuation token are those of the text after it.
LEMMA RowsAfter ==
  ASSUME NEW u \in Seq(ByteClass), NEW n \in 1..(Len(Tokens(u)) - 1),
         Tokens(u)[n].kind \in Punctuation,
         NEW e \in Nat, e = Tokens(u)[n].from, NEW w \in Seq(ByteClass), RestOf(w, u, e),
         NEW arity, NEW m \in Nat, m = n + 1
  PROVE  MovedSpans(RowsFrom(Tokens(w), 1, arity).spans, RowsFrom(Tokens(u), m, arity).spans, e)
<1>1. PICK a, b : a = Tokens(u) /\ b = Tokens(w)
  OBVIOUS
<1>2. TailOf(b, a, n, e)
  BY <1>1, TokensAfter
<1>3. /\ a \in Seq(Lexed(u)) /\ b \in Seq(Lexed(w))
      /\ Len(b) \in Nat /\ Len(b) >= 1 /\ b[Len(b)].kind = "Eof"
  BY <1>1, TokensAre
<1>4. ASSUME NEW j \in 1..Len(b) PROVE b[j].from \in Int
  <2>1. b = TokensFrom(w, 1) /\ 1 \in 1..(Len(w) + 1)
    BY <1>1, TokensAre
  <2>2. TokenPlace(w, b, j, 1)
    BY <2>1, TokenPlaces
  <2>3. b[j].from \in 1..(Len(w) + 1)
    BY <2>2 DEF TokenPlace
  <2> QED
    BY <2>3
<1>5. 1 \in 1..Len(b) /\ n \in Nat /\ e \in Int /\ m = n + 1
  BY <1>3
<1>6. MovedSpans(RowsFrom(b, 1, arity).spans, RowsFrom(a, m, arity).spans, e)
  BY <1>2, <1>3, <1>4, <1>5, RowsTail
<1> QED
  BY <1>1, <1>6

\* A row that starts with the first token of a text is a row in a text that ends
\* with it.
LEMMA RowAlone ==
  ASSUME NEW v \in Seq(ByteClass), NEW h \in 1..Len(v), NEW arity,
         NEW end \in 1..Len(Tokens(v)), RowAtToken(Tokens(v), 1, arity) = end,
         Tokens(v)[end].from = h
  PROVE  ParseRow(SubSeq(v, 1, h), arity)
<1>1. PICK lv \in Nat : lv = Len(v)
  OBVIOUS
<1>2. PICK s : s = SubSeq(v, 1, h)
  OBVIOUS
<1>3. s \in Seq(ByteClass) /\ Len(s) = h /\ \A k \in 1..h : s[k] = v[k]
  <2>1. 1 \in Int /\ h \in Int /\ \A k \in 1..h : k \in 1..Len(v)
    BY <1>1
  <2>2. \A k \in 1..h : v[k] \in ByteClass
    BY <2>1
  <2> QED
    BY <1>1, <1>2, <2>1, <2>2, SubSeqProperties
<1>4. Agree(v, s, h)
  BY <1>1, <1>3 DEF Agree
<1>5. PICK b, a : b = Tokens(v) /\ a = Tokens(s)
  OBVIOUS
<1>6. /\ b \in Seq(Lexed(v)) /\ a \in Seq(Lexed(s)) /\ b = TokensFrom(v, 1) /\ a = TokensFrom(s, 1)
      /\ Len(b) \in Nat /\ Len(a) \in Nat
  BY <1>3, <1>5, TokensAre
<1>7. PICK x : x = RowAtToken(b, 1, arity)
  OBVIOUS
<1>8. x = end /\ end # 0 /\ 1 \in 1..Len(b) /\ end \in 1..Len(b)
  BY <1>5, <1>6, <1>7
<1>9. IsList(b, 1, end)
  BY <1>6, <1>7, <1>8, RowEndIs
<1>10. ByteWithin(b, end, h)
  <2>1. b[end].kind = ")" /\ b[end].from = h
    BY <1>5, <1>9 DEF IsList
  <2>2. b[end].kind \in Punctuation
    BY <2>1, Zenon DEF Punctuation
  <2> QED
    BY <2>1, <2>2 DEF ByteWithin
<1>11. end <= Len(a) /\ \A j \in 1..end : a[j] = b[j]
  <2>1. 1 \in 1..(h + 1) /\ h \in Nat
    OBVIOUS
  <2>2. end \in 1..Len(TokensFrom(v, 1)) /\ ByteWithin(TokensFrom(v, 1), end, h)
    BY <1>6, <1>8, <1>10
  <2>3. /\ end <= Len(TokensFrom(s, 1))
        /\ \A j \in 1..end : TokensFrom(s, 1)[j] = TokensFrom(v, 1)[j]
    BY <1>3, <1>4, <2>1, <2>2, TokensAgree
  <2> QED
    BY <1>6, <2>3
<1>12. SameUpTo(b, a, end)
  BY <1>6, <1>8, <1>11 DEF SameUpTo
<1>13. PICK all, yes : all = Values /\ yes = TRUE
  OBVIOUS
<1>14. ListEnd(b, 1, all, yes) = end /\ Items(b, 1, end) = arity
  <2>1. RowAtToken(b, 1, arity)
          = IF b[1].kind = "(" THEN (IF ListEnd(b, 1, all, yes) > 0 /\ Items(b, 1, ListEnd(b, 1, all, yes)) = arity
                                     THEN ListEnd(b, 1, all, yes) ELSE 0) ELSE 0
    BY <1>13 DEF RowAtToken, RowEnd
  <2> QED
    BY <1>7, <1>8, <2>1
<1>15. ListEnd(a, 1, all, yes) = end
  <2>1. \A c \in all : c \in Values
    BY <1>13
  <2>2. end \in Nat /\ 1 \in 1..end /\ end \in 1..end
    BY <1>8
  <2>3. PICK L : L = Lexed(v) \cup Lexed(s)
    OBVIOUS
  <2>4. b \in Seq(L) /\ a \in Seq(L)
    <3>1. Lexed(v) \subseteq L /\ Lexed(s) \subseteq L
      BY <2>3
    <3>2. Seq(Lexed(v)) \subseteq Seq(L) /\ Seq(Lexed(s)) \subseteq Seq(L)
      BY <3>1, SeqMonotonic
    <3> QED
      BY <1>6, <3>2
  <2>5. ListEnd(b, 1, all, yes) = end /\ end # 0
    BY <1>8, <1>14
  <2> QED
    BY ONLY <1>12, <2>1, <2>2, <2>4, <2>5, ListEndSame
<1>16. Items(a, 1, end) = Items(b, 1, end)
  <2>1. end \in Nat /\ 1 \in 1..end /\ end \in 1..end
    BY <1>8
  <2> QED
    BY <1>12, <2>1, ItemsSame
<1>17. RowEnd(a, 1, arity) = IF end > 0 /\ Items(a, 1, end) = arity THEN end ELSE 0
  BY <1>13, <1>15 DEF RowEnd
<1>18. end > 0
  BY <1>8
<1>19. RowEnd(a, 1, arity) > 0
  BY <1>14, <1>16, <1>17, <1>18
<1> QED
  BY <1>2, <1>5, <1>19 DEF ParseRow

\* After n spans come those of a text that starts d places further on.
Follows(spans, n, after, d) ==
  /\ Len(after) \in Nat /\ Len(spans) = n + Len(after)
  /\ \A j \in 1..Len(after) : spans[n + j] = MovedSpan(after[j], d)

\* The text from position x on.
LEMMA RestFrom ==
  ASSUME NEW w \in Seq(ByteClass), NEW x \in 1..Len(w), NEW d \in Nat, d = x - 1
  PROVE  SubSeq(w, x, Len(w)) \in Seq(ByteClass) /\ RestOf(SubSeq(w, x, Len(w)), w, d)
<1>1. PICK l \in Nat : l = Len(w) /\ x \in 1..l
  OBVIOUS
<1>2. PICK v : v = SubSeq(w, x, l)
  OBVIOUS
<1>3. \A k \in x..l : w[k] \in ByteClass
  BY <1>1
<1>4. v \in Seq(ByteClass) /\ Len(v) = l - x + 1 /\ \A k \in 1..(l - x + 1) : v[k] = w[x + k - 1]
  BY <1>1, <1>2, <1>3, SubSeqProperties
<1>5. ASSUME NEW k \in 1..Len(v) PROVE w[k + d] = v[k]
  <2>1. k \in 1..(l - x + 1) /\ x + k - 1 = k + d
    BY <1>1, <1>4
  <2> QED
    BY <1>4, <2>1
<1>6. l = d + Len(v)
  BY <1>1, <1>4
<1> QED
  BY <1>1, <1>2, <1>4, <1>5, <1>6 DEF RestOf

\* A part of a text, byte by byte.
LEMMA PartIs ==
  ASSUME NEW S, NEW w \in Seq(S), NEW x \in 1..Len(w), NEW y \in x..Len(w),
         NEW n \in Nat, n = y - x + 1
  PROVE  /\ SubSeq(w, x, y) \in Seq(S) /\ Len(SubSeq(w, x, y)) = n
         /\ \A k \in 1..n : SubSeq(w, x, y)[k] = w[x + k - 1]
<1>1. x \in Int /\ y \in Int /\ x <= y
  OBVIOUS
<1>2. \A k \in x..y : k \in 1..Len(w)
  OBVIOUS
<1>3. \A k \in x..y : w[k] \in S
  BY <1>2
<1> QED
  BY <1>1, <1>3, SubSeqProperties

\* A part of the rest of a text is a part of the text.
LEMMA PartOfRest ==
  ASSUME NEW w \in Seq(ByteClass), NEW v \in Seq(ByteClass), NEW d \in Nat, RestOf(v, w, d),
         NEW h \in 1..Len(v), NEW x \in Nat, x = d + 1, NEW y \in Nat, y = d + h
  PROVE  SubSeq(v, 1, h) = SubSeq(w, x, y)
<1>1. PICK lv \in Nat, lw \in Nat : lv = Len(v) /\ lw = Len(w) /\ lw = d + lv /\ h \in 1..lv
  BY DEF RestOf
<1>2. \A k \in 1..lv : w[k + d] = v[k]
  BY <1>1 DEF RestOf
<1>3. PICK p, q : p = SubSeq(v, 1, h) /\ q = SubSeq(w, x, y)
  OBVIOUS
<1>4. p \in Seq(ByteClass) /\ Len(p) = h /\ \A k \in 1..h : p[k] = v[1 + k - 1]
  <2>1. PICK one \in 1..Len(v) : one = 1
    BY <1>1
  <2>2. h \in one..Len(v) /\ h \in Nat /\ h = h - one + 1
    BY <1>1, <2>1
  <2>3. /\ SubSeq(v, one, h) \in Seq(ByteClass) /\ Len(SubSeq(v, one, h)) = h
        /\ \A k \in 1..h : SubSeq(v, one, h)[k] = v[one + k - 1]
    BY <2>2, PartIs
  <2> QED
    BY <1>3, <2>1, <2>3
<1>5. q \in Seq(ByteClass) /\ Len(q) = h /\ \A k \in 1..h : q[k] = w[x + k - 1]
  <2>1. x \in 1..Len(w) /\ y \in x..Len(w) /\ h \in Nat /\ h = y - x + 1
    BY <1>1
  <2> QED
    BY <1>3, <2>1, PartIs
<1>6. ASSUME NEW k \in 1..h PROVE p[k] = q[k]
  <2>1. x + k - 1 = k + d /\ k \in 1..lv /\ 1 + k - 1 = k
    BY <1>1
  <2> QED
    BY <1>2, <1>4, <1>5, <2>1
<1>7. p = q
  BY <1>4, <1>5, <1>6, SeqEqual
<1> QED
  BY <1>3, <1>7

\* The first row of a text, and the text after it.
FirstRowAt(w, arity, spans, x, y) ==
  /\ x \in 1..Len(w) /\ y \in x..Len(w)
  /\ spans[1] = [from |-> x, to |-> y]
  /\ ParseRow(SubSeq(w, x, y), arity)
  /\ \A v \in Seq(ByteClass) :
       RestOf(v, w, y) => Follows(spans, 1, RowsFrom(Tokens(v), 1, arity).spans, y)

\* When the parser reads rows at the start of a text, the first is a row by itself too,
\* and the others are the rows of the text after it.
LEMMA FirstRow ==
  ASSUME NEW w \in Seq(ByteClass), NEW arity, NEW spans,
         spans = RowsFrom(Tokens(w), 1, arity).spans, spans # <<>>
  PROVE  \E x, y : FirstRowAt(w, arity, spans, x, y)
<1>1. PICK t : t = Tokens(w)
  OBVIOUS
<1>2. /\ t \in Seq(Lexed(w)) /\ Len(t) \in Nat /\ Len(t) >= 1 /\ t[Len(t)].kind = "Eof"
      /\ t = TokensFrom(w, 1) /\ 1 \in 1..(Len(w) + 1) /\ 1 \in 1..Len(t)
  BY <1>1, TokensAre
<1>3. PICK end : end = RowAtToken(t, 1, arity)
  OBVIOUS
<1>4. /\ end = 0 => RowsFrom(t, 1, arity) = [spans |-> <<>>, next |-> 1]
      /\ end # 0 => /\ end + 1 \in (1 + 1)..Len(t)
                    /\ RowsFrom(t, 1, arity) = RowFirst(Span(t, 1, end), RowsFrom(t, end + 1, arity))
  BY <1>2, <1>3, RowsStep
<1>5. end # 0
  BY <1>1, <1>4
<1>6. IsList(t, 1, end)
  BY <1>2, <1>3, <1>5, RowEndIs
<1>7. end \in 2..Len(t) /\ t[end].kind = ")" /\ end # Len(t)
  BY <1>2, <1>6 DEF IsList
<1>8. end \in 1..(Len(t) - 1) /\ end \in 1..Len(t) /\ 1 \in 1..(Len(t) - 1)
  BY <1>2, <1>7
<1>9. PICK x, y : x = t[1].from /\ y = t[end].from
  OBVIOUS
<1>10. x \in 1..Len(w) /\ y \in 1..Len(w)
  <2>1. PICK C : C = {}
    OBVIOUS
  <2>2. "nl" \notin C /\ "sp" \notin C
    BY <2>1
  <2>3. ASSUME NEW n \in 1..(Len(t) - 1) PROVE t[n].from \in 1..Len(w)
    <3>1. n \in 1..(Len(TokensFrom(w, 1)) - 1)
      BY <1>2
    <3>2. TokenGap(w, TokensFrom(w, 1), n, 1, C)
      BY <1>2, <2>2, <3>1, TokenGaps
    <3> QED
      BY <1>2, <3>2 DEF TokenGap
  <2> QED
    BY <1>8, <1>9, <2>3
<1>11. PICK d \in Nat : d = x - 1 /\ x = d + 1
  <2>1. x - 1 \in Nat /\ x = (x - 1) + 1
    BY <1>10
  <2> QED
    BY <2>1
<1>12. PICK v : v = SubSeq(w, x, Len(w))
  OBVIOUS
<1>13. v \in Seq(ByteClass) /\ RestOf(v, w, d)
  BY <1>10, <1>11, <1>12, RestFrom
<1>14. PICK b : b = Tokens(v)
  OBVIOUS
<1>15. TailOf(b, t, 0, d)
  BY <1>1, <1>9, <1>11, <1>13, <1>14, TokensOfFirst
<1>16. b \in Seq(Lexed(v)) /\ Len(b) = Len(t) /\ 1 \in 1..Len(b) /\ end \in 1..(Len(b) - 1)
       /\ b = TokensFrom(v, 1) /\ 1 \in 1..(Len(v) + 1)
  <2>1. b \in Seq(Lexed(v)) /\ Len(b) \in Nat /\ b = TokensFrom(v, 1) /\ 1 \in 1..(Len(v) + 1)
    BY <1>13, <1>14, TokensAre
  <2>2. Len(b) = Len(t)
    BY <1>2, <1>15, <2>1 DEF TailOf
  <2> QED
    BY <1>2, <1>8, <2>1, <2>2
<1>17. RowAtToken(b, 1, arity) = end
  <2>1. PICK p \in Nat, m \in Nat : p = 0 /\ m = 1 /\ m = p + 1
    OBVIOUS
  <2>2. PICK z : z = RowAtToken(b, 1, arity)
    OBVIOUS
  <2>3. end = IF z = 0 THEN 0 ELSE p + z
    <3>1. RowAtToken(t, m, arity)
            = IF RowAtToken(b, 1, arity) = 0 THEN 0 ELSE p + RowAtToken(b, 1, arity)
      BY <1>2, <1>15, <1>16, <2>1, RowTail
    <3> QED
      BY <1>3, <2>1, <2>2, <3>1
  <2>4. z # 0 /\ end = p + z
    BY <1>5, <2>3
  <2>5. IsList(b, 1, z)
    BY <1>16, <2>2, <2>4, RowEndIs
  <2>6. z \in (1 + 1)..Len(b)
    BY <2>5 DEF IsList
  <2>7. z \in Int
    BY <2>6
  <2> QED
    BY <2>1, <2>2, <2>4, <2>7
<1>18. PICK h : h = b[end].from
  OBVIOUS
<1>19. h \in 1..Len(v) /\ y = d + h
  <2>1. h \in 1..Len(v)
    <3>1. PICK C : C = {}
      OBVIOUS
    <3>2. "nl" \notin C /\ "sp" \notin C
      BY <3>1
    <3>3. end \in 1..(Len(TokensFrom(v, 1)) - 1)
      BY <1>16
    <3>4. TokenGap(v, TokensFrom(v, 1), end, 1, C)
      BY <1>13, <1>16, <3>2, <3>3, TokenGaps
    <3> QED
      BY <1>16, <1>18, <3>4 DEF TokenGap
  <2>2. t[0 + end] = MovedToken(b[end], d)
    BY <1>8, <1>15, <1>16 DEF TailOf
  <2>3. 0 + end = end
    BY <1>8
  <2>4. t[end].from = h + d
    BY <1>18, <2>2, <2>3, TokenFields DEF MovedToken
  <2> QED
    BY <1>9, <2>1, <2>4
<1>20. y \in x..Len(w)
  BY <1>10, <1>11, <1>19
<1>21. ParseRow(SubSeq(w, x, y), arity)
  <2>1. end \in 1..Len(b)
    BY <1>8, <1>16
  <2>2. ParseRow(SubSeq(v, 1, h), arity)
    BY <1>13, <1>14, <1>17, <1>18, <1>19, <2>1, RowAlone
  <2>3. SubSeq(v, 1, h) = SubSeq(w, x, y)
    BY <1>10, <1>11, <1>13, <1>19, PartOfRest
  <2> QED
    BY <2>2, <2>3
<1>22. PICK rest : rest = RowsFrom(t, end + 1, arity)
  OBVIOUS
<1>23. rest \in RowLists(t)
  <2>1. end + 1 \in 1..Len(t)
    BY <1>8
  <2> QED
    BY <1>2, <1>22, <2>1, RowsStep
<1>24. spans = <<Span(t, 1, end)>> \o rest.spans
  <2>1. Span(t, 1, end) \in Spans(t)
    BY <1>2, <1>8, SpanIn
  <2>2. RowFirst(Span(t, 1, end), rest).spans = <<Span(t, 1, end)>> \o rest.spans
    BY <1>23, <2>1, RowFirstIs
  <2> QED
    BY <1>1, <1>4, <1>5, <1>22, <2>2
<1>25. PICK n \in Nat : n = Len(rest.spans) /\ rest.spans \in Seq(Spans(t))
  BY <1>23 DEF RowLists
<1>26. /\ Len(spans) = 1 + n
       /\ \A j \in 1..(1 + n) : spans[j] = IF j <= 1 THEN Span(t, 1, end) ELSE rest.spans[j - 1]
  <2>1. Span(t, 1, end) \in Spans(t)
    BY <1>2, <1>8, SpanIn
  <2> QED
    BY <1>24, <1>25, <2>1, InFront
<1>27. spans[1] = [from |-> x, to |-> y]
  <2>1. 1 \in 1..(1 + n) /\ 1 <= 1
    BY <1>25
  <2>2. spans[1] = Span(t, 1, end)
    BY <1>26, <2>1
  <2> QED
    BY <1>9, <2>2 DEF Span
<1>28. ASSUME NEW u \in Seq(ByteClass), RestOf(u, w, y)
       PROVE  Follows(spans, 1, RowsFrom(Tokens(u), 1, arity).spans, y)
  <2>1. PICK after : after = RowsFrom(Tokens(u), 1, arity).spans
    OBVIOUS
  <2>2. MovedSpans(after, rest.spans, y)
    <3>1. t[end].kind \in Punctuation
      BY <1>7, Zenon DEF Punctuation
    <3>2. PICK m \in Nat : m = end + 1
      BY <1>8
    <3>3. end \in 1..(Len(Tokens(w)) - 1) /\ Tokens(w)[end].kind \in Punctuation
          /\ y \in Nat /\ y = Tokens(w)[end].from
      BY <1>1, <1>8, <1>9, <1>10, <3>1
    <3>4. MovedSpans(RowsFrom(Tokens(u), 1, arity).spans, RowsFrom(Tokens(w), m, arity).spans, y)
      BY <1>28, <3>2, <3>3, RowsAfter
    <3> QED
      BY <1>1, <1>22, <2>1, <3>2, <3>4
  <2>3. Len(after) = n /\ \A j \in 1..n : rest.spans[j] = MovedSpan(after[j], y)
    BY <1>25, <2>2 DEF MovedSpans
  <2>4. ASSUME NEW j \in 1..n PROVE spans[1 + j] = MovedSpan(after[j], y)
    <3>1. 1 + j \in 1..(1 + n) /\ ~(1 + j <= 1) /\ (1 + j) - 1 = j
      BY <1>25
    <3>2. spans[1 + j] = rest.spans[j]
      BY <1>26, <3>1
    <3> QED
      BY <2>3, <3>2
  <2>5. Follows(spans, 1, after, y)
    BY <1>25, <1>26, <2>3, <2>4 DEF Follows
  <2> QED
    BY <2>1, <2>5
<1>29. FirstRowAt(w, arity, spans, x, y)
  BY <1>10, <1>20, <1>21, <1>27, <1>28 DEF FirstRowAt
<1> QED
  BY <1>29

\* The rows of a document are those of the text after the parenthesis that ends
\* its header.
LEMMA RowsAfterHeader ==
  ASSUME NEW u \in Seq(ByteClass), Dataset(u).columns # 0,
         NEW e, e = ScanHeaderEnd(u), NEW w \in Seq(ByteClass), RestOf(w, u, e)
  PROVE  /\ e \in 1..Len(u)
         /\ MovedSpans(RowsFrom(Tokens(w), 1, Dataset(u).columns).spans, Dataset(u).rows, e)
<1>1. PICK t : t = Tokens(u)
  OBVIOUS
<1>2. PICK c : c = Header(t).columns
  OBVIOUS
<1>3. Dataset(u).columns = c /\ c # 0 /\ Dataset(u).rows = RowsFrom(t, Header(t).next, c).spans
  <2>1. c = 0 => Dataset(u).columns = 0
    BY <1>1, <1>2 DEF Dataset
  <2>2. c # 0 => Dataset(u).columns = c /\ Dataset(u).rows = RowsFrom(t, Header(t).next, c).spans
    BY <1>1, <1>2 DEF Dataset
  <2> QED
    BY <2>1, <2>2
<1>4. PICK at, list, end : /\ HeaderIn(u, at, list, end)
                           /\ end \in 1..(Len(Tokens(u)) - 1)
                           /\ Header(Tokens(u)).next = end + 1
                           /\ Tokens(u)[end].from \in 1..Len(u)
  BY <1>1, <1>2, <1>3, HeaderParts
<1>5. e = t[end].from /\ e \in 1..Len(u)
  BY <1>1, <1>4, HeaderIsScanned
<1>6. t[end].kind \in Punctuation
  <2>1. t \in Seq(Lexed(u)) /\ Len(t) >= 1 /\ t[Len(t)].kind = "Eof"
    BY <1>1, TokensAre
  <2>2. IsHeader(t, at, list, end)
    BY <1>1, <1>4 DEF HeaderIn
  <2>3. IsList(t, list, end)
    BY <2>1, <2>2, HeaderShape
  <2>4. t[end].kind = ")"
    BY <2>3 DEF IsList
  <2> QED
    BY <2>4, Zenon DEF Punctuation
<1>7. PICK m \in Nat : m = end + 1
  BY <1>4
<1>8. MovedSpans(RowsFrom(Tokens(w), 1, c).spans, RowsFrom(Tokens(u), m, c).spans, e)
  <2>1. /\ end \in 1..(Len(Tokens(u)) - 1) /\ Tokens(u)[end].kind \in Punctuation
        /\ e \in Nat /\ e = Tokens(u)[end].from
    BY <1>1, <1>4, <1>5, <1>6
  <2> QED
    BY <1>7, <2>1, RowsAfter
<1> QED
  BY <1>1, <1>3, <1>4, <1>5, <1>7, <1>8

\* The rows of a text are spans of positions.
LEMMA SpansOfText ==
  ASSUME NEW w \in Seq(ByteClass), NEW arity, NEW k \in 1..Len(Tokens(w)),
         NEW spans, spans = RowsFrom(Tokens(w), k, arity).spans
  PROVE  /\ spans \in Seq(Spans(Tokens(w))) /\ Len(spans) \in Nat
         /\ \A j \in 1..Len(spans) : spans[j].from \in Int /\ spans[j].to \in Int
<1>1. PICK t : t = Tokens(w)
  OBVIOUS
<1>2. /\ t \in Seq(Lexed(w)) /\ Len(t) \in Nat /\ Len(t) >= 1 /\ t[Len(t)].kind = "Eof"
      /\ t = TokensFrom(w, 1) /\ 1 \in 1..(Len(w) + 1) /\ k \in 1..Len(t)
  BY <1>1, TokensAre
<1>3. PICK rows : rows = RowsFrom(t, k, arity)
  OBVIOUS
<1>4. rows \in RowLists(t)
  BY <1>2, <1>3, RowsStep
<1>5. spans \in Seq(Spans(t)) /\ Len(spans) \in Nat
  BY <1>1, <1>3, <1>4 DEF RowLists
<1>6. ASSUME NEW n \in 1..Len(t) PROVE t[n].from \in Int
  <2>1. TokenPlace(w, t, n, 1)
    BY <1>2, TokenPlaces
  <2>2. t[n].from \in 1..(Len(w) + 1)
    BY <2>1 DEF TokenPlace
  <2> QED
    BY <2>2
<1>7. ASSUME NEW span \in Spans(t) PROVE span.from \in Int /\ span.to \in Int
  <2>1. PICK n \in 1..Len(t), end \in 1..Len(t) : span = Span(t, n, end)
    BY DEF Spans
  <2>2. span.from = t[n].from /\ span.to = t[end].from
    BY <2>1 DEF Span
  <2> QED
    BY <1>6, <2>2
<1>8. ASSUME NEW j \in 1..Len(spans) PROVE spans[j].from \in Int /\ spans[j].to \in Int
  <2>1. spans[j] \in Spans(t)
    BY <1>5
  <2> QED
    BY <1>7, <2>1
<1> QED
  BY <1>1, <1>5, <1>8

\* After one of the rows that are left come those of the text after it.
LEMMA FollowsOn ==
  ASSUME NEW spans, NEW n \in Nat, NEW left, NEW d \in Int, Follows(spans, n, left, d),
         NEW after, NEW y \in Int, Follows(left, 1, after, y),
         \A j \in 1..Len(after) : after[j].from \in Int /\ after[j].to \in Int,
         NEW m \in Nat, m = n + 1, NEW e \in Int, e = d + y
  PROVE  Follows(spans, m, after, e)
<1>1. PICK l \in Nat : l = Len(after) /\ Len(left) = 1 + l /\ Len(spans) = n + (1 + l)
  BY DEF Follows
<1>2. Len(spans) = m + l
  <2>1. n + (1 + l) = m + l
    BY ONLY n \in Nat, l \in Nat, m = n + 1
  <2> QED
    BY <1>1, <2>1
<1>3. ASSUME NEW j \in 1..l PROVE spans[m + j] = MovedSpan(after[j], e)
  <2>1. PICK k \in 1..(1 + l) : k = 1 + j /\ n + k = m + j
    <3>1. 1 + j \in 1..(1 + l) /\ n + (1 + j) = m + j
      OBVIOUS
    <3> QED
      BY <3>1
  <2>2. spans[n + k] = MovedSpan(left[k], d)
    BY <1>1 DEF Follows
  <2>3. left[k] = MovedSpan(after[j], y)
    BY <1>1, <2>1 DEF Follows
  <2>4. PICK a \in Int, b \in Int : a = after[j].from /\ b = after[j].to
    BY <1>1
  <2>5. left[k].from = y + a /\ left[k].to = y + b
    BY <2>3, <2>4 DEF MovedSpan
  <2>6. spans[n + k] = [from |-> d + (y + a), to |-> d + (y + b)]
    BY <2>2, <2>5 DEF MovedSpan
  <2>7. d + (y + a) = e + a /\ d + (y + b) = e + b
    BY ONLY a \in Int, b \in Int, d \in Int, y \in Int, e = d + y
  <2> QED
    BY <2>1, <2>4, <2>6, <2>7 DEF MovedSpan
<1> QED
  BY <1>1, <1>2, <1>3 DEF Follows

\* Rows that were moved twice.
LEMMA MovedTwice ==
  ASSUME NEW spans, NEW left, NEW d \in Int, MovedSpans(left, spans, d),
         NEW after, NEW y \in Int, MovedSpans(after, left, y), Len(after) \in Nat,
         \A j \in 1..Len(after) : after[j].from \in Int /\ after[j].to \in Int,
         NEW e \in Int, e = d + y
  PROVE  Follows(spans, 0, after, e)
<1>1. PICK l \in Nat : l = Len(after) /\ Len(left) = l /\ Len(spans) = l
  BY DEF MovedSpans
<1>2. Len(spans) = 0 + l
  BY <1>1
<1>3. ASSUME NEW j \in 1..l PROVE spans[0 + j] = MovedSpan(after[j], e)
  <2>1. 0 + j = j
    OBVIOUS
  <2>2. spans[j] = MovedSpan(left[j], d)
    BY <1>1 DEF MovedSpans
  <2>3. left[j] = MovedSpan(after[j], y)
    BY <1>1 DEF MovedSpans
  <2>4. PICK a \in Int, b \in Int : a = after[j].from /\ b = after[j].to
    BY <1>1
  <2>5. left[j].from = y + a /\ left[j].to = y + b
    BY <2>3, <2>4 DEF MovedSpan
  <2>6. spans[j] = [from |-> d + (y + a), to |-> d + (y + b)]
    BY <2>2, <2>5 DEF MovedSpan
  <2>7. d + (y + a) = e + a /\ d + (y + b) = e + b
    BY ONLY a \in Int, b \in Int, d \in Int, y \in Int, e = d + y
  <2> QED
    BY <2>1, <2>4, <2>6, <2>7 DEF MovedSpan
<1> QED
  BY <1>1, <1>2, <1>3 DEF Follows

\* The parser reads a list of rows in every text.
LEMMA RowsOfDataset ==
  ASSUME NEW u \in Seq(ByteClass)
  PROVE  \E S : Dataset(u).rows \in Seq(S)
<1>1. PICK t, c : t = Tokens(u) /\ c = Header(t).columns
  OBVIOUS
<1>2. CASE c = 0
  <2>1. Dataset(u).rows = <<>>
    BY <1>1, <1>2 DEF Dataset
  <2> QED
    BY <2>1
<1>3. CASE c # 0
  <2>1. Dataset(u).rows = RowsFrom(t, Header(t).next, c).spans
    BY <1>1, <1>3 DEF Dataset
  <2>2. PICK at, list, end : /\ end \in 1..(Len(Tokens(u)) - 1)
                             /\ Header(Tokens(u)).next = end + 1
    BY <1>1, <1>3, HeaderParts
  <2>3. PICK k \in 1..Len(t) : k = Header(t).next
    <3>1. Len(t) \in Nat
      BY <1>1, TokensAre
    <3>2. end + 1 \in 1..Len(t)
      BY <1>1, <2>2, <3>1
    <3> QED
      BY <1>1, <2>2, <3>2
  <2>4. Dataset(u).rows \in Seq(Spans(Tokens(u)))
    BY <1>1, <2>1, <2>3, SpansOfText
  <2> QED
    BY <2>4
<1> QED
  BY <1>2, <1>3
=============================================================================
