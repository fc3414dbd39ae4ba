------------------------------ MODULE Induction ------------------------------
(***************************************************************************)
(* Induction and recursion over the natural numbers, in the first-order    *)
(* form the proofs use: a property is a set, a step of a recursion a       *)
(* function.  They rest on the well-foundedness of the strict subset       *)
(* ordering on finite sets.                                                *)
(***************************************************************************)
EXTENDS Integers, FiniteSetTheorems, WellFoundedInduction, TLAPS

\* The strict subset ordering tells intervals apart by their last element.
LEMMA IntervalBelow ==
  ASSUME NEW x \in Nat, NEW y \in Nat, y < x
  PROVE  <<0..y, 0..x>> \in StrictSubsetOrdering(Nat)
<1>1. 0..y \in SUBSET Nat /\ 0..x \in SUBSET Nat
  OBVIOUS
<1>2. <<0..y, 0..x>> \in (SUBSET Nat) \X (SUBSET Nat)
  BY <1>1
<1>3. 0..y \subseteq 0..x
  OBVIOUS
<1>4. x \in 0..x /\ x \notin 0..y
  OBVIOUS
<1>5. 0..y # 0..x
  BY <1>4
<1> QED
  BY <1>2, <1>3, <1>5 DEF StrictSubsetOrdering

\* Every set of naturals that is not empty has a least element.
LEMMA LeastNatural ==
  ASSUME NEW T, T \subseteq Nat, T # {}
  PROVE  \E x \in T : \A y \in T : x <= y
<1> DEFINE U == {0..n : n \in T}
<1>1. \A n \in T : IsFiniteSet(0..n) /\ 0..n \in SUBSET Nat
  BY FS_Interval
<1>2. U \subseteq FiniteSubsetsOf(Nat)
  <2> SUFFICES ASSUME NEW n \in T PROVE 0..n \in FiniteSubsetsOf(Nat)
    OBVIOUS
  <2> QED
    BY <1>1 DEF FiniteSubsetsOf
<1>3. U # {}
  OBVIOUS
<1>4. IsWellFoundedOn(StrictSubsetOrdering(Nat), FiniteSubsetsOf(Nat))
  BY FS_StrictSubsetOrderingWellFounded
<1> HIDE DEF U
<1>5. PICK u \in U : \A v \in U : ~(<<v, u>> \in StrictSubsetOrdering(Nat))
  BY <1>2, <1>3, <1>4, WFMin
<1>6. PICK x \in T : u = 0..x
  BY DEF U
<1>7. ASSUME NEW y \in T, y < x
      PROVE  FALSE
  <2>1. <<0..y, 0..x>> \in StrictSubsetOrdering(Nat)
    BY <1>7, IntervalBelow
  <2>2. 0..y \in U
    BY DEF U
  <2> QED
    BY <1>5, <1>6, <2>1, <2>2
<1> QED
  BY <1>7

\* Induction: a set that has 0, and with a number the next, has them all.
LEMMA NatInductive ==
  ASSUME NEW S, 0 \in S, \A n \in Nat : n \in S => n + 1 \in S
  PROVE  Nat \subseteq S
<1> DEFINE T == Nat \ S
<1>1. ASSUME T # {} PROVE FALSE
  <2>1. PICK x \in T : \A y \in T : x <= y
    BY <1>1, LeastNatural
  <2>2. x # 0 /\ x - 1 \in Nat /\ x - 1 \notin T
    BY <2>1
  <2>3. x - 1 \in S
    BY <2>2
  <2> QED
    BY <2>1, <2>2, <2>3
<1> QED
  BY <1>1

-----------------------------------------------------------------------------
(***************************************************************************)
(* Recursion.  G[n] gives the value at n from the values before it.        *)
(***************************************************************************)
NatsBefore(n) == 0..(n - 1)

Past(h, n) == [m \in NatsBefore(n) |-> h[m]]

IsRecursion(G, S) ==
  DOMAIN G = Nat /\ \A n \in Nat : G[n] \in [[NatsBefore(n) -> S] -> S]

FollowsSteps(G, h, n) == \A m \in NatsBefore(n) : h[m] = G[m][Past(h, m)]

\* Two functions that follow the same steps agree.
LEMMA FollowersAgree ==
  ASSUME NEW G, NEW n \in Nat, NEW p \in Nat, NEW g, NEW h,
         FollowsSteps(G, g, n), FollowsSteps(G, h, p)
  PROVE  \A m \in NatsBefore(n) \cap NatsBefore(p) : g[m] = h[m]
<1> DEFINE T == {m \in NatsBefore(n) \cap NatsBefore(p) : g[m] # h[m]}
<1>1. ASSUME T # {} PROVE FALSE
  <2>1. T \subseteq Nat
    BY DEF NatsBefore
  <2>2. PICK m \in T : \A k \in T : m <= k
    BY <1>1, <2>1, LeastNatural
  <2>3. m \in Nat /\ m < n /\ m < p
    BY <2>1 DEF NatsBefore
  <2>4. \A k \in NatsBefore(m) : g[k] = h[k]
    <3> SUFFICES ASSUME NEW k \in NatsBefore(m) PROVE g[k] = h[k]
      OBVIOUS
    <3>1. k \in NatsBefore(n) \cap NatsBefore(p) /\ k \in Nat /\ k < m
      BY <2>3 DEF NatsBefore
    <3>2. ~(m <= k)
      BY <2>3, <3>1
    <3> QED
      BY <2>2, <3>1, <3>2
  <2>5. Past(g, m) = Past(h, m)
    BY <2>4 DEF Past
  <2>6. g[m] = G[m][Past(g, m)] /\ h[m] = G[m][Past(h, m)]
    BY <2>3 DEF FollowsSteps
  <2> QED
    BY <2>5, <2>6
<1> QED
  BY <1>1

\* A function that follows the steps up to n follows them up to n + 1 when it is
\* given the value there.
LEMMA FollowerGrows ==
  ASSUME NEW S, NEW G, IsRecursion(G, S), NEW n \in Nat,
         NEW h \in [NatsBefore(n) -> S], FollowsSteps(G, h, n)
  PROVE  \E g \in [NatsBefore(n + 1) -> S] : FollowsSteps(G, g, n + 1)
<1>1. PICK g : g = [m \in NatsBefore(n + 1) |-> IF m = n THEN G[n][Past(h, n)] ELSE h[m]]
  OBVIOUS
<1>2. \A m \in NatsBefore(n + 1) : m \in Nat /\ m <= n /\ (m # n => m \in NatsBefore(n))
  BY DEF NatsBefore
<1>3. Past(h, n) \in [NatsBefore(n) -> S]
  BY DEF Past
<1>4. G[n][Past(h, n)] \in S
  BY <1>3 DEF IsRecursion
<1>5. g \in [NatsBefore(n + 1) -> S]
  BY <1>1, <1>2, <1>4
<1>6. ASSUME NEW m \in NatsBefore(n + 1) PROVE Past(g, m) = Past(h, m)
  <2>1. \A k \in NatsBefore(m) : k \in NatsBefore(n + 1) /\ k # n
    BY <1>2 DEF NatsBefore
  <2> QED
    BY <1>1, <2>1 DEF Past
<1>7. ASSUME NEW m \in NatsBefore(n + 1) PROVE g[m] = G[m][Past(g, m)]
  <2>1. CASE m = n
    BY <1>1, <1>6, <2>1
  <2>2. CASE m # n
    BY <1>1, <1>2, <1>6, <2>2 DEF FollowsSteps
  <2> QED
    BY <2>1, <2>2
<1> QED
  BY <1>5, <1>7 DEF FollowsSteps

\* Steps from the values before define a function.
LEMMA Recursion ==
  ASSUME NEW S, NEW G, IsRecursion(G, S)
  PROVE  \E f \in [Nat -> S] : \A n \in Nat : f[n] = G[n][Past(f, n)]
<1> DEFINE Follower(n) == {h \in [NatsBefore(n) -> S] : FollowsSteps(G, h, n)}
           T == {n \in Nat : Follower(n) # {}}
<1>1. 0 \in T
  <2>1. NatsBefore(0) = {}
    BY DEF NatsBefore
  <2>2. PICK h : h = [m \in NatsBefore(0) |-> 0]
    OBVIOUS
  <2>3. h \in [NatsBefore(0) -> S] /\ FollowsSteps(G, h, 0)
    BY <2>1, <2>2 DEF FollowsSteps
  <2>4. h \in Follower(0)
    BY <2>3
  <2> QED
    BY <2>4
<1>2. ASSUME NEW n \in Nat, n \in T PROVE n + 1 \in T
  <2>1. PICK h \in [NatsBefore(n) -> S] : FollowsSteps(G, h, n)
    BY <1>2
  <2>2. PICK g \in [NatsBefore(n + 1) -> S] : FollowsSteps(G, g, n + 1)
    BY <2>1, FollowerGrows
  <2> QED
    BY <2>2
<1>3. Nat \subseteq T
  <2> HIDE DEF T
  <2> QED
    BY <1>1, <1>2, NatInductive
<1> DEFINE of(n) == CHOOSE h : h \in Follower(n)
<1>4. ASSUME NEW n \in Nat PROVE of(n) \in [NatsBefore(n) -> S] /\ FollowsSteps(G, of(n), n)
  <2>1. \E h : h \in Follower(n)
    BY <1>3
  <2>2. of(n) \in Follower(n)
    BY <2>1
  <2> QED
    BY <2>2
<1> HIDE DEF of, T, Follower
<1>5. PICK f : f = [n \in Nat |-> of(n + 1)[n]]
  OBVIOUS
<1>6. ASSUME NEW n \in Nat PROVE n + 1 \in Nat /\ n \in NatsBefore(n + 1)
  BY DEF NatsBefore
<1>7. f \in [Nat -> S]
  <2> SUFFICES ASSUME NEW n \in Nat PROVE of(n + 1)[n] \in S
    BY <1>5
  <2> QED
    BY <1>4, <1>6
<1>8. ASSUME NEW n \in Nat PROVE f[n] = G[n][Past(f, n)]
  <2>1. f[n] = of(n + 1)[n]
    BY <1>5
  <2>2. of(n + 1)[n] = G[n][Past(of(n + 1), n)]
    BY <1>4, <1>6 DEF FollowsSteps
  <2>3. ASSUME NEW m \in NatsBefore(n) PROVE f[m] = of(n + 1)[m]
    <3>1. m \in Nat /\ m \in NatsBefore(m + 1) /\ m \in NatsBefore(n + 1)
      BY DEF NatsBefore
    <3>2. FollowsSteps(G, of(m + 1), m + 1) /\ FollowsSteps(G, of(n + 1), n + 1)
      BY <1>4, <1>6, <3>1
    <3>3. of(m + 1)[m] = of(n + 1)[m]
      BY <1>6, <3>1, <3>2, FollowersAgree
    <3> QED
      BY <1>5, <3>1, <3>3
  <2>4. Past(f, n) = Past(of(n + 1), n)
    BY <2>3 DEF Past
  <2> QED
    BY <2>1, <2>2, <2>4
<1> QED
  BY <1>7, <1>8

-----------------------------------------------------------------------------
(***************************************************************************)
(* The same over 0..k, where a value is given by the one before it.        *)
(***************************************************************************)

\* A set that has 0, and with a number below k the next, has all of 0..k.
LEMMA IntervalInductive ==
  ASSUME NEW k \in Nat, NEW T, 0 \in T, \A n \in 1..k : n - 1 \in T => n \in T
  PROVE  0..k \subseteq T
<1> DEFINE S == {n \in Nat : n \in 0..k => n \in T}
<1>1. 0 \in S
  OBVIOUS
<1>2. ASSUME NEW n \in Nat, n \in S PROVE n + 1 \in S
  <2>1. n + 1 \in 0..k => n + 1 \in 1..k /\ n \in 0..k /\ (n + 1) - 1 = n
    OBVIOUS
  <2> QED
    BY <1>2, <2>1
<1>3. Nat \subseteq S
  <2> HIDE DEF S
  <2> QED
    BY <1>1, <1>2, NatInductive
<1> QED
  BY <1>3

\* f gives the base at 0, and then what the steps of G make of the value before.
Iterates(f, k, base, G) == f[0] = base /\ \A n \in 1..k : f[n] = G[n][f[n - 1]]

\* There is such a function.
LEMMA IntervalRecursion ==
  ASSUME NEW k \in Nat, NEW S, NEW base \in S, NEW G \in [1..k -> [S -> S]]
  PROVE  \E f \in [0..k -> S] : Iterates(f, k, base, G)
<1> DEFINE v(n, h) == IF n \in 1..k THEN G[n][h[n - 1]] ELSE base
           H == [n \in Nat |-> [h \in [NatsBefore(n) -> S] |-> v(n, h)]]
<1>1. ASSUME NEW n \in Nat, NEW h \in [NatsBefore(n) -> S] PROVE v(n, h) \in S
  <2>1. CASE n \in 1..k
    <3>1. h[n - 1] \in S
      BY <2>1 DEF NatsBefore
    <3>2. G[n] \in [S -> S]
      BY <2>1
    <3> QED
      BY <2>1, <3>1, <3>2
  <2> QED
    BY <2>1
<1>2. IsRecursion(H, S)
  <2> HIDE DEF v
  <2> QED
    BY <1>1 DEF IsRecursion
<1>3. PICK f \in [Nat -> S] : \A n \in Nat : f[n] = H[n][Past(f, n)]
  <2> HIDE DEF H
  <2> QED
    BY <1>2, Recursion
<1>4. ASSUME NEW n \in Nat PROVE f[n] = IF n \in 1..k THEN G[n][f[n - 1]] ELSE base
  <2>1. Past(f, n) \in [NatsBefore(n) -> S]
    BY DEF Past, NatsBefore
  <2>2. f[n] = v(n, Past(f, n))
    <3> HIDE DEF v
    <3> QED
      BY <1>3, <2>1
  <2>3. n \in 1..k => Past(f, n)[n - 1] = f[n - 1]
    BY DEF Past, NatsBefore
  <2> QED
    BY <2>2, <2>3
<1>5. PICK g : g = [n \in 0..k |-> f[n]]
  OBVIOUS
<1>6. g \in [0..k -> S] /\ g[0] = base
  BY <1>4, <1>5
<1>7. ASSUME NEW n \in 1..k PROVE g[n] = G[n][g[n - 1]]
  <2>1. n \in Nat /\ n \in 0..k /\ n - 1 \in 0..k
    OBVIOUS
  <2> QED
    BY <1>4, <1>5, <2>1
<1> QED
  BY <1>6, <1>7 DEF Iterates

-----------------------------------------------------------------------------
(***************************************************************************)
(* Induction and recursion from the end of a text to its start.            *)
(***************************************************************************)

\* A set that has a position whenever it has all later ones has them all.
LEMMA BackwardInductive ==
  ASSUME NEW lo \in Int, NEW hi \in Int, NEW T,
         \A i \in lo..hi : (\A j \in (i + 1)..hi : j \in T) => i \in T
  PROVE  lo..hi \subseteq T
<1> DEFINE U == {n \in Nat : hi - n \in lo..hi /\ hi - n \notin T}
<1>1. ASSUME U # {} PROVE FALSE
  <2>1. PICK n \in U : \A m \in U : n <= m
    BY <1>1, LeastNatural
  <2>2. PICK i : i = hi - n
    OBVIOUS
  <2>3. i \in lo..hi /\ i \notin T /\ n \in Nat /\ n = hi - i
    BY <2>2
  <2>4. ASSUME NEW j \in (i + 1)..hi, j \notin T PROVE FALSE
    <3>1. PICK m : m = hi - j
      OBVIOUS
    <3>2. m \in Nat /\ hi - m = j /\ j \in lo..hi /\ m < n
      BY <2>3, <3>1
    <3>3. m \in U
      BY <2>4, <3>2
    <3> QED
      BY <2>1, <2>3, <3>2, <3>3
  <2> QED
    BY <2>3, <2>4
<1>2. ASSUME NEW i \in lo..hi, i \notin T PROVE FALSE
  <2>1. hi - i \in Nat /\ hi - (hi - i) = i
    OBVIOUS
  <2>2. hi - i \in U
    BY <1>2, <2>1
  <2> QED
    BY <1>1, <2>2
<1> QED
  BY <1>2

\* A chain over 1..hi: the value at a position is given, or made of the value
\* at a later one.
IsChain(hi, S, Ends, base, next, Op) ==
  \A i \in 1..hi : IF i \in Ends THEN base[i] \in S
                    ELSE next[i] \in (i + 1)..hi /\ Op[i] \in [S -> S]

FollowsChain(f, hi, Ends, base, next, Op) ==
  \A i \in 1..hi : f[i] = IF i \in Ends THEN base[i] ELSE Op[i][f[next[i]]]

\* Values that each are made of a later one exist for all positions.
LEMMA ChainRecursion ==
  ASSUME NEW hi \in Nat, NEW S, NEW Ends, NEW base, NEW next, NEW Op,
         IsChain(hi, S, Ends, base, next, Op)
  PROVE  \E f \in [1..hi -> S] : FollowsChain(f, hi, Ends, base, next, Op)
<1>0. /\ \A i \in 1..hi : i \in Ends => base[i] \in S
      /\ \A i \in 1..hi : i \notin Ends => next[i] \in (i + 1)..hi /\ Op[i] \in [S -> S]
  BY DEF IsChain
<1> DEFINE at(n) == hi - n
           v(n, h) == IF n \in 0..(hi - 1) /\ at(n) \notin Ends
                        THEN Op[at(n)][h[hi - next[at(n)]]]
                        ELSE IF n \in 0..(hi - 1) THEN base[at(n)] ELSE CHOOSE x \in S : TRUE
           H == [n \in Nat |-> [h \in [NatsBefore(n) -> S] |-> v(n, h)]]
<1>1. CASE hi = 0
  <2>1. PICK f : f = [i \in 1..hi |-> 0]
    OBVIOUS
  <2>2. ~(\E i : i \in 1..hi)
    BY <1>1
  <2>3. f \in [1..hi -> S]
    BY <2>1, <2>2
  <2> QED
    BY <2>2, <2>3 DEF FollowsChain
<1>2. CASE hi # 0
  <2>0. \E x : x \in S
    <3>1. hi \in 1..hi /\ ~(\E k : k \in (hi + 1)..hi)
      BY <1>2
    <3> QED
      BY <1>0, <3>1
  <2>1. ASSUME NEW n \in Nat, NEW h \in [NatsBefore(n) -> S] PROVE v(n, h) \in S
    <3>1. CASE n \in 0..(hi - 1) /\ at(n) \notin Ends
      <4>1. at(n) \in 1..hi
        BY <3>1
      <4>2. next[at(n)] \in (at(n) + 1)..hi /\ Op[at(n)] \in [S -> S]
        BY <1>0, <3>1, <4>1
      <4>3. PICK k \in (at(n) + 1)..hi : k = next[at(n)]
        BY <4>2
      <4>4. hi - k \in NatsBefore(n)
        BY <4>1 DEF NatsBefore
      <4> QED
        BY <3>1, <4>2, <4>3, <4>4
    <3>2. CASE n \in 0..(hi - 1) /\ at(n) \in Ends
      <4>1. at(n) \in 1..hi
        BY <3>2
      <4> QED
        BY <1>0, <3>2, <4>1
    <3>3. CASE n \notin 0..(hi - 1)
      BY <2>0, <3>3
    <3> QED
      BY <3>1, <3>2, <3>3
  <2> HIDE DEF v
  <2>2. IsRecursion(H, S)
    BY <2>1 DEF IsRecursion
  <2>3. PICK g \in [Nat -> S] : \A n \in Nat : g[n] = H[n][Past(g, n)]
    <3> HIDE DEF H
    <3> QED
      BY <2>2, Recursion
  <2>4. ASSUME NEW n \in Nat PROVE g[n] = v(n, Past(g, n)) /\ Past(g, n) \in [NatsBefore(n) -> S]
    <3>1. Past(g, n) \in [NatsBefore(n) -> S]
      BY DEF Past, NatsBefore
    <3> QED
      BY <2>3, <3>1
  <2>5. PICK f : f = [i \in 1..hi |-> g[hi - i]]
    OBVIOUS
  <2>6. f \in [1..hi -> S]
    <3> SUFFICES ASSUME NEW i \in 1..hi PROVE g[hi - i] \in S
      BY <2>5
    <3>1. hi - i \in Nat
      OBVIOUS
    <3> QED
      BY <3>1
  <2>7. ASSUME NEW i \in 1..hi PROVE f[i] = IF i \in Ends THEN base[i] ELSE Op[i][f[next[i]]]
    <3>1. PICK n : n = hi - i
      OBVIOUS
    <3>2. n \in Nat /\ n \in 0..(hi - 1) /\ at(n) = i
      BY <3>1
    <3>3. f[i] = v(n, Past(g, n))
      BY <2>4, <2>5, <3>1, <3>2
    <3>4. CASE i \in Ends
      BY <3>2, <3>3, <3>4 DEF v
    <3>5. CASE i \notin Ends
      <4>1. PICK k \in (i + 1)..hi : k = next[i]
        BY <1>0, <3>5
      <4>2. hi - k \in NatsBefore(n) /\ k \in 1..hi
        BY <3>1 DEF NatsBefore
      <4>3. Past(g, n)[hi - k] = f[k]
        BY <2>5, <4>2 DEF Past
      <4> QED
        BY <3>2, <3>3, <3>5, <4>1, <4>3 DEF v
    <3> QED
      BY <3>4, <3>5
  <2> QED
    BY <2>6, <2>7 DEF FollowsChain
<1> QED
  BY <1>1, <1>2
=============================================================================
