---------------------------- MODULE PxfPassProofs ----------------------------
(***************************************************************************)
(* Theorems about the pass after a decode (post_decode), for every schema, *)
(* every document and all limits: what it checks and what it fills in is   *)
(* right of every body of an accepted document, wherever the body stands.  *)
(***************************************************************************)
EXTENDS PxfDecoderProofs, Induction

-----------------------------------------------------------------------------
(***************************************************************************)
(* What the plan of the pass after a decode leaves out, for every schema:  *)
(* no body under a field it does not visit is of a type with anything to   *)
(* check or to fill in.                                                    *)
(***************************************************************************)

\* The types the search enters next.
Onward(before) ==
  before \cup {t \in Types :
    ~SkipsPass(t) /\ \E from \in before : \E f \in FieldsOf(from) : BodyIs(f, t)}

\* A set of types that holds the first and that the search does not leave.
Encloses(e, type) == {type} \ {t \in Types : SkipsPass(t)} \subseteq e /\ Onward(e) \subseteq e

\* The search goes on to types of the schema only, and loses none.
LEMMA OnwardTypes ==
  ASSUME NEW e \in SUBSET Types
  PROVE  Onward(e) \in SUBSET Types /\ e \subseteq Onward(e)
<1> QED
  BY DEF Onward

\* From fewer types the search comes to fewer.
LEMMA OnwardGrows ==
  ASSUME NEW e, NEW d, e \subseteq d
  PROVE  Onward(e) \subseteq Onward(d)
<1> QED
  BY DEF Onward

\* The rounds of a search: each goes on from the one before.
Rounds(come, type) ==
  /\ come[0] = {type} \ {t \in Types : SkipsPass(t)}
  /\ \A n \in 1..Cardinality(Types) : come[n] = Onward(come[n - 1])

\* After as many rounds as there are types, the search has come to an end.
LEMMA SearchEnds ==
  ASSUME NEW type \in Types, NEW come \in [0..Cardinality(Types) -> SUBSET Types],
         Rounds(come, type)
  PROVE  Onward(come[Cardinality(Types)]) \subseteq come[Cardinality(Types)]
<1>1. PICK k \in Nat : k = Cardinality(Types)
  BY TypesAssumption, FS_CardinalityType
<1> DEFINE T == {n \in 0..k : Onward(come[n]) \subseteq come[n] \/ Cardinality(come[n]) >= n}
<1>2. ASSUME NEW n \in 0..k
      PROVE  come[n] \in SUBSET Types /\ IsFiniteSet(come[n]) /\ Cardinality(come[n]) \in Nat
  <2>1. come[n] \in SUBSET Types
    BY <1>1
  <2> QED
    BY <2>1, TypesAssumption, FS_Subset, FS_CardinalityType
<1>3. 0 \in T
  <2>1. 0 \in 0..k
    OBVIOUS
  <2> QED
    BY <1>2, <2>1
<1>4. ASSUME NEW n \in 1..k, n - 1 \in T
      PROVE  n \in T
  <2>1. n \in 0..k /\ n - 1 \in 0..k
    OBVIOUS
  <2>2. PICK a, b : a = come[n - 1] /\ b = come[n]
    OBVIOUS
  <2>3. b = Onward(a)
    BY <1>1, <2>2 DEF Rounds
  <2>4. /\ a \in SUBSET Types /\ b \in SUBSET Types /\ IsFiniteSet(b)
        /\ Cardinality(a) \in Nat /\ Cardinality(b) \in Nat
    BY <1>2, <2>1, <2>2
  <2>5. a \subseteq b
    BY <2>3, <2>4, OnwardTypes
  <2>6. CASE Onward(a) \subseteq a
    <3>1. b = a
      BY <2>3, <2>5, <2>6
    <3> QED
      BY <2>1, <2>2, <2>6, <3>1
  <2>7. CASE ~(Onward(a) \subseteq a)
    <3>1. Cardinality(a) >= n - 1
      BY <1>4, <2>2, <2>7
    <3>2. a # b /\ a \in SUBSET b
      BY <2>3, <2>5, <2>7
    <3>3. Cardinality(a) <= Cardinality(b) /\ Cardinality(a) # Cardinality(b)
      BY <2>4, <3>2, FS_Subset
    <3>4. Cardinality(b) >= n
      BY <2>4, <3>1, <3>3
    <3> QED
      BY <2>1, <2>2, <3>4
  <2> QED
    BY <2>6, <2>7
<1>5. 0..k \subseteq T
  <2> HIDE DEF T
  <2> QED
    BY <1>3, <1>4, IntervalInductive
<1>6. k \in T
  BY <1>5
<1>7. ASSUME Cardinality(come[k]) >= k
      PROVE  Onward(come[k]) \subseteq come[k]
  <2>1. k \in 0..k
    OBVIOUS
  <2>2. come[k] \in SUBSET Types /\ Cardinality(come[k]) <= k
    BY <1>1, <1>2, <2>1, TypesAssumption, FS_Subset
  <2>3. Cardinality(come[k]) = Cardinality(Types)
    BY <1>1, <1>2, <1>7, <2>1, <2>2
  <2>4. come[k] = Types
    BY <2>2, <2>3, TypesAssumption, FS_Subset
  <2> QED
    BY <2>4, OnwardTypes
<1> QED
  BY <1>1, <1>6, <1>7

\* What the search comes to is the least set it does not leave.
LEMMA EnteredLeast ==
  ASSUME NEW type \in Types
  PROVE  /\ Entered(type) \in SUBSET Types /\ Encloses(Entered(type), type)
         /\ \A e : Encloses(e, type) => Entered(type) \subseteq e
<1>1. PICK k \in Nat : k = Cardinality(Types)
  BY TypesAssumption, FS_CardinalityType
<1>2. PICK base : base = {type} \ {t \in Types : SkipsPass(t)}
  OBVIOUS
<1>3. base \in SUBSET Types
  BY <1>2
<1> DEFINE come[n \in 0..k] == IF n = 0 THEN base ELSE Onward(come[n - 1])
<1>4. PICK f \in [0..k -> SUBSET Types] :
        f[0] = base /\ \A n \in 1..k : f[n] = Onward(f[n - 1])
  <2> DEFINE G == [n \in 1..k |-> [e \in SUBSET Types |-> Onward(e)]]
  <2>1. G \in [1..k -> [SUBSET Types -> SUBSET Types]]
    BY OnwardTypes
  <2>2. \A n \in 1..k, e \in SUBSET Types : G[n][e] = Onward(e)
    OBVIOUS
  <2> HIDE DEF G
  <2>3. PICK f \in [0..k -> SUBSET Types] : Iterates(f, k, base, G)
    BY <1>3, <2>1, IntervalRecursion
  <2>4. \A n \in 1..k : n - 1 \in 0..k
    OBVIOUS
  <2> QED
    BY <2>2, <2>3, <2>4 DEF Iterates
<1>5. f = [n \in 0..k |-> IF n = 0 THEN base ELSE Onward(f[n - 1])]
  <2>1. \A n \in 0..k : n # 0 => n \in 1..k
    OBVIOUS
  <2> QED
    BY <1>4, <2>1
<1>6. come = [n \in 0..k |-> IF n = 0 THEN base ELSE Onward(come[n - 1])]
  BY <1>5
<1>7. Entered(type) = come[k]
  BY <1>1, <1>2 DEF Entered, Onward
<1> HIDE DEF come
<1>8. come[0] = base /\ \A n \in 1..k : n \in 0..k /\ n - 1 \in 0..k /\ come[n] = Onward(come[n - 1])
  <2>1. 0 \in 0..k /\ \A n \in 1..k : n \in 0..k /\ n - 1 \in 0..k /\ n # 0
    OBVIOUS
  <2> QED
    BY <1>6, <2>1
<1>9. Rounds(come, type)
  BY <1>1, <1>2, <1>8 DEF Rounds
<1>10. come \in [0..k -> SUBSET Types]
  <2> DEFINE T == {n \in 0..k : come[n] \in SUBSET Types}
  <2>1. 0 \in T /\ \A n \in 1..k : n - 1 \in T => n \in T
    BY <1>3, <1>8, OnwardTypes
  <2>2. 0..k \subseteq T
    <3> HIDE DEF T
    <3> QED
      BY <2>1, IntervalInductive
  <2> QED
    BY <1>6, <2>2
<1>11. base \subseteq come[k]
  <2> DEFINE T == {n \in 0..k : base \subseteq come[n]}
  <2>1. 0 \in T /\ \A n \in 1..k : n - 1 \in T => n \in T
    BY <1>8, <1>10, OnwardTypes
  <2>2. 0..k \subseteq T
    <3> HIDE DEF T
    <3> QED
      BY <2>1, IntervalInductive
  <2>3. k \in 0..k
    OBVIOUS
  <2> QED
    BY <2>2, <2>3
<1>12. Onward(come[k]) \subseteq come[k]
  BY <1>1, <1>9, <1>10, SearchEnds
<1>13. ASSUME NEW e, Encloses(e, type)
       PROVE  come[k] \subseteq e
  <2> DEFINE T == {n \in 0..k : come[n] \subseteq e}
  <2>1. 0 \in T
    BY <1>2, <1>8, <1>13 DEF Encloses
  <2>2. ASSUME NEW n \in 1..k, n - 1 \in T PROVE n \in T
    <3>1. Onward(come[n - 1]) \subseteq Onward(e)
      BY <2>2, OnwardGrows
    <3> QED
      BY <1>8, <1>13, <3>1 DEF Encloses
  <2>3. 0..k \subseteq T
    <3> HIDE DEF T
    <3> QED
      BY <2>1, <2>2, IntervalInductive
  <2>4. k \in 0..k
    OBVIOUS
  <2> QED
    BY <2>3, <2>4
<1>14. come[k] \in SUBSET Types
  BY <1>10
<1> QED
  BY <1>2, <1>7, <1>11, <1>12, <1>13, <1>14 DEF Encloses

-----------------------------------------------------------------------------
\* A type none of whose bodies, nor any under them, the pass has anything to do in.
Quiet(type) == ~HasDefaultOrRequired(type)

\* The search starts from a type it enters.
LEMMA EnteredSelf ==
  ASSUME NEW type \in Types, ~SkipsPass(type)
  PROVE  type \in Entered(type)
<1> QED
  BY EnteredLeast DEF Encloses

\* Nothing is entered from a type that is skipped.
LEMMA SkippedQuiet ==
  ASSUME NEW type \in Types, SkipsPass(type)
  PROVE  Quiet(type)
<1>1. PICK e : e = {}
  OBVIOUS
<1>2. Onward(e) = e
  BY <1>1 DEF Onward
<1>3. Encloses(e, type)
  BY <1>1, <1>2 DEF Encloses
<1>4. Entered(type) \subseteq e
  BY <1>3, EnteredLeast
<1> QED
  BY <1>1, <1>4 DEF Quiet, HasDefaultOrRequired

\* A quiet type has nothing to check or to fill in.
LEMMA QuietPlain ==
  ASSUME NEW type \in Types, Quiet(type)
  PROVE  ~Annotated(type)
<1>1. CASE SkipsPass(type)
  BY <1>1, WellKnownAssumption
<1>2. CASE ~SkipsPass(type)
  BY <1>2, EnteredSelf DEF Quiet, HasDefaultOrRequired
<1> QED
  BY <1>1, <1>2

\* Nor have the bodies its fields hold: what is under a type is under it as well.
LEMMA QuietBelow ==
  ASSUME NEW type \in Types, Quiet(type), NEW f \in FieldsOf(type), f.kind = "message"
  PROVE  f.body \in Types /\ Quiet(f.body)
<1>1. f.body \in Types
  BY SchemaAssumption
<1>2. CASE SkipsPass(f.body)
  BY <1>1, <1>2, SkippedQuiet
<1>3. CASE ~SkipsPass(f.body)
  <2>1. ~SkipsPass(type)
    BY WellKnownAssumption
  <2>2. type \in Entered(type) /\ Encloses(Entered(type), type) /\ Entered(type) \in SUBSET Types
    BY <2>1, EnteredSelf, EnteredLeast
  <2>3. f.body \in Onward(Entered(type))
    BY <1>1, <1>3, <2>2 DEF Onward, BodyIs
  <2>4. Encloses(Entered(type), f.body)
    BY <2>2, <2>3 DEF Encloses
  <2>5. Entered(f.body) \subseteq Entered(type)
    BY <1>1, <2>4, EnteredLeast
  <2> QED
    BY <1>1, <2>5 DEF Quiet, HasDefaultOrRequired
<1> QED
  BY <1>1, <1>2, <1>3

\* A field that holds bodies of a type that is not quiet is in the plan.
LEMMA PlanVisits ==
  ASSUME NEW type \in Types, NEW f \in FieldsOf(type), f.kind = "message", ~Quiet(f.body)
  PROVE  f.name \in Plan[type]
<1> QED
  BY DEF Plan, Visit, Quiet

\* The plan of a type leaves out a field only when no body it holds, nor any body
\* under one, is of a type with a required field or a default (PostDecodePlan).
THEOREM PlanLeavesNothingOut ==
  \A type \in Types : \A f \in FieldsOf(type) :
    f.kind = "message" /\ f.name \notin Plan[type] =>
      ~Annotated(f.body) /\ \A g \in FieldsOf(f.body) : g.kind = "message" => g.name \notin Plan[f.body]
<1> SUFFICES ASSUME NEW type \in Types, NEW f \in FieldsOf(type),
                    f.kind = "message", f.name \notin Plan[type]
             PROVE  ~Annotated(f.body) /\ \A g \in FieldsOf(f.body) :
                       g.kind = "message" => g.name \notin Plan[f.body]
  OBVIOUS
<1>1. f.body \in Types /\ Quiet(f.body)
  BY PlanVisits, SchemaAssumption
<1>2. ASSUME NEW g \in FieldsOf(f.body), g.kind = "message"
      PROVE  g.name \notin Plan[f.body]
  <2>1. Quiet(g.body)
    BY <1>1, <1>2, QuietBelow
  <2>2. \A h \in FieldsOf(f.body) : h.name = g.name => h = g
    BY <1>1, SchemaAssumption
  <2> QED
    BY <1>1, <2>1, <2>2 DEF Plan, Visit, Quiet
<1> QED
  BY <1>1, <1>2, QuietPlain

-----------------------------------------------------------------------------
(***************************************************************************)
(* The invariant: every body has had its pass, or will have it.            *)
(***************************************************************************)

\* The way the pass takes from one body to another, through fields the plan visits
\* that the text says and does not say to be null.
Leads(bodies, said, from, q) ==
  /\ Begins(from, q)
  /\ \A k \in Len(from)..(Len(q) - 1) :
       LET above == SubSeq(q, 1, k)
       IN  /\ q[k + 1][1] \in Plan[bodies[above].type]
           /\ At(above, q[k + 1][1]) \in said

\* A body is guarded by an open one that takes the pass when it closes and from where
\* the pass comes to it.
Closing(frame, bodies) == frame.close = "eof" \/ bodies[frame.path].urls # <<>>
Guards(frame, bodies, said, p) ==
  frame.kind = "body" /\ Closing(frame, bodies) /\ Leads(bodies, said, frame.path, p)
Guarded(fs, bodies, said, p) == \E k \in DOMAIN fs : Guards(fs[k], bodies, said, p)
IsOpen(fs, p) == \E k \in DOMAIN fs : fs[k].kind = "body" /\ fs[k].path = p

\* The pass has nothing to do in a body, or will come to it, or it is closed and right.
CoveredAt(fs, bodies, said, right, p) ==
  \/ Quiet(bodies[p].type)
  \/ Guarded(fs, bodies, said, p)
  \/ p \in right /\ ~IsOpen(fs, p)
Covered(fs, bodies, said, right) ==
  \A p \in DOMAIN bodies : CoveredAt(fs, bodies, said, right, p)

\* A field that is null is bound in the body it is null in.
Spent(frame, name) ==
  /\ ~frame.fresh /\ Knows(frame.type, name)
  /\ FieldOf(frame.type, name).shape = "one" /\ name \in frame.bound
NullsSpent(fs, marks) ==
  \A k \in DOMAIN fs : fs[k].kind = "body" =>
    \A name : At(fs[k].path, name) \in marks => Spent(fs[k], name)

\* A body that has all its type requires.
Complete(bodies, marks, p) ==
  \A f \in FieldsOf(bodies[p].type) : f.required => At(p, f.name) \in marks \/ Passed(p, f)
CompleteOnes == {p \in DOMAIN msg.bodies : Complete(msg.bodies, present, p)}

Passing ==
  IF phase = "done" THEN \A p \in DOMAIN msg.bodies : p \in CompleteOnes
  ELSE Covered(frames, msg.bodies, present \ nulls, CompleteOnes) /\ NullsSpent(frames, nulls)

-----------------------------------------------------------------------------
(***************************************************************************)
(* Ways.                                                                   *)
(***************************************************************************)

\* Two fields of bodies are at one path only when they are the same.
LEMMA AtSame ==
  ASSUME NEW a, NEW b, IsSeq(a), IsSeq(b), NEW m, NEW n, At(a, m) = At(b, n)
  PROVE  a = b /\ m = n
<1>1. PICK q, s : q = At(a, m) /\ Appends(a, s, q) /\ s[1] = m
  BY AtAppends
<1>2. PICK t : Appends(b, t, q) /\ t[1] = n
  BY <1>1, AtAppends
<1>3. PICK l \in Nat : /\ l = Len(a) /\ Len(q) = l + 1 /\ q[l + 1] = s /\ SubSeq(q, 1, l) = a
  BY <1>1, LongerPath
<1>4. PICK j \in Nat : /\ j = Len(b) /\ Len(q) = j + 1 /\ q[j + 1] = t /\ SubSeq(q, 1, j) = b
  <2>1. IsSeq(b) /\ Appends(b, t, q)
    BY <1>2
  <2> QED
    BY <2>1, LongerPath
<1>5. l = j
  BY <1>3, <1>4
<1>6. a = b
  BY <1>3, <1>4, <1>5
<1>7. s = t
  BY <1>3, <1>4, <1>5
<1> QED
  BY <1>1, <1>2, <1>6, <1>7

\* Of the fields through which bodies are reached, those said are said still.
SaidStays(bodies, said, more) ==
  \A p \in DOMAIN bodies : \A k \in 0..(Len(p) - 1) :
    At(SubSeq(p, 1, k), p[k + 1][1]) \in said => At(SubSeq(p, 1, k), p[k + 1][1]) \in more

\* A way that is there stays where bodies are added.
LEMMA LeadsStays ==
  ASSUME NEW old, NEW new, Typed(old), Extends(old, new), NEW said, NEW more,
         SaidStays(old, said, more), NEW from, IsSeq(from), NEW p \in DOMAIN old,
         Leads(old, said, from, p)
  PROVE  Leads(new, more, from, p)
<1>1. IsSeq(p) /\ \A k \in 0..Len(p) : SubSeq(p, 1, k) \in DOMAIN old
  BY DEF Typed
<1>2. PICK l \in Nat, j \in Nat : l = Len(p) /\ j = Len(from)
  BY <1>1, SeqLength
<1>3. ASSUME NEW k \in j..(l - 1)
      PROVE  /\ p[k + 1][1] \in Plan[new[SubSeq(p, 1, k)].type]
             /\ At(SubSeq(p, 1, k), p[k + 1][1]) \in more
  <2>1. k \in 0..(Len(p) - 1) /\ k \in 0..Len(p) /\ k \in Len(from)..(Len(p) - 1)
    BY <1>2
  <2>2. /\ p[k + 1][1] \in Plan[old[SubSeq(p, 1, k)].type]
        /\ At(SubSeq(p, 1, k), p[k + 1][1]) \in said
    BY <2>1 DEF Leads
  <2>3. new[SubSeq(p, 1, k)] = old[SubSeq(p, 1, k)]
    BY <1>1, <2>1 DEF Extends
  <2> QED
    BY <2>1, <2>2, <2>3 DEF SaidStays
<1> QED
  BY <1>2, <1>3 DEF Leads

\* From a body there is a way to it.
LEMMA LeadsHere ==
  ASSUME NEW bodies, NEW said, NEW p, IsSeq(p)
  PROVE  Leads(bodies, said, p, p)
<1>1. PICK l \in Nat : l = Len(p) /\ SubSeq(p, 1, l) = p
  BY SeqLength, SeqWhole
<1> QED
  BY <1>1 DEF Leads, Begins

\* A way goes on through a field the plan visits.
LEMMA LeadsOn ==
  ASSUME NEW bodies, NEW said, NEW from, NEW p, IsSeq(from), IsSeq(p), Leads(bodies, said, from, p),
         NEW e, NEW q, Appends(p, e, q), e[1] \in Plan[bodies[p].type], At(p, e[1]) \in said
  PROVE  Leads(bodies, said, from, q)
<1>1. PICK l \in Nat : /\ l = Len(p) /\ Len(q) = l + 1 /\ q[l + 1] = e /\ IsSeq(q)
                       /\ \A k \in 1..l : q[k] = p[k]
                       /\ \A n \in 0..l : SubSeq(q, 1, n) = SubSeq(p, 1, n)
                       /\ SubSeq(q, 1, l) = p
  BY LongerPath
<1>2. PICK j \in Nat : j = Len(from)
  BY SeqLength
<1>3. j <= l /\ SubSeq(p, 1, j) = from
  BY <1>1, <1>2 DEF Leads, Begins
<1>4. Begins(from, q)
  BY <1>1, <1>2, <1>3 DEF Begins
<1>5. ASSUME NEW k \in j..l
      PROVE  /\ q[k + 1][1] \in Plan[bodies[SubSeq(q, 1, k)].type]
             /\ At(SubSeq(q, 1, k), q[k + 1][1]) \in said
  <2>1. CASE k = l
    BY <1>1, <2>1
  <2>2. CASE k # l
    <3>1. k \in Len(from)..(Len(p) - 1) /\ k \in 0..l /\ k + 1 \in 1..l
      BY <1>1, <1>2, <2>2
    <3>2. q[k + 1] = p[k + 1] /\ SubSeq(q, 1, k) = SubSeq(p, 1, k)
      BY <1>1, <3>1
    <3> QED
      BY <3>1, <3>2 DEF Leads
  <2> QED
    BY <2>1, <2>2
<1>6. Len(from)..(Len(q) - 1) = j..l
  BY <1>1, <1>2
<1> QED
  BY <1>4, <1>5, <1>6 DEF Leads

\* The pass comes to the bodies there is a way to.
LEMMA VisitedLeads ==
  ASSUME NEW m, NEW from, NEW p
  PROVE  p \in Visited(m, from) <=> p \in DOMAIN m.bodies /\ Leads(m.bodies, present \ nulls, from, p)
<1> QED
  BY DEF Visited, OnTheWay, Leads

-----------------------------------------------------------------------------
(***************************************************************************)
(* What a step leaves covered.                                             *)
(***************************************************************************)

\* A frame in place of another, with what it was opened for.
Follows(old, new) == Alike(old, new) /\ new.close = old.close /\ new.element = old.element
Following(fs, s, n) == \A k \in 1..n : k \in DOMAIN s /\ Follows(fs[k], s[k])

\* Where the frames go on and bodies are only added, a body stays covered.
LEMMA CoveredStays ==
  ASSUME NEW n \in Nat, NEW fs, NEW s, Frames(fs, n), Following(fs, s, n),
         NEW old, NEW new, Typed(old), Extends(old, new),
         \A k \in 1..n : fs[k].kind = "body" => fs[k].path \in DOMAIN old,
         \A k \in DOMAIN s : k \notin 1..n /\ s[k].kind = "body" => s[k].path \notin DOMAIN old,
         NEW said, NEW more, SaidStays(old, said, more),
         NEW right, NEW then, \A p \in DOMAIN old \cap right : p \in then \/ IsOpen(fs, p),
         NEW p \in DOMAIN old, CoveredAt(fs, old, said, right, p)
  PROVE  CoveredAt(s, new, more, then, p)
<1>1. CASE Quiet(old[p].type)
  BY <1>1 DEF CoveredAt, Extends
<1>2. CASE Guarded(fs, old, said, p)
  <2>1. PICK k \in 1..n : Guards(fs[k], old, said, p)
    BY <1>2 DEF Guarded, Frames
  <2>2. /\ k \in DOMAIN s /\ s[k].kind = "body" /\ s[k].path = fs[k].path /\ s[k].close = fs[k].close
        /\ fs[k].path \in DOMAIN old /\ IsSeq(fs[k].path)
    BY <2>1 DEF Guards, Following, Follows, Alike, Typed
  <2>3. Closing(s[k], new)
    BY <2>1, <2>2 DEF Guards, Closing, Extends
  <2>4. Leads(new, more, s[k].path, p)
    BY <2>1, <2>2, LeadsStays DEF Guards
  <2> QED
    BY <2>2, <2>3, <2>4 DEF CoveredAt, Guarded, Guards
<1>3. CASE p \in right /\ ~IsOpen(fs, p)
  <2>1. p \in then
    BY <1>3
  <2>2. ~IsOpen(s, p)
    <3> SUFFICES ASSUME NEW k \in DOMAIN s, s[k].kind = "body", s[k].path = p PROVE FALSE
      BY DEF IsOpen
    <3>1. k \in 1..n
      OBVIOUS
    <3>2. fs[k].kind = "body" /\ fs[k].path = p /\ k \in DOMAIN fs
      BY <3>1 DEF Following, Follows, Alike, Frames
    <3> QED
      BY <1>3, <3>2 DEF IsOpen
  <2> QED
    BY <2>1, <2>2 DEF CoveredAt
<1> QED
  BY <1>1, <1>2, <1>3 DEF CoveredAt

\* A body that is added to an open one is covered when that one is.
LEMMA CoveredBelow ==
  ASSUME NEW fs, NEW bodies, Typed(bodies), \A k \in DOMAIN fs : fs[k].kind = "body" => IsSeq(fs[k].path),
         NEW said, NEW right, NEW p \in DOMAIN bodies, IsOpen(fs, p),
         CoveredAt(fs, bodies, said, right, p),
         NEW f \in FieldsOf(bodies[p].type), f.kind = "message",
         NEW e, NEW q, Appends(p, e, q), e[1] = f.name, bodies[q].type = f.body, At(p, f.name) \in said
  PROVE  CoveredAt(fs, bodies, said, right, q)
<1>1. IsSeq(p) /\ bodies[p].type \in Types
  BY DEF Typed
<1>2. CASE Quiet(bodies[p].type)
  BY <1>1, <1>2, QuietBelow DEF CoveredAt
<1>3. CASE Guarded(fs, bodies, said, p) /\ ~Quiet(f.body)
  <2>1. PICK k \in DOMAIN fs : Guards(fs[k], bodies, said, p)
    BY <1>3 DEF Guarded
  <2>2. f.name \in Plan[bodies[p].type]
    BY <1>1, <1>3, PlanVisits
  <2>3. Leads(bodies, said, fs[k].path, q)
    BY <1>1, <2>1, <2>2, LeadsOn DEF Guards
  <2> QED
    BY <2>1, <2>3 DEF CoveredAt, Guarded, Guards
<1> QED
  BY <1>2, <1>3 DEF CoveredAt

-----------------------------------------------------------------------------
(***************************************************************************)
(* What the steps do to frames and bodies.                                 *)
(***************************************************************************)

\* The frames go on, with at most one more on them.
Keeping(n, h) ==
  /\ n \in Nat /\ h \in {n, n + 1} /\ Frames(frames, n) /\ Frames(frames', h)
  /\ frames[n] = Top /\ Following(frames, frames', n)

\* A frame that takes the place of the top one.
LEMMA StaysKeeping ==
  ASSUME Stack, NEW under, Stays(under), Follows(Top, under)
  PROVE  \E n \in Nat : Keeping(n, n) /\ frames'[n] = under
<1>1. PICK n \in Nat : Changed(frames, frames', n) /\ frames[n] = Top /\ frames'[n] = under
  BY StaysChanges DEF Follows
<1>2. DOMAIN frames' = 1..n /\ \A k \in 1..(n - 1) : frames'[k] = frames[k]
  BY <1>1 DEF Changed, Frames
<1>3. Following(frames, frames', n)
  <2> SUFFICES ASSUME NEW k \in 1..n PROVE k \in DOMAIN frames' /\ Follows(frames[k], frames'[k])
    BY DEF Following
  <2>1. CASE k = n
    BY <1>1, <1>2, <2>1
  <2>2. CASE k # n
    BY <1>2, <2>2 DEF Follows, Alike
  <2> QED
    BY <2>1, <2>2
<1> QED
  BY <1>1, <1>3 DEF Keeping, Changed

\* A frame that is opened over it.
LEMMA OpensKeeping ==
  ASSUME Stack, NEW under, NEW frame, NEW at, Opens(under, frame, at), Follows(Top, under)
  PROVE  \E n \in Nat : Keeping(n, n + 1) /\ frames'[n] = under /\ frames'[n + 1] = frame
<1>1. PICK n \in Nat : \E s : /\ Changed(frames, s, n) /\ frames[n] = Top /\ s[n] = under
                               /\ Longer(s, frames', n) /\ frames'[n + 1] = frame
  BY OpensChanges DEF Follows
<1>2. PICK s : /\ Changed(frames, s, n) /\ frames[n] = Top /\ s[n] = under
               /\ Longer(s, frames', n) /\ frames'[n + 1] = frame
  BY <1>1
<1>3. /\ Frames(frames, n) /\ Frames(frames', n + 1) /\ DOMAIN frames' = 1..(n + 1) /\ n >= 1
      /\ \A k \in 1..(n - 1) : s[k] = frames[k]
      /\ \A k \in 1..n : frames'[k] = s[k]
  BY <1>2 DEF Changed, Longer, Frames
<1>4. Following(frames, frames', n)
  <2> SUFFICES ASSUME NEW k \in 1..n PROVE k \in DOMAIN frames' /\ Follows(frames[k], frames'[k])
    BY DEF Following
  <2>1. CASE k = n
    BY <1>2, <1>3, <2>1
  <2>2. CASE k # n
    <3>1. frames'[k] = frames[k]
      BY <1>3, <2>2
    <3> QED
      BY <1>3, <3>1 DEF Follows, Alike
  <2> QED
    BY <2>1, <2>2
<1>5. frames'[n] = under
  BY <1>2, <1>3
<1> QED
  BY <1>2, <1>3, <1>4, <1>5 DEF Keeping

\* A frame follows itself, and what a field is bound in follows what it was.
LEMMA BoundFollows ==
  ASSUME NEW frame, NEW f, Stands(frame), frame.kind = "body"
  PROVE  Follows(frame, frame) /\ Follows(frame, Bound(frame, f))
<1>1. PICK g : g = Bound(frame, f)
  OBVIOUS
<1>2. g.close = frame.close /\ g.element = frame.element
  BY <1>1 DEF Bound, Stands
<1> QED
  BY <1>1, <1>2, BoundAlike DEF Follows, Alike

\* Nothing is opened in the step but what is no body, and no body is added.
Reads ==
  /\ \E n \in Nat : \E h : Keeping(n, h) /\ (h = n + 1 => frames'[h].kind # "body")
  /\ Same(msg.bodies, msg'.bodies) /\ present \subseteq present' /\ UNCHANGED call

\* A body of a field of the body on top is added, and read next.
Adds(n, f, e, q) ==
  /\ Keeping(n, n + 1) /\ frames'[n + 1].kind = "body" /\ frames'[n + 1].path = q
  /\ frames'[n + 1].type = f.body /\ Top.kind # "skip"
  /\ f \in FieldsOf(Top.type) /\ f.kind = "message" /\ e[1] = f.name /\ IsOpen(frames, Top.path)
  /\ Grows(msg.bodies, msg'.bodies, Top.path, e, q) /\ msg'.bodies[q].type = f.body
  /\ At(Top.path, f.name) \in present' \ nulls /\ present \subseteq present' /\ UNCHANGED call
Enters == \E n \in Nat : \E f, e, q : Adds(n, f, e, q)

\* A null or a scalar is read where it stands.
LEMMA EntryReads ==
  ASSUME Stack, Counted, Built, NEW it, Null(it) \/ Scalar(it), ~Refuses(it)
  PROVE  Reads
<1>1. PICK f : f = FieldOf(Top.type, it.name)
  OBVIOUS
<1>2. Top.kind = "body" /\ Stays(Bound(Top, f)) /\ present \subseteq present' /\ UNCHANGED call
  BY <1>1 DEF Null, Scalar, InBody, MarkPresent, Read
<1>3. PICK n \in Nat : Keeping(n, n)
  BY <1>2, TopStands, BoundFollows, StaysKeeping
<1>4. Same(msg.bodies, msg'.bodies)
  <2>1. CASE Null(it)
    BY <2>1 DEF Null, Same
  <2>2. CASE Scalar(it)
    <3>1. PICK leaf : leaf = [text |-> it.text, load |-> it.load]
      OBVIOUS
    <3>2. msg' = SetLeaf(msg, Top.path, Top.type, f, leaf)
      BY <1>1, <2>2, <3>1 DEF Scalar
    <3>3. f \in FieldsOf(Top.type) /\ ~CheckOneof(Top, f)
      BY <1>1, <2>2, ScalarTaken
    <3> QED
      BY <1>2, <3>2, <3>3, SetLeafDoes, SetClearsNothing
  <2> QED
    BY <2>1, <2>2
<1> QED
  BY <1>2, <1>3, <1>4 DEF Reads

\* What is opened for elements, or for a value that is dropped, is no body.
LEMMA HolderReads ==
  ASSUME Stack, Counted, Built, NEW it, Collection(it), ~Refuses(it)
  PROVE  Reads
<1>1. PICK f : f = FieldOf(Top.type, it.name)
  OBVIOUS
<1>2. PICK kind : kind = IF f.shape = "map" THEN "map" ELSE IF it.val = "list" THEN "list" ELSE "keyed"
  OBVIOUS
<1>3. PICK frame : frame = Opening(kind, IF kind = "list" THEN "endlist" ELSE "end", Top.type, f.name,
                                   Top.path, NoElement)
  OBVIOUS
<1>4. /\ Top.kind = "body" /\ Opens(Bound(Top, f), frame, prefix) /\ present \subseteq present'
      /\ UNCHANGED <<call, msg>>
  BY <1>1, <1>2, <1>3 DEF Collection, InBody, MarkPresent, Read
<1>5. PICK n \in Nat : Keeping(n, n + 1) /\ frames'[n + 1] = frame
  BY <1>4, TopStands, BoundFollows, OpensKeeping
<1>6. frame.kind # "body"
  BY <1>2, <1>3, HolderOpens
<1> QED
  BY <1>4, <1>5, <1>6 DEF Reads, Same

\* A name no field has, and what is inside a value that is dropped.
LEMMA DroppedReads ==
  ASSUME Stack, Counted, Built, NEW it, Unknown(it) \/ Skipped(it), ~Refuses(it)
  PROVE  Reads
<1>1. PICK under, frame :
        /\ under = [Top EXCEPT !.fresh = FALSE]
        /\ frame = Opening("skip", IF it.val = "list" THEN "endlist" ELSE "end", "none", "none",
                           <<>>, NoElement)
  OBVIOUS
<1>2. /\ IF it.val \in {"list", "block"} THEN Opens(under, frame, prefix) ELSE Stays(under)
      /\ UNCHANGED <<call, msg, present>>
  BY <1>1 DEF Unknown, Skipped, InBody, Read
<1>3. Follows(Top, under)
  <2>1. under.element = Top.element
    BY <1>1, TopStands DEF Stands
  <2> QED
    BY <1>1, <2>1, TopStands, SoiledFrame DEF Follows, Alike
<1>4. CASE it.val \in {"list", "block"}
  <2>1. PICK n \in Nat : Keeping(n, n + 1) /\ frames'[n + 1] = frame
    BY <1>2, <1>3, <1>4, OpensKeeping
  <2>2. frame.kind # "body"
    BY <1>1, HolderOpens
  <2> QED
    BY <1>2, <2>1, <2>2 DEF Reads, Same
<1>5. CASE it.val \notin {"list", "block"}
  <2>1. PICK n \in Nat : Keeping(n, n)
    BY <1>2, <1>3, <1>5, StaysKeeping
  <2> QED
    BY <1>2, <2>1 DEF Reads, Same
<1> QED
  BY <1>4, <1>5

\* An element that is a literal adds no body.
LEMMA LeafReads ==
  ASSUME Stack, Counted, Built, NEW it, ListItem(it) \/ MapEntry(it), it.val # "block"
  PROVE  Reads
<1>1. PICK q, leaf : msg' = AddLeaf(msg, Top.path, Field, q, leaf) /\ Stays(Top)
  BY DEF ListItem, MapEntry
<1>2. UNCHANGED <<call, present>>
  BY DEF ListItem, MapEntry, Read
<1>3. msg'.bodies = msg.bodies
  BY <1>1, AddLeafDoes DEF Counted
<1>4. PICK n \in Nat : Keeping(n, n)
  BY <1>1, TopAlike, StaysKeeping DEF Follows
<1> QED
  BY <1>2, <1>3, <1>4 DEF Reads, Same

\* A field that is bound neither in the body on top nor for elements is not null there.
LEMMA NotNull ==
  ASSUME Stack, Built, NullsSpent(frames, nulls), Top.kind = "body",
         NEW f \in FieldsOf(Top.type), ~CheckBound(Top, f)
  PROVE  At(Top.path, f.name) \notin nulls
<1> SUFFICES ASSUME At(Top.path, f.name) \in nulls PROVE FALSE
  OBVIOUS
<1>1. Len(frames) \in DOMAIN frames /\ Top.type \in Types
  BY Positions, TopStands DEF Stack, Stands
<1>2. Spent(Top, f.name)
  BY <1>1 DEF NullsSpent, Top
<1>3. FieldOf(Top.type, f.name) = f
  BY <1>1, FieldIs
<1> QED
  BY <1>2, <1>3 DEF Spent, CheckBound

\* The body of a singular message is that of a field that was not bound.
LEMMA MessageEnters ==
  ASSUME Stack, Counted, Built, NullsSpent(frames, nulls), NEW it, Message(it), ~Refuses(it)
  PROVE  Enters
<1>1. PICK f : f = FieldOf(Top.type, it.name)
  OBVIOUS
<1>2. PICK q : q = At(Top.path, f.name)
  OBVIOUS
<1>3. PICK frame : frame = Body(f.body, q, NoElement)
  OBVIOUS
<1>4. /\ Top.kind = "body" /\ present' = present \cup {At(prefix, f.name)} /\ UNCHANGED call
      /\ msg' = SetBody(msg, Top.path, Top.type, f)
      /\ Opens(Bound(Top, f), frame, At(prefix, f.name))
  BY <1>1, <1>2, <1>3 DEF Message, InBody, MarkPresent, Read
<1>5. /\ f \in FieldsOf(Top.type) /\ f.shape = "one" /\ f.kind = "message" /\ f.body \in Types
      /\ ~CheckBound(Top, f) /\ ~CheckOneof(Top, f)
  BY <1>1, MessageTaken
<1>6. PICK n \in Nat : Keeping(n, n + 1) /\ frames'[n + 1] = frame
  BY <1>4, TopStands, BoundFollows, OpensKeeping
<1>7. frame.kind = "body" /\ frame.path = q /\ frame.type = f.body
  BY <1>3, BodyOpens
<1>8. /\ Top.path \in DOMAIN msg.bodies /\ IsSeq(Top.path) /\ Top.type \in Types
      /\ Len(frames) \in DOMAIN frames /\ prefix = Top.path
  BY <1>4, TopPlaced, TopStands, Positions DEF Stands, Stack
<1>9. PICK e : Appends(Top.path, e, q) /\ e[1] = f.name /\ e[3] = 0
  BY <1>2, AtAppends
<1>10. PICK c : c = Cleared(msg, Top.path, Siblings(Top.type, f))
  OBVIOUS
<1>11. Same(msg.bodies, c.bodies)
  <2>1. /\ c.bodies = Cut(msg.bodies, Top.path, Siblings(Top.type, f))
        /\ c.elems = Cut(msg.elems, Top.path, Siblings(Top.type, f))
    BY <1>10 DEF Cleared
  <2> QED
    BY <1>4, <1>5, <2>1, SetClearsNothing
<1>12. msg'.bodies = Put(c.bodies, q, NewBody(f))
  BY <1>2, <1>4, <1>10, SetBodyDoes DEF Cleared
<1>13. q \notin DOMAIN c.bodies
  <2> SUFFICES ASSUME q \in DOMAIN msg.bodies PROVE FALSE
    BY <1>11 DEF Same
  <2>1. PICK l \in Nat : /\ l = Len(Top.path) /\ Len(q) = l + 1 /\ q[l + 1] = e
                         /\ SubSeq(q, 1, l) = Top.path
    BY <1>8, <1>9, LongerPath
  <2>2. Beneath(Top.path, q) /\ q[Len(Top.path) + 1][1] = f.name
    BY <1>9, <2>1 DEF Beneath
  <2>3. Accounts(Top, q)
    BY <1>4, <1>8, <2>2 DEF Built, Fits, Accounted, Top
  <2>4. f.name \in Top.bound
    BY <1>5, <1>8, <2>2, <2>3, FieldIs DEF Accounts
  <2> QED
    BY <1>5, <2>4 DEF CheckBound
<1>14. Grows(c.bodies, msg'.bodies, Top.path, e, q) /\ msg'.bodies[q].type = f.body
  BY <1>5, <1>8, <1>9, <1>11, <1>12, <1>13, PutGrows DEF Same
<1>15. Grows(msg.bodies, msg'.bodies, Top.path, e, q)
  BY <1>11, <1>14 DEF Grows, Same
<1>16. At(Top.path, f.name) \in present' \ nulls /\ present \subseteq present'
  BY <1>4, <1>5, <1>8, NotNull
<1>17. IsOpen(frames, Top.path)
  BY <1>4, <1>8 DEF IsOpen, Top
<1> QED
  BY <1>4, <1>5, <1>6, <1>7, <1>9, <1>14, <1>15, <1>16, <1>17 DEF Enters, Adds

\* The body of an element is that of a field that is bound for elements.
LEMMA ElementEnters ==
  ASSUME Stack, Counted, Built, NullsSpent(frames, nulls),
         Top.kind \in {"list", "keyed", "map"}, ~Overfull, Field.kind = "message",
         Field.body \in Types, NEW q, NEW e, Appends(Top.path, e, q), e[1] = Field.name,
         e[3] \in Nat, e[3] <= Count(msg, Top.path, Field.name) + 1, q \notin DOMAIN msg.bodies,
         NEW added, added = AddBody(msg, Top.path, Field, q), Same(added.bodies, msg'.bodies),
         NEW under, NEW element, Opens(under, Body(Field.body, q, element), q),
         Follows(Top, under), present \subseteq present', UNCHANGED call
  PROVE  Enters
<1>1. PICK frame : frame = Body(Field.body, q, element)
  OBVIOUS
<1>2. Opens(under, frame, q)
  BY <1>1
<1>3. PICK n \in Nat : Keeping(n, n + 1) /\ frames'[n] = under /\ frames'[n + 1] = frame
  BY <1>2, OpensKeeping
<1>4. frame.kind = "body" /\ frame.path = q /\ frame.type = Field.body
  BY <1>1, BodyOpens
<1>5. /\ Field \in FieldsOf(Top.type) /\ Field.shape # "one" /\ Field.name = Top.field
      /\ Top.type \in Types /\ Top.path \in DOMAIN msg.bodies /\ IsSeq(Top.path)
  BY TopStands, TopPlaced, FieldNamed DEF Stands
<1>6. added.bodies = Put(msg.bodies, q, NewBody(Field))
  BY AddBodyDoes DEF Counted
<1>7. Grows(msg.bodies, added.bodies, Top.path, e, q) /\ added.bodies[q].type = Field.body
  BY <1>5, <1>6, PutGrows
<1>8. Grows(msg.bodies, msg'.bodies, Top.path, e, q) /\ msg'.bodies[q].type = Field.body
  BY <1>7 DEF Grows, Same
<1>9. Within(frames, n, present) /\ n \in DOMAIN frames /\ DOMAIN frames = 1..n /\ frames[n] = Top
  BY <1>3 DEF Keeping, Frames, Built, Fits, Placed
<1>10. /\ n - 1 \in DOMAIN frames /\ frames[n - 1].kind = "body" /\ frames[n - 1].path = Top.path
       /\ frames[n - 1].type = Top.type /\ At(Top.path, Field.name) \in present
  BY <1>5, <1>9 DEF Within
<1>11. At(Top.path, Field.name) \notin nulls
  <2> SUFFICES ASSUME At(Top.path, Field.name) \in nulls PROVE FALSE
    OBVIOUS
  <2>1. Spent(frames[n - 1], Field.name)
    BY <1>10 DEF NullsSpent
  <2> QED
    BY <1>5, <1>10, <2>1, FieldIs DEF Spent
<1>12. IsOpen(frames, Top.path)
  BY <1>10 DEF IsOpen
<1>13. At(Top.path, Field.name) \in present' \ nulls
  BY <1>10, <1>11
<1>14. Adds(n, Field, e, q)
  BY <1>3, <1>4, <1>5, <1>8, <1>12, <1>13 DEF Adds
<1> QED
  BY <1>14 DEF Enters

\* A message in a list or in a map.
LEMMA ItemEnters ==
  ASSUME Stack, Counted, Built, NullsSpent(frames, nulls),
         NEW it, ListItem(it) \/ MapEntry(it), it.val = "block", ~Refuses(it)
  PROVE  Enters
<1>1. PICK c \in Nat : c = Count(msg, Top.path, Field.name)
  BY CountIsInt DEF Counted
<1>2. Top.kind \in {"list", "map"} /\ UNCHANGED <<call, present>>
  BY DEF ListItem, MapEntry, Read
<1>3. ~Overfull /\ Field.kind = "message" /\ Field.body \in Types
  BY ListItemTaken, MapEntryTaken DEF Scalars
<1>4. IsSeq(Top.path) /\ prefix = Top.path
  BY <1>2, TopPlaced
<1>5. PICK name : name = Field.name
  OBVIOUS
<1>6. Follows(Top, Top)
  BY TopAlike DEF Follows
<1>7. CASE ListItem(it)
  <2>1. PICK q, element :
          /\ q = IndexAt(Top.path, name, c)
          /\ element = IF KeyField(Field) # "none" THEN Element(Field, "", FALSE) ELSE NoElement
    OBVIOUS
  <2>2. /\ msg' = AddBody(msg, Top.path, Field, q)
        /\ Opens(Top, Body(Field.body, q, element), q)
    BY <1>1, <1>4, <1>5, <1>7, <2>1 DEF ListItem
  <2>7. q = IndexAt(Top.path, name, c)
    BY <2>1
  <2>3. PICK e : Appends(Top.path, e, q) /\ e[1] = name /\ e[3] = c + 1
    BY <2>7, IndexAtAppends
  <2>4. q \notin DOMAIN msg.bodies
    BY <1>1, <1>4, <1>5, <2>1, FreshIndex DEF Counted, Built, Fits
  <2>5. e[1] = Field.name /\ e[3] \in Nat /\ e[3] <= Count(msg, Top.path, Field.name) + 1
    BY <1>1, <1>5, <2>3
  <2>6. Same(msg'.bodies, msg'.bodies)
    BY DEF Same
  <2> QED
    BY <1>2, <1>3, <1>6, <2>2, <2>3, <2>4, <2>5, <2>6, ElementEnters
<1>8. CASE MapEntry(it)
  <2>1. PICK key, q : key = MapKey(Field, it) /\ q = KeyAt(Top.path, name, key)
    OBVIOUS
  <2>2. /\ msg' = AddBody(msg, Top.path, Field, q)
        /\ Opens(Top, Body(Field.body, q, NoElement), q)
    BY <1>4, <1>5, <1>8, <2>1 DEF MapEntry
  <2>3. PICK e : Appends(Top.path, e, q) /\ e[1] = name /\ e[3] = 1
    BY <2>1, KeyAtAppends
  <2>4. q \notin DOMAIN msg.bodies
    BY <1>5, <1>8, <2>1, MapEntryTaken DEF KeyTaken
  <2>5. e[1] = Field.name /\ e[3] \in Nat /\ e[3] <= Count(msg, Top.path, Field.name) + 1
    BY <1>1, <1>5, <2>3
  <2>6. Same(msg'.bodies, msg'.bodies)
    BY DEF Same
  <2> QED
    BY <1>2, <1>3, <1>6, <2>2, <2>3, <2>4, <2>5, <2>6, ElementEnters
<1> QED
  BY <1>7, <1>8

\* Nothing lies under a body that was added, so that setting its key cuts nothing.
LEMMA KeyCutsNothing ==
  ASSUME NEW old, Typed(old), NEW new, NEW p, NEW e, NEW q, Grows(old, new, p, e, q), NEW names
  PROVE  \A r \in DOMAIN new : ~Through(q, names, r)
<1>1. IsSeq(p) /\ Appends(p, e, q) /\ q \notin DOMAIN old /\ DOMAIN new = DOMAIN old \cup {q}
  BY DEF Grows, Typed
<1>2. PICK l \in Nat : l = Len(p) /\ Len(q) = l + 1 /\ IsSeq(q)
  BY <1>1, LongerPath
<1> SUFFICES ASSUME NEW r \in DOMAIN new, Through(q, names, r) PROVE FALSE
  OBVIOUS
<1>3. Len(q) < Len(r) /\ SubSeq(r, 1, Len(q)) = q
  <2>1. IsSeq(r)
    BY <1>1, <1>2 DEF Typed
  <2>2. PICK j \in Nat : j = Len(r)
    BY <2>1, SeqLength
  <2> QED
    BY <1>2, <2>2 DEF Through, Begins
<1>4. r \in DOMAIN old /\ Beneath(q, r)
  BY <1>1, <1>2, <1>3 DEF Beneath
<1> QED
  BY <1>1, <1>2, <1>4, NothingUnder

\* A named entry of a keyed block.
LEMMA KeyedEnters ==
  ASSUME Stack, Counted, Built, NullsSpent(frames, nulls), NEW it, KeyedEntry(it), ~Refuses(it)
  PROVE  Enters
<1>1. PICK c \in Nat : c = Count(msg, Top.path, Field.name)
  BY CountIsInt DEF Counted
<1>2. PICK q, key, leaf, element, name :
        /\ name = Field.name
        /\ q = IndexAt(Top.path, name, c) /\ key = FieldOf(Field.body, KeyField(Field))
        /\ leaf = Leaf(it.name) /\ element = Element(Field, it.name, TRUE)
  OBVIOUS
<1>3. PICK under, frame, added :
        /\ under = [Top EXCEPT !.bound = @ \cup {it.name}]
        /\ frame = Body(Field.body, q, element) /\ added = AddBody(msg, Top.path, Field, q)
  OBVIOUS
<1>4. /\ Top.kind = "keyed" /\ ~Overfull /\ Field.kind = "message" /\ Field.body \in Types
      /\ UNCHANGED call
  BY KeyedEntryTaken DEF KeyedEntry, Read
<1>5. IsSeq(Top.path) /\ prefix = Top.path /\ Stands(Top) /\ Top.path \in DOMAIN msg.bodies
  BY <1>4, TopPlaced, TopStands
<1>6. /\ msg' = SetLeaf(added, q, Field.body, key, leaf)
      /\ present \subseteq present' /\ Opens(under, frame, q)
  BY <1>1, <1>2, <1>3, <1>5 DEF KeyedEntry
<1>7. Follows(Top, under)
  BY <1>3, <1>4, <1>5 DEF Follows, Alike, Stands
<1>8. PICK e : Appends(Top.path, e, q) /\ e[1] = name /\ e[3] = c + 1
  BY <1>2, IndexAtAppends
<1>9. e[1] = Field.name /\ e[3] \in Nat /\ e[3] <= Count(msg, Top.path, Field.name) + 1
  BY <1>1, <1>2, <1>8
<1>10. q \notin DOMAIN msg.bodies
  BY <1>1, <1>2, <1>5, FreshIndex DEF Counted, Built, Fits
<1>11. Grows(msg.bodies, added.bodies, Top.path, e, q)
  <2>1. added.bodies = Put(msg.bodies, q, NewBody(Field))
    BY <1>3, AddBodyDoes DEF Counted
  <2> QED
    BY <1>4, <1>5, <1>8, <1>10, <2>1, PutGrows
<1>12. msg'.bodies = Cut(added.bodies, q, Siblings(Field.body, key))
  BY <1>6, SetLeafDoes
<1>13. Same(added.bodies, msg'.bodies)
  <2>1. \A r \in DOMAIN added.bodies : ~Through(q, Siblings(Field.body, key), r)
    BY <1>11, KeyCutsNothing DEF Built, Fits
  <2> QED
    BY <1>12, <2>1, CutKeeps DEF Same, Keeps
<1> QED
  BY <1>3, <1>4, <1>6, <1>7, <1>8, <1>9, <1>10, <1>13, ElementEnters

-----------------------------------------------------------------------------
(***************************************************************************)
(* Bodies stay covered, and nulls spent.                                   *)
(***************************************************************************)

\* The frames of bodies stand on bodies.
LEMMA OpenBodies ==
  ASSUME Built, NEW k \in DOMAIN frames, frames[k].kind = "body"
  PROVE  /\ frames[k].path \in DOMAIN msg.bodies /\ IsSeq(frames[k].path)
         /\ msg.bodies[frames[k].path].type = frames[k].type
         /\ \A j \in 1..(k - 1) : Len(frames[j].path) < Len(frames[k].path)
<1>1. OnBody(frames, k, msg.bodies) /\ Below(frames, k, msg.bodies)
  BY DEF Built, Fits, Placed
<1> QED
  BY <1>1 DEF OnBody, Below, Built, Fits, Typed

\* What is right of a body is so after the step, unless the body is open.
Goes(right, then) == \A p \in DOMAIN msg.bodies \cap right : p \in then \/ IsOpen(frames, p)

\* Where no body is added, all stay covered.
LEMMA CoveredReads ==
  ASSUME Built, Reads, SaidStays(msg.bodies, present \ nulls, present' \ nulls'),
         NEW right, NEW then, Goes(right, then),
         Covered(frames, msg.bodies, present \ nulls, right)
  PROVE  Covered(frames', msg'.bodies, present' \ nulls', then)
<1>1. PICK n \in Nat : \E h : Keeping(n, h) /\ (h = n + 1 => frames'[h].kind # "body")
  BY DEF Reads
<1>2. PICK h : Keeping(n, h) /\ (h = n + 1 => frames'[h].kind # "body")
  BY <1>1
<1>3. Frames(frames, n) /\ Following(frames, frames', n) /\ DOMAIN frames' = 1..h /\ h \in {n, n + 1}
      /\ DOMAIN frames = 1..n
  BY <1>2 DEF Keeping, Frames
<1>4. Typed(msg.bodies) /\ Extends(msg.bodies, msg'.bodies) /\ DOMAIN msg'.bodies = DOMAIN msg.bodies
  BY DEF Built, Fits, Reads, Same, Extends
<1>5. \A k \in 1..n : frames[k].kind = "body" => frames[k].path \in DOMAIN msg.bodies
  BY <1>3, OpenBodies
<1>6. \A k \in DOMAIN frames' : k \notin 1..n /\ frames'[k].kind = "body" => frames'[k].path \notin DOMAIN msg.bodies
  BY <1>2, <1>3
<1> SUFFICES ASSUME NEW p \in DOMAIN msg.bodies
             PROVE  CoveredAt(frames', msg'.bodies, present' \ nulls', then, p)
  BY <1>4 DEF Covered
<1>7. CoveredAt(frames, msg.bodies, present \ nulls, right, p)
  BY DEF Covered
<1> QED
  BY <1>3, <1>4, <1>5, <1>6, <1>7, CoveredStays DEF Goes

\* Where one is added, it is covered as the one it is in.
LEMMA CoveredEnters ==
  ASSUME Stack, Built, Built', NEW n \in Nat, NEW f, NEW e, NEW q, Adds(n, f, e, q), UNCHANGED nulls,
         NEW right, NEW then, Goes(right, then),
         Covered(frames, msg.bodies, present \ nulls, right)
  PROVE  Covered(frames', msg'.bodies, present' \ nulls', then)
<1>1. /\ Frames(frames, n) /\ Following(frames, frames', n) /\ DOMAIN frames' = 1..(n + 1)
      /\ DOMAIN frames = 1..n /\ frames[n] = Top
      /\ Grows(msg.bodies, msg'.bodies, Top.path, e, q) /\ frames'[n + 1].path = q
  BY DEF Adds, Keeping, Frames
<1>2. /\ Typed(msg.bodies) /\ Extends(msg.bodies, msg'.bodies) /\ q \notin DOMAIN msg.bodies
      /\ DOMAIN msg'.bodies = DOMAIN msg.bodies \cup {q} /\ Top.path \in DOMAIN msg.bodies
      /\ Appends(Top.path, e, q)
  BY <1>1 DEF Built, Fits, Grows, Extends
<1>3. \A k \in 1..n : frames[k].kind = "body" => frames[k].path \in DOMAIN msg.bodies
  BY <1>1, OpenBodies
<1>4. \A k \in DOMAIN frames' : k \notin 1..n /\ frames'[k].kind = "body" => frames'[k].path \notin DOMAIN msg.bodies
  BY <1>1, <1>2
<1>5. SaidStays(msg.bodies, present \ nulls, present' \ nulls')
  BY DEF Adds, SaidStays
<1>6. ASSUME NEW p \in DOMAIN msg.bodies
      PROVE  CoveredAt(frames', msg'.bodies, present' \ nulls', then, p)
  <2>1. CoveredAt(frames, msg.bodies, present \ nulls, right, p)
    BY DEF Covered
  <2> QED
    BY <1>1, <1>2, <1>3, <1>4, <1>5, <2>1, CoveredStays DEF Goes
<1>7. CoveredAt(frames', msg'.bodies, present' \ nulls', then, q)
  <2>1. Typed(msg'.bodies)
    BY DEF Built, Fits
  <2>2. \A k \in DOMAIN frames' : frames'[k].kind = "body" => IsSeq(frames'[k].path)
    <3> SUFFICES ASSUME NEW k \in DOMAIN frames', frames'[k].kind = "body" PROVE IsSeq(frames'[k].path)
      OBVIOUS
    <3>1. frames'[k].path \in DOMAIN msg'.bodies
      BY DEF Built, Fits, Placed, OnBody
    <3> QED
      BY <2>1, <3>1 DEF Typed
  <2>3. IsOpen(frames', Top.path)
    <3>1. PICK k \in 1..n : frames[k].kind = "body" /\ frames[k].path = Top.path
      BY <1>1 DEF Adds, IsOpen
    <3> QED
      BY <3>1, <1>1 DEF Following, Follows, Alike, IsOpen
  <2>4. Top.path \in DOMAIN msg'.bodies /\ CoveredAt(frames', msg'.bodies, present' \ nulls', then, Top.path)
    BY <1>2, <1>6
  <2>5. msg'.bodies[Top.path].type = Top.type
    BY <1>2, TopPlaced DEF Extends, Adds
  <2> QED
    BY <1>2, <2>1, <2>2, <2>3, <2>4, <2>5, CoveredBelow DEF Adds
<1> QED
  BY <1>2, <1>6, <1>7 DEF Covered

\* A null is bound where it is read, and stands for nothing that was read before.
LEMMA NullTaken ==
  ASSUME Stack, NEW it, Null(it), ~Refuses(it)
  PROVE  LET f == FieldOf(Top.type, it.name)
         IN  /\ f \in FieldsOf(Top.type) /\ f.shape = "one" /\ ~CheckBound(Top, f)
             /\ ~CheckBinding(Top.element, f, it)
<1> DEFINE f == FieldOf(Top.type, it.name)
<1>1. InBody(it) /\ it.val = "null" /\ Knows(Top.type, it.name)
  BY DEF Null
<1>2. f \in FieldsOf(Top.type)
  BY <1>1, EntryTaken
<1>3. it.sep = "="
  <2> SUFFICES ASSUME it.sep # "=" PROVE FALSE
    OBVIOUS
  <2>1. ~BlockRefused(Top, f, it)
    BY <1>1, EntryTaken
  <2> QED
    BY <1>1, <2>1 DEF BlockRefused
<1>4. ~AssignmentRefused(Top, f, it)
  BY <1>1, <1>3, EntryTaken
<1> QED
  BY <1>1, <1>2, <1>4 DEF AssignmentRefused, Nullable

\* What was said before a null is said after it, where a body stands.
LEMMA NullKeeps ==
  ASSUME Stack, Built, NEW it, Null(it), ~Refuses(it)
  PROVE  SaidStays(msg.bodies, present \ nulls, present' \ nulls')
<1>1. PICK f : f = FieldOf(Top.type, it.name)
  OBVIOUS
<1>2. /\ f \in FieldsOf(Top.type) /\ f.shape = "one" /\ ~CheckBound(Top, f)
  BY <1>1, NullTaken
<1>3. /\ Top.kind = "body" /\ prefix = Top.path /\ IsSeq(Top.path) /\ Top.type \in Types
      /\ Len(frames) \in DOMAIN frames
  BY TopPlaced, TopStands, Positions DEF Null, InBody, Stands, Stack
<1>4. /\ present' = present \cup {At(Top.path, f.name)}
      /\ nulls' = nulls \cup {At(Top.path, f.name)}
  BY <1>1, <1>3 DEF Null, MarkPresent
<1> SUFFICES ASSUME NEW p \in DOMAIN msg.bodies, NEW k \in 0..(Len(p) - 1),
                    At(SubSeq(p, 1, k), p[k + 1][1]) = At(Top.path, f.name)
             PROVE  FALSE
  BY <1>4 DEF SaidStays
<1>5. PICK a : a = SubSeq(p, 1, k)
  OBVIOUS
<1>6. IsSeq(p) /\ Len(p) \in Nat /\ FirstOf(p, k, a)
  BY <1>5, SeqLength DEF Built, Fits, Typed, FirstOf
<1>7. k \in Nat /\ k \in 0..Len(p) /\ k < Len(p)
  BY <1>6
<1>8. IsSeq(a) /\ Len(a) = k
  BY <1>6, <1>7, SeqFirst
<1>9. a = Top.path /\ p[k + 1][1] = f.name
  <2>1. At(a, p[k + 1][1]) = At(Top.path, f.name)
    BY <1>5
  <2> QED
    BY <1>3, <1>8, <2>1, AtSame
<1>10. Beneath(Top.path, p) /\ p[Len(Top.path) + 1][1] = f.name
  BY <1>5, <1>7, <1>8, <1>9 DEF Beneath
<1>11. Accounts(Top, p)
  BY <1>3, <1>10 DEF Built, Fits, Accounted, Top
<1>12. f.name \in Top.bound
  BY <1>2, <1>3, <1>10, <1>11, FieldIs DEF Accounts
<1> QED
  BY <1>2, <1>12 DEF CheckBound

\* What is bound in a frame is so in one that takes its place.
LEMMA SpentFollows ==
  ASSUME NEW old, NEW new, Follows(old, new), NEW name, Spent(old, name)
  PROVE  Spent(new, name)
<1> QED
  BY DEF Follows, Alike, Spent

\* Nulls stay bound where none is added.
LEMMA NullsStay ==
  ASSUME Built, Recorded, Reads \/ Enters, UNCHANGED nulls, NullsSpent(frames, nulls)
  PROVE  NullsSpent(frames', nulls')
<1>1. ASSUME NEW n \in Nat, NEW h, Keeping(n, h), NEW k \in DOMAIN frames', k \in 1..n,
             frames'[k].kind = "body", NEW name, At(frames'[k].path, name) \in nulls
      PROVE  Spent(frames'[k], name)
  <2>1. k \in DOMAIN frames /\ Follows(frames[k], frames'[k])
    BY <1>1 DEF Keeping, Frames, Following
  <2>2. Spent(frames[k], name)
    BY <1>1, <2>1 DEF Follows, Alike, NullsSpent
  <2> QED
    BY <2>1, <2>2, SpentFollows
<1>2. CASE Reads
  <2>1. PICK n \in Nat : \E h : Keeping(n, h) /\ (h = n + 1 => frames'[h].kind # "body")
    BY <1>2 DEF Reads
  <2>2. PICK h : Keeping(n, h) /\ (h = n + 1 => frames'[h].kind # "body")
    BY <2>1
  <2>3. \A k \in DOMAIN frames' : frames'[k].kind = "body" => k \in 1..n
    BY <2>2 DEF Keeping, Frames
  <2> QED
    BY <1>1, <2>2, <2>3 DEF NullsSpent
<1>3. CASE Enters
  <2>1. PICK n \in Nat : \E f, e, q : Adds(n, f, e, q)
    BY <1>3 DEF Enters
  <2>2. PICK f, e, q : Adds(n, f, e, q)
    BY <2>1
  <2>3. /\ Keeping(n, n + 1) /\ frames'[n + 1].path = q /\ DOMAIN frames' = 1..(n + 1)
        /\ q \notin DOMAIN msg.bodies /\ Appends(Top.path, e, q) /\ Top.path \in DOMAIN msg.bodies
    BY <2>2 DEF Adds, Keeping, Frames, Grows
  <2>4. IsSeq(q)
    BY <2>3, LongerPath DEF Built, Fits, Typed
  <2>5. ASSUME NEW name, At(q, name) \in nulls
        PROVE  FALSE
    <3>1. PICK r, s : r = At(q, name) /\ Appends(q, s, r)
      BY AtAppends
    <3>2. r \in present /\ Landed(msg.bodies, present)
      BY <2>5, <3>1 DEF Recorded, Built, Fits
    <3>3. Len(q) \in Nat /\ Len(r) = Len(q) + 1 /\ SubSeq(r, 1, Len(q)) = q
      BY <2>4, <3>1, LongerPath
    <3>4. Beneath(q, r)
      BY <3>3 DEF Beneath
    <3> QED
      BY <2>3, <2>4, <3>2, <3>3, <3>4, NothingMarked
  <2>6. \A k \in DOMAIN frames' : k \in 1..n \/ k = n + 1
    BY <2>3
  <2> QED
    BY <1>1, <2>3, <2>5, <2>6 DEF NullsSpent
<1> QED
  BY <1>2, <1>3

\* A null is bound in the frame on top, and in no other one.
LEMMA NullsTake ==
  ASSUME Stack, Built, NEW it, Null(it), ~Refuses(it), NullsSpent(frames, nulls)
  PROVE  NullsSpent(frames', nulls')
<1>1. PICK f : f = FieldOf(Top.type, it.name)
  OBVIOUS
<1>2. PICK under : under = Bound(Top, f)
  OBVIOUS
<1>3. /\ f \in FieldsOf(Top.type) /\ f.shape = "one"
  BY <1>1, NullTaken
<1>4. /\ Top.kind = "body" /\ prefix = Top.path /\ IsSeq(Top.path) /\ Top.type \in Types
      /\ Stands(Top)
  BY TopPlaced, TopStands DEF Null, InBody, Stands
<1>5. nulls' = nulls \cup {At(Top.path, f.name)} /\ Stays(under)
  BY <1>1, <1>2, <1>4 DEF Null
<1>6. PICK n \in Nat : Changed(frames, frames', n) /\ frames[n] = Top /\ frames'[n] = under
  BY <1>2, <1>4, <1>5, BoundAlike, StaysChanges
<1>7. /\ DOMAIN frames' = 1..n /\ n >= 1 /\ n \in DOMAIN frames /\ DOMAIN frames = 1..n
      /\ \A k \in 1..(n - 1) : frames'[k] = frames[k]
  BY <1>6 DEF Changed, Frames
<1>8. /\ under.type = Top.type /\ ~under.fresh /\ under.kind = "body" /\ under.path = Top.path
      /\ under.bound = Top.bound \cup {f.name}
  BY <1>2, <1>3, <1>4, BoundFrame, BoundNames DEF Bound, Stands
<1>9. Follows(Top, under)
  BY <1>2, <1>4, BoundFollows
<1> SUFFICES ASSUME NEW k \in DOMAIN frames', frames'[k].kind = "body",
                    NEW name, At(frames'[k].path, name) \in nulls'
             PROVE  Spent(frames'[k], name)
  BY DEF NullsSpent
<1>10. CASE k = n
  <2>1. CASE At(Top.path, name) \in nulls
    <3>1. Spent(Top, name)
      BY <1>4, <1>6, <1>7, <2>1 DEF NullsSpent
    <3> QED
      BY <1>6, <1>9, <1>10, <3>1, SpentFollows
  <2>2. CASE At(Top.path, name) = At(Top.path, f.name)
    <3>1. name = f.name
      BY <1>4, <2>2, AtSame
    <3> QED
      BY <1>3, <1>4, <1>6, <1>8, <1>10, <3>1, FieldIs DEF Spent
  <2> QED
    BY <1>5, <1>6, <1>8, <1>10, <2>1, <2>2
<1>11. CASE k # n
  <2>1. k \in DOMAIN frames /\ frames'[k] = frames[k] /\ frames[k].kind = "body" /\ k \in 1..(n - 1)
    BY <1>7, <1>11
  <2>2. IsSeq(frames[k].path) /\ Len(frames[k].path) < Len(Top.path)
    BY <1>4, <1>6, <1>7, <2>1, OpenBodies
  <2>3. At(frames[k].path, name) # At(Top.path, f.name)
    <3> SUFFICES ASSUME At(frames[k].path, name) = At(Top.path, f.name) PROVE FALSE
      OBVIOUS
    <3>1. frames[k].path = Top.path
      BY <1>4, <2>2, AtSame
    <3> QED
      BY <1>4, <2>2, <3>1, SeqLength
  <2> QED
    BY <1>5, <2>1, <2>3 DEF NullsSpent
<1> QED
  BY <1>10, <1>11

\* The frame of an Any gets the type of the Any's body, and the body that type.
Retypes(n, type, url) ==
  /\ Frames(frames, n) /\ Frames(frames', n) /\ frames[n] = Top
  /\ \A k \in 1..(n - 1) : frames'[k] = frames[k]
  /\ Top.kind = "body" /\ Top.fresh
  /\ frames'[n].kind = "body" /\ frames'[n].path = Top.path /\ frames'[n].close = Top.close
  /\ frames'[n].element = Top.element /\ frames'[n].type = type
  /\ Retyped(msg.bodies, msg'.bodies, Top.path, type, url)
  /\ UNCHANGED <<call, present, nulls>>

\* So does the entry of a type.
LEMMA EntryRetypes ==
  ASSUME Stack, Counted, Built, NEW it, TypeEntry(it), ~Refuses(it)
  PROVE  \E n \in Nat : \E type \in Types : \E url : Retypes(n, type, url)
<1>1. PICK type, under : type = Urls[it.text] /\ under = [Top EXCEPT !.type = Urls[it.text]]
  OBVIOUS
<1>2. /\ Top.kind = "body" /\ Replaces(frames, under, frames') /\ UNCHANGED <<call, present, nulls>>
  BY <1>1 DEF TypeEntry, Becomes, Replaces, Read
<1>3. type \in Types /\ Top.fresh /\ Stands(Top)
  BY <1>1, TypeTaken, TopStands
<1>4. PICK n \in Nat : n = Len(frames) /\ n >= 1 /\ DOMAIN frames = 1..n
  BY Positions DEF Stack
<1>5. /\ IsSeq(frames') /\ Len(frames') = n /\ frames'[n] = under
      /\ \A k \in 1..(n - 1) : frames'[k] = frames[k]
  BY <1>2, <1>4, SeqReplace DEF Stack, Levels
<1>6. Frames(frames, n) /\ Frames(frames', n) /\ frames[n] = Top
  BY <1>4, <1>5, SeqLength DEF Frames, Top, Stack, Levels
<1>7. /\ under.kind = "body" /\ under.path = Top.path /\ under.type = type
      /\ under.close = Top.close /\ under.element = Top.element
  BY <1>1, <1>2, <1>3 DEF Stands
<1>8. PICK old, url : old = msg.bodies[Top.path].urls /\ url = it.text
  OBVIOUS
<1>9. PICK urls : Appends(old, url, urls)
  BY DEF Appends
<1>10. PICK body : body = [type |-> type, urls |-> urls]
  OBVIOUS
<1>11. msg'.bodies = [msg.bodies EXCEPT ![Top.path] = body]
  <2>1. \E y : msg' = [msg EXCEPT !.bodies[Top.path] = body, !.leaves = y]
    BY <1>1, <1>8, <1>9, <1>10 DEF TypeEntry, Counted, Shaped, Appends
  <2> QED
    BY <2>1 DEF Counted, Shaped
<1>12. Top.path \in DOMAIN msg.bodies
  BY <1>2, TopPlaced
<1>13. body.type = type /\ body.urls = urls
  BY <1>10
<1>14. Retyped(msg.bodies, msg'.bodies, Top.path, type, url)
  BY <1>8, <1>9, <1>11, <1>12, <1>13 DEF Retyped
<1> QED
  BY <1>2, <1>3, <1>5, <1>6, <1>7, <1>14 DEF Retypes

\* The body that gets a type is open; the others stay covered, for none is under it.
LEMMA CoveredRetypes ==
  ASSUME Stack, Built, NEW n \in Nat, NEW type \in Types, NEW url, Retypes(n, type, url),
         NEW right, NEW then, Goes(right, then),
         Covered(frames, msg.bodies, present \ nulls, right)
  PROVE  Covered(frames', msg'.bodies, present' \ nulls', then)
<1>1. /\ DOMAIN frames = 1..n /\ DOMAIN frames' = 1..n /\ n >= 1
      /\ \A k \in 1..n : frames'[k].kind = frames[k].kind /\ frames'[k].path = frames[k].path
                         /\ frames'[k].close = frames[k].close
  BY DEF Retypes, Frames
<1>2. /\ Top.path \in DOMAIN msg.bodies /\ IsSeq(Top.path) /\ DOMAIN msg'.bodies = DOMAIN msg.bodies
      /\ \A q \in DOMAIN msg.bodies : q # Top.path => msg'.bodies[q] = msg.bodies[q]
      /\ msg'.bodies[Top.path].urls # <<>>
  <2>1. Retyped(msg.bodies, msg'.bodies, Top.path, type, url) /\ Top.kind = "body" /\ Typed(msg.bodies)
    BY DEF Retypes, Built, Fits
  <2>2. msg'.bodies[Top.path].urls # <<>>
    BY <2>1, TypedRetypes
  <2>3. Top.path \in DOMAIN msg.bodies /\ IsSeq(Top.path)
    BY <2>1, TopPlaced
  <2> QED
    BY <2>1, <2>2, <2>3 DEF Retyped
<1>3. frames'[n].kind = "body" /\ frames'[n].path = Top.path /\ n \in DOMAIN frames' /\ frames[n] = Top
  BY <1>1 DEF Retypes
<1>4. \A q \in DOMAIN msg.bodies : ~Beneath(Top.path, q)
  <2>1. \A q \in DOMAIN msg.bodies : Beneath(Top.path, q) => Accounts(Top, q)
    BY <1>1, <1>3 DEF Built, Fits, Accounted, Retypes
  <2> QED
    BY <2>1 DEF Accounts, Retypes
<1> SUFFICES ASSUME NEW p \in DOMAIN msg.bodies
             PROVE  CoveredAt(frames', msg'.bodies, present' \ nulls', then, p)
  BY <1>2 DEF Covered
<1>5. CASE p = Top.path
  <2>1. Leads(msg'.bodies, present' \ nulls', Top.path, p)
    BY <1>2, <1>5, LeadsHere
  <2> QED
    BY <1>2, <1>3, <2>1 DEF CoveredAt, Guarded, Guards, Closing
<1>6. CASE p # Top.path
  <2>1. CoveredAt(frames, msg.bodies, present \ nulls, right, p) /\ msg'.bodies[p] = msg.bodies[p]
    BY <1>2, <1>6 DEF Covered
  <2>2. CASE Guarded(frames, msg.bodies, present \ nulls, p)
    <3>1. PICK k \in 1..n : Guards(frames[k], msg.bodies, present \ nulls, p)
      BY <1>1, <2>2 DEF Guarded
    <3>2. IsSeq(p) /\ Len(p) \in Nat /\ \A j \in 0..Len(p) : SubSeq(p, 1, j) \in DOMAIN msg.bodies
      BY SeqLength DEF Built, Fits, Typed
    <3>3. /\ frames[k].path \in DOMAIN msg.bodies /\ IsSeq(frames[k].path) /\ Len(frames[k].path) \in Nat
      BY <1>1, <3>1, OpenBodies, SeqLength DEF Guards
    <3>4. ASSUME NEW j \in Len(frames[k].path)..(Len(p) - 1)
          PROVE  msg'.bodies[SubSeq(p, 1, j)] = msg.bodies[SubSeq(p, 1, j)]
      <4>1. j \in 0..Len(p) /\ j < Len(p) /\ j \in Nat
        BY <3>2, <3>3
      <4>2. PICK a : a = SubSeq(p, 1, j)
        OBVIOUS
      <4>3. FirstOf(p, j, a)
        BY <4>2 DEF FirstOf
      <4>4. Len(a) = j
        BY <3>2, <4>1, <4>3, SeqFirst
      <4>5. a # Top.path
        BY <1>4, <4>1, <4>2, <4>4 DEF Beneath
      <4> QED
        BY <1>2, <3>2, <4>1, <4>2, <4>5
    <3>5. Leads(msg'.bodies, present' \ nulls', frames[k].path, p)
      BY <3>1, <3>4 DEF Guards, Leads, Retypes
    <3>6. Closing(frames'[k], msg'.bodies)
      BY <1>1, <1>2, <3>1, <3>3 DEF Guards, Closing
    <3> QED
      BY <1>1, <3>1, <3>5, <3>6 DEF CoveredAt, Guarded, Guards
  <2>3. CASE p \in right /\ ~IsOpen(frames, p)
    <3>1. p \in then
      BY <2>3 DEF Goes
    <3>2. ~IsOpen(frames', p)
      BY <1>1, <2>3 DEF IsOpen
    <3> QED
      BY <3>1, <3>2 DEF CoveredAt
  <2> QED
    BY <2>1, <2>2, <2>3 DEF CoveredAt
<1> QED
  BY <1>5, <1>6

\* Nothing was null in that body.
LEMMA NullsRetype ==
  ASSUME Stack, Built, NEW n \in Nat, NEW type, NEW url, Retypes(n, type, url),
         NullsSpent(frames, nulls)
  PROVE  NullsSpent(frames', nulls')
<1>1. /\ DOMAIN frames = 1..n /\ DOMAIN frames' = 1..n /\ n \in 1..n /\ frames[n] = Top
  BY DEF Retypes, Frames
<1> SUFFICES ASSUME NEW k \in 1..n, frames'[k].kind = "body",
                    NEW name, At(frames'[k].path, name) \in nulls
             PROVE  Spent(frames'[k], name)
  BY <1>1 DEF NullsSpent, Retypes
<1>2. CASE k = n
  <2>1. At(Top.path, name) \in nulls /\ Top.kind = "body" /\ Top.fresh
    BY <1>2 DEF Retypes
  <2> QED
    BY <1>1, <2>1 DEF NullsSpent, Spent
<1>3. CASE k # n
  <2>1. frames'[k] = frames[k]
    BY <1>3 DEF Retypes
  <2> QED
    BY <1>1, <2>1 DEF NullsSpent
<1> QED
  BY <1>2, <1>3

-----------------------------------------------------------------------------
(***************************************************************************)
(* What closes a body, and the document.                                   *)
(***************************************************************************)

\* A closing bracket that is taken is no entry, and a body it closes that takes the
\* pass passes.
LEMMA CloseTaken ==
  ASSUME Stack, NEW it, IsItem(it), ~Refuses(it), it.val \in Closers
  PROVE  /\ it.val = Top.close \/ Top.kind # "body"
         /\ it.val = "eof" => Top.kind = "body"
         /\ Top.kind = "body" => ~CloseRefused(Top)
<1>1. /\ it.val \notin Heads /\ it.val \notin Scalars \cup {"null", "illegal", "block", "list"}
  BY DEF Closers, Heads, Scalars
<1>2. ReadRefused(it)
  BY <1>1 DEF ReadRefused
<1>3. ASSUME NEW t \in Types, NEW f \in FieldsOf(t)
      PROVE  ValueRefused(f, it)
  BY <1>1, <1>3, ValueTaken
<1>4. CASE Top.kind = "body"
  <2>1. ~BodyRefuses(Top, it) /\ Top.type \in Types
    BY <1>1, <1>4, TopStands DEF Refuses, Stands
  <2>2. it.as # "type"
    BY <1>1, <2>1 DEF BodyRefuses, TypeRefused, Scalars
  <2>3. it.as \notin {"ident", "int"}
    <3> SUFFICES ASSUME it.as \in {"ident", "int"} PROVE FALSE
      OBVIOUS
    <3>1. CASE ~Knows(Top.type, it.name)
      BY <1>2, <2>1, <3>1 DEF BodyRefuses, UnknownRefused
    <3>2. CASE Knows(Top.type, it.name)
      <4>1. PICK f \in FieldsOf(Top.type) : f = FieldOf(Top.type, it.name)
        BY <2>1, <3>2, FieldKnown
      <4>2. ValueRefused(f, it)
        BY <1>3, <2>1
      <4>3. AssignedRefused(f, it)
        BY <1>1, <4>2 DEF AssignedRefused
      <4>4. AssignmentRefused(Top, f, it)
        BY <1>1, <4>3 DEF AssignmentRefused
      <4>5. BlockRefused(Top, f, it)
        BY <1>1 DEF BlockRefused
      <4> QED
        BY <2>1, <3>2, <4>1, <4>4, <4>5 DEF BodyRefuses
    <3> QED
      BY <3>1, <3>2
  <2>4. it.as = "none"
    BY <2>1, <2>2, <2>3 DEF BodyRefuses, IsItem, Naming
  <2> QED
    BY <1>4, <2>1, <2>4 DEF BodyRefuses
<1>5. CASE Top.kind # "body"
  <2> SUFFICES ASSUME it.val = "eof" PROVE FALSE
    BY <1>5
  <2>1. CASE Top.kind \in {"list", "keyed", "map"}
    <3>1. ValueRefused(Field, it)
      BY <1>3, <2>1, TopStands DEF Stands
    <3> QED
      BY <1>1, <2>1, <3>1 DEF Refuses, ListRefuses, KeyedRefuses, MapRefuses
  <2>2. CASE Top.kind = "skip"
    <3>1. ~SkipRefuses(Top, it)
      BY <1>1, <2>2 DEF Refuses
    <3>2. Top.close # "eof"
      <4>1. PICK n \in Nat : n = Len(frames) /\ n >= 1
        BY Positions DEF Stack
      <4>2. n # 1
        BY <2>2, <4>1 DEF Stack, Levels, Top
      <4> QED
        BY <4>1, <4>2 DEF Stack, Levels, Top
    <3> QED
      BY <1>2, <3>1, <3>2 DEF SkipRefuses
  <2> QED
    BY <1>5, <2>1, <2>2, TopStands DEF Stands
<1> QED
  BY <1>4, <1>5

\* The frames a closing bracket leaves.
LEMMA ClosesLonger ==
  ASSUME Stack, NEW it, Close(it)
  PROVE  \E n \in Nat : Longer(frames', frames, n) /\ frames[n + 1] = Top
<1>1. /\ Len(frames) > 1 /\ Len(frames') = Len(frames) - 1 /\ Stack'
      /\ \A k \in 1..Len(frames') : frames'[k] = frames[k]
  BY StackCloses
<1>2. PICK n \in Nat : n = Len(frames') /\ n >= 1 /\ n + 1 = Len(frames)
  BY <1>1, SeqLength DEF Stack, Levels
<1>3. IsSeq(frames) /\ IsSeq(frames')
  BY <1>1 DEF Stack, Levels
<1>4. DOMAIN frames = 1..(n + 1) /\ DOMAIN frames' = 1..n
  BY <1>2, <1>3, SeqLength
<1>5. Longer(frames', frames, n)
  BY <1>1, <1>2, <1>3, <1>4 DEF Longer, Frames
<1> QED
  BY <1>2, <1>5 DEF Top

\* Where the frame on top closes, its body and those it guards are right.
LEMMA CoveredCloses ==
  ASSUME Stack, Counted, Built, NEW it, Close(it), NEW right, NEW then, Goes(right, then),
         Top.kind = "body" /\ PassedAtClose(Top) => Visited(msg, Top.path) \subseteq then,
         Covered(frames, msg.bodies, present \ nulls, right)
  PROVE  Covered(frames', msg'.bodies, present' \ nulls', then)
<1>1. PICK n \in Nat : Longer(frames', frames, n) /\ frames[n + 1] = Top
  BY ClosesLonger
<1>2. /\ DOMAIN frames = 1..(n + 1) /\ DOMAIN frames' = 1..n /\ \A k \in 1..n : frames'[k] = frames[k]
  BY <1>1 DEF Longer, Frames
<1>3. UNCHANGED <<present, nulls>>
  BY DEF Close
<1>4. Same(msg.bodies, msg'.bodies)
  <2>1. CASE msg' = msg
    BY <2>1 DEF Same
  <2>2. CASE msg' = Completed(msg, Top.path)
    BY <2>2, NothingDisplaced DEF Counted, Built, Fits
  <2> QED
    BY <2>1, <2>2 DEF Close
<1> SUFFICES ASSUME NEW p \in DOMAIN msg.bodies
             PROVE  CoveredAt(frames', msg'.bodies, present \ nulls, then, p)
  BY <1>3, <1>4 DEF Covered, Same
<1>5. CoveredAt(frames, msg.bodies, present \ nulls, right, p)
  BY DEF Covered
<1>6. CASE Quiet(msg.bodies[p].type)
  BY <1>4, <1>6 DEF CoveredAt, Same
<1>7. ASSUME NEW k \in 1..n, Guards(frames[k], msg.bodies, present \ nulls, p)
      PROVE  CoveredAt(frames', msg'.bodies, present \ nulls, then, p)
  <2>1. k \in DOMAIN frames /\ IsSeq(frames[k].path) /\ frames[k].path \in DOMAIN msg.bodies
    BY <1>2, <1>7, OpenBodies DEF Guards
  <2>2. SaidStays(msg.bodies, present \ nulls, present \ nulls) /\ Extends(msg.bodies, msg'.bodies)
    BY <1>4 DEF SaidStays, Same, Extends
  <2>3. Leads(msg'.bodies, present \ nulls, frames[k].path, p)
    BY <1>7, <2>1, <2>2, LeadsStays DEF Guards, Built, Fits
  <2>4. Closing(frames[k], msg'.bodies)
    BY <1>4, <1>7, <2>1 DEF Guards, Closing, Same
  <2> QED
    BY <1>2, <1>7, <2>3, <2>4 DEF CoveredAt, Guarded, Guards
<1>8. CASE Guards(Top, msg.bodies, present \ nulls, p)
  <2>1. Top.kind = "body" /\ PassedAtClose(Top) /\ Leads(msg.bodies, present \ nulls, Top.path, p)
    BY <1>8 DEF Guards, Closing, PassedAtClose
  <2>2. p \in then
    BY <2>1, VisitedLeads
  <2>3. ~IsOpen(frames', p)
    <3> SUFFICES ASSUME NEW k \in 1..n, frames[k].kind = "body", frames[k].path = p PROVE FALSE
      BY <1>2 DEF IsOpen
    <3>1. Len(p) < Len(Top.path) /\ IsSeq(p)
      <4>1. n + 1 \in DOMAIN frames /\ k \in 1..(n + 1 - 1) /\ frames[n + 1].kind = "body"
        BY <1>1, <1>2, <2>1
      <4>2. Len(frames[k].path) < Len(frames[n + 1].path)
        BY <4>1, OpenBodies
      <4> QED
        BY <1>1, <4>2 DEF Built, Fits, Typed
    <3>2. Len(p) \in Nat /\ Len(Top.path) \in Nat
      BY <2>1, <3>1, TopPlaced, SeqLength
    <3> QED
      BY <2>1, <3>1, <3>2 DEF Leads, Begins
  <2> QED
    BY <2>2, <2>3 DEF CoveredAt
<1>9. CASE p \in right /\ ~IsOpen(frames, p)
  <2>1. p \in then
    BY <1>9 DEF Goes
  <2>2. ~IsOpen(frames', p)
    BY <1>2, <1>9 DEF IsOpen
  <2> QED
    BY <2>1, <2>2 DEF CoveredAt
<1>10. Guarded(frames, msg.bodies, present \ nulls, p) =>
         Guards(Top, msg.bodies, present \ nulls, p)
           \/ \E k \in 1..n : Guards(frames[k], msg.bodies, present \ nulls, p)
  <2> SUFFICES ASSUME NEW k \in 1..(n + 1), k \notin 1..n, Guards(frames[k], msg.bodies, present \ nulls, p)
               PROVE  Guards(Top, msg.bodies, present \ nulls, p)
    BY <1>2 DEF Guarded
  <2>1. k = n + 1
    OBVIOUS
  <2> QED
    BY <1>1, <2>1
<1> QED
  BY <1>5, <1>6, <1>7, <1>8, <1>9, <1>10 DEF CoveredAt

\* Nulls stay bound in the frames that stay.
LEMMA NullsClose ==
  ASSUME Stack, NEW it, Close(it), NullsSpent(frames, nulls)
  PROVE  NullsSpent(frames', nulls')
<1>1. PICK n \in Nat : Longer(frames', frames, n)
  BY ClosesLonger
<1>2. /\ DOMAIN frames = 1..(n + 1) /\ DOMAIN frames' = 1..n /\ \A k \in 1..n : frames'[k] = frames[k]
  BY <1>1 DEF Longer, Frames
<1> QED
  BY <1>2 DEF NullsSpent, Close

\* At the end of the document the root alone is open.
LEMMA FinishTaken ==
  ASSUME Stack, NEW it, IsItem(it), Finish(it), ~Refuses(it)
  PROVE  /\ DOMAIN frames = {1} /\ Top = frames[1] /\ Top.kind = "body" /\ PassedAtClose(Top)
         /\ ~CloseRefused(Top)
<1>1. it.val = "eof" /\ it.val \in Closers
  BY DEF Finish, Closers
<1>2. Top.kind = "body" /\ Top.close = "eof" /\ ~CloseRefused(Top)
  BY <1>1, CloseTaken
<1>3. PICK n \in Nat : n = Len(frames) /\ n >= 1 /\ DOMAIN frames = 1..n
  BY Positions DEF Stack
<1>4. n = 1
  BY <1>2, <1>3 DEF Stack, Levels, Top
<1> QED
  BY <1>2, <1>3, <1>4 DEF Top, PassedAtClose

\* Then each body that the pass does not find to be quiet is one it comes to, or right.
LEMMA AllCovered ==
  ASSUME Stack, NEW it, IsItem(it), Finish(it), ~Refuses(it), NEW right,
         Covered(frames, msg.bodies, present \ nulls, right), NEW p \in DOMAIN msg.bodies
  PROVE  Quiet(msg.bodies[p].type) \/ p \in Visited(msg, Top.path) \/ p \in right
<1>1. DOMAIN frames = {1} /\ Top = frames[1]
  BY FinishTaken
<1>2. CoveredAt(frames, msg.bodies, present \ nulls, right, p)
  BY DEF Covered
<1>3. CASE Guarded(frames, msg.bodies, present \ nulls, p)
  <2>1. Leads(msg.bodies, present \ nulls, Top.path, p)
    BY <1>1, <1>3 DEF Guarded, Guards
  <2> QED
    BY <2>1, VisitedLeads
<1> QED
  BY <1>2, <1>3 DEF CoveredAt

-----------------------------------------------------------------------------
(***************************************************************************)
(* What is required.                                                       *)
(***************************************************************************)

\* What is read is an item.
LEMMA ReadableIsItem ==
  ASSUME call \in Calls, NEW it \in Readable
  PROVE  IsItem(it)
<1>1. IsItem(EofItem)
  BY DEF IsItem, EofItem, Naming, Closers
<1> QED
  BY <1>1, CallsAssumption DEF Readable

\* A body that is complete stays so while it is of its type.
LEMMA CompleteStays ==
  ASSUME UNCHANGED call, present \subseteq present', NEW p \in CompleteOnes,
         p \in DOMAIN msg'.bodies, msg'.bodies[p].type = msg.bodies[p].type
  PROVE  p \in CompleteOnes'
<1> QED
  BY DEF CompleteOnes, Complete, Passed

\* Every body the pass comes to is complete where the pass finds nothing missing.
LEMMA VisitedComplete ==
  ASSUME NEW from, ~Missing(msg, from)
  PROVE  Visited(msg, from) \subseteq CompleteOnes
<1> QED
  BY DEF Missing, Visited, CompleteOnes, Complete, Absent

\* Bodies stay covered with every item that is read.
LEMMA PassingTakes ==
  ASSUME Stack, Counted, Built, Built', Recorded, Passing, call \in Calls, Reading,
         NEW it \in Readable, ~Refuses(it), Take(it)
  PROVE  Passing'
<1>1. /\ IsItem(it) /\ Covered(frames, msg.bodies, present \ nulls, CompleteOnes)
      /\ NullsSpent(frames, nulls)
  BY ReadableIsItem DEF Passing, Reading
<1>2. ASSUME Covered(frames', msg'.bodies, present' \ nulls', CompleteOnes')
                /\ NullsSpent(frames', nulls'), phase' # "done"
      PROVE  Passing'
  BY <1>2 DEF Passing
<1>3. ASSUME Extends(msg.bodies, msg'.bodies), present \subseteq present', UNCHANGED call
      PROVE  Goes(CompleteOnes, CompleteOnes')
  BY <1>3, CompleteStays DEF Goes, Extends
<1>4. ASSUME Reads, SaidStays(msg.bodies, present \ nulls, present' \ nulls'), NullsSpent(frames', nulls'),
             phase' = "body"
      PROVE  Passing'
  <2>1. Goes(CompleteOnes, CompleteOnes')
    BY <1>3, <1>4 DEF Reads, Same, Extends
  <2> QED
    BY <1>1, <1>2, <1>4, <2>1, CoveredReads
<1>5. ASSUME Reads, UNCHANGED nulls, phase' = "body"
      PROVE  Passing'
  <2>1. SaidStays(msg.bodies, present \ nulls, present' \ nulls')
    BY <1>5 DEF Reads, SaidStays
  <2> QED
    BY <1>1, <1>4, <1>5, <2>1, NullsStay
<1>6. ASSUME Enters, UNCHANGED nulls, phase' = "body"
      PROVE  Passing'
  <2>1. PICK n \in Nat : \E f, e, q : Adds(n, f, e, q)
    BY <1>6 DEF Enters
  <2>2. PICK f, e, q : Adds(n, f, e, q)
    BY <2>1
  <2>3. Goes(CompleteOnes, CompleteOnes')
    BY <1>3, <2>2 DEF Adds, Grows, Extends
  <2>4. Covered(frames', msg'.bodies, present' \ nulls', CompleteOnes')
    BY <1>1, <1>6, <2>2, <2>3, CoveredEnters
  <2> QED
    BY <1>1, <1>2, <1>6, <2>4, NullsStay
<1>7. CASE Directive(it)
  BY <1>1, <1>7, <1>2 DEF Directive, CompleteOnes, Complete, Passed, Reading
<1>8. CASE Null(it)
  <2>1. Reads /\ phase' = "body"
    BY <1>8, EntryReads DEF Null, InBody, Read
  <2> QED
    BY <1>1, <1>4, <1>8, <2>1, NullKeeps, NullsTake
<1>9. CASE Scalar(it) \/ Collection(it) \/ Unknown(it) \/ Skipped(it)
  <2>1. Reads
    BY <1>9, EntryReads, HolderReads, DroppedReads
  <2>2. phase' = "body" /\ UNCHANGED nulls
    BY <1>9 DEF Scalar, Collection, Unknown, Skipped, InBody, Read
  <2> QED
    BY <1>5, <2>1, <2>2
<1>10. CASE Message(it) \/ KeyedEntry(it)
  <2>1. Enters
    BY <1>1, <1>10, MessageEnters, KeyedEnters
  <2>2. phase' = "body" /\ UNCHANGED nulls
    BY <1>10 DEF Message, KeyedEntry, InBody, Read
  <2> QED
    BY <1>6, <2>1, <2>2
<1>11. CASE ListItem(it) \/ MapEntry(it)
  <2>1. phase' = "body" /\ UNCHANGED nulls
    BY <1>11 DEF ListItem, MapEntry, Read
  <2>2. CASE it.val = "block"
    BY <1>1, <1>6, <1>11, <2>1, <2>2, ItemEnters
  <2>3. CASE it.val # "block"
    BY <1>5, <1>11, <2>1, <2>3, LeafReads
  <2> QED
    BY <2>2, <2>3
<1>12. CASE TypeEntry(it)
  <2>0. PICK n \in Nat, type \in Types : \E url : Retypes(n, type, url)
    BY <1>12, EntryRetypes
  <2>1. PICK url : Retypes(n, type, url)
    BY <2>0
  <2>2. Goes(CompleteOnes, CompleteOnes')
    <3> SUFFICES ASSUME NEW p \in DOMAIN msg.bodies \cap CompleteOnes, ~IsOpen(frames, p)
                 PROVE  p \in CompleteOnes'
      BY DEF Goes
    <3>1. p # Top.path
      BY <2>1 DEF IsOpen, Retypes, Frames
    <3> QED
      BY <2>1, <3>1, CompleteStays DEF Retypes, Retyped
  <2>3. Covered(frames', msg'.bodies, present' \ nulls', CompleteOnes')
    BY <1>1, <2>1, <2>2, CoveredRetypes
  <2>4. NullsSpent(frames', nulls')
    BY <1>1, <2>1, NullsRetype
  <2>5. phase' # "done"
    BY <1>12 DEF TypeEntry, Read
  <2> QED
    BY <1>2, <2>3, <2>4, <2>5
<1>13. CASE Close(it)
  <2>1. it.val \in Closers /\ phase' # "done" /\ UNCHANGED <<call, present>>
    <3>1. it.val = Top.close /\ it.val # "eof"
      BY <1>13 DEF Close
    <3>2. PICK n \in Nat : n = Len(frames) /\ n >= 1
      BY Positions DEF Stack
    <3> QED
      BY <1>13, <3>1, <3>2 DEF Close, Read, Stack, Levels, Top, Closers
  <2>2. Top.kind = "body" /\ PassedAtClose(Top) => ~Missing(msg, Top.path)
    BY <1>1, <2>1, CloseTaken DEF CloseRefused
  <2>3. Same(msg.bodies, msg'.bodies)
    <3>1. CASE msg' = msg
      BY <3>1 DEF Same
    <3>2. CASE msg' = Completed(msg, Top.path)
      BY <3>2, NothingDisplaced DEF Counted, Built, Fits
    <3> QED
      BY <1>13, <3>1, <3>2 DEF Close
  <2>4. CompleteOnes \subseteq CompleteOnes'
    <3>1. \A p \in CompleteOnes : p \in DOMAIN msg.bodies
      BY DEF CompleteOnes
    <3> QED
      BY <2>1, <2>3, <3>1, CompleteStays DEF Same
  <2>5. Covered(frames', msg'.bodies, present' \ nulls', CompleteOnes')
    <3>1. Goes(CompleteOnes, CompleteOnes')
      BY <2>4 DEF Goes
    <3>2. Top.kind = "body" /\ PassedAtClose(Top) => Visited(msg, Top.path) \subseteq CompleteOnes'
      BY <2>2, <2>4, VisitedComplete
    <3> QED
      BY <1>1, <1>13, <3>1, <3>2, CoveredCloses
  <2>6. NullsSpent(frames', nulls')
    BY <1>1, <1>13, NullsClose
  <2> QED
    BY <1>2, <2>1, <2>5, <2>6
<1>14. CASE Finish(it)
  <2>1. ~Missing(msg, Top.path)
    BY <1>1, <1>14, FinishTaken DEF CloseRefused
  <2>2. UNCHANGED <<call, present>> /\ phase' = "done" /\ Same(msg.bodies, msg'.bodies)
    BY <1>14, NothingDisplaced DEF Finish, Counted, Built, Fits
  <2>3. ASSUME NEW p \in DOMAIN msg.bodies
        PROVE  p \in CompleteOnes
    <3>1. CASE Quiet(msg.bodies[p].type)
      <4>1. ~Annotated(msg.bodies[p].type)
        BY <3>1, QuietPlain DEF Built, Fits, Typed
      <4> QED
        BY <4>1 DEF Annotated, CompleteOnes, Complete
    <3>2. CASE p \in Visited(msg, Top.path)
      BY <2>1, <3>2, VisitedComplete
    <3> QED
      BY <1>1, <1>14, <3>1, <3>2, AllCovered
  <2>4. \A p \in DOMAIN msg'.bodies : p \in CompleteOnes'
    BY <2>2, <2>3, CompleteStays DEF Same
  <2> QED
    BY <2>2, <2>4 DEF Passing
<1> QED
  BY <1>7, <1>8, <1>9, <1>10, <1>11, <1>12, <1>13, <1>14 DEF Take

\* The call is the one that was made.
LEMMA CallStays == call \in Calls /\ [Next]_vars => call' \in Calls
<1> SUFFICES ASSUME [Next]_vars PROVE UNCHANGED call
  OBVIOUS
<1> QED
  BY DEF Next, Start, Refuse, Take, Directive, Null, Scalar, Message, Collection, Unknown, Skipped,
         TypeEntry, ListItem, KeyedEntry, MapEntry, Close, Finish, InBody, Read, vars

\* Every step leaves each body covered.
LEMMA PassingStep ==
  /\ Stack /\ Counted /\ Built /\ Recorded /\ Passing /\ call \in Calls /\ Built' /\ [Next]_vars
  => Passing'
<1> SUFFICES ASSUME Stack, Counted, Built, Recorded, Passing, call \in Calls, Built', [Next]_vars
             PROVE  Passing'
  OBVIOUS
<1>1. ASSUME UNCHANGED <<call, frames, msg, present, nulls>>, phase' = phase \/ (phase # "done" /\ phase' # "done")
      PROVE  Passing'
  BY <1>1 DEF Passing, CompleteOnes, Complete, Passed
<1>2. CASE Start \/ UNCHANGED vars
  <2>1. UNCHANGED <<call, frames, msg, present, nulls>>
    BY <1>2 DEF Start, vars
  <2>2. phase' = phase \/ (phase # "done" /\ phase' # "done")
    BY <1>2 DEF Start, vars
  <2> QED
    BY <1>1, <2>1, <2>2
<1>3. CASE Reading /\ \E it \in Readable : Take(it)
  <2>1. PICK it \in Readable : Take(it)
    BY <1>3
  <2>2. CASE Refuses(it)
    BY <1>1, <1>3, <2>1, <2>2 DEF Take, Refuse, Reading
  <2> QED
    BY <1>3, <2>1, <2>2, PassingTakes
<1> QED
  BY <1>2, <1>3 DEF Next

\* At the start the root alone is there, and it is open.
LEMMA PassingInit == Init => Passing
<1> SUFFICES ASSUME Init PROVE Passing
  OBVIOUS
<1>1. DOMAIN frames = {1} /\ frames[1] = Root /\ Root.kind = "body" /\ Root.close = "eof" /\ Root.path = <<>>
  BY DEF Init, Root
<1>2. DOMAIN msg.bodies = {<<>>} /\ nulls = {} /\ phase # "done"
  BY DEF Init, Empty
<1>3. PICK e : e = <<>>
  OBVIOUS
<1>4. Leads(msg.bodies, present \ nulls, e, e)
  BY <1>3, SeqEmpty, LeadsHere
<1>5. Covered(frames, msg.bodies, present \ nulls, CompleteOnes)
  BY <1>1, <1>2, <1>3, <1>4 DEF Covered, CoveredAt, Guarded, Guards, Closing
<1> QED
  BY <1>2, <1>5 DEF Passing, NullsSpent

\* The document is accepted with everything its types require: wherever a body stands,
\* in an element, in a map value or in an Any, the pass comes to it when the document or
\* the Any around it closes, unless nothing is required in it, and refuses the document
\* if it misses a field (post_decode, PostDecodePlan).
THEOREM RequiredHolds == Spec => []RequiredEverywhere
<1>1. Passing => RequiredEverywhere
  BY DEF Passing, CompleteOnes, Complete, RequiredEverywhere
<1>2. Init => Stack /\ Counted /\ Built /\ Recorded /\ Passing /\ call \in Calls
  BY StackInit, CountedInit, BuiltInit, RecordedInit, PassingInit DEF Init
<1>3. Stack /\ Counted /\ Built /\ Recorded /\ Passing /\ call \in Calls /\ [Next]_vars =>
        (Stack /\ Counted /\ Built /\ Recorded /\ Passing /\ call \in Calls)'
  BY StackStep, CountedStep, BuiltStep, RecordedStep, PassingStep, CallStays
<1> QED
  BY <1>1, <1>2, <1>3, PTL DEF Spec

-----------------------------------------------------------------------------
(***************************************************************************)
(* Theorems about defaults and oneofs (post_decode, set_field), for every  *)
(* schema, every document and all limits: of every oneof one member at     *)
(* most is in the message, nothing stands where the text says null, and    *)
(* every field the text leaves out has its default.                        *)
(***************************************************************************)

-----------------------------------------------------------------------------
(***************************************************************************)
(* The invariant: what the text says of a body is in it, and nothing else  *)
(* until it has had its pass.                                              *)
(***************************************************************************)
HasIn(m, p, name) == At(p, name) \in DOMAIN m.leaves \cup DOMAIN m.bodies

ExclusiveIn(m, p) ==
  \A f \in FieldsOf(m.bodies[p].type) : HasIn(m, p, f.name) =>
    \A n \in Siblings(m.bodies[p].type, f) : ~HasIn(m, p, n)
Exclusive(m) == \A p \in DOMAIN m.bodies : ExclusiveIn(m, p)

\* A body in which all defaults that apply are held.
Applies(p, type, f) ==
  HasDefault(f) /\ ~OneofOverfull(type, f) /\ At(p, f.name) \notin present /\ ~Passed(p, f)
Chosen(p, type, f) == \E n \in Siblings(type, f) : At(p, n) \in present
Held(p, type, f) ==
  IF Chosen(p, type, f) \/ Unsaid(f, Leaf(DefaultOf(f))) THEN ~HasIn(msg, p, f.name)
  ELSE At(p, f.name) \in DOMAIN msg.leaves /\ msg.leaves[At(p, f.name)].text = DefaultOf(f)
SettledAt(p) ==
  \A f \in FieldsOf(msg.bodies[p].type) :
    Applies(p, msg.bodies[p].type, f) => Held(p, msg.bodies[p].type, f)
SettledOnes == {p \in DOMAIN msg.bodies : SettledAt(p)}

\* Every leaf is in a body.
LeavesLand(m) == \A q \in DOMAIN m.leaves : \E p \in DOMAIN m.bodies : \E s : Appends(p, s, q)

NullsGone(m, marks) == \A q \in marks : q \notin DOMAIN m.leaves \cup DOMAIN m.bodies

\* A leaf of an open body is of a field that is bound there, or the key of an entry.
Explains(frame, name) ==
  name \in frame.bound \/ (frame.element.named /\ frame.element.key = name)
LeavesBound(fs, m) ==
  \A k \in DOMAIN fs : fs[k].kind = "body" =>
    \A name : At(fs[k].path, name) \in DOMAIN m.leaves => Explains(fs[k], name)

\* A leaf the text does not say is a default that a pass has left.
LeavesSaid(fs, m, said, right) ==
  \A p \in DOMAIN m.bodies : \A name : At(p, name) \in DOMAIN m.leaves =>
    At(p, name) \in said \/ (p \in right /\ ~IsOpen(fs, p))

Filling ==
  /\ Exclusive(msg) /\ NullsGone(msg, nulls)
  /\ IF phase = "done" THEN \A p \in DOMAIN msg.bodies : p \in SettledOnes
     ELSE /\ Covered(frames, msg.bodies, present \ nulls, SettledOnes)
          /\ LeavesLand(msg) /\ LeavesBound(frames, msg)
          /\ LeavesSaid(frames, msg, present, SettledOnes)
          /\ frames[1].path = <<>>

-----------------------------------------------------------------------------
(***************************************************************************)
(* Paths.                                                                  *)
(***************************************************************************)

\* What leads through fields of a body to a field of another leads through them to
\* that body.
LEMMA ThroughAt ==
  ASSUME NEW w, NEW p, IsSeq(w), IsSeq(p), NEW names, NEW name, Through(w, names, At(p, name))
  PROVE  (p = w /\ name \in names) \/ Through(w, names, p)
<1>1. PICK q, e : q = At(p, name) /\ Appends(p, e, q) /\ e[1] = name
  BY AtAppends
<1>2. PICK l \in Nat : /\ l = Len(p) /\ Len(q) = l + 1 /\ q[l + 1] = e
                       /\ \A k \in 1..l : q[k] = p[k]
                       /\ SubSeq(q, 1, l) = p /\ \A n \in 0..l : SubSeq(q, 1, n) = SubSeq(p, 1, n)
  BY <1>1, LongerPath
<1>3. PICK j \in Nat : j = Len(w)
  BY SeqLength
<1>4. j < l + 1 /\ SubSeq(q, 1, j) = w /\ q[j + 1][1] \in names
  BY <1>1, <1>2, <1>3 DEF Through, Begins
<1>5. CASE j = l
  BY <1>1, <1>2, <1>4, <1>5
<1>6. CASE j # l
  <2>1. j \in 0..l /\ j + 1 \in 1..l /\ j < l
    BY <1>4, <1>6
  <2>2. SubSeq(p, 1, j) = w /\ p[j + 1][1] \in names
    BY <1>2, <1>4, <2>1
  <2> QED
    BY <1>2, <1>3, <2>1, <2>2 DEF Through, Begins
<1> QED
  BY <1>5, <1>6

\* What leads to a body leads to its fields.
LEMMA AtThrough ==
  ASSUME NEW w, IsSeq(w), NEW names, NEW name \in names
  PROVE  Through(w, names, At(w, name))
<1>1. PICK q, e : q = At(w, name) /\ Appends(w, e, q) /\ e[1] = name
  BY AtAppends
<1>2. PICK l \in Nat : l = Len(w) /\ Len(q) = l + 1 /\ q[l + 1] = e /\ SubSeq(q, 1, l) = w
  BY <1>1, LongerPath
<1> QED
  BY <1>1, <1>2 DEF Through, Begins

\* A path that is of no body but one, whatever the field.
Foreign(w, r) == \A p : IsSeq(p) /\ p # w => \A name : r # At(p, name)

\* A place in one body is foreign to every other.
LEMMA ForeignAt ==
  ASSUME NEW w, IsSeq(w), NEW name
  PROVE  Foreign(w, At(w, name))
<1> SUFFICES ASSUME NEW p, IsSeq(p), p # w, NEW n, At(w, name) = At(p, n) PROVE FALSE
  BY DEF Foreign
<1>1. w = p
  BY AtSame
<1> QED
  BY <1>1

\* The path of an element is that of no field.
LEMMA ElementNoField ==
  ASSUME NEW p, IsSeq(p), NEW s, NEW r, Appends(p, s, r), s[3] # 0
  PROVE  \A b : IsSeq(b) => \A name : r # At(b, name)
<1> SUFFICES ASSUME NEW b, IsSeq(b), NEW name, r = At(b, name) PROVE FALSE
  OBVIOUS
<1>1. PICK e : Appends(b, e, r) /\ e[3] = 0
  BY AtAppends
<1>2. PICK l \in Nat : l = Len(p) /\ Len(r) = l + 1 /\ r[l + 1] = s
  BY LongerPath
<1>3. PICK j \in Nat : j = Len(b) /\ Len(r) = j + 1 /\ r[j + 1] = e
  BY <1>1, LongerPath
<1>4. l = j
  BY <1>2, <1>3
<1> QED
  BY <1>1, <1>2, <1>3, <1>4

\* In a body that is not there yet, there is nothing.
LEMMA FreshHasNothing ==
  ASSUME NEW m, Typed(m.bodies), LeavesLand(m), NEW q, q \notin DOMAIN m.bodies, IsSeq(q)
  PROVE  \A name : ~HasIn(m, q, name)
<1> SUFFICES ASSUME NEW name, HasIn(m, q, name) PROVE FALSE
  OBVIOUS
<1>1. PICK r, e : r = At(q, name) /\ Appends(q, e, r)
  BY AtAppends
<1>2. PICK l \in Nat : l = Len(q) /\ Len(r) = l + 1 /\ SubSeq(r, 1, l) = q
  BY <1>1, LongerPath
<1>3. CASE r \in DOMAIN m.bodies
  <2>1. Beneath(q, r)
    BY <1>2 DEF Beneath
  <2> QED
    BY <1>3, <2>1, NothingUnder
<1>4. CASE r \in DOMAIN m.leaves
  <2>1. PICK p \in DOMAIN m.bodies : \E s : Appends(p, s, r)
    BY <1>4 DEF LeavesLand
  <2>2. PICK s : Appends(p, s, r)
    BY <2>1
  <2>3. PICK j \in Nat : j = Len(p) /\ Len(r) = j + 1 /\ SubSeq(r, 1, j) = p
    BY <2>1, <2>2, LongerPath DEF Typed
  <2>4. j = l
    BY <1>2, <2>3
  <2> QED
    BY <1>2, <2>3, <2>4
<1> QED
  BY <1>1, <1>3, <1>4 DEF HasIn

-----------------------------------------------------------------------------
(***************************************************************************)
(* What a step leaves alone.                                               *)
(***************************************************************************)

\* The fields of a body are as they were.
Unmoved(p) ==
  /\ p \in DOMAIN msg'.bodies /\ msg'.bodies[p].type = msg.bodies[p].type
  /\ \A name :
       /\ At(p, name) \in present' <=> At(p, name) \in present
       /\ At(p, name) \in DOMAIN msg'.leaves <=> At(p, name) \in DOMAIN msg.leaves
       /\ At(p, name) \in DOMAIN msg'.bodies <=> At(p, name) \in DOMAIN msg.bodies
       /\ At(p, name) \in DOMAIN msg.leaves => msg'.leaves[At(p, name)] = msg.leaves[At(p, name)]

\* A body that is unmoved holds what it held.
LEMMA UnmovedHas ==
  ASSUME NEW p, Unmoved(p)
  PROVE  \A name : HasIn(msg', p, name) <=> HasIn(msg, p, name)
<1> QED
  BY DEF Unmoved, HasIn

\* Its oneofs hold one member at most, as before.
LEMMA UnmovedExclusive ==
  ASSUME NEW p, Unmoved(p), ExclusiveIn(msg, p)
  PROVE  ExclusiveIn(msg', p)
<1>1. msg'.bodies[p].type = msg.bodies[p].type
  BY DEF Unmoved
<1> QED
  BY <1>1, UnmovedHas DEF ExclusiveIn

\* And it stays settled.
LEMMA UnmovedSettled ==
  ASSUME UNCHANGED call, NEW p \in SettledOnes, Unmoved(p)
  PROVE  p \in SettledOnes'
<1>1. p \in DOMAIN msg'.bodies /\ msg'.bodies[p].type = msg.bodies[p].type
  BY DEF Unmoved
<1>2. PICK type : type = msg.bodies[p].type
  OBVIOUS
<1> SUFFICES ASSUME NEW f \in FieldsOf(type), Applies(p, type, f)'
             PROVE  Held(p, type, f)'
  BY <1>1, <1>2 DEF SettledOnes, SettledAt
<1>3. Applies(p, type, f)
  BY DEF Applies, Unmoved, Passed
<1>4. Held(p, type, f)
  BY <1>2, <1>3 DEF SettledOnes, SettledAt
<1>5. Chosen(p, type, f)' <=> Chosen(p, type, f)
  BY DEF Unmoved, Chosen
<1>6. HasIn(msg', p, f.name) <=> HasIn(msg, p, f.name)
  BY UnmovedHas
<1>7. /\ At(p, f.name) \in DOMAIN msg'.leaves <=> At(p, f.name) \in DOMAIN msg.leaves
      /\ At(p, f.name) \in DOMAIN msg.leaves => msg'.leaves[At(p, f.name)] = msg.leaves[At(p, f.name)]
  BY DEF Unmoved
<1>8. CASE Chosen(p, type, f) \/ Unsaid(f, Leaf(DefaultOf(f)))
  BY <1>4, <1>5, <1>6, <1>8 DEF Held
<1>9. CASE ~(Chosen(p, type, f) \/ Unsaid(f, Leaf(DefaultOf(f))))
  BY <1>4, <1>5, <1>7, <1>9 DEF Held
<1> QED
  BY <1>8, <1>9

\* One leaf is set and others are cut, all under one body.
Sets(old, new, w, names, x) ==
  /\ \A r \in DOMAIN new : r = x \/ (r \in DOMAIN old /\ ~Through(w, names, r) /\ new[r] = old[r])
  /\ \A r \in DOMAIN old : r = x \/ Through(w, names, r) \/ r \in DOMAIN new

\* What a step adds and cuts is of one body, or of elements, and no body is cut.
Touches(w, names, x) ==
  /\ IsSeq(w) /\ Sets(msg.leaves, msg'.leaves, w, names, x) /\ Foreign(w, x)
  /\ \A p \in DOMAIN msg.bodies : ~Through(w, names, p)
  /\ \A p \in DOMAIN msg.bodies : p \in DOMAIN msg'.bodies
  /\ \A p \in DOMAIN msg.bodies : p # w => msg'.bodies[p].type = msg.bodies[p].type
  /\ \A r \in DOMAIN msg'.bodies : r \notin DOMAIN msg.bodies => Foreign(w, r)
  /\ present \subseteq present' /\ \A r \in present' : r \notin present => Foreign(w, r)

\* So every other body is left alone.
LEMMA OthersUnmoved ==
  ASSUME Typed(msg.bodies), NEW w, NEW names, NEW x, Touches(w, names, x),
         NEW p \in DOMAIN msg.bodies, p # w
  PROVE  Unmoved(p)
<1>1. IsSeq(p) /\ IsSeq(w) /\ p \in DOMAIN msg'.bodies /\ msg'.bodies[p].type = msg.bodies[p].type
  BY DEF Touches, Typed
<1> SUFFICES ASSUME NEW name
             PROVE  /\ At(p, name) \in present' <=> At(p, name) \in present
                    /\ At(p, name) \in DOMAIN msg'.leaves <=> At(p, name) \in DOMAIN msg.leaves
                    /\ At(p, name) \in DOMAIN msg'.bodies <=> At(p, name) \in DOMAIN msg.bodies
                    /\ At(p, name) \in DOMAIN msg.leaves => msg'.leaves[At(p, name)] = msg.leaves[At(p, name)]
  BY <1>1 DEF Unmoved
<1>2. PICK r : r = At(p, name)
  OBVIOUS
<1>3. ~Foreign(w, r)
  BY <1>1, <1>2 DEF Foreign
<1>4. ~Through(w, names, r)
  <2> SUFFICES ASSUME Through(w, names, At(p, name)) PROVE FALSE
    BY <1>2
  <2>1. Through(w, names, p)
    BY <1>1, ThroughAt
  <2> QED
    BY <2>1 DEF Touches
<1>5. r \in present' <=> r \in present
  BY <1>3 DEF Touches
<1>6. r \in DOMAIN msg'.bodies <=> r \in DOMAIN msg.bodies
  BY <1>3 DEF Touches
<1>7. r # x /\ Sets(msg.leaves, msg'.leaves, w, names, x)
  BY <1>3 DEF Touches
<1>8. /\ r \in DOMAIN msg'.leaves <=> r \in DOMAIN msg.leaves
      /\ r \in DOMAIN msg.leaves => msg'.leaves[r] = msg.leaves[r]
  BY <1>4, <1>7 DEF Sets
<1> QED
  BY <1>2, <1>5, <1>6, <1>8

\* The frames of other bodies go on, and the root's is where it was.
FramesGo(w) ==
  /\ \A k \in DOMAIN frames' :
       frames'[k].kind = "body" /\ frames'[k].path \in DOMAIN msg.bodies \ {w} =>
         k \in DOMAIN frames /\ Follows(frames[k], frames'[k])
  /\ frames'[1].path = frames[1].path

\* A step writes in one body what the text says there, and what it opens is empty.
Writes(w) ==
  /\ \A p \in DOMAIN msg.bodies : p # w => Unmoved(p)
  /\ \A p \in DOMAIN msg'.bodies : p \in DOMAIN msg.bodies \/ p = w \/ \A name : ~HasIn(msg', p, name)
  /\ w \in DOMAIN msg.bodies => IsOpen(frames, w)
  /\ w \in DOMAIN msg'.bodies => ExclusiveIn(msg', w)
  /\ \A name : At(w, name) \in DOMAIN msg'.leaves =>
       /\ At(w, name) \in present'
       /\ \A k \in DOMAIN frames' :
            frames'[k].kind = "body" /\ frames'[k].path = w => Explains(frames'[k], name)
  /\ NullsGone(msg', nulls') /\ LeavesLand(msg') /\ FramesGo(w)

\* What is right of a body is right still, unless it is open.
LEMMA WritesGoes ==
  ASSUME UNCHANGED call, NEW w, Writes(w)
  PROVE  Goes(SettledOnes, SettledOnes')
<1> SUFFICES ASSUME NEW p \in DOMAIN msg.bodies \cap SettledOnes, ~IsOpen(frames, p)
             PROVE  p \in SettledOnes'
  BY DEF Goes
<1>1. Unmoved(p)
  BY DEF Writes
<1> QED
  BY <1>1, UnmovedSettled

\* A body stays filled with what the text says.
LEMMA FillingWrites ==
  ASSUME Built, Built', Filling, phase # "done", phase' # "done", UNCHANGED call, NEW w, Writes(w),
         Covered(frames', msg'.bodies, present' \ nulls', SettledOnes')
  PROVE  Filling'
<1>1. Exclusive(msg')
  <2> SUFFICES ASSUME NEW p \in DOMAIN msg'.bodies PROVE ExclusiveIn(msg', p)
    BY DEF Exclusive
  <2>1. CASE p \in DOMAIN msg.bodies /\ p # w
    BY <2>1, UnmovedExclusive DEF Writes, Filling, Exclusive
  <2>2. CASE p = w
    BY <2>2 DEF Writes
  <2>3. CASE \A name : ~HasIn(msg', p, name)
    BY <2>3 DEF ExclusiveIn
  <2> QED
    BY <2>1, <2>2, <2>3 DEF Writes
<1>2. LeavesBound(frames', msg')
  <2> SUFFICES ASSUME NEW k \in DOMAIN frames', frames'[k].kind = "body",
                      NEW name, At(frames'[k].path, name) \in DOMAIN msg'.leaves
               PROVE  Explains(frames'[k], name)
    BY DEF LeavesBound
  <2>1. PICK p \in DOMAIN msg'.bodies : p = frames'[k].path
    BY DEF Built, Fits, Placed, OnBody
  <2>2. CASE p \in DOMAIN msg.bodies /\ p # w
    <3>1. k \in DOMAIN frames /\ Follows(frames[k], frames'[k])
      BY <2>1, <2>2 DEF Writes, FramesGo
    <3>2. At(frames[k].path, name) \in DOMAIN msg.leaves /\ frames[k].kind = "body"
      BY <2>1, <2>2, <3>1 DEF Writes, Unmoved, Follows, Alike
    <3>3. Explains(frames[k], name)
      BY <3>1, <3>2 DEF Filling, LeavesBound
    <3> QED
      BY <3>1, <3>3 DEF Explains, Follows, Alike
  <2>3. CASE p = w
    BY <2>1, <2>3 DEF Writes
  <2>4. CASE \A n : ~HasIn(msg', p, n)
    BY <2>1, <2>4 DEF HasIn
  <2> QED
    BY <2>2, <2>3, <2>4 DEF Writes
<1>3. LeavesSaid(frames', msg', present', SettledOnes')
  <2> SUFFICES ASSUME NEW p \in DOMAIN msg'.bodies, NEW name, At(p, name) \in DOMAIN msg'.leaves
               PROVE  At(p, name) \in present' \/ (p \in SettledOnes' /\ ~IsOpen(frames', p))
    BY DEF LeavesSaid
  <2>1. CASE p \in DOMAIN msg.bodies /\ p # w
    <3>1. Unmoved(p)
      BY <2>1 DEF Writes
    <3>2. At(p, name) \in present \/ (p \in SettledOnes /\ ~IsOpen(frames, p))
      BY <2>1, <3>1 DEF Unmoved, Filling, LeavesSaid
    <3>3. CASE At(p, name) \in present
      BY <3>1, <3>3 DEF Unmoved
    <3>4. CASE p \in SettledOnes /\ ~IsOpen(frames, p)
      <4>1. ~IsOpen(frames', p)
        BY <2>1, <3>4 DEF Writes, FramesGo, IsOpen, Follows, Alike
      <4> QED
        BY <3>1, <3>4, <4>1, UnmovedSettled
    <3> QED
      BY <3>2, <3>3, <3>4
  <2>2. CASE p = w
    BY <2>2 DEF Writes
  <2>3. CASE \A n : ~HasIn(msg', p, n)
    BY <2>3 DEF HasIn
  <2> QED
    BY <2>1, <2>2, <2>3 DEF Writes
<1>4. frames'[1].path = <<>>
  BY DEF Writes, FramesGo, Filling
<1> QED
  BY <1>1, <1>2, <1>3, <1>4 DEF Filling, Writes

-----------------------------------------------------------------------------
(***************************************************************************)
(* What is written, item by item.                                          *)
(***************************************************************************)

\* Where no body is opened, the frames of bodies go on.
LEMMA FramesRead ==
  ASSUME Reads
  PROVE  /\ \A k \in DOMAIN frames' : frames'[k].kind = "body" =>
              k \in DOMAIN frames /\ Follows(frames[k], frames'[k])
         /\ \A w : FramesGo(w)
<1>1. PICK n \in Nat : \E h : Keeping(n, h) /\ (h = n + 1 => frames'[h].kind # "body")
  BY DEF Reads
<1>2. PICK h : Keeping(n, h) /\ (h = n + 1 => frames'[h].kind # "body")
  BY <1>1
<1>3. /\ DOMAIN frames = 1..n /\ DOMAIN frames' = 1..h /\ h \in {n, n + 1} /\ n >= 1
      /\ \A k \in 1..n : Follows(frames[k], frames'[k])
  BY <1>2 DEF Keeping, Frames, Following
<1>4. \A k \in DOMAIN frames' : frames'[k].kind = "body" => k \in DOMAIN frames
  BY <1>2, <1>3
<1>5. frames'[1].path = frames[1].path
  <2>1. 1 \in 1..n
    BY <1>3
  <2> QED
    BY <1>3, <2>1 DEF Follows, Alike
<1> QED
  BY <1>3, <1>4, <1>5 DEF FramesGo

\* Where one is, they are under its frame.
LEMMA FramesEnter ==
  ASSUME NEW n \in Nat, NEW f, NEW e, NEW q, Adds(n, f, e, q)
  PROVE  /\ n + 1 \in DOMAIN frames' /\ frames'[n + 1].path = q /\ q \notin DOMAIN msg.bodies
         /\ \A k \in DOMAIN frames' : k = n + 1 \/ (k \in DOMAIN frames /\ Follows(frames[k], frames'[k]))
         /\ \A w : FramesGo(w)
<1>1. Keeping(n, n + 1) /\ frames'[n + 1].path = q /\ q \notin DOMAIN msg.bodies
  BY DEF Adds, Grows
<1>2. /\ DOMAIN frames = 1..n /\ DOMAIN frames' = 1..(n + 1) /\ n >= 1
      /\ \A k \in 1..n : Follows(frames[k], frames'[k])
  BY <1>1 DEF Keeping, Frames, Following
<1>3. \A k \in DOMAIN frames' : k = n + 1 \/ k \in 1..n
  BY <1>2
<1>4. frames'[1].path = frames[1].path
  <2>1. 1 \in 1..n
    BY <1>2
  <2> QED
    BY <1>2, <2>1 DEF Follows, Alike
<1>5. \A w : FramesGo(w)
  BY <1>1, <1>2, <1>3, <1>4 DEF FramesGo
<1> QED
  BY <1>1, <1>2, <1>3, <1>5

\* No two open bodies are at one path.
LEMMA OneFrame ==
  ASSUME Stack, Built, Top.kind = "body", NEW k \in DOMAIN frames, frames[k].kind = "body",
         frames[k].path = Top.path
  PROVE  k = Len(frames)
<1>1. Len(frames) \in Nat /\ DOMAIN frames = 1..Len(frames) /\ Len(frames) \in DOMAIN frames
  BY Positions DEF Stack
<1> SUFFICES ASSUME k # Len(frames) PROVE FALSE
  OBVIOUS
<1>2. k \in 1..(Len(frames) - 1)
  BY <1>1
<1>3. Len(frames[k].path) < Len(Top.path) /\ IsSeq(Top.path)
  BY <1>1, <1>2, OpenBodies DEF Top
<1> QED
  BY <1>3, SeqLength

\* Nothing leads through no fields.
LEMMA ThroughNone ==
  \A w, r : ~Through(w, {}, r)
<1> QED
  BY DEF Through

\* Where no leaf of an open body is set, and what is added beside it is empty.
LEMMA QuietWrites ==
  ASSUME Built, Filling, phase # "done", NEW w \in DOMAIN msg.bodies, IsOpen(frames, w),
         NEW x, Touches(w, {}, x), msg'.bodies[w].type = msg.bodies[w].type,
         \A name : HasIn(msg', w, name) => HasIn(msg, w, name),
         \A name : At(w, name) \in DOMAIN msg'.leaves => At(w, name) \in DOMAIN msg.leaves,
         \A p \in DOMAIN msg'.bodies : p \in DOMAIN msg.bodies \/ \A name : ~HasIn(msg', p, name),
         FramesGo(w),
         \A k \in DOMAIN frames' : frames'[k].kind = "body" /\ frames'[k].path = w =>
           k \in DOMAIN frames /\ Follows(frames[k], frames'[k]),
         NullsGone(msg', nulls'), LeavesLand(msg')
  PROVE  Writes(w)
<1>1. \A p \in DOMAIN msg.bodies : p # w => Unmoved(p)
  BY OthersUnmoved DEF Built, Fits
<1>2. ExclusiveIn(msg', w)
  BY DEF ExclusiveIn, Filling, Exclusive
<1>3. ASSUME NEW name, At(w, name) \in DOMAIN msg'.leaves
      PROVE  /\ At(w, name) \in present'
             /\ \A k \in DOMAIN frames' :
                  frames'[k].kind = "body" /\ frames'[k].path = w => Explains(frames'[k], name)
  <2>1. At(w, name) \in DOMAIN msg.leaves
    BY <1>3
  <2>2. At(w, name) \in present
    BY <2>1 DEF Filling, LeavesSaid
  <2>3. At(w, name) \in present'
    BY <2>2 DEF Touches
  <2>4. ASSUME NEW k \in DOMAIN frames', frames'[k].kind = "body", frames'[k].path = w
        PROVE  Explains(frames'[k], name)
    <3>1. k \in DOMAIN frames /\ Follows(frames[k], frames'[k])
      BY <2>4
    <3>2. frames[k].kind = "body" /\ frames[k].path = w
      BY <2>4, <3>1 DEF Follows, Alike
    <3>3. Explains(frames[k], name)
      BY <2>1, <3>1, <3>2 DEF Filling, LeavesBound
    <3> QED
      BY <3>1, <3>3 DEF Explains, Follows, Alike
  <2> QED
    BY <2>3, <2>4
<1> QED
  BY <1>1, <1>2, <1>3 DEF Writes

\* Where the message stays, marks alone are added.
LEMMA MarkWrites ==
  ASSUME Built, Filling, phase # "done", Reads, UNCHANGED msg, NEW w \in DOMAIN msg.bodies,
         IsOpen(frames, w), \A r \in present' : r \notin present => Foreign(w, r),
         NullsGone(msg, nulls')
  PROVE  Writes(w)
<1>1. PICK x : x = At(w, "")
  OBVIOUS
<1>2. IsSeq(w) /\ Foreign(w, x)
  BY <1>1, ForeignAt DEF Built, Fits, Typed
<1>3. Sets(msg.leaves, msg'.leaves, w, {}, x)
  BY ThroughNone DEF Sets
<1>4. Touches(w, {}, x)
  BY <1>2, <1>3, ThroughNone DEF Touches, Reads
<1>5. LeavesLand(msg)
  BY DEF Filling
<1> QED
  BY <1>4, <1>5, QuietWrites, FramesRead DEF HasIn

\* A null: nothing was set in its field.
LEMMA NullWrites ==
  ASSUME Stack, Counted, Built, Filling, phase # "done", NEW it, Null(it), ~Refuses(it)
  PROVE  \E w : Writes(w)
<1>1. PICK f : f = FieldOf(Top.type, it.name)
  OBVIOUS
<1>2. /\ f \in FieldsOf(Top.type) /\ f.shape = "one" /\ ~CheckBound(Top, f)
      /\ ~CheckBinding(Top.element, f, it) /\ it.val = "null"
  BY <1>1, NullTaken DEF Null
<1>3. /\ Top.kind = "body" /\ prefix = Top.path /\ IsSeq(Top.path) /\ Top.type \in Types
      /\ Top.path \in DOMAIN msg.bodies /\ Len(frames) \in DOMAIN frames
  BY TopPlaced, TopStands, Positions DEF Null, InBody, Stands, Stack
<1>4. /\ present' = present \cup {At(Top.path, f.name)}
      /\ nulls' = nulls \cup {At(Top.path, f.name)} /\ UNCHANGED msg
  BY <1>1, <1>3 DEF Null, MarkPresent
<1>5. Reads /\ IsOpen(frames, Top.path)
  BY <1>3, EntryReads DEF IsOpen, Top
<1>6. At(Top.path, f.name) \notin DOMAIN msg.leaves
  <2> SUFFICES ASSUME At(Top.path, f.name) \in DOMAIN msg.leaves PROVE FALSE
    OBVIOUS
  <2>1. Explains(Top, f.name)
    BY <1>3 DEF Filling, LeavesBound, Top
  <2> QED
    BY <1>2, <2>1 DEF Explains, CheckBound, CheckBinding
<1>7. At(Top.path, f.name) \notin DOMAIN msg.bodies
  <2>1. PICK q, e : q = At(Top.path, f.name) /\ Appends(Top.path, e, q) /\ e[1] = f.name
    BY AtAppends
  <2> SUFFICES ASSUME q \in DOMAIN msg.bodies PROVE FALSE
    BY <2>1
  <2>2. PICK l \in Nat : /\ l = Len(Top.path) /\ Len(q) = l + 1 /\ q[l + 1] = e
                         /\ SubSeq(q, 1, l) = Top.path
    BY <1>3, <2>1, LongerPath
  <2>3. Beneath(Top.path, q) /\ q[Len(Top.path) + 1][1] = f.name
    BY <2>1, <2>2 DEF Beneath
  <2>4. Accounts(Top, q)
    BY <1>3, <2>3 DEF Built, Fits, Accounted, Top
  <2> QED
    BY <1>2, <1>3, <2>3, <2>4, FieldIs DEF Accounts, CheckBound
<1>8. NullsGone(msg, nulls')
  BY <1>4, <1>6, <1>7 DEF NullsGone, Filling
<1>9. \A r \in present' : r \notin present => Foreign(Top.path, r)
  BY <1>3, <1>4, ForeignAt
<1> QED
  BY <1>3, <1>4, <1>5, <1>8, <1>9, MarkWrites

\* The root is open to the end.
LEMMA RootOpen ==
  ASSUME Stack, Built, Filling, phase # "done"
  PROVE  \E p \in DOMAIN msg.bodies : IsOpen(frames, p)
<1>1. 1 \in DOMAIN frames /\ frames[1].kind = "body"
  BY Positions DEF Stack, Levels
<1> QED
  BY <1>1, OpenBodies DEF IsOpen

\* So is the body that holds the elements being read.
LEMMA HolderOpen ==
  ASSUME Stack, Built, Top.kind \in {"list", "keyed", "map"}
  PROVE  Top.path \in DOMAIN msg.bodies /\ IsSeq(Top.path) /\ IsOpen(frames, Top.path)
<1>1. PICK n \in Nat : n = Len(frames) /\ n >= 1 /\ DOMAIN frames = 1..n /\ frames[n] = Top
  BY Positions DEF Stack, Top
<1>2. Within(frames, n, present)
  BY <1>1 DEF Built, Fits, Placed
<1>3. n - 1 \in DOMAIN frames /\ frames[n - 1].kind = "body" /\ frames[n - 1].path = Top.path
  BY <1>1, <1>2 DEF Within
<1> QED
  BY <1>3, TopPlaced DEF IsOpen

\* A field that is to be filled by elements, and a name that is dropped.
LEMMA DropWrites ==
  ASSUME Stack, Counted, Built, Filling, phase # "done", NEW it,
         Collection(it) \/ Unknown(it) \/ Skipped(it), ~Refuses(it)
  PROVE  \E w : Writes(w)
<1>1. Reads /\ UNCHANGED <<msg, nulls>>
  BY HolderReads, DroppedReads DEF Collection, Unknown, Skipped
<1>2. NullsGone(msg, nulls')
  BY <1>1 DEF Filling
<1>3. CASE Collection(it)
  <2>1. Top.kind = "body" /\ Top.path \in DOMAIN msg.bodies /\ IsSeq(Top.path) /\ prefix = Top.path
    BY <1>3, TopPlaced DEF Collection, InBody
  <2>2. IsOpen(frames, Top.path)
    BY <2>1, Positions DEF IsOpen, Top, Stack
  <2>3. PICK name : present' = present \cup {At(Top.path, name)}
    BY <1>3, <2>1 DEF Collection, MarkPresent
  <2>4. \A r \in present' : r \notin present => Foreign(Top.path, r)
    BY <2>1, <2>3, ForeignAt
  <2> QED
    BY <1>1, <1>2, <2>1, <2>2, <2>4, MarkWrites
<1>4. CASE Unknown(it) \/ Skipped(it)
  <2>1. PICK p \in DOMAIN msg.bodies : IsOpen(frames, p)
    BY RootOpen
  <2>2. UNCHANGED present
    BY <1>4 DEF Unknown, Skipped
  <2> QED
    BY <1>1, <1>2, <2>1, <2>2, MarkWrites
<1> QED
  BY <1>3, <1>4

\* The path of an element is not marked.
LEMMA ElementUnmarked ==
  ASSUME Built, NEW p, IsSeq(p), NEW s, NEW r, Appends(p, s, r), s[3] # 0
  PROVE  r \notin present
<1> SUFFICES ASSUME r \in present PROVE FALSE
  OBVIOUS
<1>1. PICK l \in Nat : l = Len(p) /\ Len(r) = l + 1 /\ r[l + 1] = s
  BY LongerPath
<1>2. r[Len(r)][3] = 0
  BY DEF Built, Fits, Landed, LandsIn
<1> QED
  BY <1>1, <1>2

\* What an item in a list or a map is read into.
LEMMA ItemPath ==
  ASSUME Stack, Counted, Built, NEW it, ListItem(it) \/ MapEntry(it)
  PROVE  \E q : \E e : /\ Appends(Top.path, e, q) /\ e[3] # 0
                       /\ IF it.val = "block" THEN msg' = AddBody(msg, Top.path, Field, q)
                          ELSE \E leaf : msg' = AddLeaf(msg, Top.path, Field, q, leaf)
<1>1. CASE ListItem(it)
  <2>1. PICK c \in Nat : c = Count(msg, Top.path, Field.name)
    BY CountIsInt DEF Counted
  <2>2. PICK q : q = IndexAt(Top.path, Field.name, c)
    OBVIOUS
  <2>3. PICK e : Appends(Top.path, e, q) /\ e[3] = c + 1
    BY <2>2, IndexAtAppends
  <2>4. e[3] # 0
    BY <2>1, <2>3
  <2>5. IF it.val = "block" THEN msg' = AddBody(msg, Top.path, Field, q)
        ELSE \E leaf : msg' = AddLeaf(msg, Top.path, Field, q, leaf)
    BY <1>1, <2>1, <2>2 DEF ListItem
  <2> QED
    BY <2>3, <2>4, <2>5
<1>2. CASE MapEntry(it)
  <2>1. PICK q : q = KeyAt(Top.path, Field.name, MapKey(Field, it))
    OBVIOUS
  <2>2. PICK e : Appends(Top.path, e, q) /\ e[3] = 1
    BY <2>1, KeyAtAppends
  <2>3. IF it.val = "block" THEN msg' = AddBody(msg, Top.path, Field, q)
        ELSE \E leaf : msg' = AddLeaf(msg, Top.path, Field, q, leaf)
    BY <1>2, <2>1 DEF MapEntry
  <2> QED
    BY <2>2, <2>3
<1> QED
  BY <1>1, <1>2

\* The leaves of a message with one element more.
LEMMA AddsLeaf ==
  ASSUME NEW m, NEW p, NEW f, NEW q, NEW leaf, NEW new, Shaped(m), new = AddLeaf(m, p, f, q, leaf)
  PROVE  new.leaves = Put(m.leaves, q, leaf) /\ new.bodies = m.bodies
<1> QED
  BY DEF AddLeaf, Shaped

\* Adding a body leaves the leaves and every other body alone.
LEMMA AddsBody ==
  ASSUME NEW m, NEW p, NEW f, NEW q, NEW new, Shaped(m), new = AddBody(m, p, f, q)
  PROVE  new.leaves = m.leaves /\ new.bodies = Put(m.bodies, q, NewBody(f))
<1> QED
  BY DEF AddBody, NewBody, Shaped

\* Leaves with one put in.
LEMMA PutSets ==
  ASSUME NEW old, NEW new, NEW x, NEW leaf, new = Put(old, x, leaf), NEW w
  PROVE  Sets(old, new, w, {}, x)
<1> QED
  BY ThroughNone DEF Put, Sets

\* An element that is a literal.
LEMMA LeafWrites ==
  ASSUME Stack, Counted, Built, Recorded, Filling, phase # "done", NEW it,
         ListItem(it) \/ MapEntry(it), it.val # "block"
  PROVE  \E w : Writes(w)
<1>1. PICK q, e, leaf : /\ Appends(Top.path, e, q) /\ e[3] # 0
                        /\ msg' = AddLeaf(msg, Top.path, Field, q, leaf)
  BY ItemPath
<1>2. Top.kind \in {"list", "map"} /\ UNCHANGED <<present, nulls>> /\ Reads
  BY LeafReads DEF ListItem, MapEntry
<1>3. /\ Top.path \in DOMAIN msg.bodies /\ IsSeq(Top.path) /\ IsOpen(frames, Top.path)
  BY <1>2, HolderOpen
<1>4. msg'.leaves = Put(msg.leaves, q, leaf) /\ msg'.bodies = msg.bodies
  BY <1>1, AddsLeaf DEF Counted
<1>5. q \notin present /\ \A b : IsSeq(b) => \A name : q # At(b, name)
  BY <1>1, <1>3, ElementUnmarked, ElementNoField
<1>6. DOMAIN msg'.leaves = DOMAIN msg.leaves \cup {q}
  BY <1>4 DEF Put
<1>7. Touches(Top.path, {}, q)
  BY <1>2, <1>3, <1>4, <1>5, PutSets, ThroughNone DEF Touches, Foreign
<1>8. \A name : /\ HasIn(msg', Top.path, name) => HasIn(msg, Top.path, name)
                /\ At(Top.path, name) \in DOMAIN msg'.leaves => At(Top.path, name) \in DOMAIN msg.leaves
  BY <1>3, <1>4, <1>5, <1>6 DEF HasIn
<1>9. NullsGone(msg', nulls')
  BY <1>2, <1>4, <1>5, <1>6 DEF NullsGone, Filling, Recorded
<1>10. LeavesLand(msg')
  BY <1>1, <1>3, <1>4, <1>6 DEF LeavesLand, Filling
<1> QED
  BY <1>2, <1>3, <1>4, <1>7, <1>8, <1>9, <1>10, QuietWrites, FramesRead

\* In a body that is added there is nothing.
LEMMA AddedHasNothing ==
  ASSUME Built, LeavesLand(msg), NEW p, NEW e, NEW q, Grows(msg.bodies, msg'.bodies, p, e, q),
         \A name : At(q, name) \in DOMAIN msg'.leaves => At(q, name) \in DOMAIN msg.leaves
  PROVE  \A name : ~HasIn(msg', q, name)
<1> SUFFICES ASSUME NEW name, HasIn(msg', q, name) PROVE FALSE
  OBVIOUS
<1>1. Typed(msg.bodies) /\ q \notin DOMAIN msg.bodies /\ DOMAIN msg'.bodies = DOMAIN msg.bodies \cup {q}
  BY DEF Built, Fits, Grows
<1>2. IsSeq(q)
  BY <1>1, LongerPath DEF Grows, Typed
<1>3. ~HasIn(msg, q, name)
  BY <1>1, <1>2, FreshHasNothing
<1>4. At(q, name) = q
  BY <1>1, <1>3 DEF HasIn
<1>5. PICK s : Appends(q, s, q)
  BY <1>4, AtAppends
<1>6. Len(q) \in Nat /\ Len(q) = Len(q) + 1
  BY <1>2, <1>5, LongerPath
<1> QED
  BY <1>6

\* An element that is a message.
LEMMA ItemWrites ==
  ASSUME Stack, Counted, Built, Recorded, Filling, phase # "done", NullsSpent(frames, nulls), NEW it,
         ListItem(it) \/ MapEntry(it), it.val = "block", ~Refuses(it)
  PROVE  \E w : Writes(w)
<1>1. PICK q, e : /\ Appends(Top.path, e, q) /\ e[3] # 0
                  /\ msg' = AddBody(msg, Top.path, Field, q)
  BY ItemPath
<1>2. Top.kind \in {"list", "map"} /\ UNCHANGED <<present, nulls>>
  BY DEF ListItem, MapEntry
<1>3. /\ Top.path \in DOMAIN msg.bodies /\ IsSeq(Top.path) /\ IsOpen(frames, Top.path)
  BY <1>2, HolderOpen
<1>4. PICK n \in Nat : \E f, s, r : Adds(n, f, s, r)
  BY ItemEnters DEF Enters
<1>5. PICK f, s, r : Adds(n, f, s, r)
  BY <1>4
<1>6. Grows(msg.bodies, msg'.bodies, Top.path, s, r)
  BY <1>5 DEF Adds
<1>7. msg'.leaves = msg.leaves /\ msg'.bodies = Put(msg.bodies, q, NewBody(Field))
  BY <1>1, AddsBody DEF Counted
<1>8. r = q
  BY <1>6, <1>7 DEF Grows, Put
<1>9. q \notin present /\ \A b : IsSeq(b) => \A name : q # At(b, name)
  BY <1>1, <1>3, ElementUnmarked, ElementNoField
<1>10. /\ DOMAIN msg'.bodies = DOMAIN msg.bodies \cup {q}
       /\ \A p \in DOMAIN msg.bodies : msg'.bodies[p] = msg.bodies[p]
  BY <1>6, <1>8 DEF Grows
<1>11. Sets(msg.leaves, msg'.leaves, Top.path, {}, q)
  BY <1>7, ThroughNone DEF Sets
<1>12. Touches(Top.path, {}, q)
  BY <1>2, <1>3, <1>9, <1>10, <1>11, ThroughNone DEF Touches, Foreign
<1>13. \A name : /\ HasIn(msg', Top.path, name) => HasIn(msg, Top.path, name)
                 /\ At(Top.path, name) \in DOMAIN msg'.leaves => At(Top.path, name) \in DOMAIN msg.leaves
  BY <1>3, <1>7, <1>9, <1>10 DEF HasIn
<1>14. \A name : ~HasIn(msg', q, name)
  BY <1>6, <1>7, <1>8, AddedHasNothing DEF Filling
<1>15. NullsGone(msg', nulls')
  BY <1>2, <1>7, <1>9, <1>10 DEF NullsGone, Filling, Recorded
<1>16. LeavesLand(msg')
  BY <1>7, <1>10 DEF LeavesLand, Filling
<1>17. FramesGo(Top.path) /\ \A k \in DOMAIN frames' : frames'[k].kind = "body" /\ frames'[k].path = Top.path =>
         k \in DOMAIN frames /\ Follows(frames[k], frames'[k])
  BY <1>3, <1>5, FramesEnter
<1> QED
  BY <1>2, <1>3, <1>10, <1>12, <1>13, <1>14, <1>15, <1>16, <1>17, QuietWrites

-----------------------------------------------------------------------------
(***************************************************************************)
(* Fields that are set.                                                    *)
(***************************************************************************)

\* Each of two members of a oneof is the other's sibling.
LEMMA SiblingsAgree ==
  ASSUME NEW type \in Types, NEW f \in FieldsOf(type), NEW g \in FieldsOf(type),
         f.name \in Siblings(type, g)
  PROVE  g.name \in Siblings(type, f)
<1>1. PICK h \in FieldsOf(type) :
        /\ h.name = f.name /\ h.name # g.name /\ RealOneof(h) = RealOneof(g)
        /\ RealOneof(g) # "none"
  BY DEF Siblings
<1>2. h = f
  BY <1>1, SchemaAssumption
<1> QED
  BY <1>1, <1>2 DEF Siblings

\* What is in a body after a field of it was set and its siblings were cut.
LEMMA SetHas ==
  ASSUME NEW m, NEW new, NEW w, IsSeq(w), NEW names, NEW f, NEW x, x = At(w, f.name),
         Sets(m.leaves, new.leaves, w, names, x),
         \A r \in DOMAIN m.bodies : ~Through(w, names, r),
         \A r \in DOMAIN new.bodies : r \in DOMAIN m.bodies \/ r = x,
         NEW name, HasIn(new, w, name)
  PROVE  name = f.name \/ (HasIn(m, w, name) /\ name \notin names)
<1>1. PICK r : r = At(w, name)
  OBVIOUS
<1>2. CASE r = x
  <2>1. At(w, name) = At(w, f.name)
    BY <1>1, <1>2
  <2> QED
    BY <2>1, AtSame
<1>3. CASE r # x
  <2>1. r \in DOMAIN m.leaves \cup DOMAIN m.bodies /\ ~Through(w, names, r)
    BY <1>1, <1>3 DEF HasIn, Sets
  <2>2. name \notin names
    BY <1>1, <2>1, AtThrough
  <2> QED
    BY <1>1, <2>1, <2>2 DEF HasIn
<1> QED
  BY <1>2, <1>3

\* So of every oneof one member at most is in the body still.
LEMMA SetExclusive ==
  ASSUME NEW m, NEW new, NEW w, IsSeq(w), NEW type \in Types, NEW f \in FieldsOf(type),
         NEW x, x = At(w, f.name), Sets(m.leaves, new.leaves, w, Siblings(type, f), x),
         \A r \in DOMAIN m.bodies : ~Through(w, Siblings(type, f), r),
         \A r \in DOMAIN new.bodies : r \in DOMAIN m.bodies \/ r = x,
         m.bodies[w].type = type, new.bodies[w].type = type, ExclusiveIn(m, w)
  PROVE  ExclusiveIn(new, w)
<1> SUFFICES ASSUME NEW g \in FieldsOf(type), HasIn(new, w, g.name),
                    NEW n \in Siblings(type, g), HasIn(new, w, n)
             PROVE  FALSE
  BY DEF ExclusiveIn
<1>1. ASSUME NEW name, HasIn(new, w, name)
      PROVE  name = f.name \/ (HasIn(m, w, name) /\ name \notin Siblings(type, f))
  <2>1. PICK names : names = Siblings(type, f)
    OBVIOUS
  <2>2. Sets(m.leaves, new.leaves, w, names, x) /\ \A r \in DOMAIN m.bodies : ~Through(w, names, r)
    BY <2>1
  <2>3. name = f.name \/ (HasIn(m, w, name) /\ name \notin names)
    BY <1>1, <2>2, SetHas
  <2> QED
    BY <2>1, <2>3
<1>2. n # g.name
  BY DEF Siblings
<1>3. CASE g.name = f.name
  <2>1. g = f
    BY <1>3, SchemaAssumption
  <2> QED
    BY <1>1, <1>2, <2>1
<1>4. CASE g.name # f.name
  <2>1. HasIn(m, w, g.name) /\ g.name \notin Siblings(type, f)
    BY <1>1, <1>4
  <2>2. n # f.name
    BY <2>1, SiblingsAgree
  <2>3. HasIn(m, w, n)
    BY <1>1, <2>2
  <2> QED
    BY <2>1, <2>3 DEF ExclusiveIn
<1> QED
  BY <1>3, <1>4

\* A field of the body on top is set, to a literal or to a body that is empty.
Places(f, x) ==
  /\ Sets(msg.leaves, msg'.leaves, Top.path, Siblings(Top.type, f), x)
  /\ Extends(msg.bodies, msg'.bodies) /\ \A r \in DOMAIN msg'.bodies : r \in DOMAIN msg.bodies \/ r = x
  /\ present' = present \cup {x} /\ UNCHANGED nulls /\ FramesGo(Top.path)
  /\ \A k \in DOMAIN frames' : frames'[k].kind = "body" /\ frames'[k].path = Top.path =>
       k \in DOMAIN frames /\ Follows(frames[k], frames'[k]) /\ f.name \in frames'[k].bound

\* Where a field is, nothing is of its name in the body it may be.
LEMMA NewHasNothing ==
  ASSUME Built, Filling, phase # "done", NEW w, IsSeq(w), NEW name, NEW x, x = At(w, name),
         x \notin DOMAIN msg.bodies,
         \A r \in DOMAIN msg'.leaves \cup DOMAIN msg'.bodies :
           r = x \/ r \in DOMAIN msg.leaves \cup DOMAIN msg.bodies
  PROVE  \A n : ~HasIn(msg', x, n)
<1> SUFFICES ASSUME NEW n, HasIn(msg', x, n) PROVE FALSE
  OBVIOUS
<1>1. PICK e : Appends(w, e, x)
  BY AtAppends
<1>2. IsSeq(x)
  BY <1>1, LongerPath
<1>3. PICK r, s : r = At(x, n) /\ Appends(x, s, r)
  BY AtAppends
<1>4. Len(x) \in Nat /\ Len(r) = Len(x) + 1
  BY <1>2, <1>3, LongerPath
<1>5. r # x
  BY <1>4
<1>6. HasIn(msg, x, n)
  BY <1>3, <1>5 DEF HasIn
<1>7. Typed(msg.bodies) /\ LeavesLand(msg)
  BY DEF Built, Fits, Filling
<1> QED
  BY <1>2, <1>6, <1>7, FreshHasNothing

\* An item that places a leaf writes in its frame's body only.
LEMMA PlacesWrites ==
  ASSUME Stack, Counted, Built, Recorded, Filling, phase # "done", NullsSpent(frames, nulls),
         Top.kind = "body", NEW f \in FieldsOf(Top.type), ~CheckBound(Top, f), ~CheckOneof(Top, f),
         NEW x, x = At(Top.path, f.name), Places(f, x)
  PROVE  Writes(Top.path)
<1>1. PICK w : w = Top.path
  OBVIOUS
<1>2. PICK type, names : type \in Types /\ type = Top.type /\ names = Siblings(Top.type, f)
  BY TopStands DEF Stands
<1>3. /\ w \in DOMAIN msg.bodies /\ IsSeq(w) /\ msg.bodies[w].type = type
      /\ Len(frames) \in DOMAIN frames /\ frames[Len(frames)] = Top
  BY <1>1, <1>2, TopPlaced, Positions DEF Stack, Top
<1>4. IsOpen(frames, w)
  BY <1>1, <1>3 DEF IsOpen
<1>5. Typed(msg.bodies) /\ \A r \in DOMAIN msg.bodies : ~Through(w, names, r)
  <2>1. Typed(msg.bodies)
    BY DEF Built, Fits
  <2>2. \A r \in DOMAIN msg.bodies : Beneath(Top.path, r) => Accounts(Top, r)
    BY <1>3 DEF Built, Fits, Accounted
  <2>3. Top.type \in Types /\ IsSeq(Top.path)
    BY <1>1, <1>2, <1>3
  <2> QED
    BY <1>1, <1>2, <2>1, <2>2, <2>3, SiblingsUnbound
<1>6. /\ Sets(msg.leaves, msg'.leaves, w, names, x) /\ Extends(msg.bodies, msg'.bodies)
      /\ \A r \in DOMAIN msg'.bodies : r \in DOMAIN msg.bodies \/ r = x
      /\ present' = present \cup {x} /\ UNCHANGED nulls /\ FramesGo(w)
      /\ \A k \in DOMAIN frames' : frames'[k].kind = "body" /\ frames'[k].path = w =>
           k \in DOMAIN frames /\ Follows(frames[k], frames'[k]) /\ f.name \in frames'[k].bound
  BY <1>1, <1>2 DEF Places
<1>7. x = At(w, f.name) /\ Foreign(w, x)
  BY <1>1, <1>3, ForeignAt
<1>8. Touches(w, names, x)
  <2>1. \A p \in DOMAIN msg.bodies : p \in DOMAIN msg'.bodies /\ msg'.bodies[p] = msg.bodies[p]
    BY <1>6 DEF Extends
  <2> QED
    BY <1>3, <1>5, <1>6, <1>7, <2>1 DEF Touches
<1>9. \A p \in DOMAIN msg.bodies : p # w => Unmoved(p)
  BY <1>5, <1>8, OthersUnmoved
<1>10. \A r \in DOMAIN msg'.leaves \cup DOMAIN msg'.bodies :
         r = x \/ r \in DOMAIN msg.leaves \cup DOMAIN msg.bodies
  BY <1>6 DEF Sets
<1>11. \A p \in DOMAIN msg'.bodies : p \in DOMAIN msg.bodies \/ \A name : ~HasIn(msg', p, name)
  BY <1>3, <1>6, <1>7, <1>10, NewHasNothing
<1>12. ExclusiveIn(msg', w)
  <2>1. msg'.bodies[w].type = type
    BY <1>3, <1>6 DEF Extends
  <2>2. Sets(msg.leaves, msg'.leaves, w, Siblings(type, f), x)
    BY <1>2, <1>6
  <2>3. \A r \in DOMAIN msg.bodies : ~Through(w, Siblings(type, f), r)
    BY <1>2, <1>5
  <2>4. f \in FieldsOf(type) /\ ExclusiveIn(msg, w)
    BY <1>2, <1>3 DEF Filling, Exclusive
  <2>5. PICK m, new : m = msg /\ new = msg'
    OBVIOUS
  <2>6. /\ IsSeq(w) /\ type \in Types /\ f \in FieldsOf(type) /\ x = At(w, f.name)
        /\ Sets(m.leaves, new.leaves, w, Siblings(type, f), x)
        /\ \A r \in DOMAIN m.bodies : ~Through(w, Siblings(type, f), r)
        /\ \A r \in DOMAIN new.bodies : r \in DOMAIN m.bodies \/ r = x
        /\ m.bodies[w].type = type /\ new.bodies[w].type = type /\ ExclusiveIn(m, w)
    BY <1>2, <1>3, <1>6, <1>7, <2>1, <2>2, <2>3, <2>4, <2>5
  <2>7. ExclusiveIn(new, w)
    BY <2>6, SetExclusive
  <2> QED
    BY <2>5, <2>7
<1>13. ASSUME NEW name, At(w, name) \in DOMAIN msg'.leaves
       PROVE  /\ At(w, name) \in present'
              /\ \A k \in DOMAIN frames' :
                   frames'[k].kind = "body" /\ frames'[k].path = w => Explains(frames'[k], name)
  <2>1. CASE name = f.name
    BY <1>6, <1>7, <2>1 DEF Explains
  <2>2. CASE name # f.name
    <3>1. At(w, name) # x
      BY <1>3, <1>7, <2>2, AtSame
    <3>2. At(w, name) \in DOMAIN msg.leaves
      BY <1>6, <1>13, <3>1 DEF Sets
    <3>3. At(w, name) \in present
      BY <1>3, <1>4, <3>2 DEF Filling, LeavesSaid
    <3>4. ASSUME NEW k \in DOMAIN frames', frames'[k].kind = "body", frames'[k].path = w
          PROVE  Explains(frames'[k], name)
      <4>1. k \in DOMAIN frames /\ Follows(frames[k], frames'[k])
        BY <1>6, <3>4
      <4>2. frames[k].kind = "body" /\ frames[k].path = w
        BY <3>4, <4>1 DEF Follows, Alike
      <4>3. Explains(frames[k], name)
        BY <3>2, <4>1, <4>2 DEF Filling, LeavesBound
      <4> QED
        BY <4>1, <4>3 DEF Explains, Follows, Alike
    <3> QED
      BY <1>6, <3>3, <3>4
  <2> QED
    BY <2>1, <2>2
<1>14. NullsGone(msg', nulls')
  <2>1. x \notin nulls
    BY NotNull
  <2> QED
    BY <1>6, <1>10, <2>1 DEF NullsGone, Filling
<1>15. LeavesLand(msg')
  <2> SUFFICES ASSUME NEW r \in DOMAIN msg'.leaves
               PROVE  \E p \in DOMAIN msg'.bodies : \E s : Appends(p, s, r)
    BY DEF LeavesLand
  <2>1. CASE r = x
    <3>1. \E s : Appends(w, s, r)
      BY <1>7, <2>1, AtAppends
    <3> QED
      BY <1>3, <1>6, <3>1 DEF Extends
  <2>2. CASE r # x
    <3>1. r \in DOMAIN msg.leaves
      BY <1>6, <2>2 DEF Sets
    <3>2. PICK p \in DOMAIN msg.bodies : \E s : Appends(p, s, r)
      BY <3>1 DEF Filling, LeavesLand
    <3> QED
      BY <1>6, <3>2 DEF Extends
  <2> QED
    BY <2>1, <2>2
<1>16. Writes(w)
  BY <1>3, <1>4, <1>6, <1>9, <1>11, <1>12, <1>13, <1>14, <1>15 DEF Writes
<1> QED
  BY <1>1, <1>16

\* What is set, of the leaves of the message.
LEMMA SetLeafSets ==
  ASSUME NEW m, NEW p, NEW type, NEW f, NEW leaf, NEW new, new = SetLeaf(m, p, type, f, leaf)
  PROVE  Sets(m.leaves, new.leaves, p, Siblings(type, f), At(p, f.name))
<1>1. PICK c : c = Cleared(m, p, Siblings(type, f))
  OBVIOUS
<1>2. c.leaves = Cut(m.leaves, p, Siblings(type, f))
  BY <1>1 DEF Cleared
<1>3. new = IF Unsaid(f, leaf) THEN c ELSE [c EXCEPT !.leaves = Put(@, At(p, f.name), leaf)]
  BY <1>1 DEF SetLeaf
<1>4. new.leaves = c.leaves \/ new.leaves = Put(c.leaves, At(p, f.name), leaf)
  BY <1>1, <1>3 DEF Cleared
<1> QED
  BY <1>2, <1>4 DEF Put, Cut, Sets

\* Setting a body clears the leaves of its field and of the oneof it is in, and no others.
LEMMA SetBodySets ==
  ASSUME NEW m, NEW p, NEW type, NEW f, NEW new, new = SetBody(m, p, type, f)
  PROVE  Sets(m.leaves, new.leaves, p, Siblings(type, f), At(p, f.name))
<1>1. new.leaves = Cut(m.leaves, p, Siblings(type, f))
  BY DEF SetBody, Cleared
<1> QED
  BY <1>1 DEF Cut, Sets

\* A scalar is taken for a singular field that is not bound.
LEMMA ScalarUnbound ==
  ASSUME Stack, NEW it, Scalar(it), ~Refuses(it)
  PROVE  LET f == FieldOf(Top.type, it.name)
         IN  f.shape = "one" /\ ~CheckBound(Top, f)
<1> DEFINE f == FieldOf(Top.type, it.name)
<1>1. it.val \in Scalars /\ Knows(Top.type, it.name) /\ InBody(it)
  BY DEF Scalar
<1>2. it.sep = "="
  <2>1. it.sep # "=" => ~BlockRefused(Top, f, it)
    BY <1>1, EntryTaken
  <2> QED
    BY <1>1, <2>1 DEF BlockRefused, Scalars
<1>3. ~AssignmentRefused(Top, f, it) /\ f \in FieldsOf(Top.type) /\ Top.type \in Types
  BY <1>1, <1>2, EntryTaken
<1>4. it.val \notin {"null", "block", "list"}
  BY <1>1 DEF Scalars
<1>5. ~AssignedRefused(f, it)
  BY <1>3, <1>4 DEF AssignmentRefused
<1>6. f.shape \in {"one", "list", "map"}
  BY <1>3, SchemaAssumption DEF FieldType, Shapes
<1>7. f.shape = "one"
  BY <1>4, <1>5, <1>6 DEF AssignedRefused
<1> QED
  BY <1>3, <1>7 DEF AssignmentRefused

\* The frame on top, when a field is bound in it, and none over it is on its body.
LEMMA FramesBind ==
  ASSUME Stack, Built, Top.kind = "body", NEW f, f.shape = "one", NEW under, under = Bound(Top, f),
         NEW n \in Nat, NEW h, Keeping(n, h), frames'[n] = under,
         h = n + 1 => frames'[h].path \notin DOMAIN msg.bodies
  PROVE  /\ FramesGo(Top.path)
         /\ \A k \in DOMAIN frames' : frames'[k].kind = "body" /\ frames'[k].path = Top.path =>
              k \in DOMAIN frames /\ Follows(frames[k], frames'[k]) /\ f.name \in frames'[k].bound
<1>1. /\ DOMAIN frames = 1..n /\ DOMAIN frames' = 1..h /\ h \in {n, n + 1} /\ n >= 1
      /\ \A k \in 1..n : Follows(frames[k], frames'[k])
  BY DEF Keeping, Frames, Following
<1>6. n = Len(frames)
  BY DEF Keeping, Frames
<1>2. f.name \in under.bound /\ Top.path \in DOMAIN msg.bodies
  BY TopStands, TopPlaced, BoundNames
<1>3. \A k \in DOMAIN frames' : k \in 1..n \/ frames'[k].path \notin DOMAIN msg.bodies
  BY <1>1
<1>4. frames'[1].path = frames[1].path
  <2>1. 1 \in 1..n
    BY <1>1
  <2> QED
    BY <1>1, <2>1 DEF Follows, Alike
<1>5. ASSUME NEW k \in DOMAIN frames', frames'[k].kind = "body", frames'[k].path = Top.path
      PROVE  k \in DOMAIN frames /\ Follows(frames[k], frames'[k]) /\ f.name \in frames'[k].bound
  <2>1. k \in DOMAIN frames /\ Follows(frames[k], frames'[k])
    BY <1>1, <1>2, <1>3, <1>5
  <2>2. frames[k].kind = "body" /\ frames[k].path = Top.path
    BY <1>5, <2>1 DEF Follows, Alike
  <2>3. k = n
    BY <1>6, <2>1, <2>2, OneFrame
  <2> QED
    BY <1>2, <2>1, <2>3
<1> QED
  BY <1>1, <1>3, <1>4, <1>5 DEF FramesGo

\* A scalar.
LEMMA ScalarWrites ==
  ASSUME Stack, Counted, Built, Recorded, Filling, phase # "done", NullsSpent(frames, nulls),
         NEW it, Scalar(it), ~Refuses(it)
  PROVE  \E w : Writes(w)
<1>1. PICK f : f = FieldOf(Top.type, it.name)
  OBVIOUS
<1>2. PICK leaf, x, under :
        /\ leaf = [text |-> it.text, load |-> it.load] /\ x = At(Top.path, f.name)
        /\ under = Bound(Top, f)
  OBVIOUS
<1>3. f \in FieldsOf(Top.type) /\ f.shape = "one" /\ ~CheckBound(Top, f) /\ ~CheckOneof(Top, f)
  BY <1>1, ScalarTaken, ScalarUnbound
<1>4. Top.kind = "body" /\ prefix = Top.path
  BY TopPlaced DEF Scalar, InBody
<1>5. /\ msg' = SetLeaf(msg, Top.path, Top.type, f, leaf) /\ Stays(under)
      /\ present' = present \cup {x} /\ UNCHANGED nulls
  BY <1>1, <1>2, <1>4 DEF Scalar, MarkPresent
<1>6. PICK n \in Nat : Keeping(n, n) /\ frames'[n] = under
  BY <1>2, <1>4, <1>5, TopStands, BoundFollows, StaysKeeping
<1>7. Sets(msg.leaves, msg'.leaves, Top.path, Siblings(Top.type, f), x)
  BY <1>2, <1>5, SetLeafSets
<1>8. Same(msg.bodies, msg'.bodies)
  BY <1>3, <1>4, <1>5, SetLeafDoes, SetClearsNothing
<1>9. /\ FramesGo(Top.path)
      /\ \A k \in DOMAIN frames' : frames'[k].kind = "body" /\ frames'[k].path = Top.path =>
           k \in DOMAIN frames /\ Follows(frames[k], frames'[k]) /\ f.name \in frames'[k].bound
  <2>1. PICK h : h = n
    OBVIOUS
  <2>2. Keeping(n, h) /\ (h = n + 1 => frames'[h].path \notin DOMAIN msg.bodies)
    BY <1>6, <2>1
  <2> QED
    BY <1>2, <1>3, <1>4, <1>6, <2>2, FramesBind
<1>10. Places(f, x)
  BY <1>5, <1>7, <1>8, <1>9 DEF Places, Same, Extends
<1> QED
  BY <1>2, <1>3, <1>4, <1>10, PlacesWrites

\* A message.
LEMMA MessageWrites ==
  ASSUME Stack, Counted, Built, Recorded, Filling, phase # "done", NullsSpent(frames, nulls),
         NEW it, Message(it), ~Refuses(it)
  PROVE  \E w : Writes(w)
<1>1. PICK f : f = FieldOf(Top.type, it.name)
  OBVIOUS
<1>2. PICK x, under, frame :
        /\ x = At(Top.path, f.name) /\ under = Bound(Top, f) /\ frame = Body(f.body, x, NoElement)
  OBVIOUS
<1>3. f \in FieldsOf(Top.type) /\ f.shape = "one" /\ ~CheckBound(Top, f) /\ ~CheckOneof(Top, f)
  BY <1>1, MessageTaken
<1>4. Top.kind = "body" /\ prefix = Top.path
  BY TopPlaced DEF Message, InBody
<1>5. /\ msg' = SetBody(msg, Top.path, Top.type, f) /\ Opens(under, frame, x)
      /\ present' = present \cup {x} /\ UNCHANGED nulls
  BY <1>1, <1>2, <1>4 DEF Message, MarkPresent
<1>6. PICK n \in Nat : Keeping(n, n + 1) /\ frames'[n] = under /\ frames'[n + 1] = frame
  BY <1>2, <1>4, <1>5, TopStands, BoundFollows, OpensKeeping
<1>7. Sets(msg.leaves, msg'.leaves, Top.path, Siblings(Top.type, f), x)
  BY <1>2, <1>5, SetBodySets
<1>8. PICK m \in Nat : \E g, e, q : Adds(m, g, e, q)
  BY MessageEnters DEF Enters
<1>9. PICK g, e, q : Adds(m, g, e, q)
  BY <1>8
<1>10. m = n /\ Grows(msg.bodies, msg'.bodies, Top.path, e, q) /\ frames'[m + 1].path = q
  BY <1>6, <1>9 DEF Adds, Keeping, Frames
<1>11. frame.path = x
  BY <1>2, BodyOpens
<1>12. q = x
  BY <1>6, <1>10, <1>11
<1>13. /\ DOMAIN msg'.bodies = DOMAIN msg.bodies \cup {x} /\ x \notin DOMAIN msg.bodies
       /\ \A r \in DOMAIN msg.bodies : msg'.bodies[r] = msg.bodies[r]
  BY <1>10, <1>12 DEF Grows
<1>14. /\ FramesGo(Top.path)
       /\ \A k \in DOMAIN frames' : frames'[k].kind = "body" /\ frames'[k].path = Top.path =>
            k \in DOMAIN frames /\ Follows(frames[k], frames'[k]) /\ f.name \in frames'[k].bound
  <2>1. PICK h : h = n + 1
    OBVIOUS
  <2>2. Keeping(n, h) /\ (h = n + 1 => frames'[h].path \notin DOMAIN msg.bodies)
    BY <1>6, <1>11, <1>13, <2>1
  <2> QED
    BY <1>2, <1>3, <1>4, <1>6, <2>2, FramesBind
<1>15. Places(f, x)
  BY <1>5, <1>7, <1>13, <1>14 DEF Places, Extends
<1> QED
  BY <1>2, <1>3, <1>4, <1>15, PlacesWrites

\* Before a body is there, no field of it is marked.
LEMMA NewUnmarked ==
  ASSUME Built, NEW q, q \notin DOMAIN msg.bodies, IsSeq(q), NEW name
  PROVE  At(q, name) \notin present
<1> SUFFICES ASSUME At(q, name) \in present PROVE FALSE
  OBVIOUS
<1>1. PICK r, s : r = At(q, name) /\ Appends(q, s, r)
  BY AtAppends
<1>2. Len(q) \in Nat /\ Len(r) = Len(q) + 1 /\ SubSeq(r, 1, Len(q)) = q
  BY <1>1, LongerPath
<1>3. Beneath(q, r) /\ r \in present /\ Landed(msg.bodies, present)
  BY <1>1, <1>2 DEF Beneath, Built, Fits
<1> QED
  BY <1>2, <1>3, NothingMarked

\* The frame of a named entry explains its key.
LEMMA KeyExplains ==
  ASSUME NEW f, KeyField(f) # "none", f.body \in Types, NEW key, key = FieldOf(f.body, KeyField(f)),
         NEW q, NEW name, NEW frame, frame = Body(f.body, q, Element(f, name, TRUE))
  PROVE  key \in FieldsOf(f.body) /\ Explains(frame, key.name)
<1>1. Knows(f.body, KeyField(f))
  BY DEF KeyField
<1>2. key \in FieldsOf(f.body) /\ key.name = KeyField(f)
  BY <1>1, FieldKnown
<1>3. frame.element.named /\ frame.element.key = KeyField(f)
  BY DEF Body, Opening, Element
<1> QED
  BY <1>2, <1>3 DEF Explains

\* An entry of a keyed block, with its key.
LEMMA KeyedWrites ==
  ASSUME Stack, Counted, Built, Recorded, Filling, phase # "done", NullsSpent(frames, nulls),
         NEW it, KeyedEntry(it), ~Refuses(it)
  PROVE  \E w : Writes(w)
<1>1. PICK c \in Nat : c = Count(msg, Top.path, Field.name)
  BY CountIsInt DEF Counted
<1>2. PICK q, key, leaf, under, frame, added :
        /\ q = IndexAt(Top.path, Field.name, c) /\ key = FieldOf(Field.body, KeyField(Field))
        /\ leaf = Leaf(it.name) /\ under = [Top EXCEPT !.bound = @ \cup {it.name}]
        /\ frame = Body(Field.body, q, Element(Field, it.name, TRUE))
        /\ added = AddBody(msg, Top.path, Field, q)
  OBVIOUS
<1>3. PICK x, names : x = At(q, key.name) /\ names = Siblings(Field.body, key)
  OBVIOUS
<1>4. /\ Top.kind = "keyed" /\ KeyField(Field) # "none" /\ Field.body \in Types
      /\ UNCHANGED <<call, nulls>>
  BY KeyedEntryTaken DEF KeyedEntry, Read
<1>5. IsSeq(Top.path) /\ prefix = Top.path /\ Stands(Top) /\ Top.path \in DOMAIN msg.bodies
  BY <1>4, TopPlaced, TopStands
<1>6. /\ msg' = SetLeaf(added, q, Field.body, key, leaf)
      /\ present' = present \cup {x} /\ Opens(under, frame, q)
  BY <1>1, <1>2, <1>3, <1>5 DEF KeyedEntry
<1>7. Follows(Top, under)
  BY <1>2, <1>4, <1>5 DEF Follows, Alike, Stands
<1>8. PICK n \in Nat : Keeping(n, n + 1) /\ frames'[n + 1] = frame
  BY <1>6, <1>7, OpensKeeping
<1>9. PICK m \in Nat : \E g, e, r : Adds(m, g, e, r)
  BY KeyedEnters DEF Enters
<1>10. PICK g, e, r : Adds(m, g, e, r)
  BY <1>9
<1>11. m = n /\ Grows(msg.bodies, msg'.bodies, Top.path, e, r) /\ frames'[m + 1].path = r
  BY <1>8, <1>10 DEF Adds, Keeping, Frames
<1>12. frame.path = q /\ frame.kind = "body"
  <2>1. PICK type, element : type = Field.body /\ element = Element(Field, it.name, TRUE)
    OBVIOUS
  <2>2. frame = Body(type, q, element)
    BY <1>2, <2>1
  <2> QED
    BY <2>2, BodyOpens
<1>13. r = q
  BY <1>8, <1>11, <1>12
<1>14. /\ DOMAIN msg'.bodies = DOMAIN msg.bodies \cup {q} /\ q \notin DOMAIN msg.bodies
       /\ \A p \in DOMAIN msg.bodies : msg'.bodies[p] = msg.bodies[p]
       /\ Typed(msg.bodies) /\ LeavesLand(msg)
  BY <1>11, <1>13 DEF Grows, Built, Fits, Filling
<1>15. PICK d : Appends(Top.path, d, q) /\ d[3] = c + 1
  <2>1. PICK name : name = Field.name
    OBVIOUS
  <2>2. q = IndexAt(Top.path, name, c)
    BY <1>2, <2>1
  <2> QED
    BY <2>2, IndexAtAppends
<1>16. IsSeq(q) /\ d[3] # 0
  BY <1>5, <1>15, LongerPath
<1>17. q \notin present /\ \A b : IsSeq(b) => \A name : q # At(b, name)
  BY <1>5, <1>15, <1>16, ElementUnmarked, ElementNoField
<1>18. x \notin present /\ Foreign(q, x)
  BY <1>3, <1>14, <1>16, NewUnmarked, ForeignAt
<1>19. Sets(msg.leaves, msg'.leaves, q, names, x)
  <2>1. added.leaves = msg.leaves
    BY <1>2, AddsBody DEF Counted
  <2> QED
    BY <1>3, <1>6, <2>1, SetLeafSets
<1>20. \A p \in DOMAIN msg.bodies : ~Through(q, names, p)
  <2>1. \A p \in DOMAIN msg'.bodies : ~Through(q, names, p)
    BY <1>11, <1>13, <1>14, KeyCutsNothing
  <2> QED
    BY <1>14, <2>1
<1>21. Touches(q, names, x)
  BY <1>6, <1>14, <1>16, <1>17, <1>18, <1>19, <1>20 DEF Touches, Foreign
<1>22. \A p \in DOMAIN msg.bodies : p # q => Unmoved(p)
  BY <1>14, <1>21, OthersUnmoved
<1>23. ASSUME NEW name, HasIn(msg', q, name)
       PROVE  name = key.name
  <2>1. ~HasIn(msg, q, name)
    BY <1>14, <1>16, FreshHasNothing
  <2>2. At(q, name) # q
    BY <1>16, <1>17
  <2>3. At(q, name) = x
    BY <1>14, <1>19, <1>23, <2>1, <2>2 DEF HasIn, Sets
  <2> QED
    BY <1>3, <1>16, <2>3, AtSame
<1>24. ExclusiveIn(msg', q)
  <2> SUFFICES ASSUME NEW f \in FieldsOf(msg'.bodies[q].type), HasIn(msg', q, f.name),
                      NEW k \in Siblings(msg'.bodies[q].type, f), HasIn(msg', q, k)
               PROVE  FALSE
    BY DEF ExclusiveIn
  <2>1. k # f.name
    BY DEF Siblings
  <2> QED
    BY <1>23, <2>1
<1>25. Explains(frame, key.name)
  <2>1. PICK f : f = Field
    OBVIOUS
  <2>2. KeyField(f) # "none" /\ f.body \in Types /\ key = FieldOf(f.body, KeyField(f))
    BY <1>2, <1>4, <2>1
  <2>3. frame = Body(f.body, q, Element(f, it.name, TRUE))
    BY <1>2, <2>1
  <2> QED
    BY <2>2, <2>3, KeyExplains
<1>26. /\ FramesGo(q)
       /\ \A k \in DOMAIN frames' : k = n + 1 \/ (k \in DOMAIN frames /\ Follows(frames[k], frames'[k]))
  BY <1>10, <1>11, FramesEnter
<1>27. ASSUME NEW name, At(q, name) \in DOMAIN msg'.leaves
       PROVE  /\ At(q, name) \in present'
              /\ \A k \in DOMAIN frames' :
                   frames'[k].kind = "body" /\ frames'[k].path = q => Explains(frames'[k], name)
  <2>1. name = key.name
    BY <1>23, <1>27 DEF HasIn
  <2>2. ASSUME NEW k \in DOMAIN frames', frames'[k].kind = "body", frames'[k].path = q
        PROVE  k = n + 1
    <3> SUFFICES ASSUME k \in DOMAIN frames, Follows(frames[k], frames'[k]) PROVE FALSE
      BY <1>26
    <3>1. frames[k].kind = "body" /\ frames[k].path = q
      BY <2>2 DEF Follows, Alike
    <3> QED
      BY <1>14, <3>1, OpenBodies
  <2> QED
    BY <1>3, <1>6, <1>8, <1>25, <2>1, <2>2
<1>28. NullsGone(msg', nulls')
  <2>1. x \notin nulls /\ q \notin nulls
    BY <1>17, <1>18 DEF Recorded
  <2> QED
    BY <1>4, <1>14, <1>19, <2>1 DEF NullsGone, Filling, Sets
<1>29. LeavesLand(msg')
  <2> SUFFICES ASSUME NEW l \in DOMAIN msg'.leaves
               PROVE  \E p \in DOMAIN msg'.bodies : \E s : Appends(p, s, l)
    BY DEF LeavesLand
  <2>1. CASE l = x
    <3>1. \E s : Appends(q, s, l)
      BY <1>3, <2>1, AtAppends
    <3> QED
      BY <1>14, <3>1
  <2>2. CASE l # x
    <3>1. l \in DOMAIN msg.leaves
      BY <1>19, <2>2 DEF Sets
    <3> QED
      BY <1>14, <3>1 DEF LeavesLand
  <2> QED
    BY <2>1, <2>2
<1>30. Writes(q)
  BY <1>14, <1>22, <1>24, <1>26, <1>27, <1>28, <1>29 DEF Writes
<1> QED
  BY <1>30

\* The type of an Any: all that may be there is its key, and that is cut.
LEMMA TypeWrites ==
  ASSUME Stack, Counted, Built, Recorded, Filling, phase # "done", NEW it, TypeEntry(it), ~Refuses(it)
  PROVE  \E w : Writes(w)
<1>1. PICK n \in Nat, type \in Types : \E url : Retypes(n, type, url)
  BY EntryRetypes
<1>2. PICK url : Retypes(n, type, url)
  BY <1>1
<1>3. PICK w, names, x : w = Top.path /\ names = {"type_url"} /\ x = At(w, "type_url")
  OBVIOUS
<1>4. /\ frames[n] = Top /\ DOMAIN frames = 1..n /\ DOMAIN frames' = 1..n /\ n >= 1
      /\ \A k \in 1..(n - 1) : frames'[k] = frames[k]
      /\ Top.kind = "body" /\ Top.fresh /\ frames'[n].path = Top.path
      /\ Retyped(msg.bodies, msg'.bodies, Top.path, type, url) /\ UNCHANGED <<call, present, nulls>>
  BY <1>2 DEF Retypes, Frames
<1>5. Schema[Top.type].role = "any"
  BY TypeTaken
<1>6. /\ w \in DOMAIN msg.bodies /\ IsSeq(w) /\ n \in DOMAIN frames /\ IsOpen(frames, w)
      /\ Typed(msg.bodies)
  BY <1>3, <1>4, TopPlaced DEF IsOpen, Built, Fits
<1>7. OnlyKey(Top, present) /\ \A q \in DOMAIN msg.bodies : ~Beneath(w, q)
  BY <1>3, <1>4, <1>5, <1>6 DEF Built, Fits, Accounted, Accounts
<1>8. msg'.leaves = Cut(msg.leaves, w, names)
  <2>1. PICK y : y = Cut(msg.leaves, w, names)
    OBVIOUS
  <2>2. \E b : msg' = [msg EXCEPT !.bodies[Top.path] = b, !.leaves = y]
    BY <1>3, <2>1 DEF TypeEntry, Counted, Shaped
  <2> QED
    BY <2>1, <2>2 DEF Counted, Shaped
<1>9. Sets(msg.leaves, msg'.leaves, w, names, x) /\ \A r \in DOMAIN msg'.leaves : r \in DOMAIN msg.leaves
  BY <1>8 DEF Cut, Sets
<1>10. DOMAIN msg'.bodies = DOMAIN msg.bodies
       /\ \A p \in DOMAIN msg.bodies : p # w => msg'.bodies[p] = msg.bodies[p]
  BY <1>3, <1>4 DEF Retyped
<1>11. \A p \in DOMAIN msg.bodies : ~Through(w, names, p)
  <2> SUFFICES ASSUME NEW p \in DOMAIN msg.bodies, Through(w, names, p) PROVE FALSE
    OBVIOUS
  <2>1. Len(p) \in Nat /\ Len(w) \in Nat
    BY <1>6, SeqLength DEF Typed
  <2>2. Beneath(w, p)
    BY <2>1 DEF Through, Begins, Beneath
  <2> QED
    BY <1>7, <2>2
<1>12. Touches(w, names, x)
  BY <1>3, <1>4, <1>6, <1>9, <1>10, <1>11, ForeignAt DEF Touches
<1>13. \A p \in DOMAIN msg.bodies : p # w => Unmoved(p)
  BY <1>6, <1>12, OthersUnmoved
<1>14. ASSUME NEW name
       PROVE  ~HasIn(msg', w, name)
  <2> SUFFICES ASSUME HasIn(msg', w, name) PROVE FALSE
    OBVIOUS
  <2>1. PICK r, e : r = At(w, name) /\ Appends(w, e, r) /\ e[1] = name
    BY AtAppends
  <2>2. Len(w) \in Nat /\ Len(r) = Len(w) + 1 /\ r[Len(w) + 1] = e /\ SubSeq(r, 1, Len(w)) = w
    BY <1>6, <2>1, LongerPath
  <2>3. Beneath(w, r)
    BY <2>2 DEF Beneath
  <2>4. r \in DOMAIN msg'.leaves /\ r \in DOMAIN msg.leaves
    BY <1>7, <1>9, <1>10, <2>1, <2>3 DEF HasIn
  <2>5. r \in present
    BY <1>6, <2>1, <2>4 DEF Filling, LeavesSaid
  <2>6. r[Len(r)][1] = "type_url"
    BY <1>3, <1>7, <2>2, <2>3, <2>5 DEF OnlyKey
  <2>7. name \in names
    BY <1>3, <2>1, <2>2, <2>6
  <2>8. Through(w, names, r)
    BY <1>6, <2>1, <2>7, AtThrough
  <2> QED
    BY <1>8, <2>4, <2>8 DEF Cut
<1>15. ExclusiveIn(msg', w) /\ \A name : At(w, name) \notin DOMAIN msg'.leaves
  BY <1>14 DEF ExclusiveIn, HasIn
<1>16. NullsGone(msg', nulls') /\ LeavesLand(msg')
  BY <1>4, <1>9, <1>10 DEF NullsGone, LeavesLand, Filling
<1>17. FramesGo(w)
  <2>1. ASSUME NEW k \in 1..n, frames'[k].path # w
        PROVE  Follows(frames[k], frames'[k])
    <3>1. k # n
      BY <1>3, <1>4, <2>1
    <3>2. frames'[k] = frames[k]
      BY <1>4, <3>1
    <3> QED
      BY <3>2 DEF Follows, Alike
  <2>2. frames'[1].path = frames[1].path
    <3>1. CASE n = 1
      BY <1>4, <3>1
    <3>2. CASE n # 1
      BY <1>4, <3>2
    <3> QED
      BY <3>1, <3>2
  <2> QED
    BY <1>4, <2>1, <2>2 DEF FramesGo
<1>18. Writes(w)
  BY <1>6, <1>10, <1>13, <1>15, <1>16, <1>17 DEF Writes
<1> QED
  BY <1>18

-----------------------------------------------------------------------------
(***************************************************************************)
(* What the pass fills in.                                                 *)
(***************************************************************************)

\* What the defaults of no body displace.
Undisplaced(m, from, r) ==
  \A p \in Visited(m, from) : ~Through(p, Displaced(p, m.bodies[p].type), r)

\* A default that is put in, with its path.
Fills(m, from, p, f, r) ==
  /\ p \in Visited(m, from) /\ f \in Kept(p, m.bodies[p].type) /\ ~Unsaid(f, Leaf(DefaultOf(f)))
  /\ r = At(p, f.name)

\* A default that is kept is that of a field of the type, as such applied.
LEMMA KeptIs ==
  ASSUME NEW p, NEW type, NEW f \in Kept(p, type)
  PROVE  f \in Defaulted(p, type) /\ f \in FieldsOf(type)
<1> QED
  BY DEF Kept, Defaulted

\* A field is filled in one body alone.
LEMMA FillsOnce ==
  ASSUME Typed(msg.bodies), NEW from, NEW p, NEW f, NEW r, Fills(msg, from, p, f, r),
         NEW q, NEW g, Fills(msg, from, q, g, r)
  PROVE  p = q /\ f = g
<1>1. PICK type, other : type = msg.bodies[p].type /\ other = msg.bodies[q].type
  OBVIOUS
<1>2. /\ p \in DOMAIN msg.bodies /\ q \in DOMAIN msg.bodies
      /\ f \in Kept(p, type) /\ g \in Kept(q, other) /\ At(p, f.name) = At(q, g.name)
  BY <1>1 DEF Fills, Visited
<1>3. IsSeq(p) /\ IsSeq(q) /\ type \in Types
  BY <1>1, <1>2 DEF Typed
<1>4. p = q /\ f.name = g.name
  BY <1>2, <1>3, AtSame
<1>5. f \in FieldsOf(type) /\ g \in FieldsOf(type)
  BY <1>1, <1>2, <1>4, KeptIs
<1> QED
  BY <1>3, <1>4, <1>5, SchemaAssumption

\* The leaves after the pass: those that were there but for what the defaults displace,
\* and the defaults.
LEMMA CompletedLeaves ==
  ASSUME Typed(msg.bodies), NEW from, NEW new, new = Completed(msg, from)
  PROVE  /\ \A r \in DOMAIN msg.bodies : r \in DOMAIN new.bodies => Undisplaced(msg, from, r)
         /\ \A r \in DOMAIN new.leaves :
              \/ \E p, f : Fills(msg, from, p, f, r)
              \/ r \in DOMAIN msg.leaves /\ Undisplaced(msg, from, r) /\ new.leaves[r] = msg.leaves[r]
         /\ \A r \in DOMAIN msg.leaves : Undisplaced(msg, from, r) => r \in DOMAIN new.leaves
         /\ \A p, f, r : Fills(msg, from, p, f, r) =>
              r \in DOMAIN new.leaves /\ new.leaves[r] = Leaf(DefaultOf(f))
<1> DEFINE now  == Visited(msg, from)
           said == {s \in now \X UNION {FieldsOf(msg.bodies[p].type) : p \in now} :
                      /\ s[2] \in Kept(s[1], msg.bodies[s[1]].type)
                      /\ ~Unsaid(s[2], Leaf(DefaultOf(s[2])))}
           places == {At(s[1], s[2].name) : s \in said}
           chosen(r) == CHOOSE t \in said : At(t[1], t[2].name) = r
           stays(r) == \A p \in now : ~Through(p, Displaced(p, msg.bodies[p].type), r)
<1>1. /\ new.bodies = [q \in {r \in DOMAIN msg.bodies : stays(r)} |-> msg.bodies[q]]
      /\ new.leaves = [q \in {r \in DOMAIN msg.leaves : stays(r)} \cup places |->
                         IF q \in places THEN Leaf(DefaultOf(chosen(q)[2])) ELSE msg.leaves[q]]
  BY DEF Completed
<1>2. \A r : stays(r) <=> Undisplaced(msg, from, r)
  BY DEF Undisplaced
<1>3. ASSUME NEW s \in said
      PROVE  Fills(msg, from, s[1], s[2], At(s[1], s[2].name))
  BY <1>3 DEF Fills
<1>4. ASSUME NEW p, NEW f, NEW r, Fills(msg, from, p, f, r)
      PROVE  r \in places /\ chosen(r)[2] = f
  <2>1. p \in now /\ f \in Kept(p, msg.bodies[p].type) /\ ~Unsaid(f, Leaf(DefaultOf(f))) /\ r = At(p, f.name)
    BY <1>4 DEF Fills
  <2>2. f \in UNION {FieldsOf(msg.bodies[q].type) : q \in now}
    <3>1. PICK type : type = msg.bodies[p].type
      OBVIOUS
    <3>2. f \in FieldsOf(type)
      BY <2>1, <3>1, KeptIs
    <3> QED
      BY <2>1, <3>1, <3>2
  <2>3. <<p, f>> \in said /\ At(<<p, f>>[1], <<p, f>>[2].name) = r
    BY <2>1, <2>2
  <2>4. chosen(r) \in said /\ At(chosen(r)[1], chosen(r)[2].name) = r
    BY <2>3
  <2>5. PICK t : t = chosen(r)
    OBVIOUS
  <2>6. Fills(msg, from, t[1], t[2], r)
    BY <1>3, <2>4, <2>5
  <2>7. t[2] = f
    BY <1>4, <2>6, FillsOnce
  <2> QED
    BY <2>3, <2>5, <2>7
<1>5. ASSUME NEW r \in places
      PROVE  \E p, f : Fills(msg, from, p, f, r)
  BY <1>3
<1> HIDE DEF now, said, places, chosen, stays
<1> QED
  BY <1>1, <1>2, <1>4, <1>5

\* Two members of one oneof have the same members beside them.
LEMMA SiblingsClass ==
  ASSUME NEW type \in Types, NEW f \in FieldsOf(type), NEW g \in FieldsOf(type),
         g.name \in Siblings(type, f)
  PROVE  Siblings(type, f) \cup {f.name} = Siblings(type, g) \cup {g.name}
<1>1. PICK h \in FieldsOf(type) :
        /\ h.name = g.name /\ h.name # f.name /\ RealOneof(h) = RealOneof(f)
        /\ RealOneof(f) # "none"
  BY DEF Siblings
<1>2. h = g
  BY <1>1, SchemaAssumption
<1>3. RealOneof(g) = RealOneof(f) /\ RealOneof(f) # "none" /\ f.name # g.name
  BY <1>1, <1>2
<1> QED
  BY <1>3 DEF Siblings

\* Of a oneof one default at most is kept.
LEMMA KeptOnce ==
  ASSUME NEW p, NEW type \in Types, NEW f \in Kept(p, type), NEW g \in Kept(p, type)
  PROVE  g.name \notin Siblings(type, f)
<1> SUFFICES ASSUME g.name \in Siblings(type, f) PROVE FALSE
  OBVIOUS
<1>1. f \in FieldsOf(type) /\ g \in FieldsOf(type)
  BY KeptIs
<1>2. PICK class : class = Siblings(type, f) \cup {f.name} /\ class = Siblings(type, g) \cup {g.name}
  BY <1>1, SiblingsClass
<1>3. /\ f = CHOOSE h \in Defaulted(p, type) : h.name \in class
      /\ g = CHOOSE h \in Defaulted(p, type) : h.name \in class
  BY <1>2 DEF Kept
<1>4. f = g
  BY <1>3
<1> QED
  BY <1>4 DEF Siblings

\* A default that no other member of the oneof has is kept.
LEMMA KeptAlone ==
  ASSUME NEW p, NEW type \in Types, NEW f \in Defaulted(p, type), ~OneofOverfull(type, f)
  PROVE  f \in Kept(p, type)
<1>1. f \in FieldsOf(type) /\ HasDefault(f)
  BY DEF Defaulted
<1>2. ASSUME NEW g \in Defaulted(p, type), g.name \in Siblings(type, f) \cup {f.name}
      PROVE  g = f
  <2>1. g \in FieldsOf(type) /\ HasDefault(g)
    BY DEF Defaulted
  <2>2. FieldOf(type, g.name) = g
    BY <2>1, FieldIs
  <2>3. g.name \notin Siblings(type, f)
    BY <1>1, <2>1, <2>2 DEF OneofOverfull
  <2>4. g.name = f.name
    BY <1>2, <2>3
  <2> QED
    BY <1>1, <2>1, <2>4, SchemaAssumption
<1>3. PICK class : class = Siblings(type, f) \cup {f.name}
  OBVIOUS
<1>4. f = CHOOSE g \in Defaulted(p, type) : g.name \in class
  BY <1>2, <1>3
<1> QED
  BY <1>3, <1>4 DEF Kept

\* What is in a body the pass comes to.
LEMMA FilledHas ==
  ASSUME Typed(msg.bodies), NEW from, NEW new, new = Completed(msg, from), Same(msg.bodies, new.bodies),
         NEW p \in Visited(msg, from), NEW type, type = msg.bodies[p].type,
         NEW name, HasIn(new, p, name)
  PROVE  \/ HasIn(msg, p, name) /\ name \notin Displaced(p, type)
         \/ \E f \in Kept(p, type) : f.name = name /\ ~Unsaid(f, Leaf(DefaultOf(f)))
<1>1. p \in DOMAIN msg.bodies /\ IsSeq(p)
  BY DEF Visited, Typed
<1>2. PICK r : r = At(p, name)
  OBVIOUS
<1>3. CASE \E q, f : Fills(msg, from, q, f, r)
  <2>1. PICK q, f : Fills(msg, from, q, f, r)
    BY <1>3
  <2>2. q \in DOMAIN msg.bodies /\ IsSeq(q) /\ At(p, name) = At(q, f.name)
    BY <1>2, <2>1 DEF Fills, Visited, Typed
  <2>3. p = q /\ name = f.name
    BY <1>1, <2>2, AtSame
  <2> QED
    BY <2>1, <2>3 DEF Fills
<1>4. CASE r \in DOMAIN msg.leaves \cup DOMAIN msg.bodies /\ Undisplaced(msg, from, r)
  <2>1. ~Through(p, Displaced(p, type), r)
    BY <1>4 DEF Undisplaced
  <2>2. PICK names : names = Displaced(p, type)
    OBVIOUS
  <2>3. name \notin names
    BY <1>1, <1>2, <2>1, <2>2, AtThrough
  <2> QED
    BY <1>2, <1>4, <2>2, <2>3 DEF HasIn
<1>5. r \in DOMAIN new.bodies => Undisplaced(msg, from, r) /\ r \in DOMAIN msg.bodies
  BY CompletedLeaves DEF Same
<1>6. r \in DOMAIN new.leaves =>
        \/ \E q, f : Fills(msg, from, q, f, r)
        \/ r \in DOMAIN msg.leaves /\ Undisplaced(msg, from, r)
  BY CompletedLeaves
<1> QED
  BY <1>2, <1>3, <1>4, <1>5, <1>6 DEF HasIn

\* Of every oneof one member at most is there after the pass.
LEMMA FilledExclusive ==
  ASSUME Typed(msg.bodies), NEW from, NEW new, new = Completed(msg, from), Same(msg.bodies, new.bodies),
         NEW p \in Visited(msg, from), ExclusiveIn(msg, p)
  PROVE  ExclusiveIn(new, p)
<1>1. PICK type : type = msg.bodies[p].type
  OBVIOUS
<1>2. p \in DOMAIN msg.bodies /\ type \in Types /\ new.bodies[p].type = type
  BY <1>1 DEF Visited, Typed, Same
<1> SUFFICES ASSUME NEW f \in FieldsOf(type), HasIn(new, p, f.name),
                    NEW n \in Siblings(type, f), HasIn(new, p, n)
             PROVE  FALSE
  BY <1>2 DEF ExclusiveIn
<1>3. PICK g \in FieldsOf(type) : g.name = n
  BY DEF Siblings
<1>4. ASSUME NEW name, HasIn(new, p, name)
      PROVE  \/ HasIn(msg, p, name) /\ name \notin Displaced(p, type)
             \/ \E k \in Kept(p, type) : k.name = name
  BY <1>1, <1>4, FilledHas
<1>5. ASSUME NEW k \in Kept(p, type)
      PROVE  Siblings(type, k) \subseteq Displaced(p, type) /\ k \in FieldsOf(type)
  BY KeptIs DEF Displaced
<1>6. f.name \in Siblings(type, g)
  BY <1>2, <1>3, SiblingsAgree
<1>7. CASE \E k \in Kept(p, type) : k.name = f.name
  <2>1. f \in Kept(p, type)
    BY <1>2, <1>5, <1>7, SchemaAssumption
  <2>2. n \in Displaced(p, type)
    BY <1>5, <2>1
  <2>3. g \in Kept(p, type)
    BY <1>2, <1>3, <1>4, <1>5, <2>2, SchemaAssumption
  <2> QED
    BY <1>2, <1>3, <2>1, <2>3, KeptOnce
<1>8. CASE HasIn(msg, p, f.name) /\ f.name \notin Displaced(p, type)
  <2>1. g \notin Kept(p, type)
    BY <1>5, <1>6, <1>8
  <2>2. HasIn(msg, p, n)
    BY <1>2, <1>3, <1>4, <1>5, <2>1, SchemaAssumption
  <2> QED
    BY <1>1, <1>8, <2>2 DEF ExclusiveIn
<1> QED
  BY <1>4, <1>7, <1>8

\* A field that has a body is marked.
LEMMA BodyMarked ==
  ASSUME Built, NEW p, IsSeq(p), NEW name, At(p, name) \in DOMAIN msg.bodies
  PROVE  At(p, name) \in present
<1>1. PICK q, e : q = At(p, name) /\ Appends(p, e, q) /\ e[1] = name
  BY AtAppends
<1>2. PICK l \in Nat : l = Len(p) /\ Len(q) = l + 1 /\ q[l + 1] = e /\ SubSeq(q, 1, l) = p
  BY <1>1, LongerPath
<1>3. q \in DOMAIN msg.bodies /\ l + 1 \in 1..Len(q) /\ (l + 1) - 1 = l
  BY <1>1, <1>2
<1>4. At(SubSeq(q, 1, (l + 1) - 1), q[l + 1][1]) \in present
  BY <1>3 DEF Built, Fits, Numbered
<1> QED
  BY <1>1, <1>2, <1>3, <1>4

\* What the text does not say of a field that a default applies to is there only where
\* the default is.
LEMMA UnsaidHas ==
  ASSUME Built, LeavesSaid(frames, msg, present, SettledOnes), NEW p \in DOMAIN msg.bodies,
         NEW type, type = msg.bodies[p].type, NEW f \in FieldsOf(type), Applies(p, type, f),
         HasIn(msg, p, f.name)
  PROVE  p \in SettledOnes /\ Held(p, type, f)
<1>1. IsSeq(p) /\ At(p, f.name) \notin present
  BY DEF Built, Fits, Typed, Applies
<1>2. At(p, f.name) \in DOMAIN msg.leaves
  BY <1>1, BodyMarked DEF HasIn
<1>3. p \in SettledOnes
  BY <1>1, <1>2 DEF LeavesSaid
<1> QED
  BY <1>3 DEF SettledOnes, SettledAt

\* Every body the pass comes to has its defaults after it.
LEMMA FilledSettled ==
  ASSUME Built, LeavesSaid(frames, msg, present, SettledOnes), NEW from, msg' = Completed(msg, from),
         Same(msg.bodies, msg'.bodies), UNCHANGED <<call, present>>, NEW p \in Visited(msg, from)
  PROVE  p \in SettledOnes'
<1>1. PICK type : type = msg.bodies[p].type
  OBVIOUS
<1>2. p \in DOMAIN msg.bodies /\ type \in Types /\ msg'.bodies[p].type = type /\ p \in DOMAIN msg'.bodies
  BY <1>1 DEF Visited, Built, Fits, Typed, Same
<1>3. PICK new : new = msg'
  OBVIOUS
<1>4. Typed(msg.bodies) /\ new = Completed(msg, from) /\ Same(msg.bodies, new.bodies)
  BY <1>3 DEF Built, Fits
<1> SUFFICES ASSUME NEW f \in FieldsOf(type), Applies(p, type, f)'
             PROVE  Held(p, type, f)'
  BY <1>1, <1>2 DEF SettledOnes, SettledAt
<1>5. Applies(p, type, f) /\ (Chosen(p, type, f)' <=> Chosen(p, type, f))
  BY DEF Applies, Passed, Chosen
<1>6. CASE Chosen(p, type, f) \/ Unsaid(f, Leaf(DefaultOf(f)))
  <2> SUFFICES ASSUME HasIn(new, p, f.name) PROVE FALSE
    BY <1>3, <1>5, <1>6 DEF Held
  <2>1. \/ HasIn(msg, p, f.name) /\ f.name \notin Displaced(p, type)
        \/ \E g \in Kept(p, type) : g.name = f.name /\ ~Unsaid(g, Leaf(DefaultOf(g)))
    BY <1>1, <1>4, FilledHas
  <2>2. CASE HasIn(msg, p, f.name)
    <3>1. Held(p, type, f)
      BY <1>1, <1>2, <1>5, <2>2, UnsaidHas
    <3> QED
      BY <1>6, <2>2, <3>1 DEF Held
  <2>3. CASE \E g \in Kept(p, type) : g.name = f.name /\ ~Unsaid(g, Leaf(DefaultOf(g)))
    <3>1. PICK g \in Kept(p, type) : g.name = f.name /\ ~Unsaid(g, Leaf(DefaultOf(g)))
      BY <2>3
    <3>2. g \in FieldsOf(type) /\ g \in Defaulted(p, type)
      BY KeptIs
    <3>3. g = f
      BY <1>2, <3>1, <3>2, SchemaAssumption
    <3> QED
      BY <1>6, <3>1, <3>2, <3>3 DEF Defaulted, OneofAlreadyChosen, Chosen
  <2> QED
    BY <2>1, <2>2, <2>3
<1>7. CASE ~(Chosen(p, type, f) \/ Unsaid(f, Leaf(DefaultOf(f))))
  <2>1. f \in Defaulted(p, type) /\ ~OneofOverfull(type, f)
    BY <1>5, <1>7 DEF Applies, Defaulted, OneofAlreadyChosen, Chosen, Absent
  <2>2. f \in Kept(p, type)
    BY <1>2, <2>1, KeptAlone
  <2>3. PICK r : r = At(p, f.name)
    OBVIOUS
  <2>4. Fills(msg, from, p, f, r)
    BY <1>1, <1>7, <2>2, <2>3 DEF Fills
  <2>5. r \in DOMAIN new.leaves /\ new.leaves[r] = Leaf(DefaultOf(f))
    BY <1>4, <2>4, CompletedLeaves
  <2> QED
    BY <1>3, <1>5, <1>7, <2>3, <2>5 DEF Held, Leaf
<1> QED
  BY <1>6, <1>7

\* A step leaves everything as it was but for defaults in some bodies.
Completes(V) ==
  /\ Same(msg.bodies, msg'.bodies) /\ UNCHANGED <<call, present, nulls>>
  /\ V \subseteq DOMAIN msg.bodies
  /\ \A p \in DOMAIN msg.bodies : p \in V \/ Unmoved(p)
  /\ \A p \in V : p \in SettledOnes' /\ ExclusiveIn(msg', p)
  /\ NullsGone(msg', nulls) /\ LeavesLand(msg')

\* A pass with nothing to do has nothing left to do.
LEMMA IdleCompletes ==
  ASSUME Filling, phase # "done", UNCHANGED <<call, msg, present, nulls>>
  PROVE  Completes({})
<1>1. NullsGone(msg', nulls) /\ LeavesLand(msg')
  BY DEF Filling
<1> QED
  BY <1>1 DEF Completes, Unmoved, Same

\* After a pass every body it comes to is settled, and every other is as before.
LEMMA PassCompletes ==
  ASSUME Counted, Built, Recorded, Filling, phase # "done", NEW from, msg' = Completed(msg, from),
         UNCHANGED <<call, present, nulls>>
  PROVE  Completes(Visited(msg, from))
<1>1. PICK new : new = msg' /\ new = Completed(msg, from)
  OBVIOUS
<1>2. Typed(msg.bodies) /\ Same(msg.bodies, new.bodies)
  BY <1>1, NothingDisplaced DEF Counted, Built, Fits
<1>3. \A p \in Visited(msg, from) : p \in SettledOnes'
  BY <1>1, <1>2, FilledSettled DEF Filling
<1>4. \A p \in Visited(msg, from) : ExclusiveIn(new, p)
  <2> SUFFICES ASSUME NEW p \in Visited(msg, from) PROVE ExclusiveIn(new, p)
    OBVIOUS
  <2>1. ExclusiveIn(msg, p)
    BY DEF Visited, Filling, Exclusive
  <2> QED
    BY <1>1, <1>2, <2>1, FilledExclusive
<1>5. ASSUME NEW p, NEW f, NEW r, Fills(msg, from, p, f, r)
      PROVE  p \in DOMAIN msg.bodies /\ IsSeq(p) /\ r = At(p, f.name) /\ r \notin present
  <2>1. PICK type : type = msg.bodies[p].type
    OBVIOUS
  <2>2. f \in Kept(p, type) /\ p \in DOMAIN msg.bodies /\ r = At(p, f.name)
    BY <1>5, <2>1 DEF Fills, Visited
  <2>3. f \in Defaulted(p, type)
    BY <2>2, KeptIs
  <2> QED
    BY <1>2, <2>2, <2>3 DEF Defaulted, Absent, Typed
<1>6. ASSUME NEW p \in DOMAIN msg.bodies, p \notin Visited(msg, from)
      PROVE  Unmoved(p)
  <2>1. IsSeq(p) /\ p \in DOMAIN new.bodies /\ new.bodies[p].type = msg.bodies[p].type
    BY <1>2, <1>6 DEF Typed, Same
  <2>2. ASSUME NEW name
        PROVE  /\ At(p, name) \in DOMAIN new.leaves <=> At(p, name) \in DOMAIN msg.leaves
               /\ At(p, name) \in DOMAIN msg.leaves => new.leaves[At(p, name)] = msg.leaves[At(p, name)]
    <3>1. PICK r : r = At(p, name)
      OBVIOUS
    <3>2. ~\E q, f : Fills(msg, from, q, f, r)
      <4> SUFFICES ASSUME NEW q, NEW f, Fills(msg, from, q, f, r) PROVE FALSE
        OBVIOUS
      <4>1. IsSeq(q) /\ At(p, name) = At(q, f.name) /\ q \in Visited(msg, from)
        BY <1>5, <3>1 DEF Fills
      <4>2. p = q
        BY <2>1, <4>1, AtSame
      <4> QED
        BY <1>6, <4>1, <4>2
    <3>3. Undisplaced(msg, from, r)
      <4> SUFFICES ASSUME NEW q \in Visited(msg, from), NEW names, names = Displaced(q, msg.bodies[q].type),
                          Through(q, names, r)
                   PROVE  FALSE
        BY DEF Undisplaced
      <4>1. IsSeq(q) /\ Through(q, names, At(p, name))
        BY <1>2, <3>1 DEF Typed, Visited
      <4>2. (p = q /\ name \in names) \/ Through(q, names, p)
        BY <2>1, <4>1, ThroughAt
      <4>3. Undisplaced(msg, from, p)
        BY <1>1, <1>2, <1>6, <2>1, CompletedLeaves
      <4> QED
        BY <1>6, <4>2, <4>3 DEF Undisplaced
    <3>4. /\ r \in DOMAIN new.leaves => r \in DOMAIN msg.leaves /\ new.leaves[r] = msg.leaves[r]
          /\ r \in DOMAIN msg.leaves => r \in DOMAIN new.leaves
      BY <1>1, <1>2, <3>2, <3>3, CompletedLeaves
    <3> QED
      BY <3>1, <3>4
  <2>3. DOMAIN new.bodies = DOMAIN msg.bodies
    BY <1>2 DEF Same
  <2> QED
    BY <1>1, <2>1, <2>2, <2>3 DEF Unmoved
<1>7. ASSUME NEW r \in DOMAIN new.leaves
      PROVE  \/ \E p, f : Fills(msg, from, p, f, r)
             \/ r \in DOMAIN msg.leaves
  BY <1>1, <1>2, CompletedLeaves
<1>8. NullsGone(new, nulls)
  <2> SUFFICES ASSUME NEW r \in nulls, r \in DOMAIN new.leaves \cup DOMAIN new.bodies PROVE FALSE
    BY DEF NullsGone
  <2>1. r \notin DOMAIN msg.leaves /\ r \notin DOMAIN msg.bodies /\ r \in present
    BY DEF Filling, NullsGone, Recorded
  <2> QED
    BY <1>2, <1>5, <1>7, <2>1 DEF Same
<1>9. LeavesLand(new)
  <2> SUFFICES ASSUME NEW r \in DOMAIN new.leaves
               PROVE  \E p \in DOMAIN msg.bodies : \E s : Appends(p, s, r)
    BY <1>2 DEF LeavesLand, Same
  <2>1. CASE \E p, f : Fills(msg, from, p, f, r)
    <3>1. PICK p, f : Fills(msg, from, p, f, r)
      BY <2>1
    <3>2. p \in DOMAIN msg.bodies /\ r = At(p, f.name)
      BY <1>5, <3>1
    <3> QED
      BY <3>2 DEF At, Appends
  <2>2. CASE r \in DOMAIN msg.leaves
    BY <2>2 DEF Filling, LeavesLand
  <2> QED
    BY <1>7, <2>1, <2>2
<1>10. Visited(msg, from) \subseteq DOMAIN msg.bodies
  BY DEF Visited
<1> QED
  BY <1>1, <1>2, <1>3, <1>4, <1>6, <1>8, <1>9, <1>10 DEF Completes

\* What is settled stays so.
LEMMA CompletesSettled ==
  ASSUME NEW V, Completes(V)
  PROVE  SettledOnes \subseteq SettledOnes' /\ Goes(SettledOnes, SettledOnes')
<1>1. ASSUME NEW p \in SettledOnes
      PROVE  p \in SettledOnes'
  <2>1. p \in DOMAIN msg.bodies /\ UNCHANGED call
    BY DEF SettledOnes, Completes
  <2>2. p \in V \/ Unmoved(p)
    BY <2>1 DEF Completes
  <2> QED
    BY <2>1, <2>2, UnmovedSettled DEF Completes
<1> QED
  BY <1>1 DEF Goes

\* A pass leaves of every oneof one member at most.
LEMMA CompletesExclusive ==
  ASSUME Filling, NEW V, Completes(V)
  PROVE  Exclusive(msg')
<1> SUFFICES ASSUME NEW p \in DOMAIN msg'.bodies PROVE ExclusiveIn(msg', p)
  BY DEF Exclusive
<1>1. p \in DOMAIN msg.bodies /\ (p \in V \/ Unmoved(p))
  BY DEF Completes, Same
<1> QED
  BY <1>1, UnmovedExclusive DEF Filling, Exclusive, Completes

\* The bodies that are open still when a frame closes are not those its pass comes to.
LEMMA CloseCompletes ==
  ASSUME Stack, Counted, Built, Recorded, Filling, phase # "done", NEW it, Close(it)
  PROVE  \E V : /\ Completes(V)
                /\ Top.kind = "body" /\ PassedAtClose(Top) => Visited(msg, Top.path) \subseteq V
                /\ \A p \in V : ~IsOpen(frames', p)
<1>1. CASE Top.kind = "body" /\ PassedAtClose(Top)
  <2>1. PICK from : from = Top.path
    OBVIOUS
  <2>2. msg' = Completed(msg, from) /\ UNCHANGED <<call, present, nulls>>
    BY <1>1, <2>1 DEF Close, Read
  <2>3. Completes(Visited(msg, from))
    BY <2>2, PassCompletes
  <2>4. ASSUME NEW p \in Visited(msg, from)
        PROVE  ~IsOpen(frames', p)
    <3>1. PICK n \in Nat : Longer(frames', frames, n) /\ frames[n + 1] = Top
      BY ClosesLonger
    <3>2. /\ DOMAIN frames = 1..(n + 1) /\ DOMAIN frames' = 1..n
          /\ \A k \in 1..n : frames'[k] = frames[k]
      BY <3>1 DEF Longer, Frames
    <3> SUFFICES ASSUME NEW k \in 1..n, frames[k].kind = "body", frames[k].path = p PROVE FALSE
      BY <3>2 DEF IsOpen
    <3>3. Len(p) < Len(Top.path) /\ IsSeq(p)
      <4>1. n + 1 \in DOMAIN frames /\ k \in 1..(n + 1 - 1) /\ frames[n + 1].kind = "body"
        BY <1>1, <3>1, <3>2
      <4>2. Len(frames[k].path) < Len(frames[n + 1].path)
        BY <4>1, OpenBodies
      <4> QED
        BY <3>1, <4>2 DEF Built, Fits, Typed, Visited
    <3>4. Len(p) \in Nat /\ Len(Top.path) \in Nat
      BY <1>1, <3>3, TopPlaced, SeqLength
    <3> QED
      BY <2>1, <3>3, <3>4 DEF Visited, OnTheWay, Begins
  <2> QED
    BY <2>1, <2>3, <2>4
<1>2. CASE ~(Top.kind = "body" /\ PassedAtClose(Top))
  <2>1. UNCHANGED <<call, msg, present, nulls>>
    BY <1>2 DEF Close, Read
  <2>2. Completes({})
    BY <2>1, IdleCompletes
  <2> QED
    BY <1>2, <2>2
<1> QED
  BY <1>1, <1>2

\* A bracket that closes, with the pass it may start, keeps Filling.
LEMMA FillingCloses ==
  ASSUME Stack, Counted, Built, Recorded, Filling, phase # "done", phase' # "done", NEW it, Close(it)
  PROVE  Filling'
<1>1. PICK V : /\ Completes(V)
               /\ Top.kind = "body" /\ PassedAtClose(Top) => Visited(msg, Top.path) \subseteq V
               /\ \A p \in V : ~IsOpen(frames', p)
  BY CloseCompletes
<1>2. PICK n \in Nat : Longer(frames', frames, n)
  BY ClosesLonger
<1>3. /\ DOMAIN frames = 1..(n + 1) /\ DOMAIN frames' = 1..n /\ n >= 1
      /\ \A k \in 1..n : frames'[k] = frames[k]
  BY <1>2 DEF Longer, Frames
<1>4. /\ UNCHANGED <<present, nulls>> /\ DOMAIN msg'.bodies = DOMAIN msg.bodies
      /\ V \subseteq SettledOnes'
      /\ \A p \in DOMAIN msg.bodies : p \in V \/ Unmoved(p)
  BY <1>1 DEF Completes, Same
<1>5. Covered(frames', msg'.bodies, present' \ nulls', SettledOnes')
  <2>1. Goes(SettledOnes, SettledOnes') /\ Covered(frames, msg.bodies, present \ nulls, SettledOnes)
    BY <1>1, CompletesSettled DEF Filling
  <2>2. Top.kind = "body" /\ PassedAtClose(Top) => Visited(msg, Top.path) \subseteq SettledOnes'
    BY <1>1, <1>4
  <2> QED
    BY <2>1, <2>2, CoveredCloses
<1>6. LeavesBound(frames', msg')
  <2> SUFFICES ASSUME NEW k \in 1..n, frames[k].kind = "body", NEW name,
                      At(frames[k].path, name) \in DOMAIN msg'.leaves
               PROVE  Explains(frames[k], name)
    BY <1>3 DEF LeavesBound
  <2>1. k \in DOMAIN frames /\ frames[k].path \in DOMAIN msg.bodies
    BY <1>3, OpenBodies
  <2>2. frames[k].path \notin V
    BY <1>1, <1>3 DEF IsOpen
  <2>3. At(frames[k].path, name) \in DOMAIN msg.leaves
    BY <1>4, <2>1, <2>2 DEF Unmoved
  <2> QED
    BY <2>1, <2>3 DEF Filling, LeavesBound
<1>7. LeavesSaid(frames', msg', present', SettledOnes')
  <2> SUFFICES ASSUME NEW p \in DOMAIN msg.bodies, NEW name, At(p, name) \in DOMAIN msg'.leaves
               PROVE  At(p, name) \in present \/ (p \in SettledOnes' /\ ~IsOpen(frames', p))
    BY <1>4 DEF LeavesSaid
  <2>1. CASE p \in V
    BY <1>1, <1>4, <2>1
  <2>2. CASE Unmoved(p)
    <3>1. At(p, name) \in present \/ (p \in SettledOnes /\ ~IsOpen(frames, p))
      BY <2>2 DEF Unmoved, Filling, LeavesSaid
    <3>2. p \in SettledOnes => p \in SettledOnes'
      BY <1>1, CompletesSettled
    <3>3. ~IsOpen(frames, p) => ~IsOpen(frames', p)
      BY <1>3 DEF IsOpen
    <3> QED
      BY <3>1, <3>2, <3>3
  <2> QED
    BY <1>4, <2>1, <2>2
<1>8. frames'[1].path = <<>>
  <2>1. frames[1].path = <<>> /\ 1 \in 1..n
    BY <1>3 DEF Filling
  <2> QED
    BY <1>3, <2>1
<1>9. Exclusive(msg') /\ NullsGone(msg', nulls') /\ LeavesLand(msg')
  BY <1>1, CompletesExclusive DEF Completes
<1> QED
  BY <1>5, <1>6, <1>7, <1>8, <1>9 DEF Filling

\* At the end every body is settled.
LEMMA FillingFinishes ==
  ASSUME Stack, Counted, Built, Recorded, Filling, phase # "done", NEW it, IsItem(it), Finish(it),
         ~Refuses(it)
  PROVE  Filling'
<1>1. DOMAIN frames = {1} /\ Top = frames[1] /\ Top.path = <<>>
  BY FinishTaken DEF Filling
<1>2. PICK from : from = Top.path
  OBVIOUS
<1>3. msg' = Completed(msg, from) /\ UNCHANGED <<call, present, nulls>> /\ phase' = "done"
  BY <1>1, <1>2 DEF Finish
<1>4. Completes(Visited(msg, from))
  BY <1>3, PassCompletes
<1>5. ASSUME NEW p \in DOMAIN msg.bodies
      PROVE  p \in SettledOnes'
  <2>1. Quiet(msg.bodies[p].type) \/ p \in Visited(msg, Top.path) \/ p \in SettledOnes
    BY AllCovered DEF Filling
  <2>2. CASE Quiet(msg.bodies[p].type)
    <3>1. ~Annotated(msg.bodies[p].type)
      BY <2>2, QuietPlain DEF Built, Fits, Typed
    <3>2. p \in SettledOnes
      BY <3>1 DEF Annotated, SettledOnes, SettledAt, Applies
    <3> QED
      BY <1>4, <3>2, CompletesSettled
  <2>3. CASE p \in Visited(msg, Top.path)
    BY <1>2, <1>4, <2>3 DEF Completes
  <2>4. CASE p \in SettledOnes
    BY <1>4, <2>4, CompletesSettled
  <2> QED
    BY <2>1, <2>2, <2>3, <2>4
<1>6. \A p \in DOMAIN msg'.bodies : p \in SettledOnes'
  BY <1>4, <1>5 DEF Completes, Same
<1>7. Exclusive(msg') /\ NullsGone(msg', nulls')
  BY <1>4, CompletesExclusive DEF Completes
<1> QED
  BY <1>3, <1>6, <1>7 DEF Filling

-----------------------------------------------------------------------------
(***************************************************************************)
(* Defaults and oneofs.                                                    *)
(***************************************************************************)

\* Bodies stay filled with every item that is read.
LEMMA FillingTakes ==
  ASSUME Stack, Counted, Built, Built', Recorded, Passing, Filling, call \in Calls, Reading,
         NEW it \in Readable, ~Refuses(it), Take(it)
  PROVE  Filling'
<1>1. /\ IsItem(it) /\ Covered(frames, msg.bodies, present \ nulls, SettledOnes)
      /\ NullsSpent(frames, nulls) /\ phase # "done"
  BY ReadableIsItem DEF Passing, Filling, Reading
<1>2. ASSUME NEW w, Writes(w), Reads, phase' = "body",
             SaidStays(msg.bodies, present \ nulls, present' \ nulls')
      PROVE  Filling'
  <2>1. UNCHANGED call /\ phase' # "done"
    BY <1>2 DEF Reads
  <2>2. Goes(SettledOnes, SettledOnes')
    BY <1>2, <2>1, WritesGoes
  <2>3. Covered(frames', msg'.bodies, present' \ nulls', SettledOnes')
    BY <1>1, <1>2, <2>2, CoveredReads
  <2> QED
    BY <1>1, <1>2, <2>1, <2>3, FillingWrites
<1>3. ASSUME NEW w, Writes(w), Reads, phase' = "body", UNCHANGED nulls
      PROVE  Filling'
  <2>1. SaidStays(msg.bodies, present \ nulls, present' \ nulls')
    BY <1>3 DEF Reads, SaidStays
  <2> QED
    BY <1>2, <1>3, <2>1
<1>4. ASSUME NEW w, Writes(w), Enters, phase' = "body", UNCHANGED nulls
      PROVE  Filling'
  <2>1. PICK n \in Nat : \E f, e, q : Adds(n, f, e, q)
    BY <1>4 DEF Enters
  <2>2. PICK f, e, q : Adds(n, f, e, q)
    BY <2>1
  <2>3. UNCHANGED call /\ phase' # "done"
    BY <1>4, <2>2 DEF Adds
  <2>4. Goes(SettledOnes, SettledOnes')
    BY <1>4, <2>3, WritesGoes
  <2>5. Covered(frames', msg'.bodies, present' \ nulls', SettledOnes')
    BY <1>1, <1>4, <2>2, <2>4, CoveredEnters
  <2> QED
    BY <1>1, <1>4, <2>3, <2>5, FillingWrites
<1>5. CASE Directive(it)
  BY <1>1, <1>5 DEF Directive, Filling, SettledOnes, SettledAt, Applies, Held, Chosen, HasIn, Passed
<1>6. CASE Null(it)
  <2>1. Reads /\ phase' = "body"
    BY <1>6, EntryReads DEF Null, InBody, Read
  <2>2. PICK w : Writes(w)
    BY <1>1, <1>6, NullWrites
  <2> QED
    BY <1>2, <1>6, <2>1, <2>2, NullKeeps
<1>7. CASE Scalar(it)
  <2>1. Reads /\ phase' = "body" /\ UNCHANGED nulls
    BY <1>7, EntryReads DEF Scalar, InBody, Read
  <2>2. PICK w : Writes(w)
    BY <1>1, <1>7, ScalarWrites
  <2> QED
    BY <1>3, <2>1, <2>2
<1>8. CASE Collection(it) \/ Unknown(it) \/ Skipped(it)
  <2>1. Reads
    BY <1>8, HolderReads, DroppedReads
  <2>2. phase' = "body" /\ UNCHANGED nulls
    BY <1>8 DEF Collection, Unknown, Skipped, InBody, Read
  <2>3. PICK w : Writes(w)
    BY <1>1, <1>8, DropWrites
  <2> QED
    BY <1>3, <2>1, <2>2, <2>3
<1>9. CASE Message(it)
  <2>1. Enters /\ phase' = "body" /\ UNCHANGED nulls
    BY <1>1, <1>9, MessageEnters DEF Message, InBody, Read
  <2>2. PICK w : Writes(w)
    BY <1>1, <1>9, MessageWrites
  <2> QED
    BY <1>4, <2>1, <2>2
<1>10. CASE KeyedEntry(it)
  <2>1. Enters /\ phase' = "body" /\ UNCHANGED nulls
    BY <1>1, <1>10, KeyedEnters DEF KeyedEntry, Read
  <2>2. PICK w : Writes(w)
    BY <1>1, <1>10, KeyedWrites
  <2> QED
    BY <1>4, <2>1, <2>2
<1>11. CASE ListItem(it) \/ MapEntry(it)
  <2>1. phase' = "body" /\ UNCHANGED nulls
    BY <1>11 DEF ListItem, MapEntry, Read
  <2>2. CASE it.val = "block"
    <3>1. Enters
      BY <1>1, <1>11, <2>2, ItemEnters
    <3>2. PICK w : Writes(w)
      BY <1>1, <1>11, <2>2, ItemWrites
    <3> QED
      BY <1>4, <2>1, <3>1, <3>2
  <2>3. CASE it.val # "block"
    <3>1. Reads
      BY <1>11, <2>3, LeafReads
    <3>2. PICK w : Writes(w)
      BY <1>1, <1>11, <2>3, LeafWrites
    <3> QED
      BY <1>3, <2>1, <3>1, <3>2
  <2> QED
    BY <2>2, <2>3
<1>12. CASE TypeEntry(it)
  <2>1. PICK n \in Nat, type \in Types : \E url : Retypes(n, type, url)
    BY <1>12, EntryRetypes
  <2>2. PICK url : Retypes(n, type, url)
    BY <2>1
  <2>3. PICK w : Writes(w)
    BY <1>1, <1>12, TypeWrites
  <2>4. UNCHANGED call /\ phase' # "done"
    BY <1>12 DEF TypeEntry, Read
  <2>5. Goes(SettledOnes, SettledOnes')
    BY <2>3, <2>4, WritesGoes
  <2>6. Covered(frames', msg'.bodies, present' \ nulls', SettledOnes')
    BY <1>1, <2>2, <2>5, CoveredRetypes
  <2> QED
    BY <1>1, <2>3, <2>4, <2>6, FillingWrites
<1>13. CASE Close(it)
  <2>1. phase' # "done"
    BY <1>13 DEF Close, Read
  <2> QED
    BY <1>1, <1>13, <2>1, FillingCloses
<1>14. CASE Finish(it)
  BY <1>1, <1>14, FillingFinishes
<1> QED
  BY <1>5, <1>6, <1>7, <1>8, <1>9, <1>10, <1>11, <1>12, <1>13, <1>14 DEF Take

\* Every step leaves each body filled as it is said to be.
LEMMA FillingStep ==
  /\ Stack /\ Counted /\ Built /\ Recorded /\ Passing /\ Filling /\ call \in Calls /\ Built'
  /\ [Next]_vars
  => Filling'
<1> SUFFICES ASSUME Stack, Counted, Built, Recorded, Passing, Filling, call \in Calls, Built',
                    [Next]_vars
             PROVE  Filling'
  OBVIOUS
<1>1. ASSUME UNCHANGED <<call, frames, msg, present, nulls>>,
             phase' = phase \/ (phase # "done" /\ phase' # "done")
      PROVE  Filling'
  <2>1. SettledOnes' = SettledOnes
    BY <1>1 DEF SettledOnes, SettledAt, Applies, Held, Chosen, HasIn, Passed
  <2> QED
    BY <1>1, <2>1 DEF Filling
<1>2. CASE Start \/ UNCHANGED vars
  <2>1. UNCHANGED <<call, frames, msg, present, nulls>>
    BY <1>2 DEF Start, vars
  <2>2. phase' = phase \/ (phase # "done" /\ phase' # "done")
    BY <1>2 DEF Start, vars
  <2> QED
    BY <1>1, <2>1, <2>2
<1>3. CASE Reading /\ \E it \in Readable : Take(it)
  <2>1. PICK it \in Readable : Take(it)
    BY <1>3
  <2>2. CASE Refuses(it)
    BY <1>1, <1>3, <2>1, <2>2 DEF Take, Refuse, Reading
  <2> QED
    BY <1>3, <2>1, <2>2, FillingTakes
<1> QED
  BY <1>2, <1>3 DEF Next

\* At the start there is the root, and nothing in it.
LEMMA FillingInit == Init => Filling
<1> SUFFICES ASSUME Init PROVE Filling
  OBVIOUS
<1>1. DOMAIN frames = {1} /\ frames[1] = Root /\ Root.kind = "body" /\ Root.close = "eof" /\ Root.path = <<>>
  BY DEF Init, Root
<1>2. /\ DOMAIN msg.bodies = {<<>>} /\ DOMAIN msg.leaves = {} /\ present = {} /\ nulls = {}
      /\ phase # "done"
  BY DEF Init, Empty
<1>3. PICK e : e = <<>>
  OBVIOUS
<1>4. Leads(msg.bodies, present \ nulls, e, e)
  BY <1>3, SeqEmpty, LeadsHere
<1>5. Covered(frames, msg.bodies, present \ nulls, SettledOnes)
  BY <1>1, <1>2, <1>3, <1>4 DEF Covered, CoveredAt, Guarded, Guards, Closing
<1>6. \A name : At(e, name) # e
  <2> SUFFICES ASSUME NEW name, At(e, name) = e PROVE FALSE
    OBVIOUS
  <2>1. IsSeq(e) /\ Len(e) = 0
    BY <1>3, SeqEmpty
  <2>2. PICK q, s : q = At(e, name) /\ Appends(e, s, q)
    BY AtAppends
  <2>3. Len(q) = 1
    BY <2>1, <2>2, SeqAppend
  <2> QED
    BY <2>1, <2>2, <2>3
<1>7. Exclusive(msg)
  BY <1>2, <1>3, <1>6 DEF Exclusive, ExclusiveIn, HasIn
<1> QED
  BY <1>1, <1>2, <1>5, <1>7 DEF Filling, NullsGone, LeavesLand, LeavesBound, LeavesSaid

\* Of every oneof one member at most is in the message and what is null is not, at every
\* step; and where the document is accepted, wherever a body stands, a field with a
\* default that the text does not say has it unless the text says another member of its
\* oneof (post_decode, oneof_already_chosen, set_field).
THEOREM DefaultsHold == Spec => []DefaultsEverywhere
<1>1. Filling => OneofsExclusive
  BY DEF Filling, Exclusive, ExclusiveIn, HasIn, NullsGone, OneofsExclusive, Has
<1>2. Filling => DefaultsHeld
  <2> SUFFICES ASSUME Filling, phase = "done", NEW p \in DOMAIN msg.bodies,
                      NEW type, type = msg.bodies[p].type, NEW f \in FieldsOf(type), Applies(p, type, f)
               PROVE  DefaultHeld(p, type, f)
    BY DEF DefaultsHeld, Applies
  <2>1. p \in SettledOnes
    BY DEF Filling
  <2>2. Held(p, type, f)
    BY <2>1 DEF SettledOnes, SettledAt
  <2> QED
    BY <2>2 DEF Held, DefaultHeld, Chosen, HasIn, Has
<1>3. Filling => DefaultsEverywhere
  BY <1>1, <1>2 DEF DefaultsEverywhere
<1>4. Init => Stack /\ Counted /\ Built /\ Recorded /\ Passing /\ Filling /\ call \in Calls
  BY StackInit, CountedInit, BuiltInit, RecordedInit, PassingInit, FillingInit DEF Init
<1>5. Stack /\ Counted /\ Built /\ Recorded /\ Passing /\ Filling /\ call \in Calls /\ [Next]_vars =>
        (Stack /\ Counted /\ Built /\ Recorded /\ Passing /\ Filling /\ call \in Calls)'
  BY StackStep, CountedStep, BuiltStep, RecordedStep, PassingStep, FillingStep, CallStays
<1> QED
  BY <1>3, <1>4, <1>5, PTL DEF Spec
==============================================================================
