-------------------------- MODULE PxfDecoderProofs --------------------------
(***************************************************************************)
(* Theorems about the PXF decoder, for every schema, every document and    *)
(* all limits.                                                             *)
(***************************************************************************)
EXTENDS PxfDecoder, FiniteSetTheorems, TLAPS

\* A sequence, whatever its elements are.
IsSeq(s) == s \in Seq({s[k] : k \in DOMAIN s})

-----------------------------------------------------------------------------
(***************************************************************************)
(* The invariant, in parts.                                                *)
(***************************************************************************)

\* The frames are one for the root, which the end of the document closes, and one
\* for each open bracket; their number is the depth.
Levels ==
  /\ call.root \in Types /\ call.depth \in Nat /\ call.repeated \in Nat
  /\ IsSeq(frames) /\ Len(frames) = depth + 1 /\ depth \in Nat /\ depth <= call.depth
  /\ frames[1].kind = "body" /\ frames[1].close = "eof"
  /\ \A k \in 2..Len(frames) : frames[k].close \in {"end", "endlist"}

Brackets ==
  /\ IsSeq(input)
  /\ depth = Cardinality(Opened(input)) - Cardinality(Shut(input))

\* A frame stands on a type, and one for elements on a field of it that has them.
Stands(frame) ==
  /\ DOMAIN frame = {"kind", "close", "type", "field", "path", "from", "bound", "oneofs",
                     "element", "fresh"}
  /\ frame.kind \in {"body", "list", "keyed", "map", "skip"}
  /\ frame.kind # "skip" => frame.type \in Types
  /\ frame.kind \in {"list", "keyed", "map"} =>
       /\ Knows(frame.type, frame.field)
       /\ FieldOf(frame.type, frame.field).shape # "one"
  /\ frame.kind = "keyed" => KeyField(FieldOf(frame.type, frame.field)) # "none"
Standing == \A k \in DOMAIN frames : Stands(frames[k])

Stack == Levels /\ Brackets /\ Standing

\* Every body has a type, and a path of which every start is the path of a body.
Typed(bodies) ==
  \A p \in DOMAIN bodies :
    /\ IsSeq(p) /\ IsSeq(bodies[p].urls) /\ bodies[p].type \in Types
    /\ \A n \in 0..Len(p) : SubSeq(p, 1, n) \in DOMAIN bodies

\* A body that is element n of a field is one of the elements counted, and the field
\* is recorded as present.
Numbered(m, marks) ==
  \A p \in DOMAIN m.bodies : \A n \in 1..Len(p) :
    /\ p[n][3] \in Nat /\ p[n][3] <= Count(m, SubSeq(p, 1, n - 1), p[n][1])
    /\ At(SubSeq(p, 1, n - 1), p[n][1]) \in marks

\* A frame has the path of a body, and only a value that is dropped stands in one.
\* The path of a body lies below those under it, and a frame for elements has that of
\* the body whose field has them.
OnBody(fs, k, bodies) ==
  /\ fs[k].path \in DOMAIN bodies
  /\ \A j \in 1..(k - 1) : fs[j].kind # "skip"
Below(fs, k, bodies) ==
  /\ bodies[fs[k].path].type = fs[k].type
  /\ \A j \in 1..(k - 1) : Len(fs[j].path) < Len(fs[k].path)
Within(fs, k, marks) ==
  LET body == fs[k - 1]
      f == FieldOf(fs[k].type, fs[k].field)
  IN  /\ k > 1 /\ body.kind = "body" /\ ~body.fresh
      /\ body.type = fs[k].type /\ body.path = fs[k].path
      /\ f.oneof # "none" => f.oneof \in body.oneofs
      /\ At(fs[k].path, fs[k].field) \in marks
Placed(fs, bodies, marks) ==
  \A k \in DOMAIN fs : fs[k].kind # "skip" =>
    /\ OnBody(fs, k, bodies)
    /\ fs[k].kind = "body" => Below(fs, k, bodies)
    /\ fs[k].kind # "body" => Within(fs, k, marks)

\* The prefix is the path of the innermost body, and what is put back when a
\* bracket closes is that of the one around it.
Inner(fs, k, n) ==
  k \in 1..n /\ fs[k].kind # "skip" /\ \A j \in (k + 1)..n : fs[j].kind = "skip"
Prefixed(fs, at) ==
  /\ \A n \in DOMAIN fs : \E k \in 1..n : Inner(fs, k, n)
  /\ \A k \in DOMAIN fs : Inner(fs, k, Len(fs)) => at = fs[k].path
  /\ \A n \in DOMAIN fs : n > 1 =>
       \A k \in 1..(n - 1) : Inner(fs, k, n - 1) => fs[n].from = fs[k].path

\* What lies under the body of a frame lies under one of the fields bound in it; and
\* all that is recorded of an Any before its type is read is its key.
Beneath(p, q) == Len(p) < Len(q) /\ SubSeq(q, 1, Len(p)) = p
Accounts(frame, q) ==
  LET name == q[Len(frame.path) + 1][1]
      f == FieldOf(frame.type, name)
  IN  /\ ~frame.fresh /\ Knows(frame.type, name)
      /\ f.shape = "one" => name \in frame.bound
      /\ f.oneof # "none" => f.oneof \in frame.oneofs
OnlyKey(frame, marks) ==
  \A q \in marks : Beneath(frame.path, q) /\ Len(q) = Len(frame.path) + 1 => q[Len(q)][1] = "type_url"
Accounted(fs, bodies, marks) ==
  \A k \in DOMAIN fs : fs[k].kind = "body" =>
    /\ \A q \in DOMAIN bodies : Beneath(fs[k].path, q) => Accounts(fs[k], q)
    /\ fs[k].fresh /\ Schema[fs[k].type].role = "any" => OnlyKey(fs[k], marks)

\* Lands, of the bodies of any message.
LandsIn(bodies, q) ==
  /\ q # <<>> /\ q[Len(q)][3] = 0
  /\ LET p == SubSeq(q, 1, Len(q) - 1)
     IN  p \in DOMAIN bodies /\ HasField(bodies[p], q[Len(q)][1])
Landed(bodies, marks) == \A q \in marks : IsSeq(q) /\ LandsIn(bodies, q)

\* What frames, message, marks and prefix are to each other.
Fits(fs, m, marks, at) ==
  /\ Typed(m.bodies) /\ Numbered(m, marks)
  /\ Placed(fs, m.bodies, marks) /\ Prefixed(fs, at)
  /\ Accounted(fs, m.bodies, marks) /\ Landed(m.bodies, marks)

Built == Fits(frames, msg, present, prefix)

-----------------------------------------------------------------------------
(***************************************************************************)
(* Sequences whose elements are of no set in particular.                   *)
(***************************************************************************)

\* A sequence with one element more, the first n of its elements, and another
\* element in place of the last.
Appends(s, e, t)  == t = Append(s, e)
FirstOf(s, n, t)  == t = SubSeq(s, 1, n)
Replaces(s, e, t) == t = [s EXCEPT ![Len(s)] = e]

\* A sequence has the length it has and is defined on its positions.
LEMMA SeqLength ==
  ASSUME NEW s, IsSeq(s)
  PROVE  Len(s) \in Nat /\ DOMAIN s = 1..Len(s)
<1> QED
  BY DEF IsSeq

\* A function on the positions up to a length is a sequence of that length.
LEMMA SeqIs ==
  ASSUME NEW n \in Nat, NEW s, s = [k \in 1..n |-> s[k]]
  PROVE  IsSeq(s) /\ Len(s) = n
<1> DEFINE S == {s[k] : k \in DOMAIN s}
<1>1. DOMAIN s = 1..n
  OBVIOUS
<1>2. s \in [1..n -> S]
  BY <1>1
<1>3. s \in Seq(S)
  BY <1>2
<1> QED
  BY <1>1, <1>3 DEF IsSeq

\* A member of Seq(S) is a sequence, whatever S is.
LEMMA SeqMember ==
  ASSUME NEW S, NEW s \in Seq(S)
  PROVE  IsSeq(s)
<1>1. Len(s) \in Nat /\ DOMAIN s = 1..Len(s) /\ s = [k \in 1..Len(s) |-> s[k]]
  OBVIOUS
<1> QED
  BY <1>1, SeqIs

\* Sequences of one length with the same elements are the same; a sequence without
\* elements is the empty one.
LEMMA SeqEqual ==
  ASSUME NEW s, NEW t, IsSeq(s), IsSeq(t), Len(s) = Len(t),
         \A k \in 1..Len(s) : s[k] = t[k]
  PROVE  s = t
<1> QED
  BY DEF IsSeq

\* The empty sequence is the only one of length 0.
LEMMA SeqEmpty ==
  /\ IsSeq(<<>>) /\ Len(<<>>) = 0
  /\ \A s : IsSeq(s) /\ Len(s) = 0 => s = <<>>
<1>1. PICK z \in Nat : z = 0
  OBVIOUS
<1>2. PICK e : e = <<>>
  OBVIOUS
<1>3. e = [k \in 1..z |-> e[k]]
  BY <1>1, <1>2
<1>4. IsSeq(e) /\ Len(e) = z
  BY <1>3, SeqIs
<1>5. ASSUME NEW s, IsSeq(s), Len(s) = 0
      PROVE  s = e
  <2>1. \A k \in 1..Len(s) : s[k] = e[k]
    BY <1>5
  <2> QED
    BY <1>1, <1>4, <1>5, <2>1, SeqEqual
<1> QED
  BY <1>1, <1>2, <1>4, <1>5

\* Append puts one element behind the others.
LEMMA SeqAppend ==
  ASSUME NEW s, NEW e, NEW t, IsSeq(s), Appends(s, e, t)
  PROVE  /\ IsSeq(t) /\ Len(t) = Len(s) + 1 /\ t[Len(s) + 1] = e
         /\ \A k \in 1..Len(s) : t[k] = s[k]
<1>1. PICK S : s \in Seq(S)
  BY DEF IsSeq
<1> DEFINE T == S \cup {e}
<1>2. s \in Seq(T) /\ e \in T
  BY <1>1
<1>3. t \in Seq(T) /\ Len(t) = Len(s) + 1 /\ t[Len(s) + 1] = e
      /\ \A k \in 1..Len(s) : t[k] = s[k]
  BY <1>2 DEF Appends
<1>4. IsSeq(t)
  BY <1>3, SeqMember
<1> QED
  BY <1>3, <1>4

\* The first n elements.
LEMMA SeqFirst ==
  ASSUME NEW s, IsSeq(s), NEW n \in 0..Len(s), NEW t, FirstOf(s, n, t)
  PROVE  IsSeq(t) /\ Len(t) = n /\ \A k \in 1..n : t[k] = s[k]
<1>1. t = [k \in 1..n |-> s[k]]
  BY SeqLength DEF IsSeq, FirstOf
<1>2. n \in Nat
  BY SeqLength
<1> QED
  BY <1>1, <1>2, SeqIs

\* The starts of a sequence that starts as another does, up to where they agree.
LEMMA SeqStarts ==
  ASSUME NEW s, NEW t, IsSeq(s), IsSeq(t), NEW n \in Nat, n <= Len(s), n <= Len(t),
         \A k \in 1..n : t[k] = s[k]
  PROVE  SubSeq(t, 1, n) = SubSeq(s, 1, n)
<1>1. n \in 0..Len(s) /\ n \in 0..Len(t)
  BY SeqLength
<1>2. PICK a, b : FirstOf(s, n, a) /\ FirstOf(t, n, b)
  BY DEF FirstOf
<1>3. IsSeq(a) /\ Len(a) = n /\ \A k \in 1..n : a[k] = s[k]
  BY <1>1, <1>2, SeqFirst
<1>4. IsSeq(b) /\ Len(b) = n /\ \A k \in 1..n : b[k] = t[k]
  BY <1>1, <1>2, SeqFirst
<1> QED
  BY <1>2, <1>3, <1>4, SeqEqual DEF FirstOf

\* A sequence starts with itself, and what is before the element put behind it.
LEMMA SeqWhole ==
  ASSUME NEW s, IsSeq(s)
  PROVE  SubSeq(s, 1, Len(s)) = s
<1>1. Len(s) \in 0..Len(s)
  BY SeqLength
<1>2. PICK t : FirstOf(s, Len(s), t)
  BY DEF FirstOf
<1> QED
  BY <1>1, <1>2, SeqFirst, SeqEqual DEF FirstOf

\* What stood before an element put behind it starts the sequence as it did.
LEMMA SeqAppendStarts ==
  ASSUME NEW s, NEW e, NEW t, IsSeq(s), Appends(s, e, t)
  PROVE  /\ SubSeq(t, 1, Len(s)) = s
         /\ \A n \in 0..Len(s) : SubSeq(t, 1, n) = SubSeq(s, 1, n)
<1>1. \A n \in 0..Len(s) : SubSeq(t, 1, n) = SubSeq(s, 1, n)
  BY SeqAppend, SeqStarts, SeqLength
<1> QED
  BY <1>1, SeqWhole, SeqLength

\* The last element in place of another.
LEMMA SeqReplace ==
  ASSUME NEW s, NEW e, NEW t, IsSeq(s), Len(s) > 0, Replaces(s, e, t)
  PROVE  /\ IsSeq(t) /\ Len(t) = Len(s) /\ t[Len(s)] = e
         /\ \A k \in 1..(Len(s) - 1) : t[k] = s[k]
<1>1. Len(s) \in Nat /\ DOMAIN s = 1..Len(s)
  BY SeqLength
<1>2. DOMAIN t = 1..Len(s) /\ t = [k \in 1..Len(s) |-> t[k]]
  BY <1>1 DEF Replaces
<1>3. IsSeq(t) /\ Len(t) = Len(s)
  BY <1>1, <1>2, SeqIs
<1>4. t[Len(s)] = e /\ \A k \in 1..(Len(s) - 1) : t[k] = s[k]
  BY <1>1 DEF Replaces
<1> QED
  BY <1>3, <1>4

-----------------------------------------------------------------------------
(***************************************************************************)
(* Fields, frames and brackets.                                            *)
(***************************************************************************)

\* A name that is known is that of one field (get_field_by_name).
LEMMA FieldKnown ==
  ASSUME NEW type \in Types, NEW name, Knows(type, name)
  PROVE  /\ FieldOf(type, name) \in FieldsOf(type)
         /\ FieldOf(type, name).name = name
<1> QED
  BY DEF Knows, FieldOf

\* No bracket is a literal of a field.
LEMMA BracketNoLiteral ==
  ASSUME NEW type \in Types, NEW f \in FieldsOf(type), NEW it, Literal(f, it)
  PROVE  it.val \in Scalars
<1>1. f.kind \in Kinds
  BY SchemaAssumption DEF FieldType
<1>2. CASE f.kind # "message"
  BY <1>1, <1>2 DEF Literal, Kinds, Scalars
<1>3. CASE f.kind = "message"
  BY <1>3, SchemaAssumption DEF Literal, Scalars
<1> QED
  BY <1>2, <1>3

\* A keyed field is a list of messages.
LEMMA KeyedIsList ==
  ASSUME NEW f, KeyField(f) # "none"
  PROVE  f.shape = "list" /\ f.kind = "message"
<1> QED
  BY DEF KeyField

\* A value that is not refused is a literal, or opens a body one level deeper.
LEMMA ValueTaken ==
  ASSUME NEW type \in Types, NEW f \in FieldsOf(type), NEW it, ~ValueRefused(f, it)
  PROVE  \/ it.val \in Scalars
         \/ it.val = "block" /\ f.kind = "message" /\ f.body \in Types /\ ~TooDeep
<1> QED
  BY BracketNoLiteral, SchemaAssumption DEF ValueRefused

\* What Bound changes of the frame of a body.
LEMMA BoundFrame ==
  ASSUME NEW frame, NEW f, NEW g, Stands(frame), frame.kind = "body", g = Bound(frame, f)
  PROVE  /\ Stands(g) /\ g.kind = "body" /\ g.close = frame.close /\ g.type = frame.type
         /\ g.path = frame.path /\ g.from = frame.from /\ ~g.fresh
<1> QED
  BY DEF Bound, Stands

\* Binding a field only adds to what is bound in the body, its name and oneof included.
LEMMA BoundNames ==
  ASSUME NEW frame, NEW f, NEW g, Stands(frame), frame.kind = "body", g = Bound(frame, f)
  PROVE  /\ frame.bound \subseteq g.bound /\ (f.shape = "one" => f.name \in g.bound)
         /\ frame.oneofs \subseteq g.oneofs /\ (f.oneof # "none" => f.oneof \in g.oneofs)
<1> QED
  BY DEF Bound, Stands

\* A frame in which something was read is no longer fresh.
LEMMA SoiledFrame ==
  ASSUME NEW frame, NEW g, Stands(frame), g = [frame EXCEPT !.fresh = FALSE]
  PROVE  /\ Stands(g) /\ g.kind = frame.kind /\ g.close = frame.close /\ g.type = frame.type
         /\ g.field = frame.field /\ g.path = frame.path /\ g.from = frame.from /\ ~g.fresh
         /\ g.bound = frame.bound /\ g.oneofs = frame.oneofs
<1> QED
  BY DEF Stands

\* The bracket an item adds to those that are open or shut.
LEMMA OneMore ==
  ASSUME NEW s, NEW it, NEW t, IsSeq(s), Appends(s, it, t)
  PROVE  /\ Cardinality(Opened(t)) =
              Cardinality(Opened(s)) + (IF it.val \in {"block", "list"} THEN 1 ELSE 0)
         /\ Cardinality(Shut(t)) =
              Cardinality(Shut(s)) + (IF it.val \in {"end", "endlist"} THEN 1 ELSE 0)
         /\ Cardinality(Opened(s)) \in Nat /\ Cardinality(Shut(s)) \in Nat
<1>1. PICK n \in Nat : n = Len(s)
  BY SeqLength
<1>2. DOMAIN s = 1..n /\ DOMAIN t = 1..(n + 1) /\ t[n + 1] = it /\ \A k \in 1..n : t[k] = s[k]
  BY <1>1, SeqLength, SeqAppend
<1>3. IsFiniteSet(1..n)
  BY FS_Interval
<1>4. /\ Opened(s) \in SUBSET (1..n) /\ n + 1 \notin Opened(s)
      /\ Shut(s) \in SUBSET (1..n) /\ n + 1 \notin Shut(s)
  BY <1>2 DEF Opened, Shut
<1>5. IsFiniteSet(Opened(s)) /\ IsFiniteSet(Shut(s))
  BY <1>3, <1>4, FS_Subset
<1>6. Cardinality(Opened(s)) \in Nat /\ Cardinality(Shut(s)) \in Nat
  BY <1>5, FS_CardinalityType
<1>7. Opened(t) = IF it.val \in {"block", "list"} THEN Opened(s) \cup {n + 1} ELSE Opened(s)
  BY <1>2 DEF Opened
<1>8. Shut(t) = IF it.val \in {"end", "endlist"} THEN Shut(s) \cup {n + 1} ELSE Shut(s)
  BY <1>2 DEF Shut
<1>9. Cardinality(Opened(s) \cup {n + 1}) = Cardinality(Opened(s)) + 1
  BY <1>4, <1>5, FS_AddElement
<1>10. Cardinality(Shut(s) \cup {n + 1}) = Cardinality(Shut(s)) + 1
  BY <1>4, <1>5, FS_AddElement
<1> QED
  BY <1>6, <1>7, <1>8, <1>9, <1>10

-----------------------------------------------------------------------------
(***************************************************************************)
(* The frames and the depth.                                               *)
(***************************************************************************)

\* The positions of the frames, the last of which is the top.
LEMMA Positions ==
  ASSUME Levels
  PROVE  /\ Len(frames) \in Nat /\ Len(frames) >= 1 /\ DOMAIN frames = 1..Len(frames)
         /\ Len(frames) \in DOMAIN frames /\ Len(frames) = depth + 1
<1> QED
  BY SeqLength DEF Levels

\* Where the top frame is replaced and nothing opens or closes, the stack stands.
LEMMA StackStays ==
  ASSUME Stack, NEW under, NEW it, Stays(under), Stands(under),
         under.kind = Top.kind, under.close = Top.close,
         Read(it), it.val \notin {"block", "list", "end", "endlist"}
  PROVE  Stack'
<1>1. PICK n \in Nat : n = Len(frames) /\ n >= 1 /\ DOMAIN frames = 1..n /\ n = depth + 1
  BY Positions DEF Stack
<1>0. Replaces(frames, under, frames') /\ Appends(input, it, input') /\ UNCHANGED <<call, depth>>
  BY DEF Replaces, Appends, Stays, Becomes, Read
<1>2. /\ IsSeq(frames') /\ Len(frames') = n /\ frames'[n] = under
      /\ \A k \in 1..(n - 1) : frames'[k] = frames[k]
  BY <1>0, <1>1, SeqReplace DEF Stack, Levels
<1>3. DOMAIN frames' = 1..n
  BY <1>2, SeqLength
<1>4. Levels'
  BY <1>0, <1>1, <1>2 DEF Stack, Levels, Top
<1>5. Brackets'
  BY <1>0, OneMore, SeqAppend DEF Stack, Brackets
<1>6. Standing'
  BY <1>1, <1>2, <1>3 DEF Stack, Standing, Stands
<1> QED
  BY <1>4, <1>5, <1>6 DEF Stack

\* Where a bracket opens below the limit, the stack stands.
LEMMA StackOpens ==
  ASSUME Stack, NEW under, NEW frame, NEW at, NEW it, Opens(under, frame, at),
         Stands(under), Stands(frame), under.kind = Top.kind, under.close = Top.close,
         frame.close \in {"end", "endlist"}, ~TooDeep,
         Read(it), it.val \in {"block", "list"}
  PROVE  Stack'
<1>1. PICK n \in Nat : n = Len(frames) /\ n >= 1 /\ DOMAIN frames = 1..n /\ n = depth + 1
  BY Positions DEF Stack
<1>2. PICK s : /\ Replaces(frames, under, s) /\ Appends(s, frame, frames')
               /\ Appends(input, it, input') /\ depth' = depth + 1 /\ UNCHANGED call
  BY DEF Replaces, Appends, Opens, Becomes, Read
<1>3. /\ IsSeq(s) /\ Len(s) = n /\ s[n] = under
      /\ \A k \in 1..(n - 1) : s[k] = frames[k]
  BY <1>1, <1>2, SeqReplace DEF Stack, Levels
<1>4. /\ IsSeq(frames') /\ Len(frames') = n + 1 /\ frames'[n + 1] = frame
      /\ \A k \in 1..n : frames'[k] = s[k]
  BY <1>2, <1>3, SeqAppend
<1>5. DOMAIN frames' = 1..(n + 1)
  BY <1>4, SeqLength
<1>6. Levels'
  <2>1. \A k \in 1..n : frames'[k].kind = frames[k].kind /\ frames'[k].close = frames[k].close
    BY <1>1, <1>3, <1>4 DEF Top
  <2>2. depth' \in Nat /\ depth' <= call'.depth
    BY <1>2 DEF Stack, Levels, TooDeep
  <2>3. \A k \in 2..(n + 1) : frames'[k].close \in {"end", "endlist"}
    BY <1>1, <1>4, <2>1 DEF Stack, Levels
  <2>4. call'.root \in Types /\ call'.depth \in Nat /\ call'.repeated \in Nat
    BY <1>2 DEF Stack, Levels
  <2>5. frames'[1].kind = "body" /\ frames'[1].close = "eof"
    BY <1>1, <2>1 DEF Stack, Levels
  <2>6. Len(frames') = depth' + 1
    BY <1>1, <1>2, <1>4
  <2> QED
    BY <1>4, <2>2, <2>3, <2>4, <2>5, <2>6 DEF Levels
<1>7. Brackets'
  <2>1. IsSeq(input) /\ depth = Cardinality(Opened(input)) - Cardinality(Shut(input))
    BY DEF Stack, Brackets
  <2>2. /\ Cardinality(Opened(input')) = Cardinality(Opened(input)) + 1
        /\ Cardinality(Shut(input')) = Cardinality(Shut(input)) + 0
        /\ Cardinality(Opened(input)) \in Nat /\ Cardinality(Shut(input)) \in Nat
    BY <1>2, <2>1, OneMore
  <2>3. IsSeq(input')
    BY <1>2, <2>1, SeqAppend
  <2> QED
    BY <1>2, <2>1, <2>2, <2>3 DEF Brackets
<1>8. Standing'
  BY <1>1, <1>3, <1>4, <1>5 DEF Stack, Standing, Stands
<1> QED
  BY <1>6, <1>7, <1>8 DEF Stack

\* Where one closes, the stack stands: the root's frame is not taken away.
LEMMA StackCloses ==
  ASSUME Stack, NEW it, Close(it)
  PROVE  /\ Stack' /\ Len(frames) > 1 /\ Len(frames') = Len(frames) - 1
         /\ \A k \in 1..Len(frames') : frames'[k] = frames[k]
<1>1. PICK n \in Nat : n = Len(frames) /\ n >= 1 /\ DOMAIN frames = 1..n /\ n = depth + 1
  BY Positions DEF Stack
<1>2. n > 1 /\ it.val \in {"end", "endlist"}
  BY <1>1 DEF Stack, Levels, Close, Top
<1>3. n - 1 \in 0..Len(frames)
  BY <1>1
<1>4. PICK m \in Nat : m = n - 1
  BY <1>1
<1>5. /\ m \in 0..Len(frames) /\ FirstOf(frames, m, frames')
      /\ Appends(input, it, input') /\ depth' = depth - 1 /\ UNCHANGED call
  BY <1>1, <1>3, <1>4 DEF Close, Read, FirstOf, Appends
<1>6. /\ IsSeq(frames') /\ Len(frames') = m
      /\ \A k \in 1..m : frames'[k] = frames[k]
  BY <1>5, SeqFirst DEF Stack, Levels
<1>7. DOMAIN frames' = 1..m
  BY <1>6, SeqLength
<1>8. Levels'
  <2>1. depth' \in Nat /\ depth' <= call'.depth /\ m = depth' + 1
    BY <1>1, <1>2, <1>4, <1>5 DEF Stack, Levels
  <2>2. \A k \in 2..m : frames'[k].close \in {"end", "endlist"}
    BY <1>1, <1>4, <1>6 DEF Stack, Levels
  <2>3. call'.root \in Types /\ call'.depth \in Nat /\ call'.repeated \in Nat
    BY <1>5 DEF Stack, Levels
  <2>4. frames'[1].kind = "body" /\ frames'[1].close = "eof"
    BY <1>1, <1>2, <1>4, <1>6 DEF Stack, Levels
  <2>5. Len(frames') = depth' + 1
    BY <1>6, <2>1
  <2> QED
    BY <1>6, <2>1, <2>2, <2>3, <2>4, <2>5 DEF Levels
<1>9. Brackets'
  <2>1. IsSeq(input) /\ depth = Cardinality(Opened(input)) - Cardinality(Shut(input))
    BY DEF Stack, Brackets
  <2>2. /\ Cardinality(Opened(input')) = Cardinality(Opened(input)) + 0
        /\ Cardinality(Shut(input')) = Cardinality(Shut(input)) + 1
        /\ Cardinality(Opened(input)) \in Nat /\ Cardinality(Shut(input)) \in Nat
    BY <1>2, <1>5, <2>1, OneMore
  <2>3. IsSeq(input')
    BY <1>2, <1>5, <2>1, SeqAppend
  <2> QED
    BY <1>2, <1>5, <2>1, <2>2, <2>3 DEF Brackets
<1>10. Standing'
  BY <1>1, <1>4, <1>6, <1>7 DEF Stack, Standing, Stands
<1> QED
  BY <1>1, <1>2, <1>4, <1>6, <1>8, <1>9, <1>10 DEF Stack

-----------------------------------------------------------------------------
(***************************************************************************)
(* What an item that is not refused does.                                  *)
(***************************************************************************)

\* The frame on top stands on a type, and its field is one of that type.
LEMMA TopStands ==
  ASSUME Stack
  PROVE  Stands(Top) /\ (Top.kind \in {"list", "keyed", "map"} =>
                           Field \in FieldsOf(Top.type) /\ Field.shape # "one")
<1>1. Stands(Top)
  BY Positions DEF Stack, Standing, Top
<1> QED
  BY <1>1, FieldKnown DEF Stands, Field

\* An entry of a body, by whether its name is known and how it is written.
LEMMA EntryTaken ==
  ASSUME Stack, NEW it, InBody(it), ~Refuses(it)
  PROVE  /\ Top.type \in Types
         /\ ~Knows(Top.type, it.name) => ~UnknownRefused(it)
         /\ Knows(Top.type, it.name) =>
              LET f == FieldOf(Top.type, it.name)
              IN  /\ f \in FieldsOf(Top.type) /\ f.name = it.name
                  /\ IF it.sep = "=" THEN ~AssignmentRefused(Top, f, it)
                     ELSE ~BlockRefused(Top, f, it)
<1>1. Top.kind = "body" /\ it.as \in {"ident", "int"} /\ it.val \notin Heads
  BY DEF InBody, Read
<1>2. ~BodyRefuses(Top, it)
  BY <1>1 DEF Refuses
<1>3. Top.type \in Types
  BY <1>1, TopStands DEF Stands
<1>4. ~Knows(Top.type, it.name) => ~UnknownRefused(it)
  BY <1>1, <1>2 DEF BodyRefuses
<1>5. Knows(Top.type, it.name) =>
        IF it.sep = "=" THEN ~AssignmentRefused(Top, FieldOf(Top.type, it.name), it)
        ELSE ~BlockRefused(Top, FieldOf(Top.type, it.name), it)
  BY <1>1, <1>2 DEF BodyRefuses
<1> QED
  BY <1>3, <1>4, <1>5, FieldKnown

\* A message that opens was not bound before, and no member of its oneof was.
LEMMA MessageTaken ==
  ASSUME Stack, NEW it, Message(it), ~Refuses(it)
  PROVE  LET f == FieldOf(Top.type, it.name)
         IN  /\ f \in FieldsOf(Top.type) /\ f.name = it.name /\ f.shape = "one"
             /\ f.kind = "message" /\ f.body \in Types
             /\ ~TooDeep /\ ~CheckBound(Top, f) /\ ~CheckOneof(Top, f)
<1> DEFINE f == FieldOf(Top.type, it.name)
<1>1. f.shape = "one" /\ it.val = "block" /\ Knows(Top.type, it.name) /\ InBody(it)
  BY DEF Message
<1>2. f \in FieldsOf(Top.type) /\ f.name = it.name /\ Top.type \in Types
  BY <1>1, EntryTaken
<1>3. CASE it.sep = "="
  <2>1. ~AssignmentRefused(Top, f, it)
    BY <1>1, <1>3, EntryTaken
  <2>2. ~CheckBound(Top, f) /\ ~CheckOneof(Top, f) /\ ~ValueRefused(f, it)
    BY <1>1, <2>1 DEF AssignmentRefused, AssignedRefused
  <2> QED
    BY <1>1, <1>2, <2>2, ValueTaken DEF Scalars
<1>4. CASE it.sep # "="
  <2>1. ~BlockRefused(Top, f, it)
    BY <1>1, <1>4, EntryTaken
  <2>2. KeyField(f) = "none"
    BY <1>1 DEF KeyField
  <2>3. ~CheckBound(Top, f) /\ ~CheckOneof(Top, f) /\ ~TooDeep /\ f.kind = "message"
    BY <2>1, <2>2 DEF BlockRefused
  <2> QED
    BY <1>1, <1>2, <2>3, SchemaAssumption
<1> QED
  BY <1>3, <1>4

\* A scalar is taken for a field the type has, none of whose oneof is bound.
LEMMA ScalarTaken ==
  ASSUME Stack, NEW it, Scalar(it), ~Refuses(it)
  PROVE  LET f == FieldOf(Top.type, it.name)
         IN  f \in FieldsOf(Top.type) /\ f.name = it.name /\ ~CheckOneof(Top, f)
<1> DEFINE f == FieldOf(Top.type, it.name)
<1>1. it.val \in Scalars /\ Knows(Top.type, it.name) /\ InBody(it)
  BY DEF Scalar
<1>2. it.sep = "="
  <2>1. it.sep # "=" => ~BlockRefused(Top, f, it)
    BY <1>1, EntryTaken
  <2> QED
    BY <1>1, <2>1 DEF BlockRefused, Scalars
<1>3. ~AssignmentRefused(Top, f, it)
  BY <1>1, <1>2, EntryTaken
<1> QED
  BY <1>1, <1>3, EntryTaken DEF AssignmentRefused

\* A bracket opens for the elements of a field that has them.
LEMMA CollectionTaken ==
  ASSUME Stack, NEW it, Collection(it), ~Refuses(it)
  PROVE  LET f == FieldOf(Top.type, it.name)
         IN  /\ f \in FieldsOf(Top.type) /\ f.name = it.name /\ f.shape # "one"
             /\ f.shape # "map" /\ it.val = "block" => KeyField(f) # "none"
             /\ ~TooDeep
<1> DEFINE f == FieldOf(Top.type, it.name)
<1>1. f.shape # "one" /\ it.val \in {"block", "list"} /\ Knows(Top.type, it.name) /\ InBody(it)
  BY DEF Collection
<1>2. f \in FieldsOf(Top.type) /\ f.name = it.name /\ Top.type \in Types
  BY <1>1, EntryTaken
<1>3. f.shape \in {"list", "map"}
  BY <1>1, <1>2, SchemaAssumption DEF FieldType, Shapes
<1>4. CASE it.sep = "="
  <2>1. ~AssignmentRefused(Top, f, it)
    BY <1>1, <1>4, EntryTaken
  <2>2. ~AssignedRefused(f, it)
    BY <1>1, <2>1 DEF AssignmentRefused
  <2> QED
    BY <1>1, <1>2, <1>3, <2>2 DEF AssignedRefused
<1>5. CASE it.sep # "="
  <2>1. ~BlockRefused(Top, f, it)
    BY <1>1, <1>5, EntryTaken
  <2> QED
    BY <1>1, <1>2, <2>1 DEF BlockRefused
<1> QED
  BY <1>4, <1>5

\* What the parser reads for a value that is dropped is no closing bracket, and
\* opens one only below the limit.
LEMMA ValueRead ==
  ASSUME NEW it, ~ReadRefused(it)
  PROVE  /\ it.val \in Scalars \cup {"null", "list", "block"}
         /\ it.val \in {"list", "block"} => ~TooDeep
<1> QED
  BY DEF ReadRefused

\* The value of an unknown field is taken if the parser takes it.
LEMMA UnknownTaken ==
  ASSUME Stack, NEW it, Unknown(it), ~Refuses(it)
  PROVE  ~ReadRefused(it)
<1> QED
  BY EntryTaken DEF Unknown, UnknownRefused

\* Inside a value that is dropped no bracket opens beyond the limit.
LEMMA SkippedTaken ==
  ASSUME Stack, NEW it, Skipped(it), ~Refuses(it)
  PROVE  /\ it.val \notin {"end", "endlist"}
         /\ it.val \in {"list", "block"} => ~TooDeep
<1>1. ~SkipRefuses(Top, it) /\ it.val # Top.close
  BY DEF Skipped, Read, Refuses
<1>2. ~ReadRefused(it) \/ it.val = "string"
  BY <1>1 DEF SkipRefuses
<1> QED
  BY <1>2, ValueRead DEF Scalars

\* A type is read in a fresh Any, and names a type there is.
LEMMA TypeTaken ==
  ASSUME Stack, NEW it, TypeEntry(it), ~Refuses(it)
  PROVE  /\ it.val = "string" /\ Urls[it.text] \in Types
         /\ Schema[Top.type].role = "any" /\ Top.fresh
<1>1. Top.kind = "body" /\ it.as = "type" /\ it.val \notin Heads
  BY DEF TypeEntry, Read
<1>2. ~TypeRefused(Top, it)
  BY <1>1 DEF Refuses, BodyRefuses
<1> QED
  BY <1>2, UrlsAssumption DEF TypeRefused

\* An element, an entry of a keyed block or of a map is one more than the field had.
LEMMA ListItemTaken ==
  ASSUME Stack, NEW it, ListItem(it), ~Refuses(it)
  PROVE  /\ ~Overfull
         /\ \/ it.val \in Scalars
            \/ it.val = "block" /\ Field.kind = "message" /\ Field.body \in Types /\ ~TooDeep
<1>1. Top.kind = "list" /\ it.val # "endlist" /\ it.val \notin Heads
  BY DEF ListItem, Read
<1>2. ~ListRefuses(Field, it)
  BY <1>1 DEF Refuses
<1>3. Field \in FieldsOf(Top.type) /\ Top.type \in Types
  BY <1>1, TopStands DEF Stands
<1> QED
  BY <1>1, <1>2, <1>3, ValueTaken DEF ListRefuses

\* An entry of a keyed block is a block, for one element more than there are.
LEMMA KeyedEntryTaken ==
  ASSUME Stack, NEW it, KeyedEntry(it), ~Refuses(it)
  PROVE  /\ ~Overfull /\ ~TooDeep /\ it.val = "block"
         /\ KeyField(Field) # "none" /\ Field.kind = "message" /\ Field.body \in Types
<1>1. Top.kind = "keyed" /\ it.val = "block" /\ it.val \notin Heads
  BY DEF KeyedEntry, Read
<1>2. ~KeyedRefuses(Top, it)
  BY <1>1 DEF Refuses
<1>3. Field \in FieldsOf(Top.type) /\ Top.type \in Types /\ KeyField(Field) # "none"
  BY <1>1, TopStands DEF Stands, Field
<1> QED
  BY <1>1, <1>2, <1>3, KeyedIsList, SchemaAssumption DEF KeyedRefuses

\* A map entry has a key of its own and a value its field can hold.
LEMMA MapEntryTaken ==
  ASSUME Stack, NEW it, MapEntry(it), ~Refuses(it)
  PROVE  /\ ~Overfull /\ ~KeyTaken(Top, Field, MapKey(Field, it))
         /\ \/ it.val \in Scalars
            \/ it.val = "block" /\ Field.kind = "message" /\ Field.body \in Types /\ ~TooDeep
<1>1. Top.kind = "map" /\ it.val # "end" /\ it.val \notin Heads
  BY DEF MapEntry, Read
<1>2. ~MapRefuses(Top, Field, it)
  BY <1>1 DEF Refuses
<1>3. Field \in FieldsOf(Top.type) /\ Top.type \in Types
  BY <1>1, TopStands DEF Stands
<1> QED
  BY <1>1, <1>2, <1>3, ValueTaken DEF MapRefuses

-----------------------------------------------------------------------------
(***************************************************************************)
(* The stack stands through every step.                                    *)
(***************************************************************************)

\* At the start there is one frame, for the root, and nothing is open.
LEMMA StackInit == Init => Stack
<1> SUFFICES ASSUME Init PROVE Stack
  OBVIOUS
<1>1. PICK n \in Nat : n = 1
  OBVIOUS
<1>2. frames = [k \in 1..n |-> Root]
  BY <1>1 DEF Init
<1>3. /\ IsSeq(frames) /\ Len(frames) = n /\ DOMAIN frames = 1..n
      /\ \A k \in 1..n : frames[k] = Root
  <2>1. frames = [k \in 1..n |-> frames[k]]
    BY <1>2
  <2> QED
    BY <1>2, <2>1, SeqIs
<1>4. call.root \in Types /\ call.depth \in Nat /\ call.repeated \in Nat
  BY CallsAssumption DEF Init
<1>5. Levels
  BY <1>1, <1>3, <1>4 DEF Init, Levels, Root
<1>6. Brackets
  <2>1. PICK z \in Nat : z = 0
    OBVIOUS
  <2>2. input = [k \in 1..z |-> input[k]]
    BY <2>1 DEF Init
  <2>3. IsSeq(input) /\ DOMAIN input = 1..z
    BY <2>2, SeqIs
  <2>4. Opened(input) = {} /\ Shut(input) = {}
    BY <2>1, <2>3 DEF Opened, Shut
  <2> QED
    BY <2>3, <2>4, FS_EmptySet DEF Init, Brackets
<1>7. Stands(Root)
  BY <1>4 DEF Stands, Root
<1>8. Standing
  BY <1>3, <1>7 DEF Standing
<1> QED
  BY <1>5, <1>6, <1>8 DEF Stack

\* Where no frame is touched and no bracket is read, the stack stands.
LEMMA StackIdle ==
  ASSUME Stack, UNCHANGED <<call, frames, depth>>,
         \/ UNCHANGED input
         \/ \E it : Appends(input, it, input') /\ it.val \notin {"block", "list", "end", "endlist"}
  PROVE  Stack'
<1>1. Levels' /\ Standing'
  BY DEF Stack, Levels, Standing, Stands
<1>2. CASE UNCHANGED input
  BY <1>1, <1>2 DEF Stack, Brackets
<1>3. CASE \E it : Appends(input, it, input') /\ it.val \notin {"block", "list", "end", "endlist"}
  <2>1. PICK it : Appends(input, it, input') /\ it.val \notin {"block", "list", "end", "endlist"}
    BY <1>3
  <2>2. IsSeq(input) /\ depth = Cardinality(Opened(input)) - Cardinality(Shut(input))
    BY DEF Stack, Brackets
  <2>3. /\ Cardinality(Opened(input')) = Cardinality(Opened(input))
        /\ Cardinality(Shut(input')) = Cardinality(Shut(input))
    BY <2>1, <2>2, OneMore
  <2>4. IsSeq(input')
    BY <2>1, <2>2, SeqAppend
  <2> QED
    BY <1>1, <2>2, <2>3, <2>4 DEF Stack, Brackets
<1> QED
  BY <1>2, <1>3

\* The frames that are opened stand.
LEMMA OpeningStands ==
  ASSUME NEW kind, NEW close, NEW type, NEW field, NEW path, NEW element, NEW frame,
         frame = Opening(kind, close, type, field, path, element),
         kind \in {"body", "list", "keyed", "map", "skip"},
         kind # "skip" => type \in Types,
         kind \in {"list", "keyed", "map"} =>
           Knows(type, field) /\ FieldOf(type, field).shape # "one",
         kind = "keyed" => KeyField(FieldOf(type, field)) # "none"
  PROVE  Stands(frame)
<1> QED
  BY DEF Opening, Stands

\* The frame of a new body stands on its type.
LEMMA BodyStands ==
  ASSUME NEW type \in Types, NEW path, NEW element
  PROVE  Stands(Body(type, path, element)) /\ Body(type, path, element).close = "end"
<1>1. PICK frame : frame = Body(type, path, element)
  OBVIOUS
<1>2. frame.close = "end"
  BY <1>1 DEF Body, Opening
<1>3. Stands(frame)
  BY <1>1, OpeningStands DEF Body
<1> QED
  BY <1>1, <1>2, <1>3

\* Whatever item is taken leaves the frames one for each open bracket.
LEMMA StackTakes ==
  ASSUME Stack, NEW it, ~Refuses(it), Take(it)
  PROVE  Stack'
<1> USE TopStands
<1>1. CASE Directive(it)
  BY <1>1, StackIdle DEF Directive, Heads, Appends
<1>2. CASE Finish(it)
  BY <1>2, StackIdle DEF Finish, Appends
<1>3. CASE Null(it)
  <2>1. PICK under : under = Bound(Top, FieldOf(Top.type, it.name))
    OBVIOUS
  <2>2. Stays(under) /\ Read(it) /\ it.val = "null" /\ Top.kind = "body"
    BY <1>3, <2>1 DEF Null, InBody
  <2>3. Stands(under) /\ under.kind = Top.kind /\ under.close = Top.close
    BY <2>1, <2>2, BoundFrame
  <2> QED
    BY <2>2, <2>3, StackStays
<1>4. CASE Scalar(it)
  <2>1. PICK under : under = Bound(Top, FieldOf(Top.type, it.name))
    OBVIOUS
  <2>2. Stays(under) /\ Read(it) /\ it.val \in Scalars /\ Top.kind = "body"
    BY <1>4, <2>1 DEF Scalar, InBody
  <2>3. Stands(under) /\ under.kind = Top.kind /\ under.close = Top.close
    BY <2>1, <2>2, BoundFrame
  <2> QED
    BY <2>2, <2>3, StackStays DEF Scalars
<1>5. CASE Message(it)
  <2> DEFINE f == FieldOf(Top.type, it.name)
  <2>1. PICK under, frame, at :
          /\ under = Bound(Top, f) /\ frame = Body(f.body, At(Top.path, f.name), NoElement)
          /\ at = At(prefix, f.name)
    OBVIOUS
  <2>2. Opens(under, frame, at) /\ Read(it) /\ it.val = "block" /\ Top.kind = "body"
    BY <1>5, <2>1 DEF Message, InBody
  <2>3. Stands(under) /\ under.kind = Top.kind /\ under.close = Top.close
    BY <2>1, <2>2, BoundFrame
  <2>4. Stands(frame) /\ frame.close = "end" /\ ~TooDeep
    BY <1>5, <2>1, MessageTaken, BodyStands
  <2> QED
    BY <2>2, <2>3, <2>4, StackOpens
<1>6. CASE Collection(it)
  <2> DEFINE f == FieldOf(Top.type, it.name)
             kind == IF f.shape = "map" THEN "map" ELSE IF it.val = "list" THEN "list" ELSE "keyed"
             close == IF kind = "list" THEN "endlist" ELSE "end"
  <2>1. PICK under, frame :
          under = Bound(Top, f) /\ frame = Opening(kind, close, Top.type, f.name, Top.path, NoElement)
    OBVIOUS
  <2>2. /\ Opens(under, frame, prefix) /\ Read(it) /\ it.val \in {"block", "list"}
        /\ Top.kind = "body" /\ Knows(Top.type, it.name)
    BY <1>6, <2>1 DEF Collection, InBody
  <2>3. Stands(under) /\ under.kind = Top.kind /\ under.close = Top.close
    BY <2>1, <2>2, BoundFrame
  <2>4. frame.close \in {"end", "endlist"}
    BY <2>1 DEF Opening
  <2>5. Top.type \in Types
    BY <2>2 DEF Stands
  <2>6. f.shape # "one" /\ (kind = "keyed" => KeyField(f) # "none") /\ ~TooDeep /\ f.name = it.name
    BY <1>6, <2>2, CollectionTaken
  <2>7. Stands(frame)
    BY <2>1, <2>2, <2>5, <2>6, OpeningStands
  <2> QED
    BY <2>2, <2>3, <2>4, <2>6, <2>7, StackOpens
<1>7. CASE Unknown(it) \/ Skipped(it)
  <2>1. PICK under, frame :
          /\ under = [Top EXCEPT !.fresh = FALSE]
          /\ frame = Opening("skip", IF it.val = "list" THEN "endlist" ELSE "end", "none", "none",
                             <<>>, NoElement)
    OBVIOUS
  <2>2. /\ IF it.val \in {"list", "block"} THEN Opens(under, frame, prefix) ELSE Stays(under)
        /\ Read(it)
    BY <1>7, <2>1 DEF Unknown, Skipped, InBody
  <2>3. /\ it.val \notin {"end", "endlist"}
        /\ it.val \in {"list", "block"} => ~TooDeep
    BY <1>7, UnknownTaken, SkippedTaken, ValueRead DEF Scalars
  <2>4. Stands(under) /\ under.kind = Top.kind /\ under.close = Top.close
    BY <2>1, SoiledFrame
  <2>5. frame.close \in {"end", "endlist"}
    BY <2>1 DEF Opening
  <2>6. Stands(frame)
    BY <2>1, OpeningStands
  <2> QED
    BY <2>2, <2>3, <2>4, <2>5, <2>6, StackStays, StackOpens
<1>8. CASE TypeEntry(it)
  <2>1. PICK under : under = [Top EXCEPT !.type = Urls[it.text]]
    OBVIOUS
  <2>2. Read(it) /\ Top.kind = "body" /\ frames' = Becomes(under) /\ UNCHANGED prefix
        /\ depth' = depth - 1 + 1
    BY <1>8, <2>1 DEF TypeEntry, Shared
  <2>3. Stays(under)
    BY <2>2 DEF Stays, Stack, Levels
  <2>4. it.val = "string" /\ Urls[it.text] \in Types
    BY <1>8, TypeTaken
  <2>5. Stands(under) /\ under.kind = Top.kind /\ under.close = Top.close
    BY <2>1, <2>2, <2>4 DEF Stands
  <2> QED
    BY <2>2, <2>3, <2>4, <2>5, StackStays
<1>9. CASE ListItem(it)
  <2> DEFINE n == Count(msg, Top.path, Field.name)
             element == IF KeyField(Field) # "none" THEN Element(Field, "", FALSE) ELSE NoElement
  <2>1. PICK frame, at :
          /\ frame = Body(Field.body, IndexAt(Top.path, Field.name, n), element)
          /\ at = IndexAt(prefix, Field.name, n)
    OBVIOUS
  <2>2. Read(it) /\ IF it.val = "block" THEN Opens(Top, frame, at) ELSE Stays(Top)
    BY <1>9, <2>1 DEF ListItem
  <2>3. CASE it.val = "block"
    <3>1. Stands(frame) /\ frame.close = "end" /\ ~TooDeep
      BY <1>9, <2>1, <2>3, ListItemTaken, BodyStands DEF Scalars
    <3> QED
      BY <2>2, <2>3, <3>1, StackOpens
  <2>4. CASE it.val # "block"
    BY <1>9, <2>2, <2>4, ListItemTaken, StackStays DEF Scalars
  <2> QED
    BY <2>3, <2>4
<1>10. CASE KeyedEntry(it)
  <2> DEFINE n == Count(msg, Top.path, Field.name)
  <2>1. PICK under, frame, at :
          /\ under = [Top EXCEPT !.bound = @ \cup {it.name}]
          /\ frame = Body(Field.body, IndexAt(Top.path, Field.name, n), Element(Field, it.name, TRUE))
          /\ at = IndexAt(prefix, Field.name, n)
    OBVIOUS
  <2>2. Read(it) /\ it.val = "block" /\ Opens(under, frame, at)
    BY <1>10, <2>1 DEF KeyedEntry
  <2>3. Stands(under) /\ under.kind = Top.kind /\ under.close = Top.close
    BY <2>1 DEF Stands
  <2>4. Stands(frame) /\ frame.close = "end" /\ ~TooDeep
    BY <1>10, <2>1, KeyedEntryTaken, BodyStands
  <2> QED
    BY <2>2, <2>3, <2>4, StackOpens
<1>11. CASE MapEntry(it)
  <2> DEFINE key == MapKey(Field, it)
  <2>1. PICK frame, at :
          /\ frame = Body(Field.body, KeyAt(Top.path, Field.name, key), NoElement)
          /\ at = KeyAt(prefix, Field.name, key)
    OBVIOUS
  <2>2. Read(it) /\ IF it.val = "block" THEN Opens(Top, frame, at) ELSE Stays(Top)
    BY <1>11, <2>1 DEF MapEntry
  <2>3. CASE it.val = "block"
    <3>1. Stands(frame) /\ frame.close = "end" /\ ~TooDeep
      BY <1>11, <2>1, <2>3, MapEntryTaken, BodyStands DEF Scalars
    <3> QED
      BY <2>2, <2>3, <3>1, StackOpens
  <2>4. CASE it.val # "block"
    BY <1>11, <2>2, <2>4, MapEntryTaken, StackStays DEF Scalars
  <2> QED
    BY <2>3, <2>4
<1>12. CASE Close(it)
  BY <1>12, StackCloses
<1> QED
  BY <1>1, <1>2, <1>3, <1>4, <1>5, <1>6, <1>7, <1>8, <1>9, <1>10, <1>11, <1>12 DEF Take

\* So does every step.
LEMMA StackStep == Stack /\ [Next]_vars => Stack'
<1> SUFFICES ASSUME Stack, [Next]_vars PROVE Stack'
  OBVIOUS
<1>1. CASE Start \/ Refuse \/ UNCHANGED vars
  <2>1. UNCHANGED <<call, frames, depth, input>>
    BY <1>1 DEF Start, Refuse, vars
  <2> QED
    BY <2>1, StackIdle
<1>2. CASE \E it \in Readable : Take(it)
  <2>1. PICK it : Take(it)
    BY <1>2
  <2>2. CASE Refuses(it)
    BY <1>1, <2>1, <2>2 DEF Take
  <2>3. CASE ~Refuses(it)
    BY <2>1, <2>3, StackTakes
  <2> QED
    BY <2>2, <2>3
<1> QED
  BY <1>1, <1>2 DEF Next

\* However the brackets of a document are nested, the depth the limit is put to is
\* the number of them that are open, also inside an Any, and it is never passed
\* (Decoder::depth, decode_any_body).
THEOREM DepthIsOpen == Spec => []DepthIsOpenBrackets
<1>1. Stack => DepthIsOpenBrackets
  BY DEF Stack, Levels, Brackets, DepthIsOpenBrackets
<1> QED
  BY <1>1, StackInit, StackStep, PTL DEF Spec

-----------------------------------------------------------------------------
(***************************************************************************)
(* What is done to the message.                                            *)
(***************************************************************************)

Shaped(m) == DOMAIN m = {"bodies", "leaves", "elems"}

\* A body that was opened, and nothing is in.
NewBody(f) == [type |-> f.body, urls |-> <<>>]

\* One function has of another what is not cut away, and nothing else.
Keeps(new, old) == \A q \in DOMAIN new : q \in DOMAIN old /\ new[q] = old[q]

\* What is cut away is what lies through the siblings of a field.
LEMMA CutKeeps ==
  ASSUME NEW fn, NEW p, NEW names, NEW new, new = Cut(fn, p, names)
  PROVE  /\ Keeps(new, fn)
         /\ \A q \in DOMAIN fn : ~Through(p, names, q) => q \in DOMAIN new
<1> QED
  BY DEF Cut, Keeps

\* Setting a singular scalar cuts its siblings and no more.
LEMMA SetLeafDoes ==
  ASSUME NEW m, NEW p, NEW type, NEW f, NEW leaf, NEW new, new = SetLeaf(m, p, type, f, leaf)
  PROVE  /\ Shaped(new)
         /\ new.bodies = Cut(m.bodies, p, Siblings(type, f))
         /\ new.elems = Cut(m.elems, p, Siblings(type, f))
<1>1. PICK c : c = Cleared(m, p, Siblings(type, f))
  OBVIOUS
<1>2. /\ Shaped(c) /\ c.bodies = Cut(m.bodies, p, Siblings(type, f))
      /\ c.elems = Cut(m.elems, p, Siblings(type, f))
  BY <1>1 DEF Cleared, Shaped
<1>3. new = c \/ \E x : new = [c EXCEPT !.leaves = x]
  BY <1>1 DEF SetLeaf
<1> QED
  BY <1>2, <1>3 DEF Shaped

\* Setting a singular message cuts its siblings and puts a body there.
LEMMA SetBodyDoes ==
  ASSUME NEW m, NEW p, NEW type, NEW f, NEW new, new = SetBody(m, p, type, f)
  PROVE  /\ Shaped(new)
         /\ new.bodies = Put(Cut(m.bodies, p, Siblings(type, f)), At(p, f.name),
                             NewBody(f))
         /\ new.elems = Cut(m.elems, p, Siblings(type, f))
<1>1. PICK c : c = Cleared(m, p, Siblings(type, f))
  OBVIOUS
<1>2. /\ Shaped(c) /\ c.bodies = Cut(m.bodies, p, Siblings(type, f))
      /\ c.elems = Cut(m.elems, p, Siblings(type, f))
  BY <1>1 DEF Cleared, Shaped
<1>3. PICK x : x = Put(c.bodies, At(p, f.name), NewBody(f))
  OBVIOUS
<1>4. new = [c EXCEPT !.bodies = x]
  BY <1>1, <1>2, <1>3 DEF SetBody, Shaped, NewBody
<1> QED
  BY <1>2, <1>3, <1>4 DEF Shaped

\* A scalar element is counted and puts no body.
LEMMA AddLeafDoes ==
  ASSUME NEW m, NEW p, NEW f, NEW q, NEW leaf, NEW new, Shaped(m), new = AddLeaf(m, p, f, q, leaf)
  PROVE  /\ Shaped(new) /\ new.bodies = m.bodies
         /\ new.elems = Put(m.elems, At(p, f.name), Count(m, p, f.name) + 1)
<1>1. PICK x, y : x = Put(m.elems, At(p, f.name), Count(m, p, f.name) + 1) /\ y = Put(m.leaves, q, leaf)
  OBVIOUS
<1>2. new = [m EXCEPT !.elems = x, !.leaves = y]
  BY <1>1 DEF AddLeaf, Shaped
<1> QED
  BY <1>1, <1>2 DEF Shaped

\* A message element is counted and puts a body there.
LEMMA AddBodyDoes ==
  ASSUME NEW m, NEW p, NEW f, NEW q, NEW new, Shaped(m), new = AddBody(m, p, f, q)
  PROVE  /\ Shaped(new) /\ new.bodies = Put(m.bodies, q, NewBody(f))
         /\ new.elems = Put(m.elems, At(p, f.name), Count(m, p, f.name) + 1)
<1>1. PICK x, y : /\ x = Put(m.elems, At(p, f.name), Count(m, p, f.name) + 1)
                  /\ y = Put(m.bodies, q, NewBody(f))
  OBVIOUS
<1>2. new = [m EXCEPT !.elems = x, !.bodies = y]
  BY <1>1 DEF AddBody, Shaped, NewBody
<1> QED
  BY <1>1, <1>2 DEF Shaped

\* The pass adds leaves and takes away what the defaults displace.
LEMMA CompletedDoes ==
  ASSUME NEW m, NEW from, NEW new, new = Completed(m, from)
  PROVE  /\ Shaped(new) /\ Keeps(new.bodies, m.bodies) /\ Keeps(new.elems, m.elems)
         /\ \A q \in DOMAIN m.bodies \cup DOMAIN m.elems :
              (\A p \in Visited(m, from) : ~Through(p, Displaced(p, m.bodies[p].type), q)) =>
                /\ q \in DOMAIN m.bodies => q \in DOMAIN new.bodies
                /\ q \in DOMAIN m.elems => q \in DOMAIN new.elems
<1> QED
  BY DEF Completed, Shaped, Keeps

-----------------------------------------------------------------------------
(***************************************************************************)
(* The counts.                                                             *)
(***************************************************************************)

Counts(m) == \A p \in DOMAIN m.elems : m.elems[p] \in 1..call.repeated
Counted == Shaped(msg) /\ Counts(msg)

\* A count of less than the limit may go up by one.
LEMMA OneMoreCounted ==
  ASSUME Levels, Counted, ~Overfull, Field.name = Top.field,
         NEW new, new.elems = Put(msg.elems, At(Top.path, Field.name), Count(msg, Top.path, Field.name) + 1)
  PROVE  Counts(new)
<1>1. PICK c : c = Count(msg, Top.path, Field.name)
  OBVIOUS
<1>2. call.repeated \in Nat
  BY DEF Levels
<1>3. c = 0 \/ c \in 1..call.repeated
  BY <1>1 DEF Count, Counted, Counts
<1>4. ~(c >= call.repeated)
  BY <1>1 DEF Overfull
<1>5. c + 1 \in 1..call.repeated
  BY <1>2, <1>3, <1>4
<1>6. /\ DOMAIN new.elems = DOMAIN msg.elems \cup {At(Top.path, Field.name)}
      /\ new.elems[At(Top.path, Field.name)] = c + 1
      /\ \A q \in DOMAIN msg.elems : q # At(Top.path, Field.name) => new.elems[q] = msg.elems[q]
  BY <1>1 DEF Put
<1> QED
  BY <1>5, <1>6 DEF Counted, Counts

\* Counts that are left out of the table stay within the limit.
LEMMA FewerCounted ==
  ASSUME NEW old, NEW new, Counts(old), Keeps(new.elems, old.elems)
  PROVE  Counts(new)
<1> QED
  BY DEF Counts, Keeps

\* The field of a frame for elements has the name the frame has.
LEMMA FieldNamed ==
  ASSUME Stack, Top.kind \in {"list", "keyed", "map"}
  PROVE  Field.name = Top.field
<1> QED
  BY TopStands, FieldKnown DEF Stands, Field

\* Whatever item is taken leaves the counts within the limit.
LEMMA CountedTakes ==
  ASSUME Stack, Counted, NEW it, ~Refuses(it), Take(it)
  PROVE  Shaped(msg') /\ Counts(msg')
<1>1. CASE UNCHANGED msg
  BY <1>1 DEF Counted
<1>2. CASE Scalar(it)
  <2>1. \E f, leaf : msg' = SetLeaf(msg, Top.path, Top.type, f, leaf)
    BY <1>2 DEF Scalar
  <2>2. PICK f, leaf : msg' = SetLeaf(msg, Top.path, Top.type, f, leaf)
    BY <2>1
  <2> QED
    BY <2>2, SetLeafDoes, CutKeeps, FewerCounted DEF Counted
<1>3. CASE Message(it)
  <2>1. \E f : msg' = SetBody(msg, Top.path, Top.type, f)
    BY <1>3 DEF Message
  <2>2. PICK f : msg' = SetBody(msg, Top.path, Top.type, f)
    BY <2>1
  <2> QED
    BY <2>2, SetBodyDoes, CutKeeps, FewerCounted DEF Counted
<1>4. CASE TypeEntry(it)
  <2>1. \E x, y : msg' = [msg EXCEPT !.bodies[Top.path] = x, !.leaves = y]
    BY <1>4 DEF TypeEntry, Counted, Shaped
  <2>2. Shaped(msg') /\ msg'.elems = msg.elems
    BY <2>1 DEF Counted, Shaped
  <2> QED
    BY <2>2 DEF Counted, Counts
<1>5. CASE ListItem(it) \/ MapEntry(it)
  <2>1. Levels /\ ~Overfull /\ Field.name = Top.field
    BY <1>5, ListItemTaken, MapEntryTaken, FieldNamed DEF Stack, ListItem, MapEntry
  <2>2. \E q, leaf : \/ msg' = AddBody(msg, Top.path, Field, q)
                     \/ msg' = AddLeaf(msg, Top.path, Field, q, leaf)
    BY <1>5 DEF ListItem, MapEntry
  <2>3. PICK q, leaf : \/ msg' = AddBody(msg, Top.path, Field, q)
                       \/ msg' = AddLeaf(msg, Top.path, Field, q, leaf)
    BY <2>2
  <2>4. /\ Shaped(msg')
        /\ msg'.elems = Put(msg.elems, At(Top.path, Field.name), Count(msg, Top.path, Field.name) + 1)
    BY <2>3, AddBodyDoes, AddLeafDoes DEF Counted
  <2> QED
    BY <2>1, <2>4, OneMoreCounted
<1>6. CASE KeyedEntry(it)
  <2>1. Levels /\ ~Overfull /\ Field.name = Top.field
    BY <1>6, KeyedEntryTaken, FieldNamed DEF Stack, KeyedEntry
  <2>2. \E q, type, key, leaf : msg' = SetLeaf(AddBody(msg, Top.path, Field, q), q, type, key, leaf)
    BY <1>6 DEF KeyedEntry
  <2>3. PICK q, type, key, leaf, added :
          added = AddBody(msg, Top.path, Field, q) /\ msg' = SetLeaf(added, q, type, key, leaf)
    BY <2>2
  <2>4. added.elems = Put(msg.elems, At(Top.path, Field.name), Count(msg, Top.path, Field.name) + 1)
    BY <2>3, AddBodyDoes DEF Counted
  <2>5. Counts(added)
    BY <2>1, <2>4, OneMoreCounted
  <2> QED
    BY <2>3, <2>5, SetLeafDoes, CutKeeps, FewerCounted
<1>7. CASE Close(it) \/ Finish(it)
  <2>1. \E from : msg' = msg \/ msg' = Completed(msg, from)
    BY <1>7 DEF Close, Finish
  <2> QED
    BY <2>1, CompletedDoes, FewerCounted DEF Counted
<1> QED
  BY <1>1, <1>2, <1>3, <1>4, <1>5, <1>6, <1>7
     DEF Take, Directive, Null, Collection, Unknown, Skipped

\* At the start nothing is counted.
LEMMA CountedInit == Init => Counted
<1> SUFFICES ASSUME Init PROVE Counted
  OBVIOUS
<1>1. Shaped(msg) /\ msg.elems = <<>>
  BY DEF Init, Empty, Shaped
<1>2. DOMAIN msg.elems = {}
  BY <1>1
<1> QED
  BY <1>1, <1>2 DEF Counted, Counts

\* Every step leaves the counts within the limit.
LEMMA CountedStep == Stack /\ Counted /\ [Next]_vars => Counted'
<1> SUFFICES ASSUME Stack, Counted, [Next]_vars PROVE Counted'
  OBVIOUS
<1>1. UNCHANGED call
  BY DEF Next, Take, Start, Refuse, Directive, Null, Scalar, Message, Collection, Unknown, Skipped,
         TypeEntry, ListItem, KeyedEntry, MapEntry, Close, Finish, InBody, Read, vars
<1>2. CASE Start \/ Refuse \/ UNCHANGED vars
  BY <1>2 DEF Start, Refuse, vars, Counted, Counts
<1>3. CASE \E it \in Readable : Take(it)
  <2>1. PICK it : Take(it)
    BY <1>3
  <2>2. CASE Refuses(it)
    BY <1>2, <2>1, <2>2 DEF Take
  <2>3. CASE ~Refuses(it)
    <3>1. Shaped(msg') /\ Counts(msg')
      BY <2>1, <2>3, CountedTakes
    <3> QED
      BY <1>1, <3>1 DEF Counted, Counts
  <2> QED
    BY <2>2, <2>3
<1> QED
  BY <1>2, <1>3 DEF Next

\* However many bindings the elements of a field come in, and whatever block or list
\* they are in, the field never has more of them than the limit (existing_list,
\* take_field).
THEOREM CountsStayInLimit == Spec => []CountsBounded
<1>1. Counted => CountsBounded
  BY DEF Counted, Counts, CountsBounded
<1>2. Init => Stack /\ Counted
  BY StackInit, CountedInit
<1>3. Stack /\ Counted /\ [Next]_vars => (Stack /\ Counted)'
  BY StackStep, CountedStep
<1> QED
  BY <1>1, <1>2, <1>3, PTL DEF Spec

-----------------------------------------------------------------------------
(***************************************************************************)
(* Paths.                                                                  *)
(***************************************************************************)

\* A path is that of a body's field, of element n of it, or of the entry of a key.
LEMMA AtAppends ==
  ASSUME NEW p, NEW name
  PROVE  \E s : Appends(p, s, At(p, name)) /\ s[1] = name /\ s[3] = 0
<1>1. PICK s : s = <<name, "", 0>>
  OBVIOUS
<1>2. s[1] = name /\ s[3] = 0
  BY <1>1
<1>3. Appends(p, s, At(p, name))
  BY <1>1 DEF Appends, At
<1> QED
  BY <1>2, <1>3

\* The path of an element is that of its body and one part more, which has its number.
LEMMA IndexAtAppends ==
  ASSUME NEW p, NEW name, NEW n
  PROVE  \E s : Appends(p, s, IndexAt(p, name, n)) /\ s[1] = name /\ s[3] = n + 1
<1>1. PICK s : s = <<name, "", n + 1>>
  OBVIOUS
<1>2. s[1] = name /\ s[3] = n + 1
  BY <1>1
<1>3. Appends(p, s, IndexAt(p, name, n))
  BY <1>1 DEF Appends, IndexAt
<1> QED
  BY <1>2, <1>3

\* The path of a map value is that of its body and one part more.
LEMMA KeyAtAppends ==
  ASSUME NEW p, NEW name, NEW key
  PROVE  \E s : Appends(p, s, KeyAt(p, name, key)) /\ s[1] = name /\ s[3] = 1
<1>1. PICK s : s = <<name, key, 1>>
  OBVIOUS
<1>2. s[1] = name /\ s[3] = 1
  BY <1>1
<1>3. Appends(p, s, KeyAt(p, name, key))
  BY <1>1 DEF Appends, KeyAt
<1> QED
  BY <1>2, <1>3

\* The path one step longer than another.
LEMMA LongerPath ==
  ASSUME NEW p, NEW s, NEW q, IsSeq(p), Appends(p, s, q)
  PROVE  /\ IsSeq(q) /\ Len(p) \in Nat /\ Len(q) = Len(p) + 1 /\ q[Len(p) + 1] = s
         /\ \A k \in 1..Len(p) : q[k] = p[k]
         /\ SubSeq(q, 1, Len(p)) = p
         /\ \A n \in 0..Len(p) : SubSeq(q, 1, n) = SubSeq(p, 1, n)
<1> QED
  BY SeqAppend, SeqAppendStarts, SeqLength

\* Where the count of a field is cut away, so is what lies in its elements.
LEMMA CutWithCount ==
  ASSUME NEW p, IsSeq(p), NEW names, NEW q, IsSeq(q), NEW n \in 1..Len(q),
         Through(p, names, At(SubSeq(q, 1, n - 1), q[n][1]))
  PROVE  Through(p, names, q)
<1>1. Len(p) \in Nat /\ Len(q) \in Nat /\ n - 1 \in Nat
  BY SeqLength
<1>2. PICK a : FirstOf(q, n - 1, a)
  BY DEF FirstOf
<1>3. PICK l \in Nat, k \in Nat : l = Len(p) /\ k = n - 1 /\ FirstOf(q, k, a)
  BY <1>1, <1>2
<1>4. Len(q) \in Nat /\ k \in 0..Len(q) /\ n = k + 1
  BY <1>3, <1>1
<1>5. IsSeq(a) /\ Len(a) = k /\ \A j \in 1..k : a[j] = q[j]
  BY <1>3, <1>4, SeqFirst
<1>6. PICK e, s : e = At(a, q[n][1]) /\ Appends(a, s, e) /\ s[1] = q[n][1]
  BY AtAppends
<1>7. Through(p, names, e)
  BY <1>3, <1>6 DEF FirstOf
<1>8. IsSeq(e) /\ Len(e) = k + 1 /\ e[k + 1] = s /\ \A j \in 1..k : e[j] = a[j]
  <2>1. IsSeq(a) /\ Appends(a, s, e)
    BY <1>5, <1>6
  <2>2. /\ IsSeq(e) /\ Len(e) = Len(a) + 1 /\ e[Len(a) + 1] = s
        /\ \A j \in 1..Len(a) : e[j] = a[j]
    BY <2>1, SeqAppend
  <2> QED
    BY <2>2, <1>5
<1>9. k + 1 > l /\ SubSeq(e, 1, l) = p /\ e[l + 1][1] \in names
  BY <1>3, <1>7, <1>8 DEF Through, Begins
<1>10. \A j \in 1..l : e[j] = q[j]
  BY <1>5, <1>8, <1>9
<1>11. SubSeq(q, 1, l) = p
  BY <1>4, <1>8, <1>9, <1>10, SeqStarts
<1>12. e[l + 1][1] = q[l + 1][1]
  <2>1. CASE l = k
    BY <1>4, <1>6, <1>8, <2>1
  <2>2. CASE l < k
    BY <1>5, <1>8, <2>2
  <2> QED
    BY <1>9, <2>1, <2>2
<1> QED
  BY <1>3, <1>4, <1>9, <1>11, <1>12 DEF Through, Begins

-----------------------------------------------------------------------------
(***************************************************************************)
(* The bodies of the message: those there were, or one more.               *)
(***************************************************************************)

\* A body is added at a path one step longer than that of another.
Grows(old, new, p, s, q) ==
  /\ p \in DOMAIN old /\ Appends(p, s, q) /\ q \notin DOMAIN old
  /\ DOMAIN new = DOMAIN old \cup {q} /\ \A r \in DOMAIN old : new[r] = old[r]
  /\ new[q].type \in Types /\ IsSeq(new[q].urls)

\* A new body has the type of its field and no URL yet.
LEMMA NoUrls ==
  ASSUME NEW f
  PROVE  NewBody(f).type = f.body /\ IsSeq(NewBody(f).urls)
<1>1. PICK e : e = <<>>
  OBVIOUS
<1>2. IsSeq(e)
  BY <1>1, SeqEmpty
<1> QED
  BY <1>1, <1>2 DEF NewBody

\* Nothing lies under a body that is new.
LEMMA NothingUnder ==
  ASSUME NEW bodies, Typed(bodies), NEW q, q \notin DOMAIN bodies, IsSeq(q)
  PROVE  \A r \in DOMAIN bodies : ~Beneath(q, r)
<1> SUFFICES ASSUME NEW r \in DOMAIN bodies, Beneath(q, r)
             PROVE  FALSE
  OBVIOUS
<1>1. IsSeq(r) /\ \A n \in 0..Len(r) : SubSeq(r, 1, n) \in DOMAIN bodies
  BY DEF Typed
<1>2. Len(q) \in 0..Len(r)
  BY <1>1, SeqLength DEF Beneath
<1> QED
  BY <1>1, <1>2 DEF Beneath

\* A body put under one that is there keeps all of them typed.
LEMMA TypedGrows ==
  ASSUME NEW old, NEW new, NEW p, NEW s, NEW q, Typed(old), Grows(old, new, p, s, q)
  PROVE  Typed(new)
<1>1. IsSeq(p) /\ \A n \in 0..Len(p) : SubSeq(p, 1, n) \in DOMAIN old
  BY DEF Typed, Grows
<1>2. /\ IsSeq(q) /\ Len(p) \in Nat /\ Len(q) = Len(p) + 1
      /\ \A n \in 0..Len(p) : SubSeq(q, 1, n) = SubSeq(p, 1, n)
  BY <1>1, LongerPath DEF Grows
<1>3. SubSeq(q, 1, Len(q)) = q
  BY <1>2, SeqWhole
<1>4. \A n \in 0..Len(q) : SubSeq(q, 1, n) \in DOMAIN new
  <2> TAKE n \in 0..Len(q)
  <2>1. CASE n = Len(q)
    BY <1>3, <2>1 DEF Grows
  <2>2. CASE n # Len(q)
    <3>1. n \in 0..Len(p)
      BY <1>2, <2>2
    <3>2. SubSeq(q, 1, n) \in DOMAIN old
      BY <1>1, <1>2, <3>1
    <3> QED
      BY <3>2 DEF Grows
  <2> QED
    BY <2>1, <2>2
<1>5. new[q].type \in Types /\ IsSeq(new[q].urls)
  BY DEF Grows
<1>6. ASSUME NEW r \in DOMAIN old
      PROVE  /\ IsSeq(r) /\ IsSeq(new[r].urls) /\ new[r].type \in Types
             /\ \A n \in 0..Len(r) : SubSeq(r, 1, n) \in DOMAIN new
  BY <1>6 DEF Typed, Grows
<1> QED
  BY <1>2, <1>4, <1>5, <1>6 DEF Typed, Grows

\* The counts of two messages, of the fields the bodies of the first are elements of.
CountsKept(m, new) ==
  \A p \in DOMAIN m.bodies : \A n \in 1..Len(p) :
    Count(m, SubSeq(p, 1, n - 1), p[n][1]) <= Count(new, SubSeq(p, 1, n - 1), p[n][1])

\* A count is a number.
LEMMA CountIsInt ==
  ASSUME NEW m, Counts(m), NEW p, NEW name
  PROVE  Count(m, p, name) \in Nat
<1> QED
  BY DEF Count, Counts

\* Bodies stay numbered while counts and marks only grow.
LEMMA NumberedStays ==
  ASSUME NEW m, NEW new, Counts(m), Counts(new), NEW marks, NEW more, marks \subseteq more,
         Numbered(m, marks), CountsKept(m, new), DOMAIN new.bodies = DOMAIN m.bodies
  PROVE  Numbered(new, more)
<1> SUFFICES ASSUME NEW p \in DOMAIN m.bodies, NEW n \in 1..Len(p)
             PROVE  /\ p[n][3] \in Nat /\ p[n][3] <= Count(new, SubSeq(p, 1, n - 1), p[n][1])
                    /\ At(SubSeq(p, 1, n - 1), p[n][1]) \in more
  BY DEF Numbered
<1>1. PICK a, b, above : /\ above = SubSeq(p, 1, n - 1)
                         /\ a = Count(m, above, p[n][1]) /\ b = Count(new, above, p[n][1])
  OBVIOUS
<1>2. a \in Nat /\ b \in Nat
  BY <1>1, CountIsInt
<1>3. p[n][3] \in Nat /\ p[n][3] <= a /\ a <= b /\ At(above, p[n][1]) \in marks
  BY <1>1 DEF Numbered, CountsKept
<1> QED
  BY <1>1, <1>2, <1>3

\* A new body is numbered if its number is counted and its field marked.
LEMMA NumberedGrows ==
  ASSUME NEW m, NEW new, Counts(m), Counts(new), NEW marks, NEW more, marks \subseteq more,
         Typed(m.bodies), Numbered(m, marks), CountsKept(m, new),
         NEW p, NEW s, NEW q, Grows(m.bodies, new.bodies, p, s, q),
         s[3] \in Nat, s[3] <= Count(new, p, s[1]), At(p, s[1]) \in more
  PROVE  Numbered(new, more)
<1>1. ASSUME NEW r \in DOMAIN m.bodies, NEW n \in 1..Len(r)
      PROVE  /\ r[n][3] \in Nat /\ r[n][3] <= Count(new, SubSeq(r, 1, n - 1), r[n][1])
             /\ At(SubSeq(r, 1, n - 1), r[n][1]) \in more
  <2>1. PICK a, b, above : /\ above = SubSeq(r, 1, n - 1)
                           /\ a = Count(m, above, r[n][1]) /\ b = Count(new, above, r[n][1])
    OBVIOUS
  <2>2. a \in Nat /\ b \in Nat
    BY <2>1, CountIsInt
  <2>3. r[n][3] \in Nat /\ r[n][3] <= a /\ a <= b /\ At(above, r[n][1]) \in marks
    BY <1>1, <2>1 DEF Numbered, CountsKept
  <2> QED
    BY <2>1, <2>2, <2>3
<1>2. p \in DOMAIN m.bodies /\ IsSeq(p) /\ Appends(p, s, q)
  BY DEF Grows, Typed
<1>3. PICK l \in Nat : /\ l = Len(p) /\ Len(q) = l + 1 /\ q[l + 1] = s
                       /\ \A k \in 1..l : q[k] = p[k]
                       /\ SubSeq(q, 1, l) = p
                       /\ \A n \in 0..l : SubSeq(q, 1, n) = SubSeq(p, 1, n)
  BY <1>2, LongerPath
<1>4. ASSUME NEW n \in 1..Len(q)
      PROVE  /\ q[n][3] \in Nat /\ q[n][3] <= Count(new, SubSeq(q, 1, n - 1), q[n][1])
             /\ At(SubSeq(q, 1, n - 1), q[n][1]) \in more
  <2>1. CASE n = l + 1
    <3>1. q[n] = s /\ SubSeq(q, 1, n - 1) = p
      BY <1>3, <2>1
    <3> QED
      BY <3>1
  <2>2. CASE n # l + 1
    <3>1. n \in 1..Len(p) /\ q[n] = p[n] /\ SubSeq(q, 1, n - 1) = SubSeq(p, 1, n - 1)
      BY <1>3, <1>4, <2>2
    <3> QED
      BY <1>1, <1>2, <3>1
  <2> QED
    BY <2>1, <2>2
<1>5. DOMAIN new.bodies = DOMAIN m.bodies \cup {q}
  BY DEF Grows
<1> QED
  BY <1>1, <1>4, <1>5 DEF Numbered

\* The counts are kept where elements are cut away with their bodies, or one is added.
LEMMA KeptWhenCut ==
  ASSUME NEW m, NEW new, Counts(m), Keeps(new.elems, m.elems),
         \A p \in DOMAIN m.bodies : \A n \in 1..Len(p) :
           At(SubSeq(p, 1, n - 1), p[n][1]) \in DOMAIN m.elems =>
             At(SubSeq(p, 1, n - 1), p[n][1]) \in DOMAIN new.elems
  PROVE  CountsKept(m, new)
<1> SUFFICES ASSUME NEW p \in DOMAIN m.bodies, NEW n \in 1..Len(p)
             PROVE  Count(m, SubSeq(p, 1, n - 1), p[n][1])
                      <= Count(new, SubSeq(p, 1, n - 1), p[n][1])
  BY DEF CountsKept
<1>1. PICK above, name : above = SubSeq(p, 1, n - 1) /\ name = p[n][1]
  OBVIOUS
<1>2. Count(new, above, name) = Count(m, above, name)
  BY <1>1 DEF Count, Keeps
<1>3. Count(m, above, name) \in Nat
  BY CountIsInt
<1> QED
  BY <1>1, <1>2, <1>3

\* One element more for one field lowers no count.
LEMMA KeptWhenMore ==
  ASSUME NEW m, NEW new, Counts(m), NEW p, NEW name,
         new.elems = Put(m.elems, At(p, name), Count(m, p, name) + 1)
  PROVE  CountsKept(m, new) /\ Count(new, p, name) = Count(m, p, name) + 1
<1>1. Count(new, p, name) = Count(m, p, name) + 1
  BY DEF Count, Put
<1>2. ASSUME NEW a, NEW b
      PROVE  Count(m, a, b) <= Count(new, a, b)
  <2>1. Count(m, a, b) \in Nat /\ Count(m, p, name) \in Nat
    BY CountIsInt
  <2>2. CASE At(a, b) = At(p, name)
    <3>1. Count(m, a, b) = Count(m, p, name) /\ Count(new, a, b) = Count(new, p, name)
      BY <2>2 DEF Count
    <3> QED
      BY <1>1, <2>1, <3>1
  <2>3. CASE At(a, b) # At(p, name)
    <3>1. Count(new, a, b) = Count(m, a, b)
      BY <2>3 DEF Count, Put
    <3> QED
      BY <2>1, <3>1
  <2> QED
    BY <2>2, <2>3
<1> QED
  BY <1>1, <1>2 DEF CountsKept

\* Two functions that are the same, and one that goes further.
Same(old, new)    == DOMAIN new = DOMAIN old /\ \A q \in DOMAIN old : new[q] = old[q]
Extends(old, new) == DOMAIN old \subseteq DOMAIN new /\ \A q \in DOMAIN old : new[q] = old[q]

\* Bodies of the same types stay typed.
LEMMA TypedStays ==
  ASSUME NEW old, NEW new, Typed(old), Same(old, new)
  PROVE  Typed(new)
<1> QED
  BY DEF Typed, Same

\* Where no body is cut away, the bodies are the same and the counts are kept.
LEMMA NothingCut ==
  ASSUME NEW m, NEW new, NEW p, NEW names, Counts(m), Typed(m.bodies), IsSeq(p),
         new.bodies = Cut(m.bodies, p, names), new.elems = Cut(m.elems, p, names),
         \A q \in DOMAIN m.bodies : ~Through(p, names, q)
  PROVE  Same(m.bodies, new.bodies) /\ CountsKept(m, new)
<1>1. Same(m.bodies, new.bodies)
  BY CutKeeps DEF Same, Keeps
<1>2. ASSUME NEW q \in DOMAIN m.bodies, NEW n \in 1..Len(q),
             At(SubSeq(q, 1, n - 1), q[n][1]) \in DOMAIN m.elems
      PROVE  At(SubSeq(q, 1, n - 1), q[n][1]) \in DOMAIN new.elems
  <2>1. IsSeq(q) /\ ~Through(p, names, q)
    BY DEF Typed
  <2>2. ~Through(p, names, At(SubSeq(q, 1, n - 1), q[n][1]))
    BY <2>1, CutWithCount
  <2> QED
    BY <1>2, <2>2, CutKeeps
<1>3. Keeps(new.elems, m.elems)
  BY CutKeeps
<1>4. CountsKept(m, new)
  BY <1>2, <1>3, KeptWhenCut
<1> QED
  BY <1>1, <1>4

\* What a default displaces was never there: the pass leaves every body it finds.
LEMMA NothingDisplaced ==
  ASSUME NEW from, NEW new, new = Completed(msg, from),
         Counts(msg), Typed(msg.bodies), Numbered(msg, present)
  PROVE  Same(msg.bodies, new.bodies) /\ CountsKept(msg, new)
<1>1. ASSUME NEW p \in Visited(msg, from), NEW q \in DOMAIN msg.bodies
      PROVE  IsSeq(p) /\ ~Through(p, Displaced(p, msg.bodies[p].type), q)
  <2>1. p \in DOMAIN msg.bodies /\ IsSeq(p) /\ IsSeq(q)
    BY <1>1 DEF Visited, Typed
  <2>2. SUFFICES ASSUME Through(p, Displaced(p, msg.bodies[p].type), q)
                 PROVE  FALSE
    BY <2>1
  <2>3. PICK l \in Nat : l = Len(p)
    BY <2>1, SeqLength
  <2>4. PICK name : name = q[l + 1][1]
    OBVIOUS
  <2>5. l = Len(p) /\ l < Len(q) /\ SubSeq(q, 1, l) = p /\ name = q[l + 1][1]
    BY <2>1, <2>2, <2>3, <2>4, SeqLength DEF Through, Begins
  <2>6. name \in Displaced(p, msg.bodies[p].type)
    BY <2>2, <2>5 DEF Through
  <2>7. PICK f \in Defaulted(p, msg.bodies[p].type) : name \in Siblings(msg.bodies[p].type, f)
    BY <2>6 DEF Displaced
  <2>8. At(p, name) \notin present
    BY <2>7 DEF Defaulted, OneofAlreadyChosen
  <2>9. l + 1 \in 1..Len(q) /\ l + 1 - 1 = l
    BY <2>1, <2>5, SeqLength
  <2>10. At(SubSeq(q, 1, l), name) \in present
    BY <2>5, <2>9 DEF Numbered
  <2> QED
    BY <2>5, <2>8, <2>10
<1>2. Keeps(new.bodies, msg.bodies) /\ Keeps(new.elems, msg.elems)
  BY CompletedDoes
<1>3. \A q \in DOMAIN msg.bodies : q \in DOMAIN new.bodies
  BY <1>1, CompletedDoes
<1>4. ASSUME NEW q \in DOMAIN msg.bodies, NEW n \in 1..Len(q),
             At(SubSeq(q, 1, n - 1), q[n][1]) \in DOMAIN msg.elems
      PROVE  At(SubSeq(q, 1, n - 1), q[n][1]) \in DOMAIN new.elems
  <2>1. PICK e : e = At(SubSeq(q, 1, n - 1), q[n][1])
    OBVIOUS
  <2>2. IsSeq(q)
    BY DEF Typed
  <2>3. \A p \in Visited(msg, from) : ~Through(p, Displaced(p, msg.bodies[p].type), e)
    BY <1>1, <2>1, <2>2, CutWithCount
  <2> QED
    BY <1>4, <2>1, <2>3, CompletedDoes
<1>5. Same(msg.bodies, new.bodies)
  BY <1>2, <1>3 DEF Same, Keeps
<1>6. CountsKept(msg, new)
  BY <1>2, <1>4, KeptWhenCut
<1> QED
  BY <1>5, <1>6

-----------------------------------------------------------------------------
(***************************************************************************)
(* The frames: the top one changed, one more, one less.                    *)
(***************************************************************************)

\* A frame in place of another, with no less bound in it.
Alike(old, new) ==
  /\ new.kind = old.kind /\ new.type = old.type /\ new.path = old.path /\ new.from = old.from
  /\ new.kind # "body" => new.field = old.field
  /\ new.fresh => old.fresh
  /\ old.bound \subseteq new.bound /\ old.oneofs \subseteq new.oneofs

Frames(fs, n) == IsSeq(fs) /\ n >= 1 /\ Len(fs) = n /\ DOMAIN fs = 1..n
Changed(fs, s, n) ==
  Frames(fs, n) /\ Frames(s, n) /\ Alike(fs[n], s[n]) /\ \A k \in 1..(n - 1) : s[k] = fs[k]
Longer(fs, s, n) ==
  Frames(fs, n) /\ Frames(s, n + 1) /\ \A k \in 1..n : s[k] = fs[k]

\* Every frame is what it was, or like it.
LEMMA AllAlike ==
  ASSUME NEW n \in Nat, NEW fs, NEW s, Changed(fs, s, n)
  PROVE  \A k \in 1..n : Alike(fs[k], s[k])
<1> QED
  BY DEF Changed, Alike

\* Frames stay placed when only what the top frame has bound changes.
LEMMA PlacedStays ==
  ASSUME NEW n \in Nat, NEW fs, NEW s, Changed(fs, s, n),
         NEW bodies, NEW marks, NEW more, marks \subseteq more, Placed(fs, bodies, marks)
  PROVE  Placed(s, bodies, more)
<1>1. \A k \in 1..n : Alike(fs[k], s[k])
  BY AllAlike
<1>2. DOMAIN fs = 1..n /\ DOMAIN s = 1..n /\ \A k \in 1..(n - 1) : s[k] = fs[k]
  BY DEF Changed, Frames
<1> SUFFICES ASSUME NEW k \in 1..n, s[k].kind # "skip"
             PROVE  /\ OnBody(s, k, bodies)
                    /\ s[k].kind = "body" => Below(s, k, bodies)
                    /\ s[k].kind # "body" => Within(s, k, more)
  BY <1>2 DEF Placed
<1>3. Alike(fs[k], s[k]) /\ fs[k].kind # "skip" /\ k \in DOMAIN fs
  BY <1>1, <1>2 DEF Alike
<1>4. \A j \in 1..(k - 1) : s[j] = fs[j]
  BY <1>2
<1>5. OnBody(s, k, bodies)
  BY <1>3, <1>4 DEF Placed, OnBody, Alike
<1>6. ASSUME s[k].kind = "body"
      PROVE  Below(s, k, bodies)
  BY <1>3, <1>4, <1>6 DEF Placed, Below, Alike
<1>7. ASSUME s[k].kind # "body"
      PROVE  Within(s, k, more)
  <2>1. Within(fs, k, marks)
    BY <1>3, <1>7 DEF Placed, Alike
  <2>2. k > 1 /\ s[k - 1] = fs[k - 1]
    BY <1>4, <2>1 DEF Within
  <2> QED
    BY <1>3, <1>7, <2>1, <2>2 DEF Within, Alike
<1> QED
  BY <1>5, <1>6, <1>7

\* The prefix depends on the kinds and paths of the frames alone.
LEMMA PrefixedStays ==
  ASSUME NEW n \in Nat, NEW fs, NEW s, Frames(fs, n), Frames(s, n), NEW at, Prefixed(fs, at),
         \A k \in 1..n : /\ s[k].kind = fs[k].kind /\ s[k].path = fs[k].path
                          /\ s[k].from = fs[k].from
  PROVE  Prefixed(s, at)
<1>2. DOMAIN fs = 1..n /\ DOMAIN s = 1..n /\ Len(fs) = n /\ Len(s) = n
  BY DEF Frames
<1>3. \A k \in 1..n : s[k].kind = fs[k].kind /\ s[k].path = fs[k].path /\ s[k].from = fs[k].from
  OBVIOUS
<1>4. ASSUME NEW h \in 1..n, NEW k \in 1..h
      PROVE  Inner(s, k, h) <=> Inner(fs, k, h)
  BY <1>3 DEF Inner
<1>5. \A h \in DOMAIN s : \E k \in 1..h : Inner(s, k, h)
  BY <1>2, <1>4 DEF Prefixed
<1>6. \A k \in DOMAIN s : Inner(s, k, Len(s)) => at = s[k].path
  BY <1>2, <1>3, <1>4 DEF Prefixed
<1>7. ASSUME NEW h \in DOMAIN s, h > 1, NEW k \in 1..(h - 1), Inner(s, k, h - 1)
      PROVE  s[h].from = s[k].path
  <2>1. h - 1 \in 1..n /\ k \in 1..n /\ h \in 1..n
    BY <1>2, <1>7
  <2>2. Inner(fs, k, h - 1)
    BY <1>4, <1>7, <2>1
  <2> QED
    BY <1>2, <1>3, <1>7, <2>1, <2>2 DEF Prefixed
<1> QED
  BY <1>5, <1>6, <1>7 DEF Prefixed

\* A frame put on top is placed if it is where its body or its field is.
LEMMA PlacedOpens ==
  ASSUME NEW n \in Nat, NEW fs, NEW s, Longer(fs, s, n),
         NEW bodies, NEW marks, Placed(fs, bodies, marks),
         s[n + 1].kind # "skip" => OnBody(s, n + 1, bodies),
         s[n + 1].kind = "body" => Below(s, n + 1, bodies),
         s[n + 1].kind \notin {"body", "skip"} => Within(s, n + 1, marks)
  PROVE  Placed(s, bodies, marks)
<1>1. DOMAIN fs = 1..n /\ DOMAIN s = 1..(n + 1) /\ \A k \in 1..n : s[k] = fs[k]
  BY DEF Longer, Frames
<1> SUFFICES ASSUME NEW k \in 1..(n + 1), s[k].kind # "skip"
             PROVE  /\ OnBody(s, k, bodies)
                    /\ s[k].kind = "body" => Below(s, k, bodies)
                    /\ s[k].kind # "body" => Within(s, k, marks)
  BY <1>1 DEF Placed
<1>2. CASE k = n + 1
  BY <1>2
<1>3. CASE k # n + 1
  <2>1. k \in 1..n /\ s[k] = fs[k] /\ \A j \in 1..(k - 1) : s[j] = fs[j]
    BY <1>1, <1>3
  <2>2. /\ OnBody(fs, k, bodies)
        /\ fs[k].kind = "body" => Below(fs, k, bodies)
        /\ fs[k].kind # "body" => Within(fs, k, marks)
    BY <1>1, <2>1 DEF Placed
  <2>3. OnBody(s, k, bodies) /\ (s[k].kind = "body" => Below(s, k, bodies))
    BY <2>1, <2>2 DEF OnBody, Below
  <2>4. s[k].kind # "body" => Within(s, k, marks)
    <3> SUFFICES ASSUME s[k].kind # "body" PROVE Within(s, k, marks)
      OBVIOUS
    <3>1. Within(fs, k, marks)
      BY <2>1, <2>2
    <3>2. k > 1 /\ s[k - 1] = fs[k - 1]
      BY <2>1, <3>1 DEF Within
    <3> QED
      BY <2>1, <3>1, <3>2 DEF Within
  <2> QED
    BY <2>3, <2>4
<1> QED
  BY <1>2, <1>3

\* The frames below stay placed when the top one closes.
LEMMA PlacedCloses ==
  ASSUME NEW n \in Nat, NEW fs, NEW s, Longer(fs, s, n),
         NEW bodies, NEW marks, Placed(s, bodies, marks)
  PROVE  Placed(fs, bodies, marks)
<1>1. DOMAIN fs = 1..n /\ DOMAIN s = 1..(n + 1) /\ \A k \in 1..n : s[k] = fs[k]
  BY DEF Longer, Frames
<1> SUFFICES ASSUME NEW k \in 1..n, fs[k].kind # "skip"
             PROVE  /\ OnBody(fs, k, bodies)
                    /\ fs[k].kind = "body" => Below(fs, k, bodies)
                    /\ fs[k].kind # "body" => Within(fs, k, marks)
  BY <1>1 DEF Placed
<1>2. k \in DOMAIN s /\ s[k] = fs[k] /\ \A j \in 1..(k - 1) : s[j] = fs[j]
  BY <1>1
<1>3. /\ OnBody(s, k, bodies)
      /\ s[k].kind = "body" => Below(s, k, bodies)
      /\ s[k].kind # "body" => Within(s, k, marks)
  BY <1>2 DEF Placed
<1>4. OnBody(fs, k, bodies) /\ (fs[k].kind = "body" => Below(fs, k, bodies))
  BY <1>2, <1>3 DEF OnBody, Below
<1>5. ASSUME fs[k].kind # "body"
      PROVE  Within(fs, k, marks)
  <2>1. Within(s, k, marks)
    BY <1>2, <1>3, <1>5
  <2>2. k > 1 /\ s[k - 1] = fs[k - 1]
    BY <1>2, <2>1 DEF Within
  <2> QED
    BY <1>2, <2>1, <2>2 DEF Within
<1> QED
  BY <1>4, <1>5

\* A frame put on top remembers the prefix and may set its own.
LEMMA PrefixedOpens ==
  ASSUME NEW n \in Nat, NEW fs, NEW s, Longer(fs, s, n), NEW at, NEW new, Prefixed(fs, at),
         s[n + 1].from = at,
         s[n + 1].kind = "skip" => new = at,
         s[n + 1].kind # "skip" => new = s[n + 1].path
  PROVE  Prefixed(s, new)
<1>1. /\ DOMAIN fs = 1..n /\ DOMAIN s = 1..(n + 1) /\ \A k \in 1..n : s[k] = fs[k]
      /\ Len(fs) = n /\ Len(s) = n + 1 /\ n >= 1
  BY DEF Longer, Frames
<1>2. ASSUME NEW h \in 1..n, NEW k \in 1..h
      PROVE  Inner(s, k, h) <=> Inner(fs, k, h)
  BY <1>1 DEF Inner
<1>3. ASSUME NEW k \in 1..n
      PROVE  Inner(s, k, n + 1) <=> s[n + 1].kind = "skip" /\ Inner(s, k, n)
  BY DEF Inner
<1>4. s[n + 1].kind # "skip" => Inner(s, n + 1, n + 1)
  BY DEF Inner
<1>5. \A h \in DOMAIN s : \E k \in 1..h : Inner(s, k, h)
  <2> TAKE h \in DOMAIN s
  <2>1. CASE h \in 1..n
    BY <1>1, <1>2, <2>1 DEF Prefixed
  <2>2. CASE h = n + 1 /\ s[n + 1].kind # "skip"
    BY <1>4, <2>2
  <2>3. CASE h = n + 1 /\ s[n + 1].kind = "skip"
    <3>1. n \in 1..n
      BY <1>1
    <3>2. PICK k \in 1..n : Inner(fs, k, n)
      BY <1>1, <3>1 DEF Prefixed
    <3>3. Inner(s, k, n)
      BY <1>2, <3>1, <3>2
    <3>4. Inner(s, k, n + 1)
      BY <1>3, <2>3, <3>3
    <3> QED
      BY <2>3, <3>4
  <2> QED
    BY <1>1, <2>1, <2>2, <2>3
<1>6. ASSUME NEW k \in DOMAIN s, Inner(s, k, Len(s))
      PROVE  new = s[k].path
  <2>1. CASE k = n + 1
    BY <1>1, <1>6, <2>1 DEF Inner
  <2>2. CASE k # n + 1
    <3>1. k \in 1..n /\ Inner(s, k, n + 1) /\ n \in 1..n
      BY <1>1, <1>6, <2>2
    <3>2. s[n + 1].kind = "skip" /\ Inner(s, k, n)
      BY <1>3, <3>1
    <3>3. Inner(fs, k, n)
      BY <1>2, <3>1, <3>2
    <3> QED
      BY <1>1, <3>1, <3>2, <3>3 DEF Prefixed
  <2> QED
    BY <2>1, <2>2
<1>7. ASSUME NEW h \in DOMAIN s, h > 1, NEW k \in 1..(h - 1), Inner(s, k, h - 1)
      PROVE  s[h].from = s[k].path
  <2>1. h - 1 \in 1..n /\ k \in 1..n
    BY <1>1, <1>7
  <2>2. Inner(fs, k, h - 1) /\ s[k] = fs[k]
    BY <1>1, <1>2, <1>7, <2>1
  <2>3. CASE h = n + 1
    <3>1. h - 1 = n
      BY <2>3
    <3> QED
      BY <1>1, <2>1, <2>2, <2>3, <3>1 DEF Prefixed
  <2>4. CASE h # n + 1
    <3>1. h \in 1..n /\ s[h] = fs[h]
      BY <1>1, <2>4
    <3> QED
      BY <1>1, <1>7, <2>2, <3>1 DEF Prefixed
  <2> QED
    BY <2>3, <2>4
<1> QED
  BY <1>5, <1>6, <1>7 DEF Prefixed

\* Closing a frame puts the prefix back that fits the frames below.
LEMMA PrefixedCloses ==
  ASSUME NEW n \in Nat, NEW fs, NEW s, Longer(fs, s, n), NEW at, Prefixed(s, at)
  PROVE  Prefixed(fs, s[n + 1].from)
<1>1. /\ DOMAIN fs = 1..n /\ DOMAIN s = 1..(n + 1) /\ \A k \in 1..n : s[k] = fs[k]
      /\ Len(fs) = n /\ n >= 1
  BY DEF Longer, Frames
<1>2. ASSUME NEW h \in 1..n, NEW k \in 1..h
      PROVE  Inner(s, k, h) <=> Inner(fs, k, h)
  BY <1>1 DEF Inner
<1>3. \A h \in DOMAIN fs : \E k \in 1..h : Inner(fs, k, h)
  BY <1>1, <1>2 DEF Prefixed
<1>4. ASSUME NEW k \in DOMAIN fs, Inner(fs, k, Len(fs))
      PROVE  s[n + 1].from = fs[k].path
  <2>1. n + 1 \in DOMAIN s /\ n + 1 > 1 /\ n + 1 - 1 = n /\ k \in 1..n /\ n \in 1..n
    BY <1>1
  <2>2. Inner(s, k, n)
    BY <1>1, <1>2, <1>4, <2>1
  <2> QED
    BY <1>1, <2>1, <2>2 DEF Prefixed
<1>5. ASSUME NEW h \in DOMAIN fs, h > 1, NEW k \in 1..(h - 1), Inner(fs, k, h - 1)
      PROVE  fs[h].from = fs[k].path
  <2>1. h - 1 \in 1..n /\ k \in 1..n /\ h \in DOMAIN s
    BY <1>1, <1>5
  <2>2. Inner(s, k, h - 1) /\ s[k] = fs[k] /\ s[h] = fs[h]
    BY <1>1, <1>2, <1>5, <2>1
  <2> QED
    BY <1>5, <2>1, <2>2 DEF Prefixed
<1> QED
  BY <1>3, <1>4, <1>5 DEF Prefixed

\* The body of a frame below another has the shorter path, or is the one in which the
\* other's elements are read.
LEMMA Shorter ==
  ASSUME NEW n \in Nat, NEW fs, Frames(fs, n), NEW bodies, NEW marks, Typed(bodies),
         Placed(fs, bodies, marks), fs[n].kind # "skip", NEW k \in 1..(n - 1)
  PROVE  /\ IsSeq(fs[k].path) /\ fs[k].path \in DOMAIN bodies
         /\ \/ Len(fs[k].path) < Len(fs[n].path)
            \/ k = n - 1 /\ fs[n].kind # "body"
<1>1. DOMAIN fs = 1..n /\ n \in DOMAIN fs /\ k \in DOMAIN fs
  BY DEF Frames
<1>2. OnBody(fs, n, bodies)
  BY <1>1 DEF Placed
<1>3. fs[k].kind # "skip"
  BY <1>2 DEF OnBody
<1>4. OnBody(fs, k, bodies)
  BY <1>1, <1>3 DEF Placed
<1>5. IsSeq(fs[k].path) /\ fs[k].path \in DOMAIN bodies
  BY <1>4 DEF OnBody, Typed
<1>6. CASE fs[n].kind = "body"
  <2>1. Below(fs, n, bodies)
    BY <1>1, <1>6 DEF Placed
  <2> QED
    BY <1>5, <2>1 DEF Below
<1>7. CASE fs[n].kind # "body"
  <2>1. Within(fs, n, marks)
    BY <1>1, <1>7 DEF Placed
  <2>2. n > 1 /\ fs[n - 1].kind = "body" /\ fs[n - 1].path = fs[n].path
    BY <2>1 DEF Within
  <2>3. n - 1 \in DOMAIN fs /\ fs[n - 1].kind # "skip"
    BY <1>1, <2>2
  <2>4. Below(fs, n - 1, bodies)
    BY <2>2, <2>3 DEF Placed
  <2>5. k # n - 1 => k \in 1..(n - 1 - 1)
    BY <2>2
  <2>6. k # n - 1 => Len(fs[k].path) < Len(fs[n].path)
    BY <2>2, <2>4, <2>5 DEF Below
  <2> QED
    BY <1>5, <1>7, <2>6
<1> QED
  BY <1>6, <1>7

\* A mark may be added to the body on top: of any field, or of its key while the body
\* may turn out to be packed in an Any.
Marks(frame, q) ==
  /\ frame.kind = "body" /\ IsSeq(q) /\ Len(q) = Len(frame.path) + 1
  /\ frame.fresh /\ Schema[frame.type].role = "any" => q[Len(q)][1] = "type_url"

\* What is bound accounts for the bodies still when the top frame binds more.
LEMMA AccountedStays ==
  ASSUME NEW n \in Nat, NEW fs, NEW s, Changed(fs, s, n),
         NEW bodies, NEW marks, NEW more, Typed(bodies), Placed(fs, bodies, marks),
         Accounted(fs, bodies, marks), \A q \in more \ marks : Marks(s[n], q)
  PROVE  Accounted(s, bodies, more)
<1>1. DOMAIN fs = 1..n /\ DOMAIN s = 1..n /\ \A k \in 1..(n - 1) : s[k] = fs[k]
  BY DEF Changed, Frames
<1>2. \A k \in 1..n : Alike(fs[k], s[k])
  BY AllAlike
<1> SUFFICES ASSUME NEW k \in 1..n, s[k].kind = "body"
             PROVE  /\ \A q \in DOMAIN bodies : Beneath(s[k].path, q) => Accounts(s[k], q)
                    /\ s[k].fresh /\ Schema[s[k].type].role = "any" => OnlyKey(s[k], more)
  BY <1>1 DEF Accounted
<1>3. /\ s[k].type = fs[k].type /\ s[k].path = fs[k].path /\ fs[k].kind = "body"
      /\ (s[k].fresh => fs[k].fresh)
      /\ fs[k].bound \subseteq s[k].bound /\ fs[k].oneofs \subseteq s[k].oneofs
  BY <1>2 DEF Alike
<1>4. ASSUME NEW q \in DOMAIN bodies, Beneath(s[k].path, q)
      PROVE  Accounts(s[k], q)
  <2>1. Accounts(fs[k], q)
    BY <1>1, <1>3, <1>4 DEF Accounted
  <2> QED
    BY <1>3, <2>1 DEF Accounts
<1>5. ASSUME s[k].fresh, Schema[s[k].type].role = "any"
      PROVE  OnlyKey(s[k], more)
  <2>1. OnlyKey(fs[k], marks)
    BY <1>1, <1>3, <1>5 DEF Accounted
  <2> SUFFICES ASSUME NEW q \in more, Len(q) = Len(s[k].path) + 1, Beneath(s[k].path, q)
               PROVE  q[Len(q)][1] = "type_url"
    BY DEF OnlyKey
  <2>2. CASE q \in marks
    BY <1>3, <2>1, <2>2 DEF OnlyKey
  <2>3. CASE q \notin marks
    <3>1. Marks(s[n], q)
      BY <2>3
    <3>2. CASE k = n
      BY <1>5, <3>1, <3>2 DEF Marks
    <3>3. CASE k # n
      <4>1. k \in 1..(n - 1) /\ Alike(fs[n], s[n]) /\ Frames(fs, n) /\ n \in DOMAIN fs
        BY <1>1, <3>3 DEF Changed
      <4>2. fs[n].kind = "body" /\ fs[n].path = s[n].path
        BY <3>1, <4>1 DEF Marks, Alike
      <4>3. Len(fs[k].path) < Len(fs[n].path)
        BY <4>1, <4>2, Shorter
      <4>4. IsSeq(fs[k].path) /\ IsSeq(fs[n].path)
        <5>1. OnBody(fs, n, bodies)
          BY <4>1, <4>2 DEF Placed
        <5> QED
          BY <4>1, <4>2, <5>1, Shorter DEF OnBody, Typed
      <4>5. PICK a \in Nat, b \in Nat : a = Len(fs[k].path) /\ b = Len(fs[n].path)
        BY <4>4, SeqLength
      <4>6. a < b /\ a + 1 = b + 1
        BY <1>3, <3>1, <4>2, <4>3, <4>5 DEF Marks
      <4> QED
        BY <4>6
    <3> QED
      BY <3>2, <3>3
  <2> QED
    BY <2>2, <2>3
<1> QED
  BY <1>4, <1>5

\* What the frame on top says of the field in which a body is added to it.
Holds(frame, name) ==
  LET f == FieldOf(frame.type, name)
  IN  /\ Knows(frame.type, name)
      /\ frame.kind = "body" =>
           /\ ~frame.fresh /\ (f.shape = "one" => name \in frame.bound)
           /\ f.oneof # "none" => f.oneof \in frame.oneofs
      /\ frame.kind # "body" => name = frame.field /\ f.shape # "one"

\* A body put under the top frame is accounted for by the field it is of.
LEMMA AccountedGrows ==
  ASSUME NEW n \in Nat, NEW fs, Frames(fs, n), NEW old, NEW new, NEW marks,
         Typed(old), Placed(fs, old, marks), Accounted(fs, old, marks),
         fs[n].kind # "skip", NEW s, NEW q, Grows(old, new, fs[n].path, s, q),
         Holds(fs[n], s[1])
  PROVE  Accounted(fs, new, marks)
<1>1. DOMAIN fs = 1..n /\ n \in DOMAIN fs /\ DOMAIN new = DOMAIN old \cup {q}
  BY DEF Frames, Grows
<1> SUFFICES ASSUME NEW k \in 1..n, fs[k].kind = "body", Beneath(fs[k].path, q)
             PROVE  Accounts(fs[k], q)
  BY <1>1 DEF Accounted
<1>2. fs[n].path \in DOMAIN old /\ IsSeq(fs[n].path) /\ Appends(fs[n].path, s, q)
  BY DEF Grows, Typed
<1>3. PICK p : p = fs[n].path
  OBVIOUS
<1>4. PICK l \in Nat :
        /\ p = fs[n].path /\ l = Len(p) /\ Len(q) = l + 1 /\ q[l + 1] = s
        /\ \A j \in 1..l : q[j] = p[j]
        /\ SubSeq(q, 1, l) = p /\ \A j \in 0..l : SubSeq(q, 1, j) = SubSeq(p, 1, j)
  <2>1. IsSeq(p) /\ Appends(p, s, q)
    BY <1>2, <1>3
  <2>2. /\ Len(p) \in Nat /\ Len(q) = Len(p) + 1 /\ q[Len(p) + 1] = s
        /\ \A j \in 1..Len(p) : q[j] = p[j]
        /\ SubSeq(q, 1, Len(p)) = p
        /\ \A j \in 0..Len(p) : SubSeq(q, 1, j) = SubSeq(p, 1, j)
    BY <2>1, LongerPath
  <2> QED
    BY <2>2, <1>3
<1>5. CASE k = n
  <2>1. q[Len(fs[k].path) + 1][1] = s[1]
    BY <1>4, <1>5
  <2> QED
    BY <1>5, <2>1 DEF Accounts, Holds
<1>6. CASE k \in 1..(n - 1) /\ Len(fs[k].path) < Len(fs[n].path)
  <2>1. PICK h \in Nat : h = Len(fs[k].path) /\ h < l
    BY <1>4, <1>6, Shorter, SeqLength
  <2>2. h + 1 \in 1..l /\ h \in 0..l
    BY <2>1
  <2>3. Beneath(fs[k].path, p) /\ q[h + 1] = p[h + 1]
    BY <1>4, <2>1, <2>2 DEF Beneath
  <2>4. Accounts(fs[k], p)
    BY <1>1, <1>2, <1>4, <2>3 DEF Accounted
  <2> QED
    BY <2>1, <2>3, <2>4 DEF Accounts
<1>7. CASE k = n - 1 /\ fs[n].kind # "body"
  <2>1. Within(fs, n, marks)
    BY <1>1, <1>7 DEF Placed
  <2>2. /\ ~fs[k].fresh /\ fs[k].type = fs[n].type /\ fs[k].path = fs[n].path
        /\ FieldOf(fs[n].type, fs[n].field).oneof # "none" =>
             FieldOf(fs[n].type, fs[n].field).oneof \in fs[k].oneofs
    BY <1>7, <2>1 DEF Within
  <2>3. q[Len(fs[k].path) + 1][1] = s[1]
    BY <1>4, <2>2
  <2>4. /\ s[1] = fs[n].field /\ Knows(fs[n].type, s[1])
        /\ FieldOf(fs[n].type, s[1]).shape # "one"
    BY <1>7 DEF Holds
  <2> QED
    BY <2>2, <2>3, <2>4 DEF Accounts
<1> QED
  BY <1>5, <1>6, <1>7, Shorter

\* A new frame has nothing below it to account for.
LEMMA AccountedOpens ==
  ASSUME NEW n \in Nat, NEW fs, NEW s, Longer(fs, s, n),
         NEW bodies, NEW marks, Accounted(fs, bodies, marks),
         s[n + 1].kind = "body" =>
           /\ \A q \in DOMAIN bodies : ~Beneath(s[n + 1].path, q)
           /\ OnlyKey(s[n + 1], marks)
  PROVE  Accounted(s, bodies, marks)
<1>1. DOMAIN fs = 1..n /\ DOMAIN s = 1..(n + 1) /\ \A k \in 1..n : s[k] = fs[k]
  BY DEF Longer, Frames
<1>2. \A k \in DOMAIN s : k = n + 1 \/ (k \in DOMAIN fs /\ s[k] = fs[k])
  BY <1>1
<1> QED
  BY <1>2 DEF Accounted

\* The frames below account for what they did when the top one closes.
LEMMA AccountedCloses ==
  ASSUME NEW n \in Nat, NEW fs, NEW s, Longer(fs, s, n),
         NEW bodies, NEW marks, Accounted(s, bodies, marks)
  PROVE  Accounted(fs, bodies, marks)
<1>1. \A k \in DOMAIN fs : k \in DOMAIN s /\ s[k] = fs[k]
  BY DEF Longer, Frames
<1> QED
  BY <1>1 DEF Accounted

-----------------------------------------------------------------------------
(***************************************************************************)
(* Frames, message, marks and prefix together.                             *)
(***************************************************************************)

\* The prefix is the path of the frame on top, unless that drops a value.
LEMMA PrefixOnTop ==
  ASSUME NEW n \in Nat, NEW fs, Frames(fs, n), NEW at, Prefixed(fs, at), fs[n].kind # "skip"
  PROVE  at = fs[n].path
<1>1. Inner(fs, n, n) /\ n \in DOMAIN fs /\ Len(fs) = n
  BY DEF Inner, Frames
<1> QED
  BY <1>1 DEF Prefixed

\* Marks that land do so in more bodies.
LEMMA LandedExtends ==
  ASSUME NEW old, NEW new, Extends(old, new), NEW marks, Landed(old, marks)
  PROVE  Landed(new, marks)
<1> QED
  BY DEF Landed, LandsIn, Extends, HasField

\* Frames stay placed among more bodies.
LEMMA PlacedExtends ==
  ASSUME NEW fs, NEW old, NEW new, Extends(old, new), NEW marks, Placed(fs, old, marks)
  PROVE  Placed(fs, new, marks)
<1> SUFFICES ASSUME NEW k \in DOMAIN fs, fs[k].kind # "skip"
             PROVE  OnBody(fs, k, new) /\ (fs[k].kind = "body" => Below(fs, k, new))
  BY DEF Placed
<1> QED
  BY DEF Placed, OnBody, Below, Extends

\* Nothing is marked of a body that is new.
LEMMA NothingMarked ==
  ASSUME NEW bodies, NEW marks, Landed(bodies, marks), NEW q, q \notin DOMAIN bodies, IsSeq(q),
         NEW r \in marks, Beneath(q, r)
  PROVE  Len(r) # Len(q) + 1
<1> SUFFICES ASSUME Len(r) = Len(q) + 1 PROVE FALSE
  OBVIOUS
<1>1. PICK l \in Nat : l = Len(q)
  BY SeqLength
<1>2. Len(r) - 1 = l
  BY <1>1
<1>3. SubSeq(r, 1, Len(r) - 1) \in DOMAIN bodies
  BY DEF Landed, LandsIn
<1> QED
  BY <1>1, <1>2, <1>3 DEF Beneath

\* The top frame is bound to more, and marks are made in its body.
LEMMA FitsStays ==
  ASSUME NEW n \in Nat, NEW fs, NEW s, Changed(fs, s, n), NEW m, NEW marks, NEW more, NEW at,
         Fits(fs, m, marks, at), marks \subseteq more,
         \A q \in more \ marks : Marks(s[n], q) /\ LandsIn(m.bodies, q)
  PROVE  Fits(s, m, more, at)
<1>1. Typed(m.bodies) /\ Prefixed(s, at)
  <2>1. \A k \in 1..n : Alike(fs[k], s[k])
    BY AllAlike
  <2> QED
    BY <2>1, PrefixedStays DEF Fits, Changed, Alike
<1>2. Numbered(m, more)
  BY DEF Fits, Numbered
<1>3. Placed(s, m.bodies, more)
  BY PlacedStays DEF Fits
<1>4. Accounted(s, m.bodies, more)
  BY AccountedStays DEF Fits
<1>5. Landed(m.bodies, more)
  BY DEF Fits, Landed, Marks
<1> QED
  BY <1>1, <1>2, <1>3, <1>4, <1>5 DEF Fits

\* The bodies are the same, and no field has fewer elements.
LEMMA FitsSame ==
  ASSUME NEW fs, NEW m, NEW new, NEW marks, NEW at, Fits(fs, m, marks, at),
         Counts(m), Counts(new), Same(m.bodies, new.bodies), CountsKept(m, new)
  PROVE  Fits(fs, new, marks, at)
<1>1. Extends(m.bodies, new.bodies) /\ DOMAIN new.bodies = DOMAIN m.bodies
  BY DEF Same, Extends
<1>2. Typed(new.bodies) /\ Numbered(new, marks)
  BY <1>1, TypedStays, NumberedStays DEF Fits
<1>3. Placed(fs, new.bodies, marks) /\ Landed(new.bodies, marks)
  BY <1>1, PlacedExtends, LandedExtends DEF Fits
<1>4. Accounted(fs, new.bodies, marks)
  BY <1>1 DEF Fits, Accounted
<1> QED
  BY <1>2, <1>3, <1>4 DEF Fits

\* A body is added under that of the top frame.
LEMMA FitsGrows ==
  ASSUME NEW n \in Nat, NEW fs, Frames(fs, n), NEW m, NEW new, NEW marks, NEW at,
         Fits(fs, m, marks, at), Counts(m), Counts(new), CountsKept(m, new),
         fs[n].kind # "skip", NEW s, NEW q, Grows(m.bodies, new.bodies, fs[n].path, s, q),
         Holds(fs[n], s[1]), At(fs[n].path, s[1]) \in marks,
         s[3] \in Nat, s[3] <= Count(new, fs[n].path, s[1])
  PROVE  Fits(fs, new, marks, at)
<1>1. Extends(m.bodies, new.bodies)
  BY DEF Grows, Extends
<1>2. Typed(new.bodies)
  BY TypedGrows DEF Fits
<1>3. Numbered(new, marks)
  BY NumberedGrows DEF Fits
<1>4. Placed(fs, new.bodies, marks) /\ Landed(new.bodies, marks)
  BY <1>1, PlacedExtends, LandedExtends DEF Fits
<1>5. Accounted(fs, new.bodies, marks)
  BY AccountedGrows DEF Fits
<1> QED
  BY <1>2, <1>3, <1>4, <1>5 DEF Fits

\* A frame is opened for a body in which nothing is yet.
LEMMA FitsBody ==
  ASSUME NEW n \in Nat, NEW fs, NEW s, Longer(fs, s, n), NEW m, NEW marks, NEW at,
         Fits(fs, m, marks, at), fs[n].kind # "skip", NEW q, q \in DOMAIN m.bodies,
         s[n + 1].kind = "body", s[n + 1].from = at, s[n + 1].path = q,
         s[n + 1].type = m.bodies[q].type, Len(fs[n].path) < Len(q),
         \A r \in DOMAIN m.bodies : ~Beneath(q, r),
         \A r \in marks : Beneath(q, r) => Len(r) # Len(q) + 1
  PROVE  Fits(s, m, marks, q)
<1>1. n \in DOMAIN fs /\ Frames(fs, n) /\ \A k \in 1..n : s[k] = fs[k]
  BY DEF Longer, Frames
<1>2. OnBody(fs, n, m.bodies)
  BY <1>1 DEF Fits, Placed
<1>3. OnBody(s, n + 1, m.bodies)
  <2>1. \A k \in 1..(n - 1) : fs[k].kind # "skip"
    BY <1>2 DEF OnBody
  <2>2. \A k \in 1..n : s[k].kind # "skip"
    BY <1>1, <2>1
  <2> QED
    BY <2>2 DEF OnBody
<1>4. ASSUME NEW k \in 1..n
      PROVE  Len(s[k].path) < Len(q)
  <2>1. CASE k = n
    BY <1>1, <2>1
  <2>2. CASE k # n
    <3>1. k \in 1..(n - 1) /\ s[k] = fs[k]
      BY <1>1, <2>2
    <3>2. /\ IsSeq(fs[k].path) /\ IsSeq(fs[n].path) /\ IsSeq(q)
          /\ Len(fs[k].path) < Len(fs[n].path) \/ (k = n - 1 /\ fs[n].kind # "body")
      BY <1>1, <1>2, <3>1, Shorter DEF Fits, Typed, OnBody
    <3>3. CASE Len(fs[k].path) < Len(fs[n].path)
      <4>1. PICK a \in Nat, b \in Nat, c \in Nat :
              a = Len(fs[k].path) /\ b = Len(fs[n].path) /\ c = Len(q)
        BY <3>2, SeqLength
      <4>2. a < b /\ b < c
        BY <3>3, <4>1
      <4> QED
        BY <3>1, <4>1, <4>2
    <3>4. CASE k = n - 1 /\ fs[n].kind # "body"
      <4>1. fs[n - 1].path = fs[n].path
        BY <1>1, <3>4 DEF Fits, Placed, Within
      <4> QED
        BY <3>1, <3>4, <4>1
    <3> QED
      BY <3>2, <3>3, <3>4
  <2> QED
    BY <2>1, <2>2
<1>5. Below(s, n + 1, m.bodies)
  BY <1>4 DEF Below
<1>6. Placed(s, m.bodies, marks)
  BY <1>3, <1>5, PlacedOpens DEF Fits
<1>7. Prefixed(s, q)
  BY PrefixedOpens DEF Fits
<1>8. OnlyKey(s[n + 1], marks)
  BY DEF OnlyKey
<1>9. Accounted(s, m.bodies, marks)
  BY <1>8, AccountedOpens DEF Fits
<1> QED
  BY <1>6, <1>7, <1>9 DEF Fits

\* A frame is opened for the elements of a field of the body on top.
LEMMA FitsElements ==
  ASSUME NEW n \in Nat, NEW fs, NEW s, Longer(fs, s, n), NEW m, NEW marks, NEW at,
         Fits(fs, m, marks, at), fs[n].kind = "body", ~fs[n].fresh,
         s[n + 1].kind \in {"list", "keyed", "map"}, s[n + 1].from = at,
         s[n + 1].path = fs[n].path, s[n + 1].type = fs[n].type,
         NEW f, f = FieldOf(s[n + 1].type, s[n + 1].field),
         f.oneof # "none" => f.oneof \in fs[n].oneofs,
         At(fs[n].path, s[n + 1].field) \in marks
  PROVE  Fits(s, m, marks, at)
<1>1. n \in DOMAIN fs /\ Frames(fs, n) /\ \A k \in 1..n : s[k] = fs[k]
  BY DEF Longer, Frames
<1>2. OnBody(fs, n, m.bodies)
  BY <1>1 DEF Fits, Placed
<1>3. OnBody(s, n + 1, m.bodies)
  <2>1. \A k \in 1..(n - 1) : fs[k].kind # "skip"
    BY <1>2 DEF OnBody
  <2>2. \A k \in 1..n : s[k].kind # "skip"
    BY <1>1, <2>1
  <2> QED
    BY <1>2, <2>2 DEF OnBody
<1>4. Within(s, n + 1, marks)
  <2>1. n + 1 > 1 /\ n + 1 - 1 = n /\ s[n] = fs[n]
    BY <1>1 DEF Frames
  <2> QED
    BY <2>1 DEF Within
<1>5. Placed(s, m.bodies, marks)
  BY <1>3, <1>4, PlacedOpens DEF Fits
<1>6. at = fs[n].path
  BY <1>1, PrefixOnTop DEF Fits
<1>7. Prefixed(s, at)
  BY <1>6, PrefixedOpens DEF Fits
<1>8. Accounted(s, m.bodies, marks)
  BY AccountedOpens DEF Fits
<1> QED
  BY <1>5, <1>7, <1>8 DEF Fits

\* A frame is opened for a value that is dropped.
LEMMA FitsSkip ==
  ASSUME NEW n \in Nat, NEW fs, NEW s, Longer(fs, s, n), NEW m, NEW marks, NEW at,
         Fits(fs, m, marks, at), s[n + 1].kind = "skip", s[n + 1].from = at
  PROVE  Fits(s, m, marks, at)
<1>1. Placed(s, m.bodies, marks) /\ Prefixed(s, at) /\ Accounted(s, m.bodies, marks)
  BY PlacedOpens, PrefixedOpens, AccountedOpens DEF Fits
<1> QED
  BY <1>1 DEF Fits

\* The top frame is closed.
LEMMA FitsCloses ==
  ASSUME NEW n \in Nat, NEW fs, NEW s, Longer(fs, s, n), NEW m, NEW marks, NEW at,
         Fits(s, m, marks, at)
  PROVE  Fits(fs, m, marks, s[n + 1].from)
<1> QED
  BY PlacedCloses, PrefixedCloses, AccountedCloses DEF Fits

\* The frame on top turns out to be that of an Any, and its body to be of another type:
\* nothing was bound in it, and nothing marked of it but its key.
Retyped(old, new, p, type, url) ==
  /\ p \in DOMAIN old /\ DOMAIN new = DOMAIN old /\ \A q \in DOMAIN old : q # p => new[q] = old[q]
  /\ new[p].type = type /\ Appends(old[p].urls, url, new[p].urls)

\* The body of an Any stays typed when it gets the type its URL names.
LEMMA TypedRetypes ==
  ASSUME NEW old, NEW new, NEW p, NEW type \in Types, NEW url, Retyped(old, new, p, type, url),
         Typed(old)
  PROVE  Typed(new) /\ new[p].urls # <<>>
<1>1. IsSeq(old[p].urls)
  BY DEF Typed, Retyped
<1>2. PICK l \in Nat : l = Len(old[p].urls)
  BY <1>1, SeqLength
<1>3. IsSeq(new[p].urls) /\ Len(new[p].urls) = l + 1
  BY <1>1, <1>2, SeqAppend DEF Retyped
<1>4. new[p].urls # <<>>
  <2>1. SUFFICES ASSUME new[p].urls = <<>> PROVE FALSE
    OBVIOUS
  <2>2. Len(new[p].urls) = 0
    BY <2>1
  <2> QED
    BY <1>3, <2>2
<1>5. Typed(new)
  <2> SUFFICES ASSUME NEW q \in DOMAIN old
               PROVE  IsSeq(new[q].urls) /\ new[q].type \in Types
    BY DEF Typed, Retyped
  <2>1. CASE q = p
    BY <1>3, <2>1 DEF Retyped
  <2>2. CASE q # p
    BY <2>2 DEF Typed, Retyped
  <2> QED
    BY <2>1, <2>2
<1> QED
  BY <1>4, <1>5

\* So all parts hold on when the body of a fresh Any gets its type.
LEMMA FitsRetypes ==
  ASSUME NEW n \in Nat, NEW fs, NEW s, Frames(fs, n), Frames(s, n),
         \A k \in 1..(n - 1) : s[k] = fs[k],
         fs[n].kind = "body", fs[n].fresh, Schema[fs[n].type].role = "any",
         NEW type \in Types, NEW url, s[n].kind = "body", s[n].path = fs[n].path,
         s[n].from = fs[n].from, s[n].type = type,
         NEW m, NEW new, Retyped(m.bodies, new.bodies, fs[n].path, type, url),
         new.elems = m.elems, Counts(m),
         NEW marks, NEW at, Fits(fs, m, marks, at)
  PROVE  Fits(s, new, marks, at)
<1>1. /\ DOMAIN fs = 1..n /\ DOMAIN s = 1..n /\ n \in 1..n
      /\ DOMAIN new.bodies = DOMAIN m.bodies
  BY DEF Frames, Retyped
<1>2. Typed(new.bodies) /\ new.bodies[fs[n].path].urls # <<>>
  BY TypedRetypes DEF Fits
<1>3. Numbered(new, marks)
  <2>1. Counts(new)
    BY DEF Counts
  <2>2. ASSUME NEW p, NEW name
        PROVE  Count(m, p, name) <= Count(new, p, name)
    <3>1. Count(m, p, name) = Count(new, p, name) /\ Count(m, p, name) \in Nat
      BY CountIsInt DEF Count
    <3> QED
      BY <3>1
  <2>3. CountsKept(m, new)
    BY <2>2 DEF CountsKept
  <2> QED
    BY <1>1, <2>1, <2>3, NumberedStays DEF Fits
<1>4. Prefixed(s, at)
  <2>1. \A k \in 1..n : s[k].kind = fs[k].kind /\ s[k].path = fs[k].path /\ s[k].from = fs[k].from
    BY <1>1
  <2> QED
    BY <2>1, PrefixedStays DEF Fits
<1>5. Placed(s, new.bodies, marks)
  <2> SUFFICES ASSUME NEW k \in 1..n, s[k].kind # "skip"
               PROVE  /\ OnBody(s, k, new.bodies)
                      /\ s[k].kind = "body" => Below(s, k, new.bodies)
                      /\ s[k].kind # "body" => Within(s, k, marks)
    BY <1>1 DEF Placed
  <2>1. s[k].kind = fs[k].kind /\ s[k].path = fs[k].path /\ \A j \in 1..(k - 1) : s[j] = fs[j]
    BY <1>1
  <2>2. OnBody(fs, k, m.bodies)
    BY <1>1, <2>1 DEF Fits, Placed
  <2>3. OnBody(s, k, new.bodies)
    BY <1>1, <2>1, <2>2 DEF OnBody
  <2>4. ASSUME s[k].kind = "body"
        PROVE  Below(s, k, new.bodies)
    <3>1. Below(fs, k, m.bodies)
      BY <1>1, <2>1, <2>4 DEF Fits, Placed
    <3>2. CASE k = n
      BY <2>1, <3>1, <3>2 DEF Below, Retyped
    <3>3. CASE k # n
      <4>1. k \in 1..(n - 1) /\ s[k] = fs[k]
        BY <3>3
      <4>2. Below(fs, n, m.bodies)
        BY <1>1 DEF Fits, Placed
      <4>3. IsSeq(fs[k].path)
        BY <4>1, Shorter DEF Fits
      <4>4. PICK a \in Nat : a = Len(fs[k].path)
        BY <4>3, SeqLength
      <4>5. a < Len(fs[n].path)
        BY <4>1, <4>2, <4>4 DEF Below
      <4>6. fs[k].path # fs[n].path
        BY <4>4, <4>5
      <4> QED
        BY <2>1, <2>2, <3>1, <4>1, <4>6 DEF Below, Retyped, OnBody
    <3> QED
      BY <3>2, <3>3
  <2>5. ASSUME s[k].kind # "body"
        PROVE  Within(s, k, marks)
    <3>1. k \in 1..(n - 1) /\ s[k] = fs[k]
      BY <2>5
    <3>2. Within(fs, k, marks)
      BY <1>1, <2>1, <2>5 DEF Fits, Placed
    <3>3. k > 1 /\ s[k - 1] = fs[k - 1]
      BY <2>1, <3>2 DEF Within
    <3> QED
      BY <3>1, <3>2, <3>3 DEF Within
  <2> QED
    BY <2>3, <2>4, <2>5
<1>6. OnlyKey(fs[n], marks) /\ \A q \in DOMAIN m.bodies : ~Beneath(fs[n].path, q)
  BY <1>1 DEF Fits, Accounted, Accounts
<1>7. Accounted(s, new.bodies, marks)
  <2> SUFFICES ASSUME NEW k \in 1..n, s[k].kind = "body"
               PROVE  /\ \A q \in DOMAIN m.bodies : Beneath(s[k].path, q) => Accounts(s[k], q)
                      /\ s[k].fresh /\ Schema[s[k].type].role = "any" => OnlyKey(s[k], marks)
    BY <1>1 DEF Accounted
  <2>1. CASE k = n
    BY <1>6, <2>1 DEF OnlyKey
  <2>2. CASE k # n
    <3>1. s[k] = fs[k]
      BY <2>2
    <3> QED
      BY <1>1, <3>1 DEF Fits, Accounted
  <2> QED
    BY <2>1, <2>2
<1>8. Landed(new.bodies, marks)
  <2> SUFFICES ASSUME NEW q \in marks
               PROVE  IsSeq(q) /\ LandsIn(new.bodies, q)
    BY DEF Landed
  <2>1. IsSeq(q) /\ LandsIn(m.bodies, q)
    BY DEF Fits, Landed
  <2>2. PICK l \in Nat : l = Len(q)
    BY <2>1, SeqLength
  <2>3. PICK p : l = Len(q) /\ p = SubSeq(q, 1, l - 1)
    BY <2>2
  <2>4. p \in DOMAIN m.bodies /\ HasField(m.bodies[p], q[l][1]) /\ q # <<>> /\ q[l][3] = 0
    BY <2>1, <2>3 DEF LandsIn
  <2>5. HasField(new.bodies[p], q[l][1])
    <3>1. CASE p # fs[n].path
      BY <2>4, <3>1 DEF HasField, Retyped
    <3>2. CASE p = fs[n].path
      <4>1. l # 0
        BY <2>1, <2>3, <2>4, SeqEmpty
      <4>2. PICK k \in Nat : k = l - 1
        BY <4>1
      <4>3. k \in 0..Len(q) /\ FirstOf(q, k, p)
        BY <2>3, <4>2 DEF FirstOf
      <4>4. Len(p) = k
        BY <2>1, <4>3, SeqFirst
      <4>5. Beneath(p, q) /\ Len(q) = Len(p) + 1
        BY <2>3, <4>2, <4>4 DEF Beneath
      <4>6. q[l][1] = "type_url"
        BY <1>6, <2>3, <3>2, <4>5 DEF OnlyKey
      <4> QED
        BY <1>2, <3>2, <4>6 DEF HasField
    <3> QED
      BY <3>1, <3>2
  <2> QED
    BY <1>1, <2>1, <2>3, <2>4, <2>5 DEF LandsIn
<1> QED
  BY <1>2, <1>3, <1>4, <1>5, <1>7, <1>8 DEF Fits

-----------------------------------------------------------------------------
(***************************************************************************)
(* What a step does to them.                                               *)
(***************************************************************************)

\* A field of a type is found there by its name.
LEMMA FieldIs ==
  ASSUME NEW type \in Types, NEW f \in FieldsOf(type)
  PROVE  Knows(type, f.name) /\ FieldOf(type, f.name) = f
<1> QED
  BY SchemaAssumption DEF Knows, FieldOf

\* A frame that takes the place of the top one, and one that is opened over it.
LEMMA StaysChanges ==
  ASSUME Stack, NEW under, Stays(under), Alike(Top, under)
  PROVE  \E n \in Nat : Changed(frames, frames', n) /\ frames[n] = Top /\ frames'[n] = under
<1>1. PICK n \in Nat : n = Len(frames) /\ n >= 1 /\ DOMAIN frames = 1..n
  BY Positions DEF Stack
<1>2. IsSeq(frames) /\ Replaces(frames, under, frames')
  BY DEF Stack, Levels, Stays, Becomes, Replaces
<1>3. /\ IsSeq(frames') /\ Len(frames') = n /\ frames'[n] = under
      /\ \A k \in 1..(n - 1) : frames'[k] = frames[k]
  BY <1>1, <1>2, SeqReplace
<1>4. frames[n] = Top /\ DOMAIN frames' = 1..n
  BY <1>1, <1>3, SeqLength DEF Top
<1>5. Changed(frames, frames', n)
  BY <1>1, <1>2, <1>3, <1>4 DEF Changed, Frames
<1> QED
  BY <1>3, <1>4, <1>5

\* Opening a bracket changes what the top frame has bound and puts a frame on it.
LEMMA OpensChanges ==
  ASSUME Stack, NEW under, NEW frame, NEW at, Opens(under, frame, at), Alike(Top, under)
  PROVE  \E n \in Nat : \E s : /\ Changed(frames, s, n) /\ frames[n] = Top /\ s[n] = under
                               /\ Longer(s, frames', n) /\ frames'[n + 1] = frame
<1>1. PICK n \in Nat : n = Len(frames) /\ n >= 1 /\ DOMAIN frames = 1..n
  BY Positions DEF Stack
<1>2. PICK s : IsSeq(frames) /\ Replaces(frames, under, s) /\ Appends(s, frame, frames')
  BY DEF Stack, Levels, Opens, Becomes, Replaces, Appends
<1>3. /\ IsSeq(s) /\ Len(s) = n /\ s[n] = under
      /\ \A k \in 1..(n - 1) : s[k] = frames[k]
  BY <1>1, <1>2, SeqReplace
<1>4. frames[n] = Top /\ DOMAIN s = 1..n
  BY <1>1, <1>3, SeqLength DEF Top
<1>5. /\ IsSeq(frames') /\ Len(frames') = n + 1 /\ frames'[n + 1] = frame
      /\ \A k \in 1..n : frames'[k] = s[k]
  BY <1>2, <1>3, SeqAppend
<1>6. DOMAIN frames' = 1..(n + 1)
  BY <1>5, SeqLength
<1>7. Changed(frames, s, n)
  BY <1>1, <1>2, <1>3, <1>4 DEF Changed, Frames
<1>8. Longer(s, frames', n)
  BY <1>1, <1>3, <1>4, <1>5, <1>6 DEF Longer, Frames
<1> QED
  BY <1>3, <1>4, <1>5, <1>7, <1>8

\* A frame is where it is.
LEMMA TopAlike ==
  Alike(Top, Top)
<1> QED
  BY DEF Alike

\* The frame on top stands on a body of the message, whose path is the prefix.
LEMMA TopPlaced ==
  ASSUME Stack, Built, Top.kind # "skip"
  PROVE  /\ Top.path \in DOMAIN msg.bodies /\ IsSeq(Top.path) /\ prefix = Top.path
         /\ msg.bodies[Top.path].type = Top.type
<1>1. PICK n \in Nat : n = Len(frames) /\ n >= 1 /\ DOMAIN frames = 1..n
  BY Positions DEF Stack
<1>2. frames[n] = Top /\ n \in DOMAIN frames /\ Frames(frames, n)
  BY <1>1 DEF Top, Frames, Stack, Levels
<1>3. OnBody(frames, n, msg.bodies)
  BY <1>2 DEF Built, Fits, Placed
<1>4. Top.path \in DOMAIN msg.bodies /\ IsSeq(Top.path)
  BY <1>2, <1>3 DEF OnBody, Built, Fits, Typed
<1>5. prefix = Top.path
  BY <1>2, PrefixOnTop DEF Built, Fits
<1>6. msg.bodies[Top.path].type = Top.type
  <2>1. CASE Top.kind = "body"
    BY <1>2, <2>1 DEF Built, Fits, Placed, Below
  <2>2. CASE Top.kind # "body"
    <3>1. Within(frames, n, present)
      BY <1>2, <2>2 DEF Built, Fits, Placed
    <3>2. /\ n > 1 /\ frames[n - 1].kind = "body"
          /\ frames[n - 1].type = Top.type /\ frames[n - 1].path = Top.path
      BY <1>2, <3>1 DEF Within
    <3>3. n - 1 \in DOMAIN frames
      BY <1>1, <3>2
    <3>4. Below(frames, n - 1, msg.bodies)
      BY <3>2, <3>3 DEF Built, Fits, Placed
    <3> QED
      BY <3>2, <3>4 DEF Below
  <2> QED
    BY <2>1, <2>2
<1> QED
  BY <1>4, <1>5, <1>6

\* A mark of a field a body has lands on it.
LEMMA MarkLands ==
  ASSUME NEW bodies, NEW p \in DOMAIN bodies, IsSeq(p), NEW name, HasField(bodies[p], name),
         NEW q, q = At(p, name)
  PROVE  IsSeq(q) /\ Len(q) = Len(p) + 1 /\ q[Len(q)][1] = name /\ LandsIn(bodies, q)
<1>1. PICK s : Appends(p, s, q) /\ s[1] = name /\ s[3] = 0
  BY AtAppends
<1>2. PICK l \in Nat : l = Len(p)
  BY SeqLength
<1>3. IsSeq(q) /\ Len(q) = l + 1 /\ q[l + 1] = s /\ SubSeq(q, 1, l) = p
  BY <1>1, <1>2, LongerPath
<1>4. Len(q) - 1 = l /\ q[Len(q)] = s
  BY <1>3
<1>5. q # <<>>
  BY <1>3, SeqEmpty
<1> QED
  BY <1>1, <1>2, <1>3, <1>4, <1>5 DEF LandsIn

\* An entry binds its field in the frame on top, and marks it.
LEMMA EntryMarked ==
  ASSUME Stack, Built, Top.kind = "body", NEW f \in FieldsOf(Top.type),
         NEW under, under = Bound(Top, f),
         NEW n \in Nat, NEW s, Changed(frames, s, n), frames[n] = Top, s[n] = under,
         NEW more, more = present \cup {At(prefix, f.name)}
  PROVE  /\ Fits(s, msg, more, prefix) /\ At(Top.path, f.name) \in more
         /\ under.kind = "body" /\ ~under.fresh /\ under.path = Top.path
         /\ under.type = Top.type /\ prefix = Top.path
<1>1. /\ Stands(Top) /\ Top.type \in Types /\ prefix = Top.path /\ IsSeq(Top.path)
      /\ Top.path \in DOMAIN msg.bodies /\ msg.bodies[Top.path].type = Top.type
  BY TopStands, TopPlaced DEF Stands
<1>2. under.kind = "body" /\ ~under.fresh /\ under.path = Top.path /\ under.type = Top.type
  BY <1>1, BoundFrame
<1>3. PICK q : q = At(Top.path, f.name)
  OBVIOUS
<1>4. HasField(msg.bodies[Top.path], f.name)
  BY <1>1, FieldIs DEF HasField
<1>5. IsSeq(q) /\ Len(q) = Len(Top.path) + 1 /\ LandsIn(msg.bodies, q)
  BY <1>1, <1>3, <1>4, MarkLands
<1>6. Marks(under, q)
  BY <1>2, <1>5 DEF Marks
<1>7. Fits(s, msg, more, prefix)
  BY <1>1, <1>3, <1>5, <1>6, FitsStays DEF Built
<1> QED
  BY <1>1, <1>2, <1>7

\* Binding a field leaves a frame where it is.
LEMMA BoundAlike ==
  ASSUME NEW frame, NEW f, Stands(frame), frame.kind = "body"
  PROVE  Alike(frame, Bound(frame, f))
<1>1. PICK g : g = Bound(frame, f)
  OBVIOUS
<1>2. Alike(frame, g)
  BY <1>1, BoundFrame, BoundNames DEF Alike
<1> QED
  BY <1>1, <1>2

\* A null marks its field and builds nothing.
LEMMA BuiltNull ==
  ASSUME Stack, Counted, Built, NEW it, Null(it), ~Refuses(it)
  PROVE  Built'
<1>1. PICK f : f = FieldOf(Top.type, it.name)
  OBVIOUS
<1>2. /\ InBody(it) /\ Knows(Top.type, it.name) /\ Top.kind = "body"
      /\ Stays(Bound(Top, f)) /\ present' = present \cup {At(prefix, f.name)} /\ UNCHANGED msg
  BY <1>1 DEF Null, InBody, MarkPresent
<1>3. f \in FieldsOf(Top.type)
  BY <1>1, <1>2, EntryTaken
<1>4. PICK under : under = Bound(Top, f)
  OBVIOUS
<1>5. PICK n \in Nat : Changed(frames, frames', n) /\ frames[n] = Top /\ frames'[n] = under
  BY <1>2, <1>4, TopStands, BoundAlike, StaysChanges
<1>6. Fits(frames', msg, present', prefix)
  BY <1>2, <1>3, <1>4, <1>5, EntryMarked
<1> QED
  BY <1>2, <1>6 DEF Built, Stays

\* Nothing lies under the other members of a oneof of which none is bound.
LEMMA SiblingsUnbound ==
  ASSUME NEW frame, frame.type \in Types, NEW bodies, Typed(bodies), IsSeq(frame.path),
         \A q \in DOMAIN bodies : Beneath(frame.path, q) => Accounts(frame, q),
         NEW f \in FieldsOf(frame.type), ~CheckOneof(frame, f), NEW q \in DOMAIN bodies
  PROVE  ~Through(frame.path, Siblings(frame.type, f), q)
<1> SUFFICES ASSUME Through(frame.path, Siblings(frame.type, f), q) PROVE FALSE
  OBVIOUS
<1>1. PICK name : name = q[Len(frame.path) + 1][1]
  OBVIOUS
<1>2. IsSeq(q)
  BY DEF Typed
<1>3. Len(q) \in Nat /\ Len(frame.path) \in Nat
  BY <1>2, SeqLength
<1>4. Beneath(frame.path, q) /\ name \in Siblings(frame.type, f)
  BY <1>1, <1>3 DEF Through, Begins, Beneath
<1>5. PICK g \in FieldsOf(frame.type) :
        g.name = name /\ RealOneof(g) = RealOneof(f) /\ RealOneof(f) # "none"
  BY <1>4 DEF Siblings
<1>6. FieldOf(frame.type, name) = g
  BY <1>5, FieldIs
<1>7. f.oneof # "none" /\ g.oneof = f.oneof
  BY <1>5 DEF RealOneof
<1>8. g.oneof \in frame.oneofs
  BY <1>1, <1>4, <1>6, <1>7 DEF Accounts
<1> QED
  BY <1>7, <1>8 DEF CheckOneof

\* Counts that did not change are kept.
LEMMA SameElems ==
  ASSUME NEW m, NEW new, Counts(m), new.elems = m.elems
  PROVE  Counts(new) /\ CountsKept(m, new)
<1>1. Counts(new)
  BY DEF Counts
<1>2. ASSUME NEW p, NEW name
      PROVE  Count(m, p, name) <= Count(new, p, name)
  <2>1. Count(m, p, name) = Count(new, p, name) /\ Count(m, p, name) \in Nat
    BY CountIsInt DEF Count
  <2> QED
    BY <2>1
<1> QED
  BY <1>1, <1>2 DEF CountsKept

\* Where a field is set of whose oneof nothing is bound, every body stays.
LEMMA SetClearsNothing ==
  ASSUME Stack, Counted, Built, Top.kind = "body", NEW f \in FieldsOf(Top.type),
         ~CheckOneof(Top, f), NEW c,
         c.bodies = Cut(msg.bodies, Top.path, Siblings(Top.type, f)),
         c.elems = Cut(msg.elems, Top.path, Siblings(Top.type, f))
  PROVE  Counts(c) /\ Same(msg.bodies, c.bodies) /\ CountsKept(msg, c)
<1>1. Top.type \in Types /\ IsSeq(Top.path)
  BY TopStands, TopPlaced DEF Stands
<1>2. Len(frames) \in DOMAIN frames
  BY Positions DEF Stack
<1>3. \A q \in DOMAIN msg.bodies : Beneath(Top.path, q) => Accounts(Top, q)
  BY <1>2 DEF Built, Fits, Accounted, Top
<1>4. \A q \in DOMAIN msg.bodies : ~Through(Top.path, Siblings(Top.type, f), q)
  BY <1>1, <1>3, SiblingsUnbound DEF Built, Fits
<1>5. Same(msg.bodies, c.bodies) /\ CountsKept(msg, c)
  BY <1>1, <1>4, NothingCut DEF Counted, Built, Fits
<1>6. Counts(c)
  BY CutKeeps, FewerCounted DEF Counted
<1> QED
  BY <1>5, <1>6

\* A scalar cuts nothing that was marked away.
LEMMA BuiltScalar ==
  ASSUME Stack, Counted, Built, NEW it, Scalar(it), ~Refuses(it)
  PROVE  Built'
<1>1. PICK f : f = FieldOf(Top.type, it.name)
  OBVIOUS
<1>2. PICK leaf : leaf = [text |-> it.text, load |-> it.load]
  OBVIOUS
<1>3. /\ InBody(it) /\ Knows(Top.type, it.name) /\ Top.kind = "body"
      /\ Stays(Bound(Top, f)) /\ present' = present \cup {At(prefix, f.name)}
      /\ msg' = SetLeaf(msg, Top.path, Top.type, f, leaf)
  BY <1>1, <1>2 DEF Scalar, InBody, MarkPresent
<1>4. f \in FieldsOf(Top.type) /\ ~CheckOneof(Top, f)
  BY <1>1, ScalarTaken
<1>5. PICK under : under = Bound(Top, f)
  OBVIOUS
<1>6. PICK n \in Nat : Changed(frames, frames', n) /\ frames[n] = Top /\ frames'[n] = under
  BY <1>3, <1>5, TopStands, BoundAlike, StaysChanges
<1>7. Fits(frames', msg, present', prefix)
  BY <1>3, <1>4, <1>5, <1>6, EntryMarked
<1>8. Counts(msg') /\ Same(msg.bodies, msg'.bodies) /\ CountsKept(msg, msg')
  BY <1>3, <1>4, SetLeafDoes, SetClearsNothing
<1>9. Fits(frames', msg', present', prefix)
  BY <1>7, <1>8, FitsSame DEF Counted
<1> QED
  BY <1>3, <1>9 DEF Built, Stays

\* The frame of a body that is opened.
LEMMA BodyOpens ==
  ASSUME NEW type, NEW path, NEW element, NEW frame, frame = Body(type, path, element)
  PROVE  /\ frame.kind = "body" /\ frame.from = prefix /\ frame.path = path
         /\ frame.type = type /\ frame.fresh
<1> QED
  BY DEF Body, Opening

\* A body that is put at a path there was none at.
LEMMA PutGrows ==
  ASSUME NEW old, NEW new, NEW p \in DOMAIN old, NEW s, NEW q, Appends(p, s, q),
         q \notin DOMAIN old, NEW f, f.body \in Types, new = Put(old, q, NewBody(f))
  PROVE  Grows(old, new, p, s, q) /\ new[q].type = f.body
<1>1. PICK value : value = NewBody(f)
  OBVIOUS
<1>2. value.type = f.body /\ IsSeq(value.urls)
  BY <1>1, NoUrls
<1>3. /\ DOMAIN new = DOMAIN old \cup {q} /\ new[q] = value
      /\ \A r \in DOMAIN old : r # q => new[r] = old[r]
  <2>1. new = Put(old, q, value)
    BY <1>1
  <2> QED
    BY <2>1 DEF Put
<1> QED
  BY <1>2, <1>3 DEF Grows

\* The frame over which a body was opened, the body and its frame.
LEMMA FitsOpens ==
  ASSUME NEW n \in Nat, NEW fs, NEW s, Longer(fs, s, n), NEW old, NEW m, NEW marks, NEW at,
         NEW p, NEW e, NEW q, Typed(old), Landed(old, marks), Grows(old, m.bodies, p, e, q),
         Fits(fs, m, marks, at), fs[n].kind # "skip", fs[n].path = p,
         s[n + 1].kind = "body", s[n + 1].from = at, s[n + 1].path = q,
         s[n + 1].type = m.bodies[q].type
  PROVE  Fits(s, m, marks, q)
<1>1. p \in DOMAIN old /\ IsSeq(p) /\ Appends(p, e, q) /\ q \notin DOMAIN old
      /\ DOMAIN m.bodies = DOMAIN old \cup {q}
  BY DEF Grows, Typed
<1>2. PICK l \in Nat : l = Len(p) /\ Len(q) = l + 1 /\ IsSeq(q)
  BY <1>1, LongerPath
<1>3. \A r \in DOMAIN m.bodies : ~Beneath(q, r)
  <2>1. \A r \in DOMAIN old : ~Beneath(q, r)
    BY <1>1, <1>2, NothingUnder
  <2>2. ~Beneath(q, q)
    BY <1>2 DEF Beneath
  <2> QED
    BY <1>1, <2>1, <2>2
<1>4. \A r \in marks : Beneath(q, r) => Len(r) # Len(q) + 1
  BY <1>1, <1>2, NothingMarked
<1>5. Len(fs[n].path) < Len(q) /\ q \in DOMAIN m.bodies
  BY <1>1, <1>2
<1> QED
  BY <1>3, <1>4, <1>5, FitsBody

\* A message field gets a body of its own and the prefix its path.
LEMMA BuiltMessage ==
  ASSUME Stack, Counted, Built, NEW it, Message(it), ~Refuses(it)
  PROVE  Built'
<1>1. PICK f : f = FieldOf(Top.type, it.name)
  OBVIOUS
<1>2. PICK q : q = At(Top.path, f.name)
  OBVIOUS
<1>3. /\ Top.kind = "body" /\ present' = present \cup {At(prefix, f.name)}
      /\ msg' = SetBody(msg, Top.path, Top.type, f)
      /\ Opens(Bound(Top, f), Body(f.body, q, NoElement), At(prefix, f.name))
  BY <1>1, <1>2 DEF Message, InBody, MarkPresent
<1>4. /\ f \in FieldsOf(Top.type) /\ f.shape = "one" /\ f.body \in Types
      /\ ~CheckBound(Top, f) /\ ~CheckOneof(Top, f)
  BY <1>1, MessageTaken
<1>5. PICK under, frame : under = Bound(Top, f) /\ frame = Body(f.body, q, NoElement)
  OBVIOUS
<1>6. PICK n \in Nat : \E s : /\ Changed(frames, s, n) /\ frames[n] = Top /\ s[n] = under
                               /\ Longer(s, frames', n) /\ frames'[n + 1] = frame
  BY <1>3, <1>5, TopStands, BoundAlike, OpensChanges
<1>7. PICK s : /\ Changed(frames, s, n) /\ frames[n] = Top /\ s[n] = under
               /\ Longer(s, frames', n) /\ frames'[n + 1] = frame
  BY <1>6
<1>8. /\ Fits(s, msg, present', prefix) /\ At(Top.path, f.name) \in present'
      /\ under.kind = "body" /\ ~under.fresh /\ under.path = Top.path
      /\ under.type = Top.type /\ prefix = Top.path
  BY <1>3, <1>4, <1>5, <1>7, EntryMarked
<1>9. PICK c : c = Cleared(msg, Top.path, Siblings(Top.type, f))
  OBVIOUS
<1>10. Counts(c) /\ Same(msg.bodies, c.bodies) /\ CountsKept(msg, c)
  <2>1. /\ c.bodies = Cut(msg.bodies, Top.path, Siblings(Top.type, f))
        /\ c.elems = Cut(msg.elems, Top.path, Siblings(Top.type, f))
    BY <1>9 DEF Cleared
  <2> QED
    BY <1>3, <1>4, <2>1, SetClearsNothing
<1>11. Fits(s, c, present', prefix)
  BY <1>8, <1>10, FitsSame DEF Counted
<1>12. msg'.bodies = Put(c.bodies, q, NewBody(f)) /\ msg'.elems = c.elems
  BY <1>2, <1>3, <1>9, SetBodyDoes DEF Cleared
<1>13. Counts(msg') /\ CountsKept(c, msg')
  BY <1>10, <1>12, SameElems
<1>14. /\ Top.path \in DOMAIN msg.bodies /\ IsSeq(Top.path) /\ Top.type \in Types
       /\ Len(frames) \in DOMAIN frames
  BY <1>3, TopPlaced, TopStands, Positions DEF Stands, Stack
<1>15. PICK e : Appends(Top.path, e, q) /\ e[1] = f.name /\ e[3] = 0
  BY <1>2, AtAppends
<1>16. q \notin DOMAIN c.bodies
  <2> SUFFICES ASSUME q \in DOMAIN msg.bodies PROVE FALSE
    BY <1>10 DEF Same
  <2>1. PICK l \in Nat : /\ l = Len(Top.path) /\ Len(q) = l + 1 /\ q[l + 1] = e
                         /\ SubSeq(q, 1, l) = Top.path
    BY <1>14, <1>15, LongerPath
  <2>2. Beneath(Top.path, q) /\ q[Len(Top.path) + 1][1] = f.name
    BY <1>15, <2>1 DEF Beneath
  <2>3. Accounts(Top, q)
    BY <1>3, <1>14, <2>2 DEF Built, Fits, Accounted, Top
  <2>4. f.name \in Top.bound
    BY <1>4, <1>14, <2>2, <2>3, FieldIs DEF Accounts
  <2> QED
    BY <1>4, <2>4 DEF CheckBound
<1>17. Grows(c.bodies, msg'.bodies, Top.path, e, q) /\ msg'.bodies[q].type = f.body
  BY <1>4, <1>10, <1>12, <1>14, <1>15, <1>16, PutGrows DEF Same
<1>18. Holds(under, f.name)
  <2>1. /\ f.name \in under.bound /\ (f.oneof # "none" => f.oneof \in under.oneofs)
    BY <1>3, <1>4, <1>5, TopStands, BoundNames
  <2>2. Knows(under.type, f.name) /\ FieldOf(under.type, f.name) = f
    BY <1>4, <1>8, <1>14, FieldIs
  <2> QED
    BY <1>8, <2>1, <2>2 DEF Holds
<1>19. Frames(s, n)
  BY <1>7 DEF Longer
<1>20. e[3] \in Nat /\ e[3] <= Count(msg', Top.path, e[1])
  <2>1. Count(msg', Top.path, e[1]) \in Nat
    BY <1>13, CountIsInt
  <2> QED
    BY <1>15, <2>1
<1>21. Fits(s, msg', present', prefix)
  BY <1>7, <1>8, <1>10, <1>11, <1>13, <1>15, <1>17, <1>18, <1>19, <1>20, FitsGrows
<1>22. Typed(c.bodies) /\ Landed(c.bodies, present')
  BY <1>11 DEF Fits
<1>23. Fits(frames', msg', present', q)
  BY <1>5, <1>7, <1>8, <1>17, <1>21, <1>22, BodyOpens, FitsOpens
<1>24. prefix' = q
  BY <1>2, <1>3, <1>8 DEF Opens
<1> QED
  BY <1>23, <1>24 DEF Built

\* The frame that is opened for the elements of a field, or for a value that is dropped.
LEMMA HolderOpens ==
  ASSUME NEW kind, NEW close, NEW type, NEW field, NEW path, NEW element, NEW frame,
         frame = Opening(kind, close, type, field, path, element)
  PROVE  /\ frame.kind = kind /\ frame.from = prefix /\ frame.path = path
         /\ frame.type = type /\ frame.field = field
<1> QED
  BY DEF Opening

\* A list, a keyed block or a map opens on its field.
LEMMA BuiltCollection ==
  ASSUME Stack, Counted, Built, NEW it, Collection(it), ~Refuses(it)
  PROVE  Built'
<1>1. PICK f : f = FieldOf(Top.type, it.name)
  OBVIOUS
<1>2. PICK kind : kind = IF f.shape = "map" THEN "map" ELSE IF it.val = "list" THEN "list" ELSE "keyed"
  OBVIOUS
<1>3. PICK close : close = IF kind = "list" THEN "endlist" ELSE "end"
  OBVIOUS
<1>4. PICK under, frame :
        /\ under = Bound(Top, f)
        /\ frame = Opening(kind, close, Top.type, f.name, Top.path, NoElement)
  OBVIOUS
<1>5. /\ Top.kind = "body" /\ present' = present \cup {At(prefix, f.name)} /\ UNCHANGED msg
      /\ Opens(under, frame, prefix)
  BY <1>1, <1>2, <1>3, <1>4 DEF Collection, InBody, MarkPresent
<1>6. f \in FieldsOf(Top.type)
  BY <1>1, CollectionTaken
<1>7. Alike(Top, under)
  BY <1>4, <1>5, TopStands, BoundAlike
<1>8. PICK n \in Nat : \E s : /\ Changed(frames, s, n) /\ frames[n] = Top /\ s[n] = under
                              /\ Longer(s, frames', n) /\ frames'[n + 1] = frame
  BY <1>5, <1>7, OpensChanges
<1>9. PICK s : /\ Changed(frames, s, n) /\ frames[n] = Top /\ s[n] = under
               /\ Longer(s, frames', n) /\ frames'[n + 1] = frame
  BY <1>8
<1>10. /\ Fits(s, msg, present', prefix) /\ At(Top.path, f.name) \in present'
       /\ under.kind = "body" /\ ~under.fresh /\ under.path = Top.path
       /\ under.type = Top.type /\ prefix = Top.path
  BY <1>4, <1>5, <1>6, <1>9, EntryMarked
<1>11. /\ frame.kind = kind /\ frame.from = prefix /\ frame.path = Top.path
       /\ frame.type = Top.type /\ frame.field = f.name /\ kind \in {"list", "keyed", "map"}
  BY <1>2, <1>4, HolderOpens
<1>12. Top.type \in Types /\ f = FieldOf(frame.type, frame.field)
  BY <1>5, <1>6, <1>11, TopStands, FieldIs DEF Stands
<1>13. f.oneof # "none" => f.oneof \in under.oneofs
  BY <1>4, <1>5, TopStands, BoundNames
<1>14. Fits(frames', msg, present', prefix)
  BY <1>9, <1>10, <1>11, <1>12, <1>13, FitsElements
<1> QED
  BY <1>5, <1>14 DEF Built, Opens

\* A name no field has, or a value in one that is dropped: nothing is marked.
LEMMA BuiltDropped ==
  ASSUME Stack, Counted, Built, NEW it, Unknown(it) \/ Skipped(it), ~Refuses(it)
  PROVE  Built'
<1>1. PICK under, frame :
        /\ under = [Top EXCEPT !.fresh = FALSE]
        /\ frame = Opening("skip", IF it.val = "list" THEN "endlist" ELSE "end", "none", "none",
                           <<>>, NoElement)
  OBVIOUS
<1>2. /\ IF it.val \in {"list", "block"} THEN Opens(under, frame, prefix) ELSE Stays(under)
      /\ UNCHANGED <<msg, present>>
  BY <1>1 DEF Unknown, Skipped
<1>3. Alike(Top, under)
  BY <1>1, TopStands, SoiledFrame DEF Alike
<1>4. CASE it.val \in {"list", "block"}
  <2>1. Opens(under, frame, prefix)
    BY <1>2, <1>4
  <2>2. PICK n \in Nat : \E s : /\ Changed(frames, s, n) /\ Longer(s, frames', n)
                                /\ frames'[n + 1] = frame
    BY <1>3, <2>1, OpensChanges
  <2>3. PICK s : /\ Changed(frames, s, n) /\ Longer(s, frames', n) /\ frames'[n + 1] = frame
    BY <2>2
  <2>4. Fits(s, msg, present, prefix)
    BY <2>3, FitsStays DEF Built
  <2>5. frame.kind = "skip" /\ frame.from = prefix
    BY <1>1, HolderOpens
  <2>6. Fits(frames', msg, present, prefix)
    BY <2>3, <2>4, <2>5, FitsSkip
  <2> QED
    BY <1>2, <2>1, <2>6 DEF Built, Opens
<1>5. CASE it.val \notin {"list", "block"}
  <2>1. Stays(under)
    BY <1>2, <1>5
  <2>2. PICK n \in Nat : Changed(frames, frames', n)
    BY <1>3, <2>1, StaysChanges
  <2>3. Fits(frames', msg, present, prefix)
    BY <2>2, FitsStays DEF Built
  <2> QED
    BY <1>2, <2>1, <2>3 DEF Built, Stays
<1> QED
  BY <1>4, <1>5

\* The type of an Any: its body is of that type from now on.
LEMMA BuiltTypeEntry ==
  ASSUME Stack, Counted, Built, NEW it, TypeEntry(it), ~Refuses(it)
  PROVE  Built'
<1>1. PICK type, under : type = Urls[it.text] /\ under = [Top EXCEPT !.type = Urls[it.text]]
  OBVIOUS
<1>2. /\ Top.kind = "body" /\ Replaces(frames, under, frames') /\ UNCHANGED <<prefix, present>>
  BY <1>1 DEF TypeEntry, Becomes, Replaces
<1>3. type \in Types /\ Schema[Top.type].role = "any" /\ Top.fresh /\ Stands(Top)
  BY <1>1, TypeTaken, TopStands
<1>4. PICK n \in Nat : n = Len(frames) /\ n >= 1 /\ DOMAIN frames = 1..n
  BY Positions DEF Stack
<1>5. /\ IsSeq(frames') /\ Len(frames') = n /\ frames'[n] = under
      /\ \A k \in 1..(n - 1) : frames'[k] = frames[k]
  BY <1>2, <1>4, SeqReplace DEF Stack, Levels
<1>6. Frames(frames, n) /\ Frames(frames', n) /\ frames[n] = Top
  BY <1>4, <1>5, SeqLength DEF Frames, Top, Stack, Levels
<1>7. under.kind = "body" /\ under.path = Top.path /\ under.from = Top.from /\ under.type = type
  BY <1>1, <1>2, <1>3 DEF Stands
<1>8. PICK old, url : old = msg.bodies[Top.path].urls /\ url = it.text
  OBVIOUS
<1>9. PICK urls : Appends(old, url, urls)
  BY DEF Appends
<1>10. PICK body : body = [type |-> type, urls |-> urls]
  OBVIOUS
<1>11. msg'.elems = msg.elems /\ msg'.bodies = [msg.bodies EXCEPT ![Top.path] = body]
  <2>1. \E y : msg' = [msg EXCEPT !.bodies[Top.path] = body, !.leaves = y]
    BY <1>1, <1>8, <1>9, <1>10 DEF TypeEntry, Counted, Shaped, Appends
  <2> QED
    BY <2>1 DEF Counted, Shaped
<1>12. Top.path \in DOMAIN msg.bodies
  BY <1>2, TopPlaced
<1>13. body.type = type /\ body.urls = urls
  BY <1>10
<1>14. Retyped(msg.bodies, msg'.bodies, Top.path, type, url)
  BY <1>8, <1>9, <1>11, <1>12, <1>13 DEF Retyped
<1>15. Fits(frames', msg', present, prefix)
  BY <1>2, <1>3, <1>5, <1>6, <1>7, <1>11, <1>14, FitsRetypes DEF Built, Counted
<1> QED
  BY <1>2, <1>15 DEF Built

\* The path of the element after those counted is that of no body.
LEMMA FreshIndex ==
  ASSUME NEW m, Counts(m), NEW marks, Numbered(m, marks), NEW p, IsSeq(p), NEW name,
         NEW q, q = IndexAt(p, name, Count(m, p, name))
  PROVE  q \notin DOMAIN m.bodies
<1> SUFFICES ASSUME q \in DOMAIN m.bodies PROVE FALSE
  OBVIOUS
<1>1. PICK c \in Nat : c = Count(m, p, name)
  BY CountIsInt
<1>2. PICK s : Appends(p, s, q) /\ s[1] = name /\ s[3] = c + 1
  BY <1>1, IndexAtAppends
<1>3. PICK l \in Nat : /\ l = Len(p) /\ Len(q) = l + 1 /\ q[l + 1] = s /\ SubSeq(q, 1, l) = p
  BY <1>2, LongerPath
<1>4. PICK h \in 1..Len(q) : h = l + 1
  BY <1>3
<1>5. q[h] = s /\ SubSeq(q, 1, h - 1) = p
  BY <1>3, <1>4
<1>6. q[h][3] <= Count(m, SubSeq(q, 1, h - 1), q[h][1])
  BY DEF Numbered
<1>7. s[3] <= Count(m, p, name)
  BY <1>2, <1>5, <1>6
<1> QED
  BY <1>1, <1>2, <1>7

\* A body is added for an element of the field whose elements are being read.
LEMMA ElementGrows ==
  ASSUME Stack, Counted, Built, Top.kind \in {"list", "keyed", "map"}, ~Overfull,
         Field.body \in Types, NEW q, NEW e, Appends(Top.path, e, q), e[1] = Field.name,
         e[3] \in Nat, e[3] <= Count(msg, Top.path, Field.name) + 1,
         q \notin DOMAIN msg.bodies, NEW new, new = AddBody(msg, Top.path, Field, q),
         NEW n \in Nat, NEW s, Changed(frames, s, n), frames[n] = Top
  PROVE  /\ Fits(s, new, present, prefix) /\ Counts(new)
         /\ Grows(msg.bodies, new.bodies, Top.path, e, q) /\ new.bodies[q].type = Field.body
         /\ s[n].kind # "skip" /\ s[n].path = Top.path
<1>1. /\ Stands(Top) /\ Field \in FieldsOf(Top.type) /\ Field.shape # "one"
      /\ Field.name = Top.field /\ Top.type \in Types
  BY TopStands, FieldNamed DEF Stands
<1>2. Top.path \in DOMAIN msg.bodies
  BY TopPlaced
<1>3. /\ new.bodies = Put(msg.bodies, q, NewBody(Field))
      /\ new.elems = Put(msg.elems, At(Top.path, Field.name), Count(msg, Top.path, Field.name) + 1)
  BY AddBodyDoes DEF Counted
<1>4. Grows(msg.bodies, new.bodies, Top.path, e, q) /\ new.bodies[q].type = Field.body
  BY <1>2, <1>3, PutGrows
<1>5. Counts(new)
  BY <1>1, <1>3, OneMoreCounted DEF Stack
<1>6. /\ CountsKept(msg, new)
      /\ Count(new, Top.path, Field.name) = Count(msg, Top.path, Field.name) + 1
  BY <1>3, KeptWhenMore DEF Counted
<1>7. At(Top.path, Field.name) \in present
  <2>1. n \in DOMAIN frames
    BY DEF Changed, Frames
  <2>2. Within(frames, n, present)
    BY <2>1 DEF Built, Fits, Placed
  <2> QED
    BY <1>1, <2>2 DEF Within
<1>8. Frames(s, n) /\ Alike(Top, s[n])
  BY DEF Changed
<1>9. s[n].kind \in {"list", "keyed", "map"} /\ s[n].path = Top.path /\ s[n].type = Top.type
      /\ s[n].field = Top.field
  BY <1>8 DEF Alike
<1>10. Holds(s[n], Field.name)
  BY <1>1, <1>9, FieldIs DEF Holds
<1>11. Fits(s, msg, present, prefix)
  BY FitsStays DEF Built
<1>12. Fits(s, new, present, prefix)
  <2>1. Grows(msg.bodies, new.bodies, s[n].path, e, q) /\ s[n].kind # "skip"
    BY <1>4, <1>9
  <2>2. Holds(s[n], e[1]) /\ At(s[n].path, e[1]) \in present
    BY <1>7, <1>9, <1>10
  <2>3. e[3] <= Count(new, s[n].path, e[1])
    BY <1>6, <1>9
  <2> QED
    BY <1>5, <1>6, <1>8, <1>11, <2>1, <2>2, <2>3, FitsGrows DEF Counted
<1> QED
  BY <1>4, <1>5, <1>9, <1>12

\* An element that is a body.
LEMMA BuiltElement ==
  ASSUME Stack, Counted, Built, Top.kind \in {"list", "map"}, ~Overfull,
         Field.body \in Types, NEW q, NEW e, Appends(Top.path, e, q), e[1] = Field.name,
         e[3] \in Nat, e[3] <= Count(msg, Top.path, Field.name) + 1,
         q \notin DOMAIN msg.bodies, msg' = AddBody(msg, Top.path, Field, q),
         NEW element, Opens(Top, Body(Field.body, q, element), q), UNCHANGED present
  PROVE  Built'
<1>1. PICK frame : frame = Body(Field.body, q, element)
  OBVIOUS
<1>2. Opens(Top, frame, q)
  BY <1>1
<1>3. PICK n \in Nat : \E s : /\ Changed(frames, s, n) /\ frames[n] = Top
                              /\ Longer(s, frames', n) /\ frames'[n + 1] = frame
  BY <1>2, TopAlike, OpensChanges
<1>4. PICK s : /\ Changed(frames, s, n) /\ frames[n] = Top
               /\ Longer(s, frames', n) /\ frames'[n + 1] = frame
  BY <1>3
<1>5. /\ Fits(s, msg', present, prefix)
      /\ Grows(msg.bodies, msg'.bodies, Top.path, e, q) /\ msg'.bodies[q].type = Field.body
      /\ s[n].kind # "skip" /\ s[n].path = Top.path
  BY <1>4, ElementGrows
<1>6. /\ frame.kind = "body" /\ frame.from = prefix /\ frame.path = q /\ frame.type = Field.body
  BY <1>1, BodyOpens
<1>7. Typed(msg.bodies) /\ Landed(msg.bodies, present)
  BY DEF Built, Fits
<1>8. Fits(frames', msg', present, q)
  BY <1>4, <1>5, <1>6, <1>7, FitsOpens
<1> QED
  BY <1>2, <1>8 DEF Built, Opens

\* An element that is a literal.
LEMMA BuiltLeaf ==
  ASSUME Stack, Counted, Built, Top.kind \in {"list", "map"}, ~Overfull,
         NEW q, NEW leaf, msg' = AddLeaf(msg, Top.path, Field, q, leaf),
         Stays(Top), UNCHANGED present
  PROVE  Built'
<1>1. /\ msg'.bodies = msg.bodies
      /\ msg'.elems = Put(msg.elems, At(Top.path, Field.name), Count(msg, Top.path, Field.name) + 1)
  BY AddLeafDoes DEF Counted
<1>2. Counts(msg')
  BY <1>1, FieldNamed, OneMoreCounted DEF Stack
<1>3. CountsKept(msg, msg') /\ Same(msg.bodies, msg'.bodies)
  BY <1>1, KeptWhenMore DEF Counted, Same
<1>4. PICK n \in Nat : Changed(frames, frames', n)
  BY TopAlike, StaysChanges
<1>5. Fits(frames', msg, present, prefix)
  BY <1>4, FitsStays DEF Built
<1>6. Fits(frames', msg', present, prefix)
  BY <1>2, <1>3, <1>5, FitsSame DEF Counted
<1> QED
  BY <1>6 DEF Built, Stays

\* An element of a list that is a message gets the next number.
LEMMA BuiltListItem ==
  ASSUME Stack, Counted, Built, NEW it, ListItem(it), ~Refuses(it)
  PROVE  Built'
<1>1. PICK c \in Nat : c = Count(msg, Top.path, Field.name)
  BY CountIsInt DEF Counted
<1>2. PICK q, element :
        /\ q = IndexAt(Top.path, Field.name, c)
        /\ element = IF KeyField(Field) # "none" THEN Element(Field, "", FALSE) ELSE NoElement
  OBVIOUS
<1>3. Top.kind = "list" /\ ~Overfull /\ UNCHANGED present
  BY ListItemTaken DEF ListItem
<1>4. /\ IsSeq(Top.path) /\ prefix = Top.path
  BY <1>3, TopPlaced
<1>5. CASE it.val = "block"
  <2>1. /\ msg' = AddBody(msg, Top.path, Field, q)
        /\ Opens(Top, Body(Field.body, q, element), q)
    BY <1>1, <1>2, <1>4, <1>5 DEF ListItem
  <2>2. Field.body \in Types
    BY <1>5, ListItemTaken DEF Scalars
  <2>3. PICK name : name = Field.name
    OBVIOUS
  <2>4. q = IndexAt(Top.path, name, c)
    BY <1>2, <2>3
  <2>5. PICK e : Appends(Top.path, e, q) /\ e[1] = name /\ e[3] = c + 1
    BY <2>4, IndexAtAppends
  <2>6. Appends(Top.path, e, q) /\ e[1] = Field.name /\ e[3] = c + 1
    BY <2>3, <2>5
  <2>7. q \notin DOMAIN msg.bodies
    BY <1>1, <1>2, <1>4, FreshIndex DEF Counted, Built, Fits
  <2>8. e[3] \in Nat /\ e[3] <= Count(msg, Top.path, Field.name) + 1
    BY <1>1, <2>6
  <2> QED
    BY <1>3, <2>1, <2>2, <2>6, <2>7, <2>8, BuiltElement
<1>6. CASE it.val # "block"
  <2>1. PICK leaf : leaf = [text |-> it.text, load |-> it.load]
    OBVIOUS
  <2>2. msg' = AddLeaf(msg, Top.path, Field, q, leaf) /\ Stays(Top)
    BY <1>1, <1>2, <1>6, <2>1 DEF ListItem
  <2> QED
    BY <1>3, <2>2, BuiltLeaf
<1> QED
  BY <1>5, <1>6

\* A message in a map gets the path of its key.
LEMMA BuiltMapEntry ==
  ASSUME Stack, Counted, Built, NEW it, MapEntry(it), ~Refuses(it)
  PROVE  Built'
<1>1. PICK key, q : key = MapKey(Field, it) /\ q = KeyAt(Top.path, Field.name, key)
  OBVIOUS
<1>2. Top.kind = "map" /\ ~Overfull /\ ~KeyTaken(Top, Field, key) /\ UNCHANGED present
  BY <1>1, MapEntryTaken DEF MapEntry
<1>3. IsSeq(Top.path) /\ prefix = Top.path
  BY <1>2, TopPlaced
<1>4. CASE it.val = "block"
  <2>1. /\ msg' = AddBody(msg, Top.path, Field, q)
        /\ Opens(Top, Body(Field.body, q, NoElement), q)
    BY <1>1, <1>3, <1>4 DEF MapEntry
  <2>2. Field.body \in Types
    BY <1>4, MapEntryTaken DEF Scalars
  <2>3. PICK e : Appends(Top.path, e, q) /\ e[1] = Field.name /\ e[3] = 1
    BY <1>1, KeyAtAppends
  <2>4. q \notin DOMAIN msg.bodies
    BY <1>1, <1>2 DEF KeyTaken
  <2>5. e[3] \in Nat /\ e[3] <= Count(msg, Top.path, Field.name) + 1
    BY <2>3, CountIsInt DEF Counted
  <2> QED
    BY <1>2, <2>1, <2>2, <2>3, <2>4, <2>5, BuiltElement
<1>5. CASE it.val # "block"
  <2>1. PICK leaf : leaf = [text |-> it.text, load |-> it.load]
    OBVIOUS
  <2>2. msg' = AddLeaf(msg, Top.path, Field, q, leaf) /\ Stays(Top)
    BY <1>1, <1>5, <2>1 DEF MapEntry
  <2> QED
    BY <1>2, <2>2, BuiltLeaf
<1> QED
  BY <1>4, <1>5

\* A named entry of a keyed block: the body, and in it the key, marked as present.
LEMMA BuiltKeyedEntry ==
  ASSUME Stack, Counted, Built, NEW it, KeyedEntry(it), ~Refuses(it)
  PROVE  Built'
<1>1. PICK c \in Nat : c = Count(msg, Top.path, Field.name)
  BY CountIsInt DEF Counted
<1>2. PICK q, key, leaf, element :
        /\ q = IndexAt(Top.path, Field.name, c) /\ key = FieldOf(Field.body, KeyField(Field))
        /\ leaf = Leaf(it.name) /\ element = Element(Field, it.name, TRUE)
  OBVIOUS
<1>3. PICK under, frame, added :
        /\ under = [Top EXCEPT !.bound = @ \cup {it.name}]
        /\ frame = Body(Field.body, q, element) /\ added = AddBody(msg, Top.path, Field, q)
  OBVIOUS
<1>4. /\ Top.kind = "keyed" /\ ~Overfull /\ KeyField(Field) # "none" /\ Field.body \in Types
  BY KeyedEntryTaken DEF KeyedEntry
<1>5. IsSeq(Top.path) /\ prefix = Top.path /\ Stands(Top)
  BY <1>4, TopPlaced, TopStands
<1>6. /\ msg' = SetLeaf(added, q, Field.body, key, leaf)
      /\ present' = present \cup {At(q, key.name)} /\ Opens(under, frame, q)
  BY <1>1, <1>2, <1>3, <1>5 DEF KeyedEntry
<1>7. key \in FieldsOf(Field.body) /\ key.kind = "string"
  <2>1. Knows(Field.body, KeyField(Field)) /\ key.kind = "string"
    BY <1>2, <1>4 DEF KeyField
  <2> QED
    BY <1>2, <1>4, <2>1, FieldKnown
<1>8. Alike(Top, under)
  BY <1>3, <1>4, <1>5 DEF Alike, Stands
<1>9. PICK n \in Nat : \E s : /\ Changed(frames, s, n) /\ frames[n] = Top
                              /\ Longer(s, frames', n) /\ frames'[n + 1] = frame
  BY <1>6, <1>8, OpensChanges
<1>10. PICK s : /\ Changed(frames, s, n) /\ frames[n] = Top
                /\ Longer(s, frames', n) /\ frames'[n + 1] = frame
  BY <1>9
<1>11. PICK name : name = Field.name
  OBVIOUS
<1>12. q = IndexAt(Top.path, name, c)
  BY <1>2, <1>11
<1>13. PICK e : Appends(Top.path, e, q) /\ e[1] = name /\ e[3] = c + 1
  BY <1>12, IndexAtAppends
<1>14. q \notin DOMAIN msg.bodies
  BY <1>1, <1>2, <1>5, FreshIndex DEF Counted, Built, Fits
<1>15. /\ Fits(s, added, present, prefix) /\ Counts(added)
       /\ Grows(msg.bodies, added.bodies, Top.path, e, q) /\ added.bodies[q].type = Field.body
       /\ s[n].kind # "skip" /\ s[n].path = Top.path
  <2>1. e[3] \in Nat /\ e[3] <= Count(msg, Top.path, Field.name) + 1 /\ e[1] = Field.name
    BY <1>1, <1>11, <1>13
  <2> QED
    BY <1>3, <1>4, <1>10, <1>13, <1>14, <2>1, ElementGrows
<1>16. PICK l \in Nat : l = Len(Top.path) /\ Len(q) = l + 1 /\ IsSeq(q)
  BY <1>5, <1>13, LongerPath
<1>17. \A r \in DOMAIN added.bodies : ~Through(q, Siblings(Field.body, key), r)
  <2> SUFFICES ASSUME NEW r \in DOMAIN added.bodies, Len(q) < Len(r), SubSeq(r, 1, Len(q)) = q
               PROVE  FALSE
    <3>1. \A r \in DOMAIN added.bodies : IsSeq(r)
      BY <1>15 DEF Fits, Typed
    <3>2. \A r \in DOMAIN added.bodies : Len(r) \in Nat
      BY <3>1, SeqLength
    <3> QED
      BY <1>16, <3>2 DEF Through, Begins
  <2>1. r # q
    BY <1>16
  <2>2. r \in DOMAIN msg.bodies /\ Beneath(q, r)
    BY <1>15, <2>1 DEF Grows, Beneath
  <2> QED
    BY <1>14, <1>16, <2>2, NothingUnder DEF Built, Fits
<1>18. /\ msg'.bodies = Cut(added.bodies, q, Siblings(Field.body, key))
       /\ msg'.elems = Cut(added.elems, q, Siblings(Field.body, key))
  BY <1>6, SetLeafDoes
<1>19. Same(added.bodies, msg'.bodies) /\ CountsKept(added, msg')
  BY <1>15, <1>16, <1>17, <1>18, NothingCut DEF Fits
<1>20. Counts(msg')
  BY <1>15, <1>18, CutKeeps, FewerCounted
<1>21. Fits(s, msg', present, prefix)
  BY <1>15, <1>19, <1>20, FitsSame
<1>22. Grows(msg.bodies, msg'.bodies, Top.path, e, q) /\ msg'.bodies[q].type = Field.body
  BY <1>15, <1>19 DEF Grows, Same
<1>23. /\ frame.kind = "body" /\ frame.from = prefix /\ frame.path = q /\ frame.type = Field.body
  BY <1>3, BodyOpens
<1>24. Typed(msg.bodies) /\ Landed(msg.bodies, present)
  BY DEF Built, Fits
<1>25. Fits(frames', msg', present, q)
  BY <1>10, <1>15, <1>21, <1>22, <1>23, <1>24, FitsOpens
<1>26. PICK mark : mark = At(q, key.name)
  OBVIOUS
<1>27. q \in DOMAIN msg'.bodies /\ HasField(msg'.bodies[q], key.name)
  BY <1>4, <1>7, <1>22, FieldIs DEF Grows, HasField
<1>28. IsSeq(mark) /\ Len(mark) = Len(q) + 1 /\ mark[Len(mark)][1] = key.name /\ LandsIn(msg'.bodies, mark)
  BY <1>16, <1>26, <1>27, MarkLands
<1>29. Schema[frame.type].role = "any" => key.name = "type_url"
  BY <1>4, <1>7, <1>23, SchemaAssumption
<1>30. Marks(frame, mark)
  BY <1>23, <1>28, <1>29 DEF Marks
<1>31. Fits(frames', msg', present', q)
  <2>1. PICK k \in Nat : k = n + 1
    OBVIOUS
  <2>2. Changed(frames', frames', k) /\ frames'[k] = frame
    BY <1>10, <2>1 DEF Changed, Longer, Alike
  <2>3. present \subseteq present' /\ \A r \in present' \ present : r = mark
    BY <1>6, <1>26
  <2> QED
    BY <1>25, <1>28, <1>30, <2>2, <2>3, FitsStays
<1> QED
  BY <1>6, <1>31 DEF Built, Opens

\* A closing bracket: the pass over the body of an Any leaves its bodies.
LEMMA BuiltClose ==
  ASSUME Stack, Counted, Built, NEW it, Close(it)
  PROVE  Built'
<1>1. /\ Len(frames) > 1 /\ Len(frames') = Len(frames) - 1 /\ Stack'
      /\ \A k \in 1..Len(frames') : frames'[k] = frames[k]
  BY StackCloses
<1>2. PICK n \in Nat : n = Len(frames') /\ n >= 1 /\ n + 1 = Len(frames)
  BY <1>1, SeqLength DEF Stack, Levels
<1>3. Longer(frames', frames, n)
  <2>1. IsSeq(frames) /\ IsSeq(frames')
    BY <1>1 DEF Stack, Levels
  <2>2. DOMAIN frames = 1..(n + 1) /\ DOMAIN frames' = 1..n
    BY <1>2, <2>1, SeqLength
  <2> QED
    BY <1>1, <1>2, <2>1, <2>2 DEF Longer, Frames
<1>4. prefix' = frames[n + 1].from /\ UNCHANGED present
  BY <1>2 DEF Close, Top
<1>5. Fits(frames, msg', present, prefix)
  <2>1. CASE msg' = msg
    BY <2>1 DEF Built
  <2>2. CASE msg' = Completed(msg, Top.path)
    <3>1. Same(msg.bodies, msg'.bodies) /\ CountsKept(msg, msg')
      BY <2>2, NothingDisplaced DEF Counted, Built, Fits
    <3>2. Counts(msg')
      BY <2>2, CompletedDoes, FewerCounted DEF Counted
    <3> QED
      BY <3>1, <3>2, FitsSame DEF Built, Counted
  <2> QED
    BY <2>1, <2>2 DEF Close
<1> QED
  BY <1>3, <1>4, <1>5, FitsCloses DEF Built

\* The end of the document: the pass over the root leaves the bodies.
LEMMA BuiltFinish ==
  ASSUME Stack, Counted, Built, NEW it, Finish(it)
  PROVE  Built'
<1>1. msg' = Completed(msg, <<>>) /\ UNCHANGED <<frames, prefix, present>>
  BY DEF Finish
<1>2. Same(msg.bodies, msg'.bodies) /\ CountsKept(msg, msg')
  BY <1>1, NothingDisplaced DEF Counted, Built, Fits
<1>3. Counts(msg')
  BY <1>1, CompletedDoes, FewerCounted DEF Counted
<1>4. Fits(frames, msg', present, prefix)
  BY <1>2, <1>3, FitsSame DEF Built, Counted
<1> QED
  BY <1>1, <1>4 DEF Built

\* Every step keeps frames, message, marks and prefix fitting.
LEMMA BuiltStep == Stack /\ Counted /\ Built /\ [Next]_vars => Built'
<1> SUFFICES ASSUME Stack, Counted, Built, [Next]_vars PROVE Built'
  OBVIOUS
<1>1. CASE UNCHANGED <<frames, msg, present, prefix>>
  BY <1>1 DEF Built
<1>2. CASE Start \/ Refuse \/ UNCHANGED vars
  BY <1>1, <1>2 DEF Start, Refuse, vars
<1>3. CASE \E it \in Readable : Take(it)
  <2>1. PICK it : Take(it)
    BY <1>3
  <2>2. CASE Refuses(it)
    BY <1>2, <2>1, <2>2 DEF Take
  <2>3. CASE ~Refuses(it)
    <3>1. CASE Directive(it)
      BY <1>1, <3>1 DEF Directive
    <3> QED
      BY <2>1, <2>3, <3>1, BuiltNull, BuiltScalar, BuiltMessage, BuiltCollection, BuiltDropped,
         BuiltTypeEntry, BuiltListItem, BuiltKeyedEntry, BuiltMapEntry, BuiltClose, BuiltFinish
         DEF Take
  <2> QED
    BY <2>2, <2>3
<1> QED
  BY <1>2, <1>3 DEF Next

\* At the start there is the root alone, and no mark.
LEMMA BuiltInit == Init => Built
<1> SUFFICES ASSUME Init PROVE Built
  OBVIOUS
<1>1. PICK n \in Nat : n = 1
  OBVIOUS
<1>2. IsSeq(frames) /\ Len(frames) = n /\ DOMAIN frames = 1..n /\ frames[1] = Root
  <2>1. frames = [k \in 1..n |-> Root]
    BY <1>1 DEF Init
  <2>2. frames = [k \in 1..n |-> frames[k]]
    BY <2>1
  <2>3. IsSeq(frames) /\ Len(frames) = n
    BY <2>2, SeqIs
  <2>4. DOMAIN frames = 1..n /\ 1 \in 1..n
    BY <1>1, <2>1
  <2>5. frames[1] = Root
    BY <2>1, <2>4
  <2> QED
    BY <2>3, <2>4, <2>5
<1>3. PICK e : e = <<>>
  OBVIOUS
<1>4. IsSeq(e) /\ Len(e) = 0
  BY <1>3, SeqEmpty
<1>5. /\ Root.kind = "body" /\ Root.path = e /\ Root.type = call.root
      /\ prefix = e /\ present = {} /\ call.root \in Types
  BY <1>3, CallsAssumption DEF Init, Root
<1>6. PICK body : body = [type |-> call.root, urls |-> e]
  OBVIOUS
<1>7. /\ DOMAIN msg.bodies = {e} /\ msg.bodies[e].type = call.root /\ msg.bodies[e].urls = e
  BY <1>3, <1>6 DEF Init, Empty
<1>8. Typed(msg.bodies)
  <2>1. ASSUME NEW k \in 0..Len(e)
        PROVE  SubSeq(e, 1, k) = e
    <3>1. k = Len(e)
      BY <1>4, <2>1
    <3> QED
      BY <1>4, <3>1, SeqWhole
  <2> QED
    BY <1>4, <1>5, <1>7, <2>1 DEF Typed
<1>9. Numbered(msg, present)
  BY <1>4, <1>7 DEF Numbered
<1>10. Placed(frames, msg.bodies, present)
  <2>1. OnBody(frames, 1, msg.bodies) /\ Below(frames, 1, msg.bodies)
    BY <1>2, <1>5, <1>7 DEF OnBody, Below
  <2> QED
    BY <1>1, <1>2, <1>5, <2>1 DEF Placed
<1>11. Prefixed(frames, prefix)
  BY <1>1, <1>2, <1>5 DEF Prefixed, Inner
<1>12. Accounted(frames, msg.bodies, present)
  BY <1>1, <1>2, <1>4, <1>5, <1>7 DEF Accounted, OnlyKey, Beneath
<1>13. Landed(msg.bodies, present)
  BY <1>5 DEF Landed
<1> QED
  BY <1>8, <1>9, <1>10, <1>11, <1>12, <1>13 DEF Built, Fits

\* What is recorded of presence is recorded of the body being read, and every mark is
\* of a field that a body of the message has: where a nested body, an element or an
\* Any ends, the prefix is put back, and nothing that is read or given by default
\* takes away a body of which something is recorded (path_prefix, decode_any_body).
THEOREM MarksAlwaysLand == Spec => []MarksLand
<1>1. Stack /\ Built => MarksLand
  <2> SUFFICES ASSUME Stack, Built PROVE MarksLand
    OBVIOUS
  <2>1. PICK n \in Nat : n = Len(frames) /\ n >= 1 /\ DOMAIN frames = 1..n
    BY Positions DEF Stack
  <2>2. PICK k \in 1..n : Inner(frames, k, n)
    BY <2>1 DEF Built, Fits, Prefixed
  <2>3. /\ Innermost \in DOMAIN frames /\ frames[Innermost].kind # "skip"
        /\ \A j \in DOMAIN frames : j > Innermost => frames[j].kind = "skip"
    <3>1. /\ k \in DOMAIN frames /\ frames[k].kind # "skip"
          /\ \A j \in DOMAIN frames : j > k => frames[j].kind = "skip"
      BY <2>1, <2>2 DEF Inner
    <3> QED
      BY <3>1 DEF Innermost
  <2>4. prefix = frames[Innermost].path
    <3>1. Inner(frames, Innermost, n)
      BY <2>1, <2>3 DEF Inner
    <3> QED
      BY <2>1, <2>3, <3>1 DEF Built, Fits, Prefixed
  <2>5. \A q \in present : Lands(q)
    BY DEF Built, Fits, Landed, LandsIn, Lands
  <2> QED
    BY <2>4, <2>5 DEF MarksLand
<1>2. Init => Stack /\ Counted /\ Built
  BY StackInit, CountedInit, BuiltInit
<1>3. Stack /\ Counted /\ Built /\ [Next]_vars => (Stack /\ Counted /\ Built)'
  BY StackStep, CountedStep, BuiltStep
<1> QED
  BY <1>1, <1>2, <1>3, PTL DEF Spec

-----------------------------------------------------------------------------
(***************************************************************************)
(* Types.                                                                  *)
(***************************************************************************)

\* What the call is doing, what its directives said and what is recorded of nulls.
Recorded ==
  /\ phase \in {"start", "header", "body", "done", "error"}
  /\ header \in [type : BOOLEAN, dataset : BOOLEAN]
  /\ mask \subseteq nulls /\ nulls \subseteq present

\* At the start no directive and no null is recorded.
LEMMA RecordedInit == Init => Recorded
<1> QED
  BY DEF Init, Recorded

\* Every step records a null only of what it records as present.
LEMMA RecordedStep == Recorded /\ [Next]_vars => Recorded'
<1> SUFFICES ASSUME Recorded, [Next]_vars PROVE Recorded'
  OBVIOUS
<1>1. CASE Start \/ Refuse \/ UNCHANGED vars
  BY <1>1 DEF Start, Refuse, vars, Recorded
<1>2. ASSUME NEW it, Directive(it)
      PROVE  Recorded'
  <2>1. header' \in [type : BOOLEAN, dataset : BOOLEAN]
    <3>1. (header.type \/ it.val = "@type") \in BOOLEAN /\ (header.dataset \/ it.val = "@dataset") \in BOOLEAN
      OBVIOUS
    <3> QED
      BY <1>2, <3>1 DEF Directive
  <2> QED
    BY <1>2, <2>1 DEF Directive, Recorded
<1>3. ASSUME NEW it, Null(it)
      PROVE  Recorded'
  BY <1>3 DEF Null, InBody, Read, MarkPresent, Recorded
<1>4. ASSUME NEW it, Scalar(it) \/ Message(it) \/ Collection(it) \/ KeyedEntry(it)
      PROVE  Recorded'
  <2>1. phase' = "body" /\ UNCHANGED <<header, mask, nulls>>
    BY <1>4 DEF Scalar, Message, Collection, KeyedEntry, InBody, Read
  <2>2. present \subseteq present'
    BY <1>4 DEF Scalar, Message, Collection, KeyedEntry, MarkPresent
  <2> QED
    BY <2>1, <2>2 DEF Recorded
<1>5. ASSUME NEW it, \/ Unknown(it) \/ Skipped(it) \/ TypeEntry(it) \/ ListItem(it)
                     \/ MapEntry(it) \/ Close(it)
      PROVE  Recorded'
  <2>1. phase' = "body" /\ UNCHANGED <<header, mask, nulls, present>>
    BY <1>5 DEF Unknown, Skipped, TypeEntry, ListItem, MapEntry, Close, InBody, Read
  <2> QED
    BY <2>1 DEF Recorded
<1>6. ASSUME NEW it, Finish(it)
      PROVE  Recorded'
  BY <1>6 DEF Finish, Recorded
<1>7. CASE \E it \in Readable : Take(it)
  <2>1. PICK it : Take(it)
    BY <1>7
  <2> QED
    BY <1>1, <1>2, <1>3, <1>4, <1>5, <1>6, <2>1 DEF Take
<1> QED
  BY <1>1, <1>7 DEF Next

\* The frames of a decode stand on bodies of the message and on fields of their types,
\* the bodies have types of the schema, and a null is recorded only of what is recorded
\* as present (Decoder, Presence).
THEOREM TypeCorrect == Spec => []TypeOK
<1>1. Stack /\ Built /\ Recorded => TypeOK
  <2> SUFFICES ASSUME Stack, Built, Recorded PROVE TypeOK
    OBVIOUS
  <2>1. ASSUME NEW k \in DOMAIN frames
        PROVE  Sound(frames[k])
    <3>1. Stands(frames[k])
      BY <2>1 DEF Stack, Standing
    <3>2. frames[k].close \in Closers
      <4>1. PICK n \in Nat : DOMAIN frames = 1..n
        BY Positions DEF Stack
      <4>2. k = 1 \/ k \in 2..n
        BY <2>1, <4>1
      <4>3. frames[1].close = "eof" /\ \A j \in 2..Len(frames) : frames[j].close \in {"end", "endlist"}
        BY DEF Stack, Levels
      <4>4. Len(frames) = n
        BY <4>1, Positions, SeqLength DEF Stack, Levels
      <4> QED
        BY <4>2, <4>3, <4>4 DEF Closers
    <3>3. frames[k].kind # "skip" => frames[k].path \in DOMAIN msg.bodies
      BY <2>1 DEF Built, Fits, Placed, OnBody
    <3> QED
      BY <3>1, <3>2, <3>3 DEF Stands, Sound
  <2>2. depth \in Nat
    BY DEF Stack, Levels
  <2>3. \A p \in DOMAIN msg.bodies : msg.bodies[p].type \in Types
    BY DEF Built, Fits, Typed
  <2> QED
    BY <2>1, <2>2, <2>3 DEF TypeOK, Recorded
<1>2. Init => Stack /\ Counted /\ Built /\ Recorded
  BY StackInit, CountedInit, BuiltInit, RecordedInit
<1>3. Stack /\ Counted /\ Built /\ Recorded /\ [Next]_vars => (Stack /\ Counted /\ Built /\ Recorded)'
  BY StackStep, CountedStep, BuiltStep, RecordedStep
<1> QED
  BY <1>1, <1>2, <1>3, PTL DEF Spec
=============================================================================
