-------------------------- MODULE SbeReaderProofs --------------------------
(***************************************************************************)
(* Theorems about SBE templates and the readers that use them, for every   *)
(* schema, every list of files, all limits and every buffer.               *)
(***************************************************************************)
EXTENDS SbeReader, SequenceTheorems, Induction

-----------------------------------------------------------------------------
(***************************************************************************)
(* Sequences, of which only the last element, or the one before, changes.  *)
(***************************************************************************)
IsSeq(s) == \E X : s \in Seq(X)

LEMMA Popped ==
  ASSUME NEW s, IsSeq(s), s # <<>>
  PROVE  LET t == SubSeq(s, 1, Len(s) - 1)
         IN  /\ IsSeq(t) /\ Len(t) = Len(s) - 1 /\ Len(s) \in Nat \ {0}
             /\ \A k \in 1..(Len(s) - 1) : t[k] = s[k]
<1>1. PICK X : s \in Seq(X)
  BY DEF IsSeq
<1>2. Len(s) \in Nat \ {0}
  BY <1>1, EmptySeq
<1>3. \A k \in 1..(Len(s) - 1) : s[k] \in X
  BY <1>1, <1>2
<1> DEFINE n == Len(s) - 1
           t == SubSeq(s, 1, n)
<1>4. n \in Int /\ 1 \in Int /\ \A k \in 1..n : s[k] \in X
  BY <1>2, <1>3
<1> HIDE DEF n
<1>5. /\ t \in Seq(X) /\ Len(t) = IF 1 <= n THEN n - 1 + 1 ELSE 0
      /\ \A k \in 1..(n - 1 + 1) : t[k] = s[1 + k - 1]
  BY <1>4, SubSeqProperties
<1> HIDE DEF t
<1>6. Len(t) = Len(s) - 1 /\ \A k \in 1..(Len(s) - 1) : t[k] = s[k]
  <2>1. n \in Nat /\ n = Len(s) - 1
    BY <1>2 DEF n
  <2>2. Len(t) = n
    BY <1>5, <2>1
  <2>3. ASSUME NEW k \in 1..n
        PROVE  t[k] = s[k]
    <3>1. k \in 1..(n - 1 + 1) /\ 1 + k - 1 = k
      BY <2>1
    <3> QED
      BY <1>5, <3>1
  <2> QED
    BY <2>1, <2>2, <2>3
<1> QED
  BY <1>2, <1>5, <1>6 DEF IsSeq, t, n

LEMMA Pushed ==
  ASSUME NEW s, IsSeq(s), NEW x
  PROVE  /\ IsSeq(Append(s, x)) /\ Len(s) \in Nat
         /\ Len(Append(s, x)) = Len(s) + 1
         /\ Append(s, x)[Len(s) + 1] = x
         /\ \A k \in 1..Len(s) : Append(s, x)[k] = s[k]
<1>1. PICK X : s \in Seq(X)
  BY DEF IsSeq
<1>2. s \in Seq(X \cup {x}) /\ Append(s, x) \in Seq(X \cup {x})
  BY <1>1, SeqMonotonic
<1> QED
  BY <1>2 DEF IsSeq

LEMMA LastReplaced ==
  ASSUME NEW s, IsSeq(s), s # <<>>, NEW x
  PROVE  LET t == Append(SubSeq(s, 1, Len(s) - 1), x)
         IN  /\ IsSeq(t) /\ Len(t) = Len(s) /\ Len(s) \in Nat \ {0}
             /\ t[Len(s)] = x
             /\ \A k \in 1..(Len(s) - 1) : t[k] = s[k]
<1>1. PICK r : r = SubSeq(s, 1, Len(s) - 1)
  OBVIOUS
<1>2. /\ IsSeq(r) /\ Len(r) = Len(s) - 1 /\ Len(s) \in Nat \ {0}
      /\ \A k \in 1..(Len(s) - 1) : r[k] = s[k]
  BY <1>1, Popped
<1> QED
  BY <1>1, <1>2, Pushed

-----------------------------------------------------------------------------
(***************************************************************************)
(* Layouts.  S is a set of lists of fields with the bytes they take, D the *)
(* set of these fields; each field that is a composite has its own layout  *)
(* in S.  A list of fields, or of groups, has no name twice.               *)
(***************************************************************************)
Apart(list) ==
  \A i \in 1..Len(list) : \A j \in 1..(i - 1) : list[j].fd.name # list[i].fd.name

Strangers(fields, groups) ==
  \A i \in 1..Len(fields) : \A n \in 1..Len(groups) : fields[i].fd.name # groups[n].fd.name

\* How a field is encoded, by its descriptor.
Encodes(e) ==
  /\ FieldOK(e.fd)
  /\ IF e.fd.kind = "message" THEN e.encoding = "none"
     ELSE /\ e.composite = <<>> /\ Encodable(e.fd)
          /\ e.encoding = EncodingOf(e.fd) /\ e.size = SizeOf(e.fd)

Closed(S, D) ==
  /\ S \subseteq Seq(D) \X Nat
  /\ \A p \in S : Fits(p[1], p[2]) /\ Apart(p[1])
  /\ \A e \in D : /\ e.offset \in Nat /\ e.size \in Nat
                  /\ e.composite # <<>> => <<e.composite, e.size>> \in S
                  /\ Encodes(e)

GroupsIn(S, groups) ==
  /\ IsSeq(groups)
  /\ \A n \in 1..Len(groups) : <<groups[n].fields, groups[n].block_length>> \in S

TemplateIn(S, t) ==
  /\ <<t.fields, t.block_length>> \in S
  /\ GroupsIn(S, t.groups)
  /\ Apart(t.groups) /\ Strangers(t.fields, t.groups)

\* The list has no field that is still to come in the frame.
Behind(list, f) ==
  \A i \in 1..Len(list) : \A j \in f.at..Len(Descriptors(f)) :
    list[i].fd.name # Descriptors(f)[j].name

\* The next field of the frame is the message of which the layout is being
\* built in the frame above.
Entered(f) == ~Complete(f) /\ FieldAt(f).kind = "message"

FrameIn(S, f) ==
  /\ f = [role |-> f.role, type |-> f.type, at |-> f.at, offset |-> f.offset,
          fields |-> f.fields, groups |-> f.groups]
  /\ f.type \in DOMAIN Schema /\ f.at \in Nat \ {0}
  /\ <<f.fields, f.offset>> \in S
  /\ GroupsIn(S, f.groups)
  /\ Apart(f.groups) /\ Strangers(f.fields, f.groups)
  /\ Behind(f.fields, f) /\ Behind(f.groups, f)

\* What the frames of a stack are.
Framed(S, s) ==
  /\ IsSeq(s)
  /\ \A k \in 1..Len(s) : FrameIn(S, s[k]) /\ (s[k].role = "message" <=> k = 1)
  /\ \A k \in 1..(Len(s) - 1) : Entered(s[k])

Layouts(S, D) ==
  /\ Closed(S, D)
  /\ Framed(S, stack)
  /\ \A type \in DOMAIN byName : TemplateIn(S, byName[type])
  /\ \A id \in DOMAIN byId : TemplateIn(S, byId[id]) /\ byId[id].template_id = id

Registering ==
  /\ files \in FileLists /\ limits \in Limits
  /\ file \in Nat /\ file <= Len(files)
  /\ pending \in Seq(DOMAIN Schema)
  /\ stack # <<>> => pending # <<>>

\* A field put after others that fit fits.
LEMMA FitsLonger ==
  ASSUME NEW fields, NEW size \in Nat, Fits(fields, size), Len(fields) \in Nat,
         \A k \in 1..Len(fields) : fields[k].offset \in Nat /\ fields[k].size \in Nat,
         NEW e, e.offset = size, e.size \in Nat,
         NEW longer, Len(longer) = Len(fields) + 1, longer[Len(fields) + 1] = e,
         \A k \in 1..Len(fields) : longer[k] = fields[k]
  PROVE  Fits(longer, size + e.size)
<1>1. ASSUME NEW i \in 1..Len(longer)
      PROVE  longer[i].offset + longer[i].size <= size + e.size
  <2>1. CASE i = Len(fields) + 1
    BY <2>1
  <2>2. CASE i \in 1..Len(fields)
    <3>1. fields[i].offset + fields[i].size <= size
      BY <2>2 DEF Fits
    <3>2. PICK last : last = fields[i].offset + fields[i].size
      OBVIOUS
    <3>3. last \in Nat /\ last <= size /\ longer[i].offset + longer[i].size = last
      BY <2>2, <3>1, <3>2
    <3> QED
      BY <3>3
  <2> QED
    BY <2>1, <2>2
<1>2. ASSUME NEW i \in 1..Len(longer), NEW j \in (i + 1)..Len(longer)
      PROVE  longer[i].offset + longer[i].size <= longer[j].offset
  <2>1. i \in 1..Len(fields)
    OBVIOUS
  <2>2. CASE j = Len(fields) + 1
    <3>1. fields[i].offset + fields[i].size <= size
      BY <2>1 DEF Fits
    <3> QED
      BY <2>1, <2>2, <3>1
  <2>3. CASE j \in (i + 1)..Len(fields)
    <3>1. fields[i].offset + fields[i].size <= fields[j].offset
      BY <2>1, <2>3 DEF Fits
    <3> QED
      BY <2>1, <2>3, <3>1
  <2> QED
    BY <2>2, <2>3
<1> QED
  BY <1>1, <1>2 DEF Fits

\* A field put after the others of a layout, and the rest of the layouts stay.
LEMMA Appended ==
  ASSUME NEW S, NEW D, Closed(S, D), NEW fields, NEW size, <<fields, size>> \in S,
         NEW e, e.offset = size, e.size \in Nat,
         e.composite # <<>> => <<e.composite, e.size>> \in S, Encodes(e),
         \A i \in 1..Len(fields) : fields[i].fd.name # e.fd.name
  PROVE  Closed(S \cup {<<Append(fields, e), size + e.size>>}, D \cup {e})
<1>1. fields \in Seq(D) /\ size \in Nat /\ Fits(fields, size) /\ Apart(fields)
  BY DEF Closed
<1>2. PICK longer, more : longer = Append(fields, e) /\ more = size + e.size
  OBVIOUS
<1>3. /\ longer \in Seq(D \cup {e}) /\ Len(longer) = Len(fields) + 1 /\ Len(fields) \in Nat
      /\ longer[Len(fields) + 1] = e
      /\ \A k \in 1..Len(fields) : longer[k] = fields[k] /\ fields[k] \in D
  BY <1>2, <1>1, SeqMonotonic
<1>4. Fits(longer, more)
  <2>1. \A k \in 1..Len(fields) : fields[k].offset \in Nat /\ fields[k].size \in Nat
    BY <1>3 DEF Closed
  <2>2. \A k \in 1..Len(fields) : longer[k] = fields[k]
    BY <1>3
  <2> QED
    BY <1>2, <1>1, <1>3, <2>1, <2>2, FitsLonger
<1>5. Seq(D) \subseteq Seq(D \cup {e})
  BY SeqMonotonic
<1> DEFINE T == S \cup {<<longer, more>>}
<1>6. T \subseteq Seq(D \cup {e}) \X Nat
  <2>1. S \subseteq Seq(D \cup {e}) \X Nat
    BY <1>5 DEF Closed
  <2>2. more \in Nat
    BY <1>2, <1>1
  <2>3. <<longer, more>> \in Seq(D \cup {e}) \X Nat
    BY <1>3, <2>2
  <2> QED
    BY <2>1, <2>3
<1>7. \A p \in T : Fits(p[1], p[2]) /\ Apart(p[1])
  <2>1. Apart(longer)
    <3> SUFFICES ASSUME NEW i \in 1..Len(longer), NEW j \in 1..(i - 1)
                 PROVE  longer[j].fd.name # longer[i].fd.name
      BY DEF Apart
    <3>1. j \in 1..Len(fields) /\ longer[j] = fields[j]
      BY <1>3
    <3>2. CASE i = Len(fields) + 1
      BY <1>3, <3>1, <3>2
    <3>3. CASE i \in 1..Len(fields)
      BY <1>1, <1>3, <3>1, <3>3 DEF Apart
    <3> QED
      BY <1>3, <3>2, <3>3
  <2>2. PICK p : p = <<longer, more>>
    OBVIOUS
  <2>3. Fits(p[1], p[2]) /\ Apart(p[1])
    BY <1>4, <2>1, <2>2
  <2>4. \A q \in S : Fits(q[1], q[2]) /\ Apart(q[1])
    BY DEF Closed
  <2> QED
    BY <2>2, <2>3, <2>4
<1>8. \A d \in D \cup {e} : /\ d.offset \in Nat /\ d.size \in Nat
                           /\ d.composite # <<>> => <<d.composite, d.size>> \in T
                           /\ Encodes(d)
  BY <1>1 DEF Closed
<1>9. Closed(T, D \cup {e})
  BY <1>6, <1>7, <1>8 DEF Closed
<1> QED
  BY <1>2, <1>9

\* What is laid out stays so in a larger set.
LEMMA Kept ==
  ASSUME NEW S, NEW T, S \subseteq T
  PROVE  /\ \A f : FrameIn(S, f) => FrameIn(T, f)
         /\ \A t : TemplateIn(S, t) => TemplateIn(T, t)
BY DEF FrameIn, TemplateIn, GroupsIn

\* The next field of a frame, and that the ones after it have other names.
LEMMA FieldSound ==
  ASSUME NEW S, NEW f, FrameIn(S, f), ~Complete(f)
  PROVE  /\ FieldOK(FieldAt(f)) /\ f.at \in 1..Len(Descriptors(f)) /\ Len(Descriptors(f)) \in Nat
         /\ \A j \in (f.at + 1)..Len(Descriptors(f)) : FieldAt(f).name # Descriptors(f)[j].name
<1>1. f.at \in 1..Len(Schema[f.type].fields) /\ Len(Schema[f.type].fields) \in Nat
  BY SchemaAssumption DEF FrameIn, Complete, Descriptors
<1>2. FieldOK(FieldAt(f))
  BY <1>1, SchemaAssumption DEF FrameIn, FieldAt, Descriptors
<1>3. ASSUME NEW j \in (f.at + 1)..Len(Schema[f.type].fields)
      PROVE  Schema[f.type].fields[f.at].name # Schema[f.type].fields[j].name
  <2>1. j \in 1..Len(Schema[f.type].fields) /\ f.at \in 1..(j - 1)
    BY <1>1
  <2> QED
    BY <2>1, SchemaAssumption DEF FrameIn
<1> QED
  BY <1>1, <1>2, <1>3 DEF FieldAt, Descriptors

\* Lists stay behind a frame that goes on, also with its next field at the end.
LEMMA StayBehind ==
  ASSUME NEW S, NEW f, FrameIn(S, f), ~Complete(f), NEW list, Behind(list, f),
         NEW g, g.type = f.type, g.at = f.at + 1
  PROVE  /\ Behind(list, g)
         /\ \A i \in 1..Len(list) : list[i].fd.name # FieldAt(f).name
<1>1. f.at \in 1..Len(Descriptors(f)) /\ Len(Descriptors(f)) \in Nat
  BY FieldSound
<1>2. Descriptors(g) = Descriptors(f)
  BY DEF Descriptors
<1>3. \A j \in (f.at + 1)..Len(Descriptors(f)) : j \in f.at..Len(Descriptors(f))
  BY <1>1
<1>4. Behind(list, g)
  BY <1>2, <1>3 DEF Behind
<1>5. f.at \in f.at..Len(Descriptors(f))
  BY <1>1
<1>6. \A i \in 1..Len(list) : list[i].fd.name # FieldAt(f).name
  BY <1>5 DEF Behind, FieldAt
<1> QED
  BY <1>4, <1>6

LEMMA JoinsBehind ==
  ASSUME NEW S, NEW f, FrameIn(S, f), ~Complete(f), NEW list, Behind(list, f), Len(list) \in Nat,
         NEW g, g.type = f.type, g.at = f.at + 1,
         NEW longer, Len(longer) = Len(list) + 1, longer[Len(list) + 1].fd = FieldAt(f),
         \A k \in 1..Len(list) : longer[k] = list[k]
  PROVE  Behind(longer, g)
<1>1. /\ f.at \in 1..Len(Descriptors(f)) /\ Len(Descriptors(f)) \in Nat
      /\ \A j \in (f.at + 1)..Len(Descriptors(f)) : FieldAt(f).name # Descriptors(f)[j].name
  BY FieldSound
<1>2. Descriptors(g) = Descriptors(f) /\ Behind(list, g)
  BY StayBehind DEF Descriptors
<1> SUFFICES ASSUME NEW i \in 1..Len(longer), NEW j \in g.at..Len(Descriptors(g))
             PROVE  longer[i].fd.name # Descriptors(g)[j].name
  BY DEF Behind
<1>3. CASE i = Len(list) + 1
  BY <1>1, <1>2, <1>3
<1>4. CASE i # Len(list) + 1
  <2>1. i \in 1..Len(list)
    BY <1>4
  <2> QED
    BY <1>2, <2>1 DEF Behind
<1> QED
  BY <1>3, <1>4

LEMMA LaidParts ==
  ASSUME NEW role, NEW type, NEW at, NEW offset, NEW fields, NEW groups,
         NEW enc, NEW size, NEW composite, NEW f,
         f = [role |-> role, type |-> type, at |-> at, offset |-> offset,
              fields |-> fields, groups |-> groups]
  PROVE  Laid(f, enc, size, composite) =
           [role |-> role, type |-> type, at |-> at + 1, offset |-> offset + size,
            fields |-> Append(fields, [fd |-> FieldAt(f), offset |-> offset, size |-> size,
                                       encoding |-> enc, composite |-> composite]),
            groups |-> groups]
<1> DEFINE e == [fd |-> FieldAt(f), offset |-> offset, size |-> size,
                 encoding |-> enc, composite |-> composite]
<1>1. f.at = at /\ f.offset = offset /\ f.fields = fields
  OBVIOUS
<1>2. Laid(f, enc, size, composite) =
        [f EXCEPT !.at = at + 1, !.offset = offset + size, !.fields = Append(fields, e)]
  BY <1>1 DEF Laid
<1> HIDE DEF e
<1>3. PICK longer : longer = Append(fields, e)
  OBVIOUS
<1>4. PICK g : g = [f EXCEPT !.at = at + 1, !.offset = offset + size, !.fields = longer]
  OBVIOUS
<1>5. g = [role |-> role, type |-> type, at |-> at + 1, offset |-> offset + size,
           fields |-> longer, groups |-> groups]
  BY <1>4
<1> QED
  BY <1>2, <1>3, <1>4, <1>5 DEF e

\* A frame with one more field (build_template and its like).
LEMMA LaidGrows ==
  ASSUME NEW S, NEW D, Closed(S, D), NEW f, FrameIn(S, f), ~Complete(f),
         NEW enc, NEW size \in Nat, NEW composite,
         composite # <<>> => <<composite, size>> \in S,
         IF FieldAt(f).kind = "message" THEN enc = "none"
         ELSE /\ composite = <<>> /\ Encodable(FieldAt(f))
              /\ enc = EncodingOf(FieldAt(f)) /\ size = SizeOf(FieldAt(f))
  PROVE  /\ Laid(f, enc, size, composite).role = f.role
         /\ \E T, C : S \subseteq T /\ Closed(T, C) /\ FrameIn(T, Laid(f, enc, size, composite))
<1>1. PICK e : e = [fd |-> FieldAt(f), offset |-> f.offset, size |-> size,
                    encoding |-> enc, composite |-> composite]
  OBVIOUS
<1>2. /\ e.offset = f.offset /\ e.size = size /\ e.composite = composite
      /\ e.fd = FieldAt(f) /\ e.encoding = enc
  BY <1>1
<1>3. PICK longer, T : longer = Append(f.fields, e) /\ T = S \cup {<<longer, f.offset + size>>}
  OBVIOUS
<1>4. f.fields \in Seq(D) /\ Len(f.fields) \in Nat
  BY DEF FrameIn, Closed
<1>5. PICK g : g = [role |-> f.role, type |-> f.type, at |-> f.at + 1, offset |-> f.offset + size,
                    fields |-> longer, groups |-> f.groups]
  OBVIOUS
<1>6. /\ g.role = f.role /\ g.type = f.type /\ g.at = f.at + 1 /\ g.offset = f.offset + size
      /\ g.fields = longer /\ g.groups = f.groups
  BY <1>5
<1>7. /\ Behind(f.groups, g)
      /\ \A i \in 1..Len(f.groups) : f.groups[i].fd.name # FieldAt(f).name
  BY <1>6, StayBehind DEF FrameIn
<1>8. \A i \in 1..Len(f.fields) : f.fields[i].fd.name # FieldAt(f).name
  BY <1>4, <1>6, StayBehind DEF FrameIn
<1>9. Encodes(e)
  BY <1>2, FieldSound DEF Encodes
<1>10. /\ Len(longer) = Len(f.fields) + 1 /\ longer[Len(f.fields) + 1] = e
       /\ \A k \in 1..Len(f.fields) : longer[k] = f.fields[k]
  BY <1>3, <1>4, Pushed DEF IsSeq
<1>11. Closed(T, D \cup {e})
  <2>1. /\ <<f.fields, f.offset>> \in S
        /\ e.composite # <<>> => <<e.composite, e.size>> \in S
        /\ e.size \in Nat /\ e.offset = f.offset
    BY <1>2 DEF FrameIn
  <2>2. \A i \in 1..Len(f.fields) : f.fields[i].fd.name # e.fd.name
    BY <1>2, <1>8
  <2> QED
    BY <1>2, <1>3, <1>9, <2>1, <2>2, Appended
<1>12. Behind(longer, g)
  <2>1. Behind(f.fields, f) /\ longer[Len(f.fields) + 1].fd = FieldAt(f)
    BY <1>2, <1>10 DEF FrameIn
  <2> QED
    BY <1>4, <1>6, <1>10, <2>1, JoinsBehind
<1>13. Strangers(longer, f.groups)
  <2> SUFFICES ASSUME NEW i \in 1..Len(longer), NEW n \in 1..Len(f.groups)
               PROVE  longer[i].fd.name # f.groups[n].fd.name
    BY DEF Strangers
  <2>1. CASE i = Len(f.fields) + 1
    BY <1>2, <1>7, <1>10, <2>1
  <2>2. CASE i # Len(f.fields) + 1
    <3>1. Len(longer) = Len(f.fields) + 1
      BY <1>10
    <3>2. i \in 1..Len(f.fields)
      BY <1>4, <2>2, <3>1
    <3> QED
      BY <1>10, <3>2 DEF FrameIn, Strangers
  <2> QED
    BY <2>1, <2>2
<1>14. g = Laid(f, enc, size, composite)
  BY <1>1, <1>3, <1>5, LaidParts DEF FrameIn
<1>15. FrameIn(T, g)
  <2>1. g = [role |-> g.role, type |-> g.type, at |-> g.at, offset |-> g.offset,
             fields |-> g.fields, groups |-> g.groups]
    BY <1>5
  <2>2. g.type \in DOMAIN Schema /\ g.at \in Nat \ {0} /\ GroupsIn(T, g.groups) /\ Apart(g.groups)
    BY <1>3, <1>6 DEF FrameIn, GroupsIn
  <2>3. <<g.fields, g.offset>> \in T
    BY <1>3, <1>6
  <2> QED
    BY <1>6, <1>7, <1>12, <1>13, <2>1, <2>2, <2>3 DEF FrameIn
<1> QED
  BY <1>3, <1>6, <1>14, <1>15, <1>11

-----------------------------------------------------------------------------
(***************************************************************************)
(* Each step of from_files keeps the layouts.                              *)
(***************************************************************************)
LEMMA SizeSound ==
  ASSUME NEW fd, FieldOK(fd), Encodable(fd), fd.kind # "message"
  PROVE  SizeOf(fd) \in Nat
<1>1. \A w \in DOMAIN Widths : Widths[w] \in Nat /\ w # "char"
  BY DEF Widths
<1>2. CASE fd.encoding # <<>>
  BY <1>1, <1>2 DEF SizeOf, EncodingOf, Encodable
<1>3. CASE fd.encoding = <<>> /\ fd.kind \in Texts
  BY <1>3 DEF SizeOf, EncodingOf, Encodable, FieldOK
<1>4. CASE fd.encoding = <<>> /\ fd.kind \notin Texts
  <2>1. fd.kind \in DOMAIN Natural
    BY <1>4 DEF FieldOK, Kinds
  <2>2. Natural[fd.kind] \in DOMAIN Widths
    BY <2>1 DEF Natural, Widths
  <2>3. EncodingOf(fd) = Natural[fd.kind]
    BY <1>4 DEF EncodingOf
  <2> QED
    BY <1>1, <2>2, <2>3 DEF SizeOf
<1> QED
  BY <1>2, <1>3, <1>4

LEMMA FreshFrame ==
  ASSUME NEW S, NEW D, Closed(S, D), NEW role, NEW type \in DOMAIN Schema
  PROVE  /\ Closed(S \cup {<<<<>>, 0>>}, D)
         /\ FrameIn(S \cup {<<<<>>, 0>>}, Frame(role, type))
         /\ Frame(role, type).role = role
<1>1. Closed(S \cup {<<<<>>, 0>>}, D)
  <2>1. PICK none, zero : none = <<>> /\ zero = 0
    OBVIOUS
  <2> DEFINE T == S \cup {<<none, zero>>}
  <2>2. none \in Seq(D) /\ Len(none) = 0 /\ zero \in Nat
    BY <2>1, EmptySeq
  <2>3. T \subseteq Seq(D) \X Nat
    <3>1. <<none, zero>> \in Seq(D) \X Nat
      BY <2>2
    <3> QED
      BY <3>1 DEF Closed
  <2>4. Fits(none, zero)
    BY <2>2 DEF Fits
  <2>5. \A p \in T : Fits(p[1], p[2]) /\ Apart(p[1])
    BY <2>2, <2>4 DEF Closed, Apart
  <2> QED
    BY <2>1, <2>3, <2>5 DEF Closed
<1>2. IsSeq(<<>>) /\ Len(<<>>) = 0
  BY EmptySeq DEF IsSeq
<1>3. Apart(<<>>) /\ Strangers(<<>>, <<>>) /\ \A f : Behind(<<>>, f)
  BY <1>2 DEF Apart, Strangers, Behind
<1> QED
  BY <1>1, <1>2, <1>3 DEF Frame, FrameIn, GroupsIn

LEMMA StackKept ==
  ASSUME NEW S, NEW D, Layouts(S, D), NEW T, NEW C, S \subseteq T, Closed(T, C),
         Framed(T, stack'), UNCHANGED <<byName, byId>>
  PROVE  Layouts(T, C)'
BY Kept DEF Layouts, Framed

\* A frame in place of the last one, and one put on top.
LEMMA FramedLast ==
  ASSUME NEW S, NEW T, S \subseteq T, NEW s, Framed(S, s), s # <<>>,
         NEW f, FrameIn(T, f), f.role = "message" <=> Len(s) = 1
  PROVE  Framed(T, Append(SubSeq(s, 1, Len(s) - 1), f))
<1>1. PICK t : t = Append(SubSeq(s, 1, Len(s) - 1), f)
  OBVIOUS
<1>2. /\ IsSeq(t) /\ Len(t) = Len(s) /\ Len(s) \in Nat \ {0} /\ t[Len(s)] = f
      /\ \A k \in 1..(Len(s) - 1) : t[k] = s[k]
  BY <1>1, LastReplaced DEF Framed
<1>3. ASSUME NEW k \in 1..Len(t)
      PROVE  FrameIn(T, t[k]) /\ (t[k].role = "message" <=> k = 1)
  <2>1. CASE k = Len(s)
    BY <1>2, <2>1
  <2>2. CASE k # Len(s)
    <3>1. k \in 1..(Len(s) - 1) /\ k \in 1..Len(s)
      BY <1>2, <2>2
    <3> QED
      BY <1>2, <3>1, Kept DEF Framed
  <2> QED
    BY <2>1, <2>2
<1>4. \A k \in 1..(Len(t) - 1) : Entered(t[k])
  BY <1>2 DEF Framed
<1> QED
  BY <1>1, <1>2, <1>3, <1>4 DEF Framed

LEMMA FramedPush ==
  ASSUME NEW S, NEW T, S \subseteq T, NEW s, Framed(S, s), s # <<>>,
         NEW f, FrameIn(T, f), f.role # "message", Entered(s[Len(s)])
  PROVE  Framed(T, Append(s, f))
<1>1. PICK t : t = Append(s, f)
  OBVIOUS
<1>2. /\ IsSeq(t) /\ Len(t) = Len(s) + 1 /\ Len(s) \in Nat \ {0} /\ t[Len(s) + 1] = f
      /\ \A k \in 1..Len(s) : t[k] = s[k]
  BY <1>1, Pushed, Popped DEF Framed
<1>3. ASSUME NEW k \in 1..Len(t)
      PROVE  FrameIn(T, t[k]) /\ (t[k].role = "message" <=> k = 1)
  <2>1. CASE k = Len(s) + 1
    BY <1>2, <2>1
  <2>2. CASE k # Len(s) + 1
    <3>1. k \in 1..Len(s)
      BY <1>2, <2>2
    <3> QED
      BY <1>2, <3>1, Kept DEF Framed
  <2> QED
    BY <2>1, <2>2
<1>4. ASSUME NEW k \in 1..(Len(t) - 1)
      PROVE  Entered(t[k])
  <2>1. CASE k = Len(s)
    BY <1>2, <2>1
  <2>2. CASE k # Len(s)
    <3>1. k \in 1..(Len(s) - 1) /\ k \in 1..Len(s)
      BY <1>2, <2>2
    <3> QED
      BY <1>2, <3>1 DEF Framed
  <2> QED
    BY <2>1, <2>2
<1> QED
  BY <1>1, <1>2, <1>3, <1>4 DEF Framed

\* The last frame taken off, and another in place of the one below it.
LEMMA FramedBelow ==
  ASSUME NEW S, NEW T, S \subseteq T, NEW s, Framed(S, s), Len(s) > 1, s # <<>>,
         NEW f, FrameIn(T, f), f.role = "message" <=> Len(s) = 2
  PROVE  Framed(T, [SubSeq(s, 1, Len(s) - 1) EXCEPT ![Len(s) - 1] = f])
<1>1. PICK r : r = SubSeq(s, 1, Len(s) - 1)
  OBVIOUS
<1>2. /\ IsSeq(r) /\ Len(r) = Len(s) - 1 /\ Len(s) \in Nat \ {0}
      /\ \A k \in 1..(Len(s) - 1) : r[k] = s[k]
  BY <1>1, Popped DEF Framed
<1>3. r # <<>>
  BY <1>2, EmptySeq
<1>4. PICK t : t = [r EXCEPT ![Len(r)] = f]
  OBVIOUS
<1>5. /\ IsSeq(t) /\ Len(t) = Len(r) /\ t[Len(r)] = f
      /\ \A k \in 1..(Len(r) - 1) : t[k] = r[k]
  <2>1. PICK X : r \in Seq(X)
    BY <1>2 DEF IsSeq
  <2>2. r \in Seq(X \cup {f}) /\ Len(r) \in Nat \ {0}
    BY <1>3, <2>1, SeqMonotonic, EmptySeq
  <2>3. t \in Seq(X \cup {f})
    BY <1>4, <2>2
  <2> QED
    BY <1>4, <2>2, <2>3 DEF IsSeq
<1>6. ASSUME NEW k \in 1..Len(t)
      PROVE  FrameIn(T, t[k]) /\ (t[k].role = "message" <=> k = 1)
  <2>1. CASE k = Len(r)
    BY <1>2, <1>5, <2>1
  <2>2. CASE k # Len(r)
    <3>1. k \in 1..(Len(r) - 1) /\ k \in 1..(Len(s) - 1) /\ k \in 1..Len(s)
      BY <1>2, <1>5, <2>2
    <3> QED
      BY <1>2, <1>5, <3>1, Kept DEF Framed
  <2> QED
    BY <2>1, <2>2
<1>7. ASSUME NEW k \in 1..(Len(t) - 1)
      PROVE  Entered(t[k])
  <2>1. k \in 1..(Len(r) - 1) /\ k \in 1..(Len(s) - 1)
    BY <1>2, <1>5
  <2> QED
    BY <1>2, <1>5, <2>1 DEF Framed
<1> QED
  BY <1>1, <1>2, <1>4, <1>5, <1>6, <1>7 DEF Framed

LEMMA TopIn ==
  ASSUME NEW S, NEW D, Layouts(S, D), stack # <<>>
  PROVE  /\ Len(stack) \in Nat \ {0} /\ Framed(S, stack)
         /\ FrameIn(S, Top) /\ (Top.role = "message" <=> Len(stack) = 1)
<1>1. Len(stack) \in Nat \ {0} /\ Framed(S, stack)
  BY Popped DEF Layouts, Framed
<1>2. PICK k : k = Len(stack)
  OBVIOUS
<1>3. k \in 1..Len(stack) /\ Top = stack[k]
  BY <1>1, <1>2 DEF Top
<1>4. FrameIn(S, stack[k]) /\ (stack[k].role = "message" <=> k = 1)
  BY <1>1, <1>3 DEF Framed
<1> QED
  BY <1>1, <1>2, <1>3, <1>4

LEMMA LayScalarKeeps ==
  ASSUME NEW S, NEW D, Layouts(S, D), LayScalar
  PROVE  \E T, C : Layouts(T, C)'
<1>1. stack # <<>> /\ ~Complete(Top)
  BY DEF LayScalar, Building
<1>2. FrameIn(S, Top) /\ (Top.role = "message" <=> Len(stack) = 1) /\ Framed(S, stack)
  BY <1>1, TopIn
<1>3. SizeOf(FieldAt(Top)) \in Nat
  BY <1>1, <1>2, FieldSound, SizeSound DEF LayScalar
<1>4. PICK f : f = Laid(Top, EncodingOf(FieldAt(Top)), SizeOf(FieldAt(Top)), <<>>)
  OBVIOUS
<1>5. PICK T, C : f.role = Top.role /\ S \subseteq T /\ Closed(T, C) /\ FrameIn(T, f)
  <2>1. FieldAt(Top).kind # "message" /\ Encodable(FieldAt(Top)) /\ Closed(S, D)
    BY DEF LayScalar, Layouts
  <2>2. PICK enc, size : enc = EncodingOf(FieldAt(Top)) /\ size = SizeOf(FieldAt(Top))
    OBVIOUS
  <2>3. f = Laid(Top, enc, size, <<>>) /\ size \in Nat
    BY <1>3, <1>4, <2>2
  <2> QED
    BY <1>1, <1>2, <2>1, <2>2, <2>3, LaidGrows
<1>6. stack' = Append(SubSeq(stack, 1, Len(stack) - 1), f)
  BY <1>4 DEF LayScalar, Outside
<1>7. Framed(T, stack')
  BY <1>1, <1>2, <1>5, <1>6, FramedLast
<1> QED
  BY <1>5, <1>7, StackKept DEF LayScalar

LEMMA EnterMessageKeeps ==
  ASSUME NEW S, NEW D, Layouts(S, D), EnterMessage
  PROVE  \E T, C : Layouts(T, C)'
<1>1. stack # <<>> /\ ~Complete(Top) /\ FieldAt(Top).kind = "message"
  BY DEF EnterMessage, Building
<1>2. /\ FrameIn(S, Top) /\ Framed(S, stack) /\ Len(stack) \in Nat \ {0}
      /\ Entered(stack[Len(stack)])
  BY <1>1, TopIn DEF Entered, Top
<1>3. FieldAt(Top).of \in DOMAIN Schema
  BY <1>1, <1>2, FieldSound DEF FieldOK
<1>4. PICK role : role = IF FieldAt(Top).label = "list" THEN "group" ELSE "composite"
  OBVIOUS
<1>5. PICK f : f = Frame(role, FieldAt(Top).of)
  OBVIOUS
<1>6. PICK T : T = S \cup {<<<<>>, 0>>}
  OBVIOUS
<1>7. Closed(T, D) /\ FrameIn(T, f) /\ f.role = role
  BY <1>3, <1>5, <1>6, FreshFrame DEF Layouts
<1>8. stack' = Append(stack, f)
  BY <1>4, <1>5 DEF EnterMessage
<1>9. Framed(T, stack')
  BY <1>1, <1>2, <1>4, <1>6, <1>7, <1>8, FramedPush
<1> QED
  BY <1>6, <1>7, <1>9, StackKept DEF EnterMessage

\* What is below the top of a stack of two or more.
LEMMA BelowIn ==
  ASSUME NEW S, NEW D, Layouts(S, D), stack # <<>>, Top.role # "message"
  PROVE  /\ Len(stack) > 1 /\ Len(stack) \in Nat
         /\ FrameIn(S, Below) /\ (Below.role = "message" <=> Len(stack) = 2)
         /\ Entered(Below)
<1>1. Len(stack) \in Nat /\ Len(stack) > 1
  BY TopIn
<1>2. PICK k : k = Len(stack) - 1
  OBVIOUS
<1>3. k \in 1..Len(stack) /\ Below = stack[k] /\ (k = 1 <=> Len(stack) = 2)
  BY <1>1, <1>2 DEF Below
<1>4. FrameIn(S, stack[k]) /\ (stack[k].role = "message" <=> k = 1)
  BY <1>3 DEF Layouts, Framed
<1>5. Entered(stack[k])
  <2>1. k \in 1..(Len(stack) - 1)
    BY <1>1, <1>2
  <2> QED
    BY <2>1 DEF Layouts, Framed
<1> QED
  BY <1>1, <1>3, <1>4, <1>5

LEMMA LayCompositeKeeps ==
  ASSUME NEW S, NEW D, Layouts(S, D), LayComposite
  PROVE  \E T, C : Layouts(T, C)'
<1>1. stack # <<>> /\ Top.role # "message"
  BY DEF LayComposite, Building
<1>2. FrameIn(S, Top) /\ Framed(S, stack)
  BY <1>1, TopIn
<1>3. /\ Len(stack) > 1 /\ FrameIn(S, Below) /\ (Below.role = "message" <=> Len(stack) = 2)
      /\ Entered(Below)
  BY <1>1, BelowIn
<1>4. Closed(S, D) /\ <<Top.fields, Top.offset>> \in S /\ Top.offset \in Nat
  BY <1>2 DEF FrameIn, Layouts, Closed
<1>5. PICK f : f = Laid(Below, "none", Top.offset, Top.fields)
  OBVIOUS
<1>6. PICK T, C : f.role = Below.role /\ S \subseteq T /\ Closed(T, C) /\ FrameIn(T, f)
  <2>1. PICK enc, size, inner : enc = "none" /\ size = Top.offset /\ inner = Top.fields
    OBVIOUS
  <2>2. /\ f = Laid(Below, enc, size, inner) /\ size \in Nat /\ <<inner, size>> \in S
        /\ ~Complete(Below) /\ FieldAt(Below).kind = "message"
    BY <1>3, <1>4, <1>5, <2>1 DEF Entered
  <2> QED
    BY <1>3, <1>4, <2>1, <2>2, LaidGrows
<1>7. stack' = [SubSeq(stack, 1, Len(stack) - 1) EXCEPT ![Len(stack) - 1] = f]
  BY <1>5 DEF LayComposite, Outside
<1>8. Framed(T, stack')
  BY <1>1, <1>2, <1>3, <1>6, <1>7, FramedBelow
<1> QED
  BY <1>6, <1>8, StackKept DEF LayComposite

\* A frame with one more group.
LEMMA GroupLaid ==
  ASSUME NEW S, NEW f, FrameIn(S, f), ~Complete(f), NEW g, <<g.fields, g.block_length>> \in S,
         g.fd = FieldAt(f), NEW h, h = [role |-> f.role, type |-> f.type, at |-> f.at + 1, offset |-> f.offset,
                     fields |-> f.fields, groups |-> Append(f.groups, g)]
  PROVE  FrameIn(S, h)
<1>1. PICK more : more = Append(f.groups, g)
  OBVIOUS
<1>2. /\ IsSeq(f.groups) /\ Len(f.groups) \in Nat /\ IsSeq(more) /\ Len(more) = Len(f.groups) + 1
      /\ more[Len(f.groups) + 1] = g /\ \A k \in 1..Len(f.groups) : more[k] = f.groups[k]
  BY <1>1, Pushed DEF FrameIn, GroupsIn
<1>3. GroupsIn(S, more)
  <2>1. ASSUME NEW n \in 1..Len(more)
        PROVE  <<more[n].fields, more[n].block_length>> \in S
    <3>1. CASE n = Len(f.groups) + 1
      BY <1>2, <3>1
    <3>2. CASE n # Len(f.groups) + 1
      <4>1. n \in 1..Len(f.groups)
        BY <1>2, <3>2
      <4> QED
        BY <1>2, <4>1 DEF FrameIn, GroupsIn
    <3> QED
      BY <3>1, <3>2
  <2> QED
    BY <1>2, <2>1 DEF GroupsIn
<1>4. /\ h.role = f.role /\ h.type = f.type /\ h.at = f.at + 1 /\ h.offset = f.offset
      /\ h.fields = f.fields /\ h.groups = more
  BY <1>1
<1>5. Behind(f.fields, f) /\ Behind(f.groups, f) /\ Strangers(f.fields, f.groups) /\ Apart(f.groups)
  BY DEF FrameIn
<1>6. /\ Behind(h.fields, h)
      /\ \A i \in 1..Len(f.fields) : f.fields[i].fd.name # FieldAt(f).name
  BY <1>4, <1>5, StayBehind
<1>7. \A n \in 1..Len(f.groups) : f.groups[n].fd.name # FieldAt(f).name
  BY <1>4, <1>5, StayBehind
<1>8. Behind(more, h)
  <2>1. more[Len(f.groups) + 1].fd = FieldAt(f) /\ Len(more) = Len(f.groups) + 1
    BY <1>2
  <2>2. PICK groups : groups = f.groups
    OBVIOUS
  <2>3. /\ Behind(groups, f) /\ Len(groups) \in Nat /\ Len(more) = Len(groups) + 1
        /\ more[Len(groups) + 1].fd = FieldAt(f)
        /\ \A k \in 1..Len(groups) : more[k] = groups[k]
    BY <1>2, <1>5, <2>1, <2>2
  <2> QED
    BY <1>4, <2>3, JoinsBehind
<1>9. Strangers(f.fields, more)
  <2> SUFFICES ASSUME NEW i \in 1..Len(f.fields), NEW n \in 1..Len(more)
               PROVE  f.fields[i].fd.name # more[n].fd.name
    BY DEF Strangers
  <2>1. CASE n = Len(f.groups) + 1
    BY <1>2, <1>6, <2>1
  <2>2. CASE n # Len(f.groups) + 1
    <3>1. n \in 1..Len(f.groups)
      BY <1>2, <2>2
    <3> QED
      BY <1>2, <1>5, <3>1 DEF Strangers
  <2> QED
    BY <2>1, <2>2
<1>10. Apart(more)
  <2> SUFFICES ASSUME NEW i \in 1..Len(more), NEW j \in 1..(i - 1)
               PROVE  more[j].fd.name # more[i].fd.name
    BY DEF Apart
  <2>1. j \in 1..Len(f.groups) /\ more[j] = f.groups[j]
    BY <1>2
  <2>2. CASE i = Len(f.groups) + 1
    BY <1>2, <1>7, <2>1, <2>2
  <2>3. CASE i # Len(f.groups) + 1
    <3>1. i \in 1..Len(f.groups)
      BY <1>2, <2>3
    <3> QED
      BY <1>2, <1>5, <2>1, <3>1 DEF Apart
  <2> QED
    BY <2>2, <2>3
<1> QED
  BY <1>1, <1>3, <1>4, <1>6, <1>8, <1>9, <1>10 DEF FrameIn

LEMMA LayGroupKeeps ==
  ASSUME NEW S, NEW D, Layouts(S, D), LayGroup
  PROVE  \E T, C : Layouts(T, C)'
<1>1. stack # <<>> /\ Top.role # "message"
  BY DEF LayGroup, Building
<1>2. FrameIn(S, Top) /\ Framed(S, stack)
  BY <1>1, TopIn
<1>3. /\ Len(stack) > 1 /\ FrameIn(S, Below) /\ (Below.role = "message" <=> Len(stack) = 2)
      /\ Entered(Below)
  BY <1>1, BelowIn
<1>4. PICK g : g = GroupTemplate(Top, FieldAt(Below))
  OBVIOUS
<1>5. <<g.fields, g.block_length>> \in S /\ g.fd = FieldAt(Below) /\ ~Complete(Below)
  BY <1>2, <1>3, <1>4 DEF GroupTemplate, FrameIn, Entered
<1>6. PICK f : f = [Below EXCEPT !.at = @ + 1, !.groups = Append(@, g)]
  OBVIOUS
<1>7. f = [role |-> Below.role, type |-> Below.type, at |-> Below.at + 1, offset |-> Below.offset,
           fields |-> Below.fields, groups |-> Append(Below.groups, g)]
  <2>1. PICK more, next, b : more = Append(Below.groups, g) /\ next = Below.at + 1 /\ b = Below
    OBVIOUS
  <2>2. b = [role |-> b.role, type |-> b.type, at |-> b.at, offset |-> b.offset,
             fields |-> b.fields, groups |-> b.groups]
    BY <1>3, <2>1 DEF FrameIn
  <2>3. f = [b EXCEPT !.at = next, !.groups = more]
    BY <1>6, <2>1
  <2>4. f = [role |-> b.role, type |-> b.type, at |-> next, offset |-> b.offset,
             fields |-> b.fields, groups |-> more]
    BY <2>2, <2>3
  <2> QED
    BY <2>1, <2>4
<1>8. FrameIn(S, f) /\ f.role = Below.role
  BY <1>3, <1>5, <1>7, GroupLaid
<1>9. stack' = [SubSeq(stack, 1, Len(stack) - 1) EXCEPT ![Len(stack) - 1] = f]
  BY <1>4, <1>6 DEF LayGroup, Outside
<1>10. Framed(S, stack')
  BY <1>1, <1>2, <1>3, <1>8, <1>9, FramedBelow
<1> QED
  BY <1>10, StackKept DEF LayGroup, Layouts

LEMMA LayMessageKeeps ==
  ASSUME NEW S, NEW D, Layouts(S, D), LayMessage
  PROVE  Layouts(S, D)'
<1>1. FrameIn(S, Top)
  BY TopIn DEF LayMessage, Building
<1>2. PICK t : t = MessageTemplate(Top)
  OBVIOUS
<1>3. TemplateIn(S, t)
  BY <1>1, <1>2 DEF MessageTemplate, TemplateIn, FrameIn
<1>4. /\ byName' = Mapping(byName, Top.type, t) /\ byId' = Mapping(byId, t.template_id, t)
      /\ stack' = <<>>
  BY <1>2 DEF LayMessage
<1>5. \A type \in DOMAIN byName' : TemplateIn(S, byName'[type])
  BY <1>3, <1>4 DEF Mapping, Layouts
<1>6. \A id \in DOMAIN byId' : TemplateIn(S, byId'[id]) /\ byId'[id].template_id = id
  BY <1>3, <1>4 DEF Mapping, Layouts
<1>7. Framed(S, stack')
  BY <1>4, EmptySeq DEF IsSeq, Framed
<1> QED
  BY <1>5, <1>6, <1>7 DEF Layouts, Framed

LEMMA RegisterKeeps ==
  ASSUME NEW S, NEW D, Registering, Layouts(S, D), Register
  PROVE  \E T, C : Layouts(T, C)'
<1>1. CASE UNCHANGED stack
  BY <1>1 DEF Register, Layouts
<1>2. CASE stack' = <<Frame("message", Head(pending))>>
  <2>1. Head(pending) \in DOMAIN Schema
    BY DEF Register, Registering
  <2>2. PICK f : f = Frame("message", Head(pending))
    OBVIOUS
  <2>3. PICK T : T = S \cup {<<<<>>, 0>>}
    OBVIOUS
  <2>4. Closed(T, D) /\ FrameIn(T, f) /\ f.role = "message"
    BY <2>1, <2>2, <2>3, FreshFrame DEF Layouts
  <2>5. stack' \in Seq({f}) /\ Len(stack') = 1 /\ stack'[1] = f
    BY <1>2, <2>2
  <2>6. Framed(T, stack')
    BY <2>4, <2>5 DEF Framed, IsSeq
  <2> QED
    BY <2>3, <2>4, <2>6, StackKept DEF Register
<1> QED
  BY <1>1, <1>2 DEF Register

LEMMA BuildKeeps ==
  ASSUME NEW S, NEW D, Registering, Layouts(S, D), Build
  PROVE  \E T, C : Layouts(T, C)'
<1>1. CASE OpenFile \/ RefuseField
  BY <1>1 DEF OpenFile, RefuseField, Refuse, Layouts
<1> QED
  BY <1>1, RegisterKeeps, LayScalarKeeps, EnterMessageKeeps, LayCompositeKeeps, LayGroupKeeps,
     LayMessageKeeps DEF Build

\* The messages still to be registered are types of the schema.
LEMMA BuildRegisters == Registering /\ Build => Registering'
<1> SUFFICES ASSUME Registering, Build
             PROVE  Registering'
  OBVIOUS
<1>1. ASSUME pending # <<>>
      PROVE  After \in Seq(DOMAIN Schema)
  <2>1. Head(pending) \in DOMAIN Schema /\ Tail(pending) \in Seq(DOMAIN Schema)
    BY <1>1 DEF Registering
  <2>2. Schema[Head(pending)].nested \in Seq(DOMAIN Schema)
    BY <2>1, SchemaAssumption
  <2> QED
    BY <2>1, <2>2 DEF After
<1>2. CASE OpenFile
  <2>1. file < Len(files) => files[file + 1].types \in Seq(DOMAIN Schema)
    BY FilesAssumption DEF Registering
  <2>2. Len(files) \in Nat
    BY FilesAssumption DEF Registering
  <2>3. CASE Refuse
    BY <2>3 DEF Refuse, Registering
  <2>4. CASE ~Refuse
    <3>1. /\ stack' = stack /\ stack = <<>> /\ file' = file + 1 /\ file < Len(files)
          /\ pending' = files[file + 1].types /\ UNCHANGED <<files, limits>>
      BY <1>2, <2>4 DEF OpenFile, Registering
    <3> QED
      BY <2>1, <2>2, <3>1 DEF Registering
  <2> QED
    BY <2>3, <2>4
<1>3. CASE Register
  BY <1>1, <1>3, EmptySeq DEF Register, Registering
<1>4. CASE LayMessage
  BY <1>1, <1>4 DEF LayMessage, Building, Registering
<1>5. CASE RefuseField \/ LayScalar \/ EnterMessage \/ LayComposite \/ LayGroup
  BY <1>5 DEF RefuseField, Refuse, LayScalar, EnterMessage, LayComposite, LayGroup, Building, Registering
<1> QED
  BY <1>2, <1>3, <1>4, <1>5 DEF Build

-----------------------------------------------------------------------------
(***************************************************************************)
(* Numbers of the buffer.                                                  *)
(***************************************************************************)
LEMMA Products ==
  ASSUME NEW a \in Nat, NEW b \in Nat
  PROVE  a * b \in Nat
OBVIOUS

\* Entry i of a group lies in the bytes of the group.
LEMMA EntryInGroup ==
  ASSUME NEW i \in Nat, NEW count \in Nat, i < count, NEW length \in Nat,
         NEW at \in Nat, NEW top \in Nat, at + (4 + length * count) <= top
  PROVE  at + 4 + i * length \in Nat /\ at + 4 + i * length + length <= top
<1>1. PICK d \in Nat : count = i + 1 + d
  <2>1. count - i - 1 \in Nat /\ count = i + 1 + (count - i - 1)
    OBVIOUS
  <2> QED
    BY <2>1
<1>2. i * length \in Nat /\ d * length \in Nat
  BY Products
<1>3. length * count = i * length + length + d * length
  BY <1>1
<1> QED
  BY <1>2, <1>3

LEMMA U16Natural ==
  ASSUME data \in Seq(Byte), NEW at \in Nat, at + 2 <= Len(data)
  PROVE  U16(at) \in Nat
<1>1. Base \in Nat /\ \A b \in Byte : b \in Nat
  BY BaseAssumption DEF Byte
<1>2. data[at + 1] \in Nat /\ data[at + 2] \in Nat
  BY <1>1
<1>3. Base * data[at + 2] \in Nat
  BY <1>1, <1>2, Products
<1> QED
  BY <1>2, <1>3 DEF U16

\* What check_group_header makes sure of.
LEMMA GroupChecked ==
  ASSUME data \in Seq(Byte), NEW at \in Nat, NEW least, GroupReadable(at, least),
         NEW g, g = GroupAt(at)
  PROVE  /\ g.block_length \in Nat /\ g.count \in Nat /\ g.total \in Nat
         /\ g.total = 4 + g.block_length * g.count
         /\ at + g.total <= Len(data)
         /\ g.count <= limits.max_repeated_count
         /\ g.count > 0 => g.block_length >= least
<1>1. Len(data) \in Nat /\ at + 4 <= Len(data)
  BY DEF GroupReadable, GroupHeaderSize
<1>2. U16(at) \in Nat /\ U16(at + 2) \in Nat
  BY <1>1, U16Natural
<1>3. U16(at) * U16(at + 2) \in Nat
  BY <1>2, Products
<1>4. /\ g.block_length = U16(at) /\ g.count = U16(at + 2)
      /\ g.total = 4 + U16(at) * U16(at + 2)
  BY DEF GroupAt, GroupHeaderSize
<1> QED
  BY <1>2, <1>3, <1>4 DEF GroupReadable, GroupSound

\* A read of bytes that the slice has does not leave it.
LEMMA ReadInside ==
  ASSUME NEW ft, NEW from, NEW to, ~(from + ft.size > to)
  PROVE  ReadAt(ft, from, to).err \in {"none", "NoEncoding", "InvalidUtf8"}
<1>1. CASE ft.encoding = "none"
  BY <1>1 DEF ReadAt, Read
<1>2. CASE ft.encoding # "none"
  <2>1. PICK b : b = SubSeq(data, from + 1, from + ft.size)
    OBVIOUS
  <2>2. ReadAt(ft, from, to) = Value(ft, b)
    BY <1>2, <2>1 DEF ReadAt
  <2>3. Value(ft, b).err \in {"none", "InvalidUtf8"}
    BY DEF Value, Read
  <2> QED
    BY <2>2, <2>3
<1> QED
  BY <1>1, <1>2

-----------------------------------------------------------------------------
(***************************************************************************)
(* The decoder.  A block being read lies in the buffer and has room for    *)
(* its layout.                                                             *)
(***************************************************************************)
RoomFor(S, fields, start, end) ==
  /\ start \in Nat /\ end \in Nat /\ end <= Len(data)
  /\ \E size \in Nat : <<fields, size>> \in S /\ start + size <= end

BlockIn(S, b) ==
  /\ b = [role |-> b.role, fields |-> b.fields, at |-> b.at,
          base |-> b.base, end |-> b.end, value |-> b.value]
  /\ b.at \in Nat \ {0}
  /\ RoomFor(S, b.fields, b.base, b.end)

Blocks(S, s) ==
  /\ IsSeq(s)
  /\ \A k \in 1..Len(s) : /\ BlockIn(S, s[k])
                          /\ s[k].role = "message" <=> k = 1
                          /\ s[k].role = "entry" => k = 2

InGroup(s) == Len(s) > 1 /\ s[2].role = "entry"

\* The group of which an entry is being read.
GroupOpen ==
  /\ nth <= Len(tmpl.groups)
  /\ group.block_length \in Nat /\ group.count \in Nat
  /\ group.total = 4 + group.block_length * group.count
  /\ pos + group.total <= Len(data)
  /\ group.block_length >= NextGroup.block_length
  /\ Len(entries) < group.count /\ group.count <= limits.max_repeated_count

Decoding(S) ==
  /\ data \in Seq(Byte) /\ pos \in Nat /\ nth \in Nat \ {0}
  /\ IsSeq(entries) /\ Len(entries) <= limits.max_repeated_count
  /\ Blocks(S, frames)
  /\ result # "OutOfBounds"
  /\ Reading => frames # <<>> /\ TemplateIn(S, tmpl)
  /\ Reading /\ InGroup(frames) => GroupOpen

\* The next field of a block lies in it.
LEMMA FieldIn ==
  ASSUME NEW S, NEW D, Closed(S, D), NEW fields, NEW start, NEW end,
         data \in Seq(Byte), RoomFor(S, fields, start, end), NEW i \in 1..Len(fields)
  PROVE  /\ fields[i].offset \in Nat /\ fields[i].size \in Nat
         /\ start + fields[i].offset + fields[i].size <= end
         /\ fields[i].composite # <<>> => <<fields[i].composite, fields[i].size>> \in S
<1>1. PICK size \in Nat : <<fields, size>> \in S /\ start + size <= end
  BY DEF RoomFor
<1>2. fields \in Seq(D) /\ Fits(fields, size)
  BY <1>1 DEF Closed
<1>3. fields[i] \in D
  BY <1>2
<1>4. fields[i].offset + fields[i].size <= size
  BY <1>2 DEF Fits
<1> QED
  BY <1>1, <1>3, <1>4 DEF Closed, RoomFor

LEMMA HasRoom ==
  ASSUME NEW S, NEW fields, NEW size \in Nat, <<fields, size>> \in S,
         NEW start \in Nat, NEW end \in Nat, end <= Len(data), start + size <= end
  PROVE  RoomFor(S, fields, start, end)
BY DEF RoomFor

\* A composite field has room for its layout.
LEMMA CompositeRoom ==
  ASSUME NEW S, NEW D, Closed(S, D), NEW fields, NEW start, NEW end,
         data \in Seq(Byte), RoomFor(S, fields, start, end), NEW i \in 1..Len(fields),
         fields[i].composite # <<>>
  PROVE  RoomFor(S, fields[i].composite, start + fields[i].offset,
                 start + fields[i].offset + fields[i].size)
<1>1. /\ fields[i].offset \in Nat /\ fields[i].size \in Nat
      /\ start + fields[i].offset + fields[i].size <= end
      /\ <<fields[i].composite, fields[i].size>> \in S
  BY FieldIn
<1>2. start \in Nat /\ end \in Nat /\ end <= Len(data) /\ Len(data) \in Nat
  BY DEF RoomFor
<1>3. PICK offset \in Nat, size \in Nat : offset = fields[i].offset /\ size = fields[i].size
  BY <1>1
<1>4. PICK from, to : from = start + offset /\ to = from + size
  OBVIOUS
<1>5. from \in Nat /\ to \in Nat /\ to <= Len(data) /\ from + size <= to
  <2>1. start + offset + size <= end
    BY <1>1, <1>3
  <2>2. PICK last : last = Len(data)
    OBVIOUS
  <2>3. last \in Nat /\ end <= last /\ start \in Nat /\ end \in Nat
    BY <1>2, <2>2
  <2> QED
    BY <1>4, <2>1, <2>2, <2>3
<1>6. RoomFor(S, fields[i].composite, from, to)
  BY <1>1, <1>3, <1>5, HasRoom
<1> QED
  BY <1>3, <1>4, <1>6

\* An entry has room for the layout of its group.
LEMMA EntryRoom ==
  ASSUME NEW S, NEW fields, NEW size \in Nat, <<fields, size>> \in S,
         data \in Seq(Byte), NEW at \in Nat, NEW length \in Nat, NEW count \in Nat,
         at + (4 + length * count) <= Len(data), size <= length,
         NEW i \in Nat, i < count
  PROVE  RoomFor(S, fields, at + GroupHeaderSize + i * length,
                 at + GroupHeaderSize + i * length + length)
<1>1. PICK start : start = at + 4 + i * length
  OBVIOUS
<1>2. start \in Nat /\ start + length <= Len(data)
  BY <1>1, EntryInGroup
<1>3. PICK end : end = start + length
  OBVIOUS
<1>4. end \in Nat /\ start + size <= end
  BY <1>2, <1>3
<1>5. RoomFor(S, fields, start, end)
  BY <1>2, <1>3, <1>4, HasRoom
<1> QED
  BY <1>1, <1>3, <1>5 DEF GroupHeaderSize

LEMMA FreshBlock ==
  ASSUME NEW S, NEW role, NEW fields, NEW start, NEW end, RoomFor(S, fields, start, end)
  PROVE  BlockIn(S, Block(role, fields, start, end)) /\ Block(role, fields, start, end).role = role
BY DEF Block, BlockIn

\* A block with another value, of which as much or one field more is read.
LEMMA BlockMoved ==
  ASSUME NEW S, NEW b, BlockIn(S, b), NEW at \in {b.at, b.at + 1}, NEW value, NEW c,
         c = [role |-> b.role, fields |-> b.fields, at |-> at,
              base |-> b.base, end |-> b.end, value |-> value]
  PROVE  BlockIn(S, c) /\ c.role = b.role
<1>1. /\ c.role = b.role /\ c.fields = b.fields /\ c.at = at /\ c.base = b.base
      /\ c.end = b.end /\ c.value = value
  OBVIOUS
<1>2. at \in Nat \ {0}
  BY DEF BlockIn
<1> QED
  BY <1>1, <1>2 DEF BlockIn

LEMMA WithIn ==
  ASSUME NEW S, NEW b, BlockIn(S, b), NEW val
  PROVE  BlockIn(S, With(b, val)) /\ With(b, val).role = b.role
<1>1. PICK at, value :
        /\ at = b.at + 1
        /\ value = Mapping(Without(b.value, Rivals(b.fields, b.fields[b.at].fd)),
                           b.fields[b.at].fd.name, val)
  OBVIOUS
<1>2. PICK c : c = [b EXCEPT !.at = at, !.value = value]
  OBVIOUS
<1>3. c = With(b, val)
  BY <1>1, <1>2 DEF With
<1>4. b = [role |-> b.role, fields |-> b.fields, at |-> b.at,
           base |-> b.base, end |-> b.end, value |-> b.value]
  BY DEF BlockIn
<1>5. c = [role |-> b.role, fields |-> b.fields, at |-> at,
           base |-> b.base, end |-> b.end, value |-> value]
  BY <1>2, <1>4
<1> QED
  BY <1>1, <1>3, <1>5, BlockMoved

LEMMA GroupedIn ==
  ASSUME NEW S, BlockIn(S, Message), Message.role = "message", NEW list
  PROVE  Blocks(S, Grouped(list)) /\ Len(Grouped(list)) = 1 /\ Grouped(list) # <<>>
<1>1. PICK b, value : /\ b = Message
                      /\ value = Mapping(Message.value, NextGroup.fd.name, list)
  OBVIOUS
<1>2. PICK c : c = [b EXCEPT !.value = value]
  OBVIOUS
<1>3. b = [role |-> b.role, fields |-> b.fields, at |-> b.at,
           base |-> b.base, end |-> b.end, value |-> b.value]
  BY <1>1 DEF BlockIn
<1>4. c = [role |-> b.role, fields |-> b.fields, at |-> b.at,
           base |-> b.base, end |-> b.end, value |-> value]
  BY <1>2, <1>3
<1>5. BlockIn(S, c) /\ c.role = "message"
  BY <1>1, <1>4, BlockMoved
<1>6. PICK s : s = <<c>>
  OBVIOUS
<1>7. Grouped(list) = s
  BY <1>1, <1>2, <1>6 DEF Grouped
<1>8. s \in Seq({c}) /\ Len(s) = 1 /\ s[1] = c /\ s # <<>>
  BY <1>6
<1> QED
  BY <1>5, <1>7, <1>8 DEF Blocks, IsSeq

LEMMA BlocksPrime ==
  ASSUME NEW S, Blocks(S, frames'), UNCHANGED data
  PROVE  Blocks(S, frames)'
BY DEF Blocks, BlockIn, RoomFor

\* A block put on top, and one in place of the last.
LEMMA BlocksPush ==
  ASSUME NEW S, NEW s, Blocks(S, s), s # <<>>, NEW b, BlockIn(S, b), b.role # "message",
         b.role = "entry" => Len(s) = 1
  PROVE  LET t == Append(s, b)
         IN  /\ Blocks(S, t) /\ t # <<>> /\ Len(t) = Len(s) + 1 /\ Len(s) \in Nat \ {0}
             /\ t[Len(s) + 1] = b /\ \A k \in 1..Len(s) : t[k] = s[k]
<1>1. PICK t : t = Append(s, b)
  OBVIOUS
<1>2. /\ IsSeq(t) /\ Len(t) = Len(s) + 1 /\ Len(s) \in Nat \ {0} /\ t[Len(s) + 1] = b
      /\ \A k \in 1..Len(s) : t[k] = s[k]
  BY <1>1, Pushed, Popped DEF Blocks
<1>3. ASSUME NEW k \in 1..Len(t)
      PROVE  /\ BlockIn(S, t[k])
             /\ t[k].role = "message" <=> k = 1
             /\ t[k].role = "entry" => k = 2
  <2>1. CASE k = Len(s) + 1
    <3>1. t[k] = b
      BY <1>2, <2>1
    <3>2. PICK n \in Nat \ {0} : n = Len(s)
      BY <1>2
    <3>3. n + 1 # 1 /\ (n = 1 => n + 1 = 2) /\ k = n + 1
      BY <2>1, <3>2
    <3> QED
      BY <3>1, <3>2, <3>3
  <2>2. CASE k # Len(s) + 1
    <3>1. k \in 1..Len(s)
      BY <1>2, <2>2
    <3> QED
      BY <1>2, <3>1 DEF Blocks
  <2> QED
    BY <2>1, <2>2
<1>4. t # <<>>
  BY <1>2, EmptySeq
<1>5. Blocks(S, t)
  BY <1>2, <1>3 DEF Blocks
<1> QED
  BY <1>1, <1>2, <1>4, <1>5

LEMMA BlocksLast ==
  ASSUME NEW S, NEW s, Blocks(S, s), s # <<>>, NEW b, BlockIn(S, b), b.role = s[Len(s)].role
  PROVE  LET t == Append(SubSeq(s, 1, Len(s) - 1), b)
         IN  /\ Blocks(S, t) /\ t # <<>> /\ Len(t) = Len(s) /\ Len(s) \in Nat \ {0}
             /\ t[Len(s)] = b /\ \A k \in 1..(Len(s) - 1) : t[k] = s[k]
<1>1. PICK t : t = Append(SubSeq(s, 1, Len(s) - 1), b)
  OBVIOUS
<1>2. /\ IsSeq(t) /\ Len(t) = Len(s) /\ Len(s) \in Nat \ {0} /\ t[Len(s)] = b
      /\ \A k \in 1..(Len(s) - 1) : t[k] = s[k]
  BY <1>1, LastReplaced DEF Blocks
<1>3. ASSUME NEW k \in 1..Len(t)
      PROVE  /\ BlockIn(S, t[k])
             /\ t[k].role = "message" <=> k = 1
             /\ t[k].role = "entry" => k = 2
  <2>1. t[k].role = s[k].role /\ k \in 1..Len(s)
    <3>1. CASE k = Len(s)
      BY <1>2, <3>1
    <3>2. CASE k \in 1..(Len(s) - 1)
      BY <1>2, <3>2
    <3> QED
      BY <1>2, <3>1, <3>2
  <2>2. CASE k = Len(s)
    BY <1>2, <2>1, <2>2 DEF Blocks
  <2>3. CASE k # Len(s)
    BY <1>2, <2>1, <2>3 DEF Blocks
  <2> QED
    BY <2>2, <2>3
<1>4. t # <<>>
  BY <1>2, EmptySeq
<1>5. Blocks(S, t)
  BY <1>2, <1>3 DEF Blocks
<1> QED
  BY <1>1, <1>2, <1>4, <1>5

LEMMA InnerIn ==
  ASSUME NEW S, Decoding(S), Reading
  PROVE  /\ frames # <<>> /\ Blocks(S, frames) /\ Len(frames) \in Nat \ {0}
         /\ BlockIn(S, Inner) /\ Inner = frames[Len(frames)]
         /\ Inner.role = "message" <=> Len(frames) = 1
         /\ Inner.role = "entry" => Len(frames) = 2
<1>1. Len(frames) \in Nat \ {0} /\ frames # <<>> /\ Blocks(S, frames)
  BY Popped DEF Decoding, Blocks
<1>2. PICK k : k = Len(frames)
  OBVIOUS
<1>3. k \in 1..Len(frames) /\ Inner = frames[k]
  BY <1>1, <1>2 DEF Inner
<1>4. /\ BlockIn(S, frames[k])
      /\ frames[k].role = "message" <=> k = 1
      /\ frames[k].role = "entry" => k = 2
  BY <1>1, <1>3 DEF Blocks
<1> QED
  BY <1>1, <1>2, <1>3, <1>4

\* The next field of the block being read lies in it, and so in the buffer.
LEMMA InnerField ==
  ASSUME NEW S, NEW D, Closed(S, D), Decoding(S), Reading, ~Filled
  PROVE  /\ Inner.at \in 1..Len(Inner.fields)
         /\ Inner.base + Field.offset + Field.size <= Inner.end
         /\ Inner.end <= Len(data)
         /\ Inner.base \in Nat /\ Field.offset \in Nat /\ Field.size \in Nat /\ Inner.end \in Nat
<1>1. BlockIn(S, Inner) /\ data \in Seq(Byte)
  BY InnerIn DEF Decoding
<1>2. Inner.at \in Nat \ {0} /\ RoomFor(S, Inner.fields, Inner.base, Inner.end)
  BY <1>1 DEF BlockIn
<1>3. PICK size : <<Inner.fields, size>> \in S
  BY <1>2 DEF RoomFor
<1>4. Len(Inner.fields) \in Nat
  BY <1>3 DEF Closed
<1>5. Inner.at \in 1..Len(Inner.fields)
  BY <1>2, <1>4 DEF Filled
<1> QED
  BY <1>1, <1>2, <1>5, FieldIn DEF Field, RoomFor

LEMMA ReadScalarKeeps ==
  ASSUME NEW S, NEW D, Closed(S, D), Decoding(S), ReadScalar
  PROVE  Decoding(S)'
<1>1. Reading /\ ~Filled /\ UNCHANGED <<data, tmpl, pos, entries, group, nth, limits>>
  BY DEF ReadScalar, Scalar, Stop, templateVars
<1>2. PICK read : /\ read = ReadAt(Field, Inner.base + Field.offset, Len(data))
                  /\ Scalar(read)
  BY DEF ReadScalar
<1>3. read.err \in {"none", "NoEncoding", "InvalidUtf8"}
  <2>1. ~(Inner.base + Field.offset + Field.size > Len(data))
    <3>1. PICK from, size, end, last : /\ from = Inner.base + Field.offset /\ size = Field.size
                                       /\ end = Inner.end /\ last = Len(data)
      OBVIOUS
    <3>2. /\ from \in Nat /\ size \in Nat /\ end \in Nat /\ last \in Nat
          /\ from + size <= end /\ end <= last
      BY <1>1, <3>1, InnerField DEF Decoding
    <3> QED
      BY <3>1, <3>2
  <2> QED
    BY <1>2, <2>1, ReadInside
<1>4. CASE read.err # "none"
  <2>1. result' = read.err /\ UNCHANGED frames
    BY <1>2, <1>4 DEF Scalar, Stop
  <2>2. Blocks(S, frames)'
    BY <1>1, <2>1, BlocksPrime DEF Decoding
  <2> QED
    BY <1>1, <1>3, <2>1, <2>2 DEF Decoding, Reading
<1>5. CASE read.err = "none"
  <2>1. frames' = Append(SubSeq(frames, 1, Len(frames) - 1), With(Inner, read.val)) /\ UNCHANGED result
    BY <1>2, <1>5 DEF Scalar, Stop, Rest
  <2>2. PICK b : b = With(Inner, read.val)
    OBVIOUS
  <2>3. BlockIn(S, b) /\ b.role = Inner.role
    BY <1>1, <2>2, InnerIn, WithIn
  <2>4. /\ Blocks(S, frames') /\ frames' # <<>> /\ Len(frames') = Len(frames)
        /\ Len(frames) \in Nat \ {0}
        /\ frames'[Len(frames)] = b /\ \A k \in 1..(Len(frames) - 1) : frames'[k] = frames[k]
    <3>1. Blocks(S, frames) /\ frames # <<>> /\ b.role = frames[Len(frames)].role
      BY <1>1, <2>3, InnerIn
    <3>2. PICK t : t = Append(SubSeq(frames, 1, Len(frames) - 1), b)
      OBVIOUS
    <3>3. /\ Blocks(S, t) /\ t # <<>> /\ Len(t) = Len(frames) /\ Len(frames) \in Nat \ {0}
          /\ t[Len(frames)] = b /\ \A k \in 1..(Len(frames) - 1) : t[k] = frames[k]
      BY <2>3, <3>1, <3>2, BlocksLast
    <3> QED
      BY <2>1, <2>2, <3>2, <3>3
  <2>5. \A k \in 1..Len(frames) : frames'[k].role = frames[k].role
    BY <1>1, <2>3, <2>4, InnerIn
  <2>6. InGroup(frames') => InGroup(frames)
    BY <2>4, <2>5 DEF InGroup
  <2> QED
    BY <1>1, <2>1, <2>4, <2>6, BlocksPrime DEF Decoding, Reading, GroupOpen, NextGroup, InGroup
<1> QED
  BY <1>4, <1>5

LEMMA EnterCompositeKeeps ==
  ASSUME NEW S, NEW D, Closed(S, D), Decoding(S), EnterComposite
  PROVE  Decoding(S)'
<1>1. /\ Reading /\ ~Filled /\ Field.composite # <<>>
      /\ UNCHANGED <<data, tmpl, pos, entries, group, nth, limits, result>>
  BY DEF EnterComposite, templateVars
<1>2. PICK b : b = Block("composite", Field.composite, Inner.base + Field.offset,
                         Inner.base + Field.offset + Field.size)
  OBVIOUS
<1>3. BlockIn(S, Inner) /\ Blocks(S, frames) /\ frames # <<>> /\ data \in Seq(Byte)
  BY <1>1, InnerIn DEF Decoding
<1>4. Inner.at \in 1..Len(Inner.fields) /\ Field = Inner.fields[Inner.at]
  BY <1>1, InnerField DEF Field
<1>5. RoomFor(S, Inner.fields, Inner.base, Inner.end)
  BY <1>3 DEF BlockIn
<1>6. BlockIn(S, b) /\ b.role = "composite"
  <2>1. PICK i : i = Inner.at
    OBVIOUS
  <2>2. i \in 1..Len(Inner.fields) /\ Inner.fields[i].composite # <<>>
    BY <1>1, <1>4, <2>1
  <2>3. RoomFor(S, Inner.fields[i].composite, Inner.base + Inner.fields[i].offset,
                Inner.base + Inner.fields[i].offset + Inner.fields[i].size)
    BY <1>3, <1>5, <2>2, CompositeRoom
  <2> QED
    BY <1>2, <1>4, <2>1, <2>3, FreshBlock
<1>7. PICK t : t = Append(frames, b)
  OBVIOUS
<1>8. /\ Blocks(S, t) /\ t # <<>> /\ Len(t) = Len(frames) + 1 /\ Len(frames) \in Nat \ {0}
      /\ t[Len(frames) + 1] = b /\ \A k \in 1..Len(frames) : t[k] = frames[k]
  BY <1>3, <1>6, <1>7, BlocksPush
<1>9. frames' = t
  BY <1>2, <1>7 DEF EnterComposite
<1>10. InGroup(t) => InGroup(frames)
  <2>1. CASE Len(frames) = 1
    <3>1. t[2] = b
      BY <1>8, <2>1
    <3> QED
      BY <1>6, <3>1 DEF InGroup
  <2>2. CASE Len(frames) # 1
    <3>1. PICK n \in Nat \ {0, 1} : n = Len(frames)
      BY <1>8, <2>2
    <3>2. n > 1 /\ 2 \in 1..n
      OBVIOUS
    <3> QED
      BY <1>8, <3>1, <3>2 DEF InGroup
  <2> QED
    BY <2>1, <2>2
<1> QED
  BY <1>1, <1>8, <1>9, <1>10, BlocksPrime DEF Decoding, Reading, GroupOpen, NextGroup, InGroup

LEMMA LeaveCompositeKeeps ==
  ASSUME NEW S, Decoding(S), LeaveComposite
  PROVE  Decoding(S)'
<1>1. /\ Reading /\ Inner.role = "composite"
      /\ UNCHANGED <<data, tmpl, pos, entries, group, nth, limits, result>>
  BY DEF LeaveComposite, templateVars
<1>2. Blocks(S, frames) /\ frames # <<>> /\ Len(frames) \in Nat \ {0} /\ Len(frames) # 1
  BY <1>1, InnerIn
<1>3. PICK r : r = Rest
  OBVIOUS
<1>4. /\ IsSeq(r) /\ Len(r) = Len(frames) - 1 /\ \A k \in 1..(Len(frames) - 1) : r[k] = frames[k]
  BY <1>2, <1>3, Popped DEF Blocks, Rest
<1>5. r # <<>> /\ Len(r) \in Nat \ {0}
  BY <1>2, <1>4, EmptySeq
<1>6. Blocks(S, r)
  BY <1>2, <1>4, <1>5 DEF Blocks
<1>7. PICK b : b = With(r[Len(r)], Inner.value)
  OBVIOUS
<1>8. BlockIn(S, r[Len(r)])
  BY <1>5, <1>6 DEF Blocks
<1>9. BlockIn(S, b) /\ b.role = r[Len(r)].role
  BY <1>7, <1>8, WithIn
<1>10. PICK t : t = Append(SubSeq(r, 1, Len(r) - 1), b)
  OBVIOUS
<1>11. /\ Blocks(S, t) /\ t # <<>> /\ Len(t) = Len(r)
       /\ t[Len(r)] = b /\ \A k \in 1..(Len(r) - 1) : t[k] = r[k]
  BY <1>5, <1>6, <1>9, <1>10, BlocksLast
<1>12. frames' = t
  BY <1>3, <1>7, <1>10 DEF LeaveComposite
<1>13. InGroup(t) => InGroup(frames)
  <2> SUFFICES ASSUME Len(t) > 1, t[2].role = "entry"
               PROVE  frames[2].role = "entry" /\ Len(frames) > 1
    BY DEF InGroup
  <2>1. t[2].role = r[2].role
    <3>1. CASE Len(r) = 2
      BY <1>9, <1>11, <3>1
    <3>2. CASE Len(r) > 2
      BY <1>11, <3>2
    <3> QED
      BY <1>5, <1>11, <3>1, <3>2
  <2>2. r[2] = frames[2]
    BY <1>2, <1>4, <1>11
  <2> QED
    BY <1>2, <1>4, <1>11, <2>1, <2>2
<1> QED
  BY <1>1, <1>11, <1>12, <1>13, BlocksPrime DEF Decoding, Reading, GroupOpen, NextGroup, InGroup

\* The template of the next group is one of the layouts.
LEMMA NextGroupIn ==
  ASSUME NEW S, NEW D, Closed(S, D), Decoding(S), Reading, GroupsLeft
  PROVE  <<NextGroup.fields, NextGroup.block_length>> \in S /\ NextGroup.block_length \in Nat
<1>1. GroupsIn(S, tmpl.groups) /\ nth \in Nat \ {0}
  BY DEF Decoding, TemplateIn
<1>2. Len(tmpl.groups) \in Nat
  BY <1>1, EmptySeq DEF GroupsIn, IsSeq
<1>3. nth \in 1..Len(tmpl.groups)
  BY <1>1, <1>2 DEF GroupsLeft
<1>4. <<NextGroup.fields, NextGroup.block_length>> \in S
  BY <1>1, <1>3 DEF GroupsIn, NextGroup
<1> QED
  BY <1>4 DEF Closed

LEMMA EntryIn ==
  ASSUME NEW S, data \in Seq(Byte), pos \in Nat,
         <<NextGroup.fields, NextGroup.block_length>> \in S, NextGroup.block_length \in Nat,
         NEW g, g.block_length \in Nat, g.count \in Nat, g.total = 4 + g.block_length * g.count,
         pos + g.total <= Len(data), g.block_length >= NextGroup.block_length,
         NEW i \in Nat, i < g.count
  PROVE  BlockIn(S, Entry(g, i)) /\ Entry(g, i).role = "entry"
<1>1. PICK length \in Nat, count \in Nat : length = g.block_length /\ count = g.count
  OBVIOUS
<1>2. pos + (4 + length * count) <= Len(data) /\ NextGroup.block_length <= length
  BY <1>1
<1>3. RoomFor(S, NextGroup.fields, pos + GroupHeaderSize + i * length,
              pos + GroupHeaderSize + i * length + length)
  BY <1>1, <1>2, EntryRoom
<1> QED
  BY <1>1, <1>3, FreshBlock DEF Entry

LEMMA EnterGroupKeeps ==
  ASSUME NEW S, NEW D, Closed(S, D), limits.max_repeated_count \in Nat, Decoding(S), EnterGroup
  PROVE  Decoding(S)'
<1>1. Reading /\ Inner.role = "message" /\ GroupsLeft /\ UNCHANGED <<limits, data, tmpl>>
  BY DEF EnterGroup, AtGroups, Stop, templateVars
<1>2. CASE Stop("BadGroup")
  <2>1. UNCHANGED <<frames, data, tmpl, pos, entries, group, nth, limits>> /\ result' = "BadGroup"
    BY <1>2 DEF Stop, templateVars
  <2> QED
    BY <2>1, BlocksPrime DEF Decoding, Reading
<1>3. CASE ~Stop("BadGroup")
  <2>1. PICK g : g = GroupAt(pos)
    OBVIOUS
  <2>2. /\ GroupReadable(pos, NextGroup.block_length)
        /\ group' = g /\ entries' = <<>> /\ UNCHANGED result
        /\ IF g.count = 0
           THEN frames' = Grouped(<<>>) /\ pos' = pos + g.total /\ nth' = nth + 1
           ELSE frames' = Append(frames, Entry(g, 0)) /\ UNCHANGED <<pos, nth>>
    BY <1>3, <2>1 DEF EnterGroup
  <2>3. /\ g.block_length \in Nat /\ g.count \in Nat /\ g.total \in Nat
        /\ g.total = 4 + g.block_length * g.count
        /\ pos + g.total <= Len(data)
        /\ g.count <= limits.max_repeated_count
        /\ g.count > 0 => g.block_length >= NextGroup.block_length
    BY <2>1, <2>2, GroupChecked DEF Decoding
  <2>4. Blocks(S, frames) /\ frames # <<>> /\ Len(frames) = 1 /\ BlockIn(S, Message)
        /\ Message.role = "message"
    BY <1>1, InnerIn DEF Message
  <2>5. IsSeq(entries') /\ Len(entries') = 0
    BY <2>2, EmptySeq DEF IsSeq
  <2>6. CASE g.count = 0
    <3>1. Blocks(S, frames') /\ frames' # <<>> /\ Len(frames') = 1
      BY <2>2, <2>4, <2>6, GroupedIn
    <3>2. pos' \in Nat /\ nth' \in Nat \ {0}
      BY <2>2, <2>3, <2>6 DEF Decoding
    <3> QED
      BY <1>1, <2>2, <2>5, <3>1, <3>2, BlocksPrime DEF Decoding, Reading, InGroup
  <2>7. CASE g.count # 0
    <3>1. <<NextGroup.fields, NextGroup.block_length>> \in S /\ NextGroup.block_length \in Nat
      BY <1>1, NextGroupIn
    <3>2. PICK i, b : i = 0 /\ b = Entry(g, i)
      OBVIOUS
    <3>3. BlockIn(S, b) /\ b.role = "entry"
      <4>1. i \in Nat /\ i < g.count /\ g.block_length >= NextGroup.block_length
        BY <2>3, <2>7, <3>2
      <4> QED
        BY <2>3, <3>1, <3>2, <4>1, EntryIn DEF Decoding
    <3>5. PICK t : t = Append(frames, b)
      OBVIOUS
    <3>6. /\ Blocks(S, t) /\ t # <<>>
      BY <2>4, <3>3, <3>5, BlocksPush
    <3>7. frames' = t /\ UNCHANGED <<pos, nth>>
      BY <2>2, <2>7, <3>2, <3>5
    <3>8. GroupOpen'
      BY <1>1, <2>2, <2>3, <2>5, <2>7, <3>7 DEF GroupOpen, GroupsLeft, NextGroup
    <3> QED
      BY <1>1, <2>2, <2>5, <3>6, <3>7, <3>8, BlocksPrime DEF Decoding, Reading
  <2> QED
    BY <2>6, <2>7
<1> QED
  BY <1>2, <1>3

LEMMA LeaveEntryKeeps ==
  ASSUME NEW S, NEW D, Closed(S, D), limits.max_repeated_count \in Nat, Decoding(S), LeaveEntry
  PROVE  Decoding(S)'
<1>1. Reading /\ Inner.role = "entry" /\ UNCHANGED <<limits, data, tmpl, group, result>>
  BY DEF LeaveEntry, templateVars
<1>2. /\ Blocks(S, frames) /\ frames # <<>> /\ Len(frames) = 2 /\ Inner = frames[2]
  BY <1>1, InnerIn
<1>3. GroupOpen
  BY <1>1, <1>2 DEF Decoding, InGroup
<1>4. BlockIn(S, Message) /\ Message.role = "message"
  BY <1>2 DEF Blocks, Message
<1>5. PICK n : n = Len(entries)
  OBVIOUS
<1>6. /\ entries' = Append(entries, Inner.value)
      /\ IF n + 1 < group.count
         THEN frames' = Append(Rest, Entry(group, n + 1)) /\ UNCHANGED <<pos, nth>>
         ELSE frames' = Grouped(entries') /\ pos' = pos + group.total /\ nth' = nth + 1
  BY <1>5 DEF LeaveEntry
<1>7. IsSeq(entries') /\ Len(entries') = n + 1 /\ n \in Nat
  BY <1>5, <1>6, Pushed DEF Decoding
<1>8. /\ n < group.count /\ group.count \in Nat /\ group.count <= limits.max_repeated_count
      /\ group.total = 4 + group.block_length * group.count /\ group.block_length \in Nat
  BY <1>3, <1>5 DEF GroupOpen
<1>9. Len(entries') <= limits.max_repeated_count
  BY <1>7, <1>8
<1>10. CASE n + 1 < group.count
  <2>1. GroupsLeft
    BY <1>3 DEF GroupOpen, GroupsLeft
  <2>2. <<NextGroup.fields, NextGroup.block_length>> \in S /\ NextGroup.block_length \in Nat
    BY <1>1, <2>1, NextGroupIn
  <2>3. PICK i, b : i = n + 1 /\ b = Entry(group, i)
    OBVIOUS
  <2>4. BlockIn(S, b) /\ b.role = "entry"
    <3>1. i \in Nat /\ i < group.count
      BY <1>7, <1>10, <2>3
    <3> QED
      BY <1>3, <1>8, <2>2, <2>3, <3>1, EntryIn DEF Decoding, GroupOpen
  <2>5. PICK r : r = Rest
    OBVIOUS
  <2>6. IsSeq(r) /\ Len(r) = 1 /\ r[1] = frames[1]
    <3>1. /\ IsSeq(r) /\ Len(r) = Len(frames) - 1
          /\ \A k \in 1..(Len(frames) - 1) : r[k] = frames[k]
      BY <1>2, <2>5, Popped DEF Blocks, Rest
    <3>2. Len(frames) - 1 = 1 /\ 1 \in 1..(Len(frames) - 1)
      BY <1>2
    <3> QED
      BY <3>1, <3>2
  <2>7. r # <<>>
    BY <2>6, EmptySeq
  <2>8. Blocks(S, r)
    <3>1. \A k \in 1..Len(r) : k = 1
      BY <2>6
    <3> QED
      BY <1>4, <2>6, <3>1 DEF Blocks, Message
  <2>9. PICK t : t = Append(r, b)
    OBVIOUS
  <2>10. Blocks(S, t) /\ t # <<>>
    BY <2>4, <2>6, <2>7, <2>8, <2>9, BlocksPush
  <2>11. frames' = t /\ UNCHANGED <<pos, nth>>
    BY <1>6, <1>10, <2>3, <2>5, <2>9
  <2>12. GroupOpen'
    BY <1>1, <1>3, <1>7, <1>10, <2>11 DEF GroupOpen, NextGroup
  <2> QED
    BY <1>1, <1>7, <1>9, <2>10, <2>11, <2>12, BlocksPrime DEF Decoding, Reading
<1>11. CASE ~(n + 1 < group.count)
  <2>1. Blocks(S, frames') /\ frames' # <<>> /\ Len(frames') = 1
    BY <1>4, <1>6, <1>11, GroupedIn
  <2>2. group.total \in Nat
    BY <1>8, Products
  <2>3. pos' \in Nat /\ nth' \in Nat \ {0}
    BY <1>6, <1>11, <2>2 DEF Decoding
  <2> QED
    BY <1>1, <1>7, <1>9, <2>1, <2>3, BlocksPrime DEF Decoding, Reading, InGroup
<1> QED
  BY <1>10, <1>11

LEMMA UnmarshalKeeps ==
  ASSUME NEW S, NEW D, Closed(S, D), Decoding(S), NEW type \in DOMAIN byName,
         TemplateIn(S, byName[type]), Unmarshal(type)
  PROVE  Decoding(S)'
<1>1. /\ UNCHANGED <<limits, data, entries, nth>> /\ tmpl' = byName[type]
      /\ ~Reading
  BY DEF Unmarshal, templateVars, Reading
<1>2. CASE ~Acceptable(byName[type])
  <2>1. result' = "BadMessage" /\ UNCHANGED <<pos, frames>>
    BY <1>2 DEF Unmarshal
  <2> QED
    BY <1>1, <2>1, BlocksPrime DEF Decoding, Reading
<1>3. CASE Acceptable(byName[type])
  <2>1. PICK t : t = byName[type]
    OBVIOUS
  <2>2. PICK b : b = Block("message", t.fields, HeaderSize, RootEnd)
    OBVIOUS
  <2>3. frames' = <<b>> /\ pos' = RootEnd /\ result' = "reading"
    BY <1>3, <2>1, <2>2 DEF Unmarshal
  <2>4. <<t.fields, t.block_length>> \in S /\ t.block_length \in Nat /\ Len(data) \in Nat
    BY <2>1 DEF TemplateIn, Closed, Decoding
  <2>5. U16(0) \in Nat /\ U16(0) >= t.block_length /\ HeaderSize + U16(0) <= Len(data)
    <3>1. 0 \in Nat /\ 0 + 2 <= Len(data)
      BY <1>3, <2>4 DEF Acceptable, MessageSound, HeaderSize
    <3>2. U16(0) \in Nat
      BY <3>1, U16Natural DEF Decoding
    <3> QED
      BY <1>3, <2>1, <3>2 DEF Acceptable, RootSound, RootEnd
  <2>6. RootEnd \in Nat /\ HeaderSize \in Nat /\ RootEnd <= Len(data)
        /\ HeaderSize + t.block_length <= RootEnd
    BY <2>4, <2>5 DEF RootEnd, HeaderSize
  <2>7. RoomFor(S, t.fields, HeaderSize, RootEnd)
    BY <2>4, <2>6, HasRoom
  <2>8. BlockIn(S, b) /\ b.role = "message"
    BY <2>2, <2>7, FreshBlock
  <2>9. PICK s : s = <<b>>
    OBVIOUS
  <2>10. s \in Seq({b}) /\ Len(s) = 1 /\ s[1] = b /\ s # <<>>
    BY <2>9
  <2>11. Blocks(S, s)
    BY <2>8, <2>10 DEF Blocks, IsSeq
  <2>12. Blocks(S, frames') /\ frames' # <<>> /\ Len(frames') = 1
    BY <2>3, <2>9, <2>10, <2>11
  <2> QED
    BY <1>1, <2>3, <2>6, <2>12, BlocksPrime DEF Decoding, InGroup
<1> QED
  BY <1>2, <1>3

LEMMA DecodeKeeps ==
  ASSUME NEW S, NEW D, limits.max_repeated_count \in Nat, Layouts(S, D), Decoding(S), Decode
  PROVE  Decoding(S)'
<1>1. Closed(S, D) /\ \A type \in DOMAIN byName : TemplateIn(S, byName[type])
  BY DEF Layouts
<1>2. CASE Finish
  <2>1. UNCHANGED <<frames, data, tmpl, pos, entries, group, nth, limits>> /\ result' = "done"
    BY <1>2 DEF Finish, Stop, templateVars
  <2> QED
    BY <2>1, BlocksPrime DEF Decoding, Reading
<1> QED
  BY <1>1, <1>2, UnmarshalKeeps, ReadScalarKeeps, EnterCompositeKeeps, LeaveCompositeKeeps,
     EnterGroupKeeps, LeaveEntryKeeps DEF Decode

-----------------------------------------------------------------------------
(***************************************************************************)
(* The views.                                                              *)
(***************************************************************************)
ViewIn(S, v) ==
  /\ v.kind = "view"
  /\ RoomFor(S, v.fields, v.start, v.end)
  /\ GroupsIn(S, v.groups)

GroupViewIn(S, v) ==
  /\ v.kind = "group"
  /\ v.base \in Nat /\ v.block_length \in Nat /\ v.count \in Nat
  /\ v.base + (4 + v.block_length * v.count) <= Len(data)
  /\ v.count <= limits.max_repeated_count
  /\ \E size \in Nat : <<v.fields, size>> \in S /\ (v.count > 0 => size <= v.block_length)

Viewing(S) ==
  /\ view = NoView \/ ViewIn(S, view) \/ GroupViewIn(S, view)
  /\ walk # NoWalk =>
       /\ walk = [want |-> walk.want, next |-> walk.next, at |-> walk.at]
       /\ ViewIn(S, view) /\ walk.at \in Nat
       /\ walk.next \in Nat \ {0} /\ walk.want \in Nat
       /\ walk.next <= walk.want /\ walk.want <= Len(view.groups)

\* A call that returns a good view.
LEMMA ReturnsKeeps ==
  ASSUME NEW S, NEW v, Returns(v), ViewIn(S, v) \/ GroupViewIn(S, v)
  PROVE  Viewing(S)'
<1>1. view' = v /\ walk' = NoWalk /\ UNCHANGED <<data, limits>>
  BY DEF Returns, templateVars
<1>2. ViewIn(S, view)' \/ GroupViewIn(S, view)'
  BY <1>1 DEF ViewIn, GroupViewIn, RoomFor
<1> QED
  BY <1>1, <1>2 DEF Viewing

LEMMA ErrsKeeps ==
  ASSUME NEW S, Viewing(S), NEW why, Errs(why)
  PROVE  Viewing(S)'
<1>1. UNCHANGED <<view, data, limits>> /\ walk' = NoWalk
  BY DEF Errs, templateVars
<1> QED
  BY <1>1 DEF Viewing, ViewIn, GroupViewIn, RoomFor

LEMMA OpenViewKeeps ==
  ASSUME NEW S, NEW D, Layouts(S, D), data \in Seq(Byte), Viewing(S), OpenView
  PROVE  Viewing(S)'
<1>1. CASE ~Viewable
  BY <1>1, ErrsKeeps DEF OpenView
<1>2. CASE Viewable
  <2>1. PICK t, seen : t = byId[TemplateId] /\ seen = IF result = "done" THEN Message.value ELSE <<>>
    OBVIOUS
  <2>2. TemplateIn(S, t) /\ RootSound(t) /\ Len(data) >= HeaderSize
    BY <1>2, <2>1 DEF Viewable, MessageSound, Layouts
  <2>3. <<t.fields, t.block_length>> \in S /\ t.block_length \in Nat /\ Len(data) \in Nat
    BY <2>2 DEF TemplateIn, Layouts, Closed
  <2>4. U16(0) \in Nat
    <3>1. 0 \in Nat /\ 0 + 2 <= Len(data)
      BY <2>2, <2>3 DEF HeaderSize
    <3> QED
      BY <3>1, U16Natural
  <2>5. RootEnd \in Nat /\ HeaderSize \in Nat /\ RootEnd <= Len(data)
        /\ HeaderSize + t.block_length <= RootEnd
    BY <2>2, <2>3, <2>4 DEF RootSound, RootEnd, HeaderSize
  <2>6. RoomFor(S, t.fields, HeaderSize, RootEnd)
    BY <2>3, <2>5, HasRoom
  <2>7. PICK v : v = ViewOf(t.fields, t.groups, HeaderSize, RootEnd, seen)
    OBVIOUS
  <2>8. ViewIn(S, v)
    BY <2>2, <2>6, <2>7 DEF ViewOf, ViewIn, TemplateIn
  <2>9. Returns(v)
    BY <1>2, <2>1, <2>7 DEF OpenView
  <2> QED
    BY <2>8, <2>9, ReturnsKeeps
<1> QED
  BY <1>1, <1>2

\* A view without groups.
LEMMA BareView ==
  ASSUME NEW S, NEW fields, NEW start, NEW end, NEW seen, RoomFor(S, fields, start, end)
  PROVE  ViewIn(S, ViewOf(fields, <<>>, start, end, seen))
<1>1. IsSeq(<<>>) /\ Len(<<>>) = 0
  BY EmptySeq DEF IsSeq
<1>2. GroupsIn(S, <<>>)
  BY <1>1 DEF GroupsIn
<1> QED
  BY <1>2 DEF ViewOf, ViewIn

LEMMA ViewKinds ==
  ASSUME NEW S, Viewing(S)
  PROVE  /\ view.kind = "view" => ViewIn(S, view)
         /\ view.kind = "group" => GroupViewIn(S, view)
<1>1. CASE view = NoView
  <2>1. view.kind = "none"
    BY <1>1 DEF NoView
  <2> QED
    BY <2>1
<1>2. CASE ViewIn(S, view)
  <2>1. view.kind = "view"
    BY <1>2 DEF ViewIn
  <2> QED
    BY <1>2, <2>1
<1>3. CASE GroupViewIn(S, view)
  <2>1. view.kind = "group"
    BY <1>3 DEF GroupViewIn
  <2> QED
    BY <1>3, <2>1
<1> QED
  BY <1>1, <1>2, <1>3 DEF Viewing

LEMMA ViewCompositeKeeps ==
  ASSUME NEW S, NEW D, Closed(S, D), data \in Seq(Byte), Viewing(S),
         NEW f \in 1..Len(view.fields), ViewComposite(f)
  PROVE  Viewing(S)'
<1>1. ViewIn(S, view) /\ view.fields[f].composite # <<>>
  BY ViewKinds DEF ViewComposite, Idle
<1>2. RoomFor(S, view.fields[f].composite, view.start + view.fields[f].offset,
              view.start + view.fields[f].offset + view.fields[f].size)
  BY <1>1, CompositeRoom DEF ViewIn
<1>3. PICK seen : seen = Part(view.seen, view.fields[f].fd.name)
  OBVIOUS
<1>4. PICK v : v = ViewOf(view.fields[f].composite, <<>>, view.start + view.fields[f].offset,
                          view.start + view.fields[f].offset + view.fields[f].size, seen)
  OBVIOUS
<1>5. ViewIn(S, v) /\ Returns(v)
  BY <1>2, <1>3, <1>4, BareView DEF ViewComposite
<1> QED
  BY <1>5, ReturnsKeeps

LEMMA ViewEntryKeeps ==
  ASSUME NEW S, data \in Seq(Byte), Viewing(S), NEW i, ViewEntry(i)
  PROVE  Viewing(S)'
<1>1. GroupViewIn(S, view) /\ i \in 0..(view.count - 1)
  BY ViewKinds DEF ViewEntry, Idle
<1>2. PICK size \in Nat : <<view.fields, size>> \in S /\ (view.count > 0 => size <= view.block_length)
  BY <1>1 DEF GroupViewIn
<1>3. PICK at \in Nat, length \in Nat, count \in Nat :
        at = view.base /\ length = view.block_length /\ count = view.count
  BY <1>1 DEF GroupViewIn
<1>4. /\ i \in Nat /\ i < count /\ size <= length /\ at + (4 + length * count) <= Len(data)
  BY <1>1, <1>2, <1>3 DEF GroupViewIn
<1>5. RoomFor(S, view.fields, at + GroupHeaderSize + i * length,
              at + GroupHeaderSize + i * length + length)
  BY <1>2, <1>4, EntryRoom
<1>6. PICK seen : seen = Part(view.seen, i + 1)
  OBVIOUS
<1>7. PICK v : v = ViewOf(view.fields, <<>>, at + GroupHeaderSize + i * length,
                          at + GroupHeaderSize + i * length + length, seen)
  OBVIOUS
<1>8. ViewIn(S, v) /\ Returns(v)
  BY <1>3, <1>5, <1>6, <1>7, BareView DEF ViewEntry
<1> QED
  BY <1>8, ReturnsKeeps

LEMMA ViewGroupKeeps ==
  ASSUME NEW S, Viewing(S), NEW n, ViewGroup(n)
  PROVE  Viewing(S)'
<1>1. /\ ViewIn(S, view) /\ n \in 1..Len(view.groups)
      /\ walk' = [want |-> n, next |-> 1, at |-> view.end]
      /\ UNCHANGED <<view, data, limits>>
  BY ViewKinds DEF ViewGroup, Idle, templateVars, readVars
<1>2. ViewIn(S, view)' /\ view.end \in Nat
  BY <1>1 DEF ViewIn, RoomFor
<1>3. PICK last : last = Len(view.groups)
  OBVIOUS
<1>4. n \in Nat \ {0} /\ n <= last /\ 1 <= n
  BY <1>1, <1>3, EmptySeq DEF ViewIn, GroupsIn, IsSeq
<1> QED
  BY <1>1, <1>2, <1>3, <1>4 DEF Viewing

LEMMA WalkKeeps ==
  ASSUME NEW S, NEW D, Closed(S, D), data \in Seq(Byte), Viewing(S), Walk
  PROVE  Viewing(S)'
<1>1. /\ walk = [want |-> walk.want, next |-> walk.next, at |-> walk.at]
      /\ ViewIn(S, view) /\ walk.at \in Nat
      /\ walk.next \in Nat \ {0} /\ walk.want \in Nat
      /\ walk.next <= walk.want /\ walk.want <= Len(view.groups)
  BY DEF Walk, Viewing
<1>2. PICK gt : gt = view.groups[walk.next]
  OBVIOUS
<1>3. <<gt.fields, gt.block_length>> \in S /\ gt.block_length \in Nat
  <2>1. Len(view.groups) \in Nat
    BY <1>1, EmptySeq DEF ViewIn, GroupsIn, IsSeq
  <2>2. walk.next \in 1..Len(view.groups)
    BY <1>1, <2>1
  <2>3. <<gt.fields, gt.block_length>> \in S
    BY <1>1, <1>2, <2>2 DEF ViewIn, GroupsIn
  <2> QED
    BY <2>3 DEF Closed
<1>4. CASE ~GroupReadable(walk.at, gt.block_length)
  BY <1>2, <1>4, ErrsKeeps DEF Walk
<1>5. CASE GroupReadable(walk.at, gt.block_length)
  <2>1. PICK g : g = GroupAt(walk.at)
    OBVIOUS
  <2>2. /\ g.block_length \in Nat /\ g.count \in Nat /\ g.total \in Nat
        /\ g.total = 4 + g.block_length * g.count
        /\ walk.at + g.total <= Len(data)
        /\ g.count <= limits.max_repeated_count
        /\ g.count > 0 => g.block_length >= gt.block_length
    BY <1>1, <1>5, <2>1, GroupChecked
  <2>3. CASE walk.next = walk.want /\ Returns(GroupView(walk.next, GroupAt(walk.at), walk.at))
    <3>1. PICK v : v = GroupView(walk.next, g, walk.at)
      OBVIOUS
    <3>2. /\ v.kind = "group" /\ v.fields = gt.fields /\ v.base = walk.at
          /\ v.block_length = g.block_length /\ v.count = g.count
      BY <1>2, <3>1 DEF GroupView
    <3>3. GroupViewIn(S, v)
      BY <1>1, <1>3, <2>2, <3>2 DEF GroupViewIn
    <3> QED
      BY <2>1, <2>3, <3>1, <3>3, ReturnsKeeps
  <2>4. CASE /\ walk.next < walk.want
             /\ walk' = [walk EXCEPT !.next = @ + 1, !.at = @ + GroupAt(@).total]
             /\ UNCHANGED <<templateVars, readVars, view, called>>
    <3>1. PICK w, next, at : w = walk /\ next = walk.next + 1 /\ at = walk.at + g.total
      OBVIOUS
    <3>2. walk' = [w EXCEPT !.next = next, !.at = at]
      BY <2>1, <2>4, <3>1
    <3>3. w = [want |-> w.want, next |-> w.next, at |-> w.at]
      BY <1>1, <3>1
    <3>4. walk' = [want |-> w.want, next |-> next, at |-> at]
      BY <3>2, <3>3
    <3>5. UNCHANGED <<view, data, limits>>
      BY <2>4 DEF templateVars, readVars
    <3>6. ViewIn(S, view)'
      BY <1>1, <3>5 DEF ViewIn, RoomFor
    <3>7. at \in Nat /\ next \in Nat \ {0} /\ next <= w.want
      <4>1. PICK n \in Nat, m \in Nat, a \in Nat, b \in Nat :
              n = walk.next /\ m = walk.want /\ a = walk.at /\ b = g.total
        BY <1>1, <2>2
      <4>2. n < m /\ next = n + 1 /\ at = a + b /\ w.want = m
        BY <2>4, <3>1, <4>1
      <4> QED
        BY <4>2
    <3> QED
      BY <1>1, <3>1, <3>4, <3>5, <3>6, <3>7 DEF Viewing
  <2> QED
    BY <1>2, <1>5, <2>3, <2>4 DEF Walk
<1> QED
  BY <1>4, <1>5

LEMMA LookKeeps ==
  ASSUME NEW S, NEW D, Layouts(S, D), data \in Seq(Byte), Viewing(S), Look
  PROVE  Viewing(S)'
<1>1. Closed(S, D)
  BY DEF Layouts
<1> QED
  BY <1>1, OpenViewKeeps, WalkKeeps, ViewCompositeKeeps, ViewGroupKeeps, ViewEntryKeeps DEF Look

-----------------------------------------------------------------------------
(***************************************************************************)
(* The invariant of the whole.  While templates are being built, nothing   *)
(* is read yet: the layouts may grow without a thought to the reader.      *)
(***************************************************************************)
Fresh ==
  /\ result = "idle" /\ data \in Seq(Byte) /\ pos = 0 /\ nth = 1
  /\ frames = <<>> /\ entries = <<>>
  /\ view = NoView /\ walk = NoWalk

Sound ==
  /\ Registering
  /\ Fresh \/ Ready
  /\ result = "idle" => Fresh
  /\ \E S, D : Layouts(S, D) /\ Decoding(S) /\ Viewing(S)

LEMMA CountLimit ==
  ASSUME Registering
  PROVE  limits.max_repeated_count \in Nat
BY LimitsAssumption DEF Registering

LEMMA FreshReads ==
  ASSUME NEW S, Registering, Fresh
  PROVE  Decoding(S) /\ Viewing(S)
<1>1. IsSeq(frames) /\ Len(frames) = 0 /\ IsSeq(entries) /\ Len(entries) = 0
  BY EmptySeq DEF Fresh, IsSeq
<1>2. Blocks(S, frames)
  BY <1>1 DEF Blocks
<1>3. Decoding(S)
  BY <1>1, <1>2, CountLimit DEF Fresh, Decoding, Reading
<1>4. Viewing(S)
  BY DEF Fresh, Viewing
<1> QED
  BY <1>3, <1>4

\* A step that leaves the reader alone.
LEMMA ReaderKept ==
  ASSUME NEW S, Decoding(S), Viewing(S), UNCHANGED <<readerVars, limits>>
  PROVE  Decoding(S)' /\ Viewing(S)'
<1>1. UNCHANGED <<data, tmpl, pos, frames, entries, group, nth, result, view, walk, limits>>
  BY DEF readerVars, readVars, viewVars
<1>2. Decoding(S)'
  BY <1>1 DEF Decoding, Blocks, BlockIn, RoomFor, Reading, GroupOpen, NextGroup
<1>3. Viewing(S)'
  BY <1>1 DEF Viewing, ViewIn, GroupViewIn, RoomFor
<1> QED
  BY <1>2, <1>3

LEMMA LayoutsKept ==
  ASSUME NEW S, NEW D, Layouts(S, D), UNCHANGED templateVars
  PROVE  Layouts(S, D)'
BY DEF Layouts, templateVars

LEMMA TemplatesKept ==
  ASSUME UNCHANGED templateVars
  PROVE  (Registering => Registering') /\ (Ready => Ready')
BY DEF Registering, Ready, templateVars

LEMMA SoundInit == Init => Sound
<1> SUFFICES ASSUME Init PROVE Sound
  OBVIOUS
<1>1. Registering
  BY FilesAssumption, EmptySeq DEF Init, TemplateInit, Registering
<1>2. Fresh
  BY EmptySeq DEF Init, ReaderInit, Fresh
<1>3. Layouts({}, {})
  <2>1. IsSeq(stack) /\ Len(stack) = 0 /\ DOMAIN byName = {} /\ DOMAIN byId = {}
    BY EmptySeq DEF Init, TemplateInit, IsSeq
  <2> QED
    BY <2>1 DEF Layouts, Framed, Closed
<1> QED
  BY <1>1, <1>2, <1>3, FreshReads DEF Sound

LEMMA BuildSound ==
  ASSUME Sound, Build, UNCHANGED readerVars
  PROVE  Sound'
<1>1. ~Ready
  BY DEF Sound, Registering, Ready, Build, OpenFile, Register, RefuseField, LayScalar, EnterMessage,
         LayComposite, LayGroup, LayMessage, Building
<1>2. Fresh /\ Registering /\ Registering'
  BY <1>1, BuildRegisters DEF Sound
<1>3. PICK S, D : Layouts(S, D)
  BY DEF Sound
<1>4. PICK T, C : Layouts(T, C)'
  BY <1>2, <1>3, BuildKeeps
<1>5. UNCHANGED limits
  BY DEF Build, OpenFile, Register, RefuseField, Refuse, LayScalar, EnterMessage,
         LayComposite, LayGroup, LayMessage
<1>6. Decoding(T)' /\ Viewing(T)'
  BY <1>2, <1>5, FreshReads, ReaderKept
<1>7. Fresh'
  BY <1>2 DEF Fresh, readerVars, readVars, viewVars
<1> QED
  BY <1>2, <1>4, <1>6, <1>7 DEF Sound

LEMMA ReceiveSound ==
  ASSUME Sound, NEW bytes \in Documents, Receive(bytes)
  PROVE  Sound'
<1>1. /\ Fresh /\ Registering /\ Ready /\ data' = bytes /\ result' = "received"
      /\ UNCHANGED <<limits, frames, pos, nth, entries, view, walk>> /\ UNCHANGED templateVars
  BY DEF Receive, Sound, viewVars, templateVars
<1>2. Registering' /\ Ready'
  BY <1>1, TemplatesKept
<1>3. PICK S, D : Layouts(S, D)
  BY DEF Sound
<1>4. Layouts(S, D)'
  BY <1>1, <1>3, LayoutsKept
<1>5. data' \in Seq(Byte)
  BY <1>1, DocumentsAssumption
<1>6. frames' = <<>> /\ entries' = <<>> /\ pos' = 0 /\ nth' = 1 /\ view' = NoView /\ walk' = NoWalk
  BY <1>1 DEF Fresh
<1>7. IsSeq(frames') /\ Len(frames') = 0 /\ IsSeq(entries') /\ Len(entries') = 0
  BY <1>6, EmptySeq DEF IsSeq
<1>8. Blocks(S, frames)'
  BY <1>7 DEF Blocks
<1>9. limits'.max_repeated_count \in Nat
  BY <1>1, CountLimit
<1>10. Decoding(S)'
  BY <1>1, <1>5, <1>6, <1>7, <1>8, <1>9 DEF Decoding, Reading
<1>11. Viewing(S)'
  BY <1>6 DEF Viewing
<1> QED
  BY <1>1, <1>2, <1>4, <1>10, <1>11 DEF Sound

LEMMA ReadErrors ==
  ASSUME NEW ft, NEW from, NEW to
  PROVE  ReadAt(ft, from, to).err \in {"none", "NoEncoding", "InvalidUtf8", "OutOfBounds"}
<1>1. CASE ft.encoding = "none"
  BY <1>1 DEF ReadAt, Read
<1>2. CASE ft.encoding # "none" /\ from + ft.size > to
  BY <1>2 DEF ReadAt, Read
<1>3. CASE ft.encoding # "none" /\ ~(from + ft.size > to)
  BY <1>3, ReadInside
<1> QED
  BY <1>1, <1>2, <1>3

LEMMA DecodeSound ==
  ASSUME Sound, Decode
  PROVE  Sound'
<1>1. result \in {"received", "reading"} /\ UNCHANGED templateVars /\ UNCHANGED viewVars
      /\ UNCHANGED data
  BY DEF Decode, Unmarshal, ReadScalar, Scalar, EnterComposite, LeaveComposite, EnterGroup, LeaveEntry,
         Finish, AtGroups, Reading, Stop
<1>2. Registering /\ Ready /\ Registering' /\ Ready'
  BY <1>1, TemplatesKept DEF Sound, Fresh
<1>3. PICK S, D : Layouts(S, D) /\ Decoding(S) /\ Viewing(S)
  BY DEF Sound
<1>4. Layouts(S, D)' /\ Decoding(S)'
  BY <1>1, <1>2, <1>3, LayoutsKept, DecodeKeeps, CountLimit
<1>5. Viewing(S)'
  <2>1. UNCHANGED <<view, walk, data, limits>>
    BY <1>1 DEF viewVars, templateVars
  <2> QED
    BY <1>3, <2>1 DEF Viewing, ViewIn, GroupViewIn, RoomFor
<1>6. result' # "idle"
  <2>1. CASE ReadScalar
    <3>1. PICK read : read = ReadAt(Field, Inner.base + Field.offset, Len(data)) /\ Scalar(read)
      BY <2>1 DEF ReadScalar
    <3>2. read.err # "idle"
      BY <3>1, ReadErrors
    <3> QED
      BY <1>1, <3>1, <3>2 DEF Scalar, Stop
  <2>2. CASE ~ReadScalar
    BY <1>1, <2>2 DEF Decode, Unmarshal, EnterComposite, LeaveComposite, EnterGroup, LeaveEntry,
                      Finish, Stop
  <2> QED
    BY <2>1, <2>2
<1> QED
  BY <1>2, <1>4, <1>5, <1>6 DEF Sound

LEMMA LookSound ==
  ASSUME Sound, Look
  PROVE  Sound'
<1>1. UNCHANGED templateVars /\ UNCHANGED readVars
  BY DEF Look, OpenView, Walk, ViewComposite, ViewGroup, ViewEntry, Returns, Errs, readVars
<1>2. ~Fresh
  <2> SUFFICES ASSUME Fresh PROVE FALSE
    OBVIOUS
  <2>1. result = "idle" /\ walk = NoWalk /\ view.kind = "none"
    BY DEF Fresh, NoView
  <2> QED
    BY <2>1 DEF Look, OpenView, Decoded, Walk, Idle
<1>3. Registering /\ Ready /\ Registering' /\ Ready'
  BY <1>1, <1>2, TemplatesKept DEF Sound
<1>4. PICK S, D : Layouts(S, D) /\ Decoding(S) /\ Viewing(S)
  BY DEF Sound
<1>5. Layouts(S, D)'
  BY <1>1, <1>4, LayoutsKept
<1>6. UNCHANGED <<data, tmpl, pos, frames, entries, group, nth, result, limits>>
  BY <1>1 DEF readVars, templateVars
<1>7. Decoding(S)'
  BY <1>4, <1>6 DEF Decoding, Blocks, BlockIn, RoomFor, Reading, GroupOpen, NextGroup
<1>8. Viewing(S)'
  BY <1>4, LookKeeps DEF Decoding
<1>9. result' # "idle"
  BY <1>2, <1>6 DEF Sound
<1> QED
  BY <1>3, <1>5, <1>7, <1>8, <1>9 DEF Sound

LEMMA SoundStep == Sound /\ [Next]_vars => Sound'
<1> SUFFICES ASSUME Sound, [Next]_vars PROVE Sound'
  OBVIOUS
<1>1. CASE UNCHANGED vars
  <2>1. UNCHANGED templateVars /\ UNCHANGED readerVars /\ UNCHANGED limits
    BY <1>1 DEF vars, templateVars
  <2>2. PICK S, D : Layouts(S, D) /\ Decoding(S) /\ Viewing(S)
    BY DEF Sound
  <2>3. Layouts(S, D)' /\ Decoding(S)' /\ Viewing(S)'
    BY <2>1, <2>2, LayoutsKept, ReaderKept
  <2>4. (Fresh => Fresh') /\ result' = result
    BY <2>1 DEF Fresh, readerVars, readVars, viewVars
  <2> QED
    BY <2>1, <2>3, <2>4, TemplatesKept DEF Sound
<1>2. CASE \E bytes \in Documents : Receive(bytes)
  BY <1>2, ReceiveSound
<1> QED
  BY <1>1, <1>2, BuildSound, DecodeSound, LookSound DEF Next, Rests

-----------------------------------------------------------------------------
\* Sound is an invariant of a codec and its readers.
THEOREM ReaderSound == Spec => []Sound
<1> QED
  BY SoundInit, SoundStep, PTL DEF Spec

\* Whatever is being built, and every template, group and composite, is laid
\* out without overlaps, for every schema (template.rs).
THEOREM LayoutsStayApart == Spec => []LaidOut
<1>1. Sound => LaidOut
  <2> SUFFICES ASSUME NEW S, NEW D, Layouts(S, D) PROVE LaidOut
    BY DEF Sound
  <2>1. \A fields, size : <<fields, size>> \in S => Fits(fields, size)
    BY DEF Layouts, Closed
  <2>2. \A k \in 1..Len(stack) : Fits(stack[k].fields, stack[k].offset)
    BY <2>1 DEF Layouts, Framed, FrameIn
  <2>3. ASSUME NEW type \in DOMAIN byName
        PROVE  /\ Fits(byName[type].fields, byName[type].block_length)
               /\ \A g \in 1..Len(byName[type].groups) :
                    Fits(byName[type].groups[g].fields, byName[type].groups[g].block_length)
    BY <2>1, <2>3 DEF Layouts, TemplateIn, GroupsIn
  <2> QED
    BY <2>2, <2>3 DEF LaidOut
<1> QED
  BY <1>1, ReaderSound, PTL

\* No read leaves the buffer or its block, whatever the headers of the buffer
\* say (unmarshal_message, check_group_header, View::block).
THEOREM ReadsStayInBounds == Spec => []InBounds
<1>1. Sound => InBounds
  <2> SUFFICES ASSUME NEW S, NEW D, Closed(S, D), Decoding(S), Viewing(S) PROVE InBounds
    BY DEF Sound, Layouts
  <2>1. result # "OutOfBounds" /\ data \in Seq(Byte)
    BY DEF Decoding
  <2>2. \A k \in 1..Len(frames) : frames[k].end <= Len(data)
    BY DEF Decoding, Blocks, BlockIn, RoomFor
  <2>3. Reading /\ ~Filled => Inner.base + Field.offset + Field.size <= Inner.end
    BY InnerField
  <2>4. ASSUME view.kind = "view"
        PROVE  /\ view.end <= Len(data)
               /\ \A i \in 1..Len(view.fields) : Viewed(view.fields[i]).err # "OutOfBounds"
    <3>1. RoomFor(S, view.fields, view.start, view.end)
      BY <2>4, ViewKinds DEF ViewIn
    <3>2. ASSUME NEW i \in 1..Len(view.fields)
          PROVE  Viewed(view.fields[i]).err # "OutOfBounds"
      <4>1. PICK ft, from, to : ft = view.fields[i] /\ from = view.start + ft.offset /\ to = view.end
        OBVIOUS
      <4>2. /\ ft.offset \in Nat /\ ft.size \in Nat
            /\ view.start + ft.offset + ft.size <= view.end
        BY <2>1, <3>1, <3>2, <4>1, FieldIn
      <4>3. view.start \in Nat /\ view.end \in Nat
        BY <3>1 DEF RoomFor
      <4>4. ~(from + ft.size > to)
        BY <4>1, <4>2, <4>3
      <4>5. ReadAt(ft, from, to).err # "OutOfBounds"
        BY <4>4, ReadInside
      <4> QED
        BY <4>1, <4>5 DEF Viewed
    <3> QED
      BY <3>1, <3>2 DEF RoomFor
  <2> QED
    BY <2>1, <2>2, <2>3, <2>4 DEF InBounds
<1> QED
  BY <1>1, ReaderSound, PTL

\* No more entries are read, or promised by a view, than the limit allows
\* (check_group_header).
THEOREM EntriesStayBounded == Spec => []EntriesBounded
<1>1. Sound => EntriesBounded
  <2> SUFFICES ASSUME NEW S, Decoding(S), Viewing(S) PROVE EntriesBounded
    BY DEF Sound
  <2>1. view.kind = "group" => view.count <= limits.max_repeated_count
    BY ViewKinds DEF GroupViewIn
  <2> QED
    BY <2>1 DEF Decoding, EntriesBounded
<1> QED
  BY <1>1, ReaderSound, PTL

-----------------------------------------------------------------------------
(***************************************************************************)
(* What the decoder and the views read.  R is a set of blocks that have    *)
(* been read: their fields, where they start, and what was read of them.   *)
(* Each value in R is what the bytes of the buffer say, and each composite *)
(* in it is in R too.                                                      *)
(***************************************************************************)
Says(R, fields, base, value) ==
  \A i \in 1..Len(fields) :
    fields[i].fd.name \in DOMAIN value =>
      IF fields[i].composite # <<>>
      THEN <<fields[i].composite, base + fields[i].offset, value[fields[i].fd.name]>> \in R
      ELSE ReadAt(fields[i], base + fields[i].offset, Len(data))
             = Read("none", value[fields[i].fd.name])

Known(R) == \A r \in R : Says(R, r[1], r[2], r[3])

\* The entries of a group at `at` have been read into a list.
Listed(R, fields, at, length, list) ==
  /\ IsSeq(list)
  /\ \A i \in 1..Len(list) : <<fields, at + GroupHeaderSize + (i - 1) * length, list[i]>> \in R

\* Group number n, at `at`, has been read into the value of a message.
GroupRead(R, n, at, next, value) ==
  /\ GroupReadable(at, tmpl.groups[n].block_length)
  /\ next = at + GroupAt(at).total
  /\ tmpl.groups[n].fd.name \in DOMAIN value
  /\ Len(value[tmpl.groups[n].fd.name]) = GroupAt(at).count
  /\ Listed(R, tmpl.groups[n].fields, at, GroupAt(at).block_length,
            value[tmpl.groups[n].fd.name])

\* The block of a composite, above the block it is in.
Inside(outer, inner) ==
  /\ outer.at \in 1..Len(outer.fields)
  /\ inner.fields = outer.fields[outer.at].composite /\ inner.fields # <<>>
  /\ inner.base = outer.base + outer.fields[outer.at].offset

\* A block of which the fields before the next one have been read.
Told(R, b) ==
  /\ Says(R, b.fields, b.base, b.value)
  /\ b.at = 1 \/ b.at - 1 \in 1..Len(b.fields)

BlocksSay(R, s) ==
  /\ \A k \in 1..Len(s) : Told(R, s[k])
  /\ \A k \in 1..(Len(s) - 1) : s[k + 1].role = "composite" => Inside(s[k], s[k + 1])

LEMMA SaysMore ==
  ASSUME NEW R, NEW T, R \subseteq T, NEW fields, NEW base, NEW value, Says(R, fields, base, value)
  PROVE  Says(T, fields, base, value)
BY DEF Says

LEMMA ToldMore ==
  ASSUME NEW R, NEW T, R \subseteq T, NEW b, Told(R, b)
  PROVE  Told(T, b)
BY SaysMore DEF Told

LEMMA KnownMore ==
  ASSUME NEW R, Known(R), NEW fields, NEW base, NEW value, Says(R, fields, base, value)
  PROVE  Known(R \cup {<<fields, base, value>>})
<1> DEFINE T == R \cup {<<fields, base, value>>}
<1>1. R \subseteq T
  OBVIOUS
<1>2. ASSUME NEW r \in T
      PROVE  Says(T, r[1], r[2], r[3])
  <2>1. CASE r \in R
    BY <1>1, <2>1, SaysMore DEF Known
  <2>2. CASE r = <<fields, base, value>>
    BY <1>1, <2>2, SaysMore
  <2> QED
    BY <2>1, <2>2
<1> QED
  BY <1>2 DEF Known

\* A block with a value for one more field (set_field).
LEMMA SaysOneMore ==
  ASSUME NEW R, NEW fields, Apart(fields), Len(fields) \in Nat, NEW base, NEW value,
         Says(R, fields, base, value), NEW i \in 1..Len(fields), NEW val,
         IF fields[i].composite # <<>>
         THEN <<fields[i].composite, base + fields[i].offset, val>> \in R
         ELSE ReadAt(fields[i], base + fields[i].offset, Len(data)) = Read("none", val),
         NEW names
  PROVE  Says(R, fields, base, Mapping(Without(value, names), fields[i].fd.name, val))
<1> DEFINE more == Mapping(Without(value, names), fields[i].fd.name, val)
<1>1. /\ DOMAIN more \subseteq DOMAIN value \cup {fields[i].fd.name}
      /\ more[fields[i].fd.name] = val
      /\ \A x \in DOMAIN more : x # fields[i].fd.name => x \in DOMAIN value /\ more[x] = value[x]
  BY DEF Mapping, Without
<1> HIDE DEF more
<1>2. ASSUME NEW j \in 1..Len(fields), j # i
      PROVE  fields[j].fd.name # fields[i].fd.name
  <2>1. j \in 1..(i - 1) \/ i \in 1..(j - 1)
    BY <1>2
  <2> QED
    BY <2>1 DEF Apart
<1>3. ASSUME NEW j \in 1..Len(fields), fields[j].fd.name \in DOMAIN more
      PROVE  IF fields[j].composite # <<>>
             THEN <<fields[j].composite, base + fields[j].offset, more[fields[j].fd.name]>> \in R
             ELSE ReadAt(fields[j], base + fields[j].offset, Len(data))
                    = Read("none", more[fields[j].fd.name])
  <2>1. CASE j = i
    BY <1>1, <2>1
  <2>2. CASE j # i
    <3>1. fields[j].fd.name \in DOMAIN value /\ more[fields[j].fd.name] = value[fields[j].fd.name]
      BY <1>1, <1>2, <1>3, <2>2
    <3> QED
      BY <3>1 DEF Says
  <2> QED
    BY <2>1, <2>2
<1>4. Says(R, fields, base, more)
  BY <1>3 DEF Says
<1> QED
  BY <1>4 DEF more

\* No field of the list has this name.
Lacks(fields, name) == \A i \in 1..Len(fields) : fields[i].fd.name # name

\* A message with a list for one more group.
LEMMA SaysOneGroup ==
  ASSUME NEW R, NEW fields, NEW base, NEW value, Says(R, fields, base, value),
         NEW name, Lacks(fields, name), NEW list
  PROVE  Says(R, fields, base, Mapping(value, name, list))
<1> DEFINE more == Mapping(value, name, list)
<1>1. \A x \in DOMAIN more : x # name => x \in DOMAIN value /\ more[x] = value[x]
  BY DEF Mapping
<1> HIDE DEF more
<1>2. Says(R, fields, base, more)
  BY <1>1 DEF Says, Lacks
<1> QED
  BY <1>2 DEF more

\* The lists of a message stay in it.
LEMMA GroupStays ==
  ASSUME NEW R, NEW T, R \subseteq T, NEW n, NEW at, NEW next, NEW value, NEW more,
         GroupRead(R, n, at, next, value),
         tmpl.groups[n].fd.name \in DOMAIN more,
         more[tmpl.groups[n].fd.name] = value[tmpl.groups[n].fd.name]
  PROVE  GroupRead(T, n, at, next, more)
BY DEF GroupRead, Listed

-----------------------------------------------------------------------------
(***************************************************************************)
(* Blocks on top of each other.                                            *)
(***************************************************************************)
LEMMA SayPush ==
  ASSUME NEW R, NEW s, IsSeq(s), s # <<>>, BlocksSay(R, s),
         NEW b, Told(R, b), b.role = "composite" => Inside(s[Len(s)], b)
  PROVE  BlocksSay(R, Append(s, b))
<1>1. PICK t : t = Append(s, b)
  OBVIOUS
<1>2. /\ Len(t) = Len(s) + 1 /\ Len(s) \in Nat \ {0} /\ t[Len(s) + 1] = b
      /\ \A k \in 1..Len(s) : t[k] = s[k]
  BY <1>1, Pushed, Popped
<1>3. ASSUME NEW k \in 1..Len(t)
      PROVE  Told(R, t[k])
  <2>1. CASE k = Len(s) + 1
    BY <1>2, <2>1
  <2>2. CASE k \in 1..Len(s)
    BY <1>2, <2>2 DEF BlocksSay
  <2> QED
    BY <1>2, <2>1, <2>2
<1>4. ASSUME NEW k \in 1..(Len(t) - 1), t[k + 1].role = "composite"
      PROVE  Inside(t[k], t[k + 1])
  <2>1. CASE k = Len(s)
    BY <1>2, <1>4, <2>1
  <2>2. CASE k # Len(s)
    <3>1. PICK m : m = k + 1
      OBVIOUS
    <3>2. k \in 1..(Len(s) - 1) /\ k \in 1..Len(s) /\ m \in 1..Len(s)
      BY <1>2, <2>2, <3>1
    <3>3. t[k] = s[k] /\ t[m] = s[m]
      BY <1>2, <3>2
    <3> QED
      BY <1>4, <3>1, <3>2, <3>3 DEF BlocksSay
  <2> QED
    BY <2>1, <2>2
<1> QED
  BY <1>1, <1>3, <1>4 DEF BlocksSay

LEMMA SayPop ==
  ASSUME NEW R, NEW s, IsSeq(s), s # <<>>, BlocksSay(R, s)
  PROVE  BlocksSay(R, SubSeq(s, 1, Len(s) - 1))
<1>1. PICK t : t = SubSeq(s, 1, Len(s) - 1)
  OBVIOUS
<1>2. /\ Len(t) = Len(s) - 1 /\ Len(s) \in Nat \ {0}
      /\ \A k \in 1..(Len(s) - 1) : t[k] = s[k]
  BY <1>1, Popped
<1>3. \A k \in 1..Len(t) : Told(R, t[k])
  <2>1. \A k \in 1..Len(t) : k \in 1..Len(s) /\ t[k] = s[k]
    BY <1>2
  <2> QED
    BY <2>1 DEF BlocksSay
<1>4. ASSUME NEW k \in 1..(Len(t) - 1), t[k + 1].role = "composite"
      PROVE  Inside(t[k], t[k + 1])
  <2>1. PICK m : m = k + 1
    OBVIOUS
  <2>2. k \in 1..(Len(s) - 1) /\ m \in 1..(Len(s) - 1)
    BY <1>2, <2>1
  <2>3. t[k] = s[k] /\ t[m] = s[m]
    BY <1>2, <2>2
  <2> QED
    BY <1>4, <2>1, <2>2, <2>3 DEF BlocksSay
<1> QED
  BY <1>1, <1>3, <1>4 DEF BlocksSay

LEMMA SayLast ==
  ASSUME NEW R, NEW T, R \subseteq T, NEW s, IsSeq(s), s # <<>>, BlocksSay(R, s),
         NEW b, Told(T, b), b.role = s[Len(s)].role,
         b.fields = s[Len(s)].fields, b.base = s[Len(s)].base
  PROVE  BlocksSay(T, Append(SubSeq(s, 1, Len(s) - 1), b))
<1>1. PICK t : t = Append(SubSeq(s, 1, Len(s) - 1), b)
  OBVIOUS
<1>2. /\ Len(t) = Len(s) /\ Len(s) \in Nat \ {0} /\ t[Len(s)] = b
      /\ \A k \in 1..(Len(s) - 1) : t[k] = s[k]
  BY <1>1, LastReplaced
<1>3. ASSUME NEW k \in 1..Len(t)
      PROVE  Told(T, t[k])
  <2>1. CASE k = Len(s)
    BY <1>2, <2>1
  <2>2. CASE k # Len(s)
    <3>1. k \in 1..(Len(s) - 1) /\ k \in 1..Len(s)
      BY <1>2, <2>2
    <3> QED
      BY <1>2, <3>1, ToldMore DEF BlocksSay
  <2> QED
    BY <2>1, <2>2
<1>4. ASSUME NEW k \in 1..(Len(t) - 1), t[k + 1].role = "composite"
      PROVE  Inside(t[k], t[k + 1])
  <2>1. PICK m : m = k + 1
    OBVIOUS
  <2>2. k \in 1..(Len(s) - 1) /\ t[k] = s[k] /\ m \in 1..Len(s)
    BY <1>2, <2>1
  <2>3. t[m].role = s[m].role /\ t[m].fields = s[m].fields /\ t[m].base = s[m].base
    <3>1. CASE m = Len(s)
      BY <1>2, <3>1
    <3>2. CASE m # Len(s)
      <4>1. m \in 1..(Len(s) - 1)
        BY <1>2, <2>2, <3>2
      <4> QED
        BY <1>2, <4>1
    <3> QED
      BY <3>1, <3>2
  <2>4. Inside(s[k], s[m])
    BY <1>4, <2>1, <2>2, <2>3 DEF BlocksSay
  <2> QED
    BY <2>1, <2>2, <2>3, <2>4 DEF Inside
<1> QED
  BY <1>1, <1>3, <1>4 DEF BlocksSay

LEMMA SayOne ==
  ASSUME NEW R, NEW b, Told(R, b)
  PROVE  BlocksSay(R, <<b>>)
<1>1. PICK t : t = <<b>>
  OBVIOUS
<1>2. Len(t) = 1 /\ t[1] = b
  BY <1>1
<1>3. BlocksSay(R, t)
  BY <1>2 DEF BlocksSay
<1> QED
  BY <1>1, <1>3

-----------------------------------------------------------------------------
(***************************************************************************)
(* The decoder has read what the buffer says.  p[n] is where group number  *)
(* n starts, for every group that has been come to.                        *)
(***************************************************************************)
Tracing(R, p) ==
  /\ Message.fields = tmpl.fields /\ Message.base = HeaderSize
  /\ Apart(tmpl.groups) /\ Strangers(tmpl.fields, tmpl.groups) /\ Len(tmpl.groups) \in Nat
  /\ nth \in 1..(Len(tmpl.groups) + 1)
  /\ p[1] = RootEnd /\ p[nth] = pos
  /\ \A n \in 1..(nth - 1) : GroupRead(R, n, p[n], p[n + 1], Message.value)

\* An entry of group number nth is being read.
EntryTraced(R) ==
  /\ GroupReadable(pos, NextGroup.block_length) /\ group = GroupAt(pos)
  /\ frames[2].fields = NextGroup.fields
  /\ frames[2].base = pos + GroupHeaderSize + Len(entries) * group.block_length
  /\ Listed(R, NextGroup.fields, pos, group.block_length, entries)

Faith(R, p) ==
  /\ Known(R)
  /\ frames # <<>> =>
       /\ Acceptable(tmpl) /\ BlocksSay(R, frames) /\ Tracing(R, p)
       /\ InGroup(frames) => EntryTraced(R)

LEMMA SaysPrime ==
  ASSUME NEW R, NEW fields, NEW base, NEW value, Says(R, fields, base, value), UNCHANGED data
  PROVE  Says(R, fields, base, value)'
BY DEF Says, ReadAt

LEMMA KnownPrime ==
  ASSUME NEW R, Known(R), UNCHANGED data
  PROVE  Known(R)'
BY SaysPrime DEF Known

LEMMA BlocksSayPrime ==
  ASSUME NEW R, BlocksSay(R, frames'), UNCHANGED data
  PROVE  BlocksSay(R, frames)'
BY DEF BlocksSay, Told, Says, ReadAt, Inside

LEMMA GroupReadablePrime ==
  ASSUME NEW at, NEW least, UNCHANGED <<data, limits>>
  PROVE  /\ GroupReadable(at, least) => GroupReadable(at, least)'
         /\ GroupAt(at)' = GroupAt(at)
BY DEF GroupReadable, GroupSound, GroupAt, U16

LEMMA GroupReadPrime ==
  ASSUME NEW R, NEW n, NEW at, NEW next, NEW value, GroupRead(R, n, at, next, value),
         UNCHANGED <<data, limits, tmpl>>
  PROVE  GroupRead(R, n, at, next, value)'
BY DEF GroupRead, GroupReadable, GroupSound, GroupAt, U16

LEMMA AcceptablePrime ==
  ASSUME Acceptable(tmpl), UNCHANGED <<data, limits, tmpl>>
  PROVE  Acceptable(tmpl)'
BY DEF Acceptable, MessageSound, TemplateId, RootSound, RootEnd, U16

LEMMA FaithPrime ==
  ASSUME NEW R, NEW p, Known(R), UNCHANGED <<data, limits, tmpl>>,
         Acceptable(tmpl), BlocksSay(R, frames'), Tracing(R, p)',
         InGroup(frames') => EntryTraced(R)'
  PROVE  Faith(R, p)'
BY KnownPrime, BlocksSayPrime, AcceptablePrime DEF Faith, InGroup

\* What the next value of a block does not change.
LEMMA WithParts ==
  ASSUME NEW S, NEW b, BlockIn(S, b), NEW val, NEW c, c = With(b, val)
  PROVE  /\ c.role = b.role /\ c.fields = b.fields /\ c.base = b.base /\ c.at = b.at + 1
         /\ c.value = Mapping(Without(b.value, Rivals(b.fields, b.fields[b.at].fd)),
                              b.fields[b.at].fd.name, val)
<1>1. PICK at, value :
        /\ at = b.at + 1
        /\ value = Mapping(Without(b.value, Rivals(b.fields, b.fields[b.at].fd)),
                           b.fields[b.at].fd.name, val)
  OBVIOUS
<1>2. c = [b EXCEPT !.at = at, !.value = value]
  BY <1>1 DEF With
<1>3. b = [role |-> b.role, fields |-> b.fields, at |-> b.at,
           base |-> b.base, end |-> b.end, value |-> b.value]
  BY DEF BlockIn
<1>4. c = [role |-> b.role, fields |-> b.fields, at |-> at,
           base |-> b.base, end |-> b.end, value |-> value]
  BY <1>2, <1>3
<1>5. c.role = b.role /\ c.fields = b.fields /\ c.base = b.base /\ c.at = at /\ c.value = value
  BY <1>4
<1> QED
  BY <1>1, <1>5

LEMMA WithSays ==
  ASSUME NEW S, NEW D, Closed(S, D), NEW R, NEW b, BlockIn(S, b),
         Says(R, b.fields, b.base, b.value), b.at \in 1..Len(b.fields), NEW val,
         IF b.fields[b.at].composite # <<>>
         THEN <<b.fields[b.at].composite, b.base + b.fields[b.at].offset, val>> \in R
         ELSE ReadAt(b.fields[b.at], b.base + b.fields[b.at].offset, Len(data)) = Read("none", val),
         NEW c, c = With(b, val)
  PROVE  Says(R, c.fields, c.base, c.value)
<1>1. PICK size : <<b.fields, size>> \in S
  BY DEF BlockIn, RoomFor
<1>2. Apart(b.fields) /\ Len(b.fields) \in Nat
  BY <1>1 DEF Closed
<1>3. PICK i, names : i = b.at /\ names = Rivals(b.fields, b.fields[b.at].fd)
  OBVIOUS
<1>4. Says(R, b.fields, b.base, Mapping(Without(b.value, names), b.fields[i].fd.name, val))
  BY <1>2, <1>3, SaysOneMore
<1>5. /\ c.fields = b.fields /\ c.base = b.base
      /\ c.value = Mapping(Without(b.value, names), b.fields[i].fd.name, val)
  BY <1>3, WithParts
<1> QED
  BY <1>4, <1>5

\* The lists of the groups in one value are in another.
Keeps(groups, value, more) ==
  \A n \in 1..Len(groups) :
    groups[n].fd.name \in DOMAIN value =>
      groups[n].fd.name \in DOMAIN more /\ more[groups[n].fd.name] = value[groups[n].fd.name]

\* A value of a field leaves them alone.
LEMMA WithKeepsGroups ==
  ASSUME NEW S, NEW b, BlockIn(S, b), b.at \in 1..Len(b.fields), NEW val, NEW c, c = With(b, val),
         NEW groups, Strangers(b.fields, groups)
  PROVE  Keeps(groups, b.value, c.value)
<1>1. PICK fd, names : fd = b.fields[b.at].fd /\ names = Rivals(b.fields, fd)
  OBVIOUS
<1>2. c.value = Mapping(Without(b.value, names), fd.name, val)
  BY <1>1, WithParts
<1>3. ASSUME NEW n \in 1..Len(groups), groups[n].fd.name \in DOMAIN b.value
      PROVE  /\ groups[n].fd.name \in DOMAIN c.value
             /\ c.value[groups[n].fd.name] = b.value[groups[n].fd.name]
  <2>1. PICK name : name = groups[n].fd.name
    OBVIOUS
  <2>2. fd.name # name /\ name \notin names
    BY <1>1, <2>1 DEF Rivals, Strangers
  <2>3. name \in DOMAIN c.value /\ c.value[name] = b.value[name]
    BY <1>2, <1>3, <2>1, <2>2 DEF Mapping, Without
  <2> QED
    BY <2>1, <2>3
<1> QED
  BY <1>3 DEF Keeps

\* The groups that have been read stay so while a field is read, or an entry.
LEMMA TracingKept ==
  ASSUME NEW R, NEW T, R \subseteq T, NEW p, Tracing(R, p), UNCHANGED <<data, limits, tmpl, pos, nth>>,
         NEW c, frames'[1] = c, c.fields = Message.fields, c.base = Message.base,
         Keeps(tmpl.groups, Message.value, c.value)
  PROVE  Tracing(T, p)'
<1>1. ASSUME NEW n \in 1..(nth - 1)
      PROVE  GroupRead(T, n, p[n], p[n + 1], c.value)'
  <2>1. PICK at, next, value : at = p[n] /\ next = p[n + 1] /\ value = Message.value
    OBVIOUS
  <2>2. GroupRead(R, n, at, next, value) /\ n \in 1..Len(tmpl.groups)
    BY <2>1 DEF Tracing
  <2>3. GroupRead(T, n, at, next, c.value)
    <3>1. tmpl.groups[n].fd.name \in DOMAIN value
      BY <2>2 DEF GroupRead
    <3>2. /\ tmpl.groups[n].fd.name \in DOMAIN c.value
          /\ c.value[tmpl.groups[n].fd.name] = value[tmpl.groups[n].fd.name]
      BY <2>1, <2>2, <3>1 DEF Keeps
    <3> QED
      BY <2>2, <3>2, GroupStays
  <2>4. GroupRead(T, n, at, next, c.value)'
    BY <2>3, GroupReadPrime
  <2> QED
    BY <2>1, <2>4
<1>2. RootEnd' = RootEnd
  BY DEF RootEnd, U16
<1> QED
  BY <1>1, <1>2 DEF Tracing, Message

\* Another group has been read.
LEMMA TracingNext ==
  ASSUME NEW R, NEW T, R \subseteq T, NEW p, Tracing(R, p), UNCHANGED <<data, limits, tmpl>>,
         GroupsLeft, GroupReadable(pos, NextGroup.block_length),
         nth' = nth + 1, pos' = pos + GroupAt(pos).total,
         NEW list, Len(list) = GroupAt(pos).count,
         Listed(T, NextGroup.fields, pos, GroupAt(pos).block_length, list),
         NEW c, frames'[1] = c, c.fields = Message.fields, c.base = Message.base,
         c.value = Mapping(Message.value, NextGroup.fd.name, list)
  PROVE  \E q : Tracing(T, q)'
<1>1. PICK q : q = [n \in 1..(nth + 1) |-> IF n = nth + 1 THEN pos + GroupAt(pos).total ELSE p[n]]
  OBVIOUS
<1>2. /\ nth \in 1..Len(tmpl.groups) /\ nth \in Nat /\ Len(tmpl.groups) \in Nat
      /\ Apart(tmpl.groups)
  BY DEF Tracing, GroupsLeft
<1>3. q[nth + 1] = pos + GroupAt(pos).total /\ \A n \in 1..nth : q[n] = p[n]
  BY <1>1, <1>2
<1>4. ASSUME NEW n \in 1..nth
      PROVE  GroupRead(T, n, q[n], q[n + 1], c.value)'
  <2>1. PICK at, next, value : at = q[n] /\ next = q[n + 1] /\ value = Message.value
    OBVIOUS
  <2>2. CASE n = nth
    <3>1. GroupRead(T, n, at, next, c.value)
      <4>1. at = pos /\ next = pos + GroupAt(pos).total
        BY <1>2, <1>3, <2>1, <2>2 DEF Tracing
      <4>2. tmpl.groups[n].fd.name \in DOMAIN c.value /\ c.value[tmpl.groups[n].fd.name] = list
        BY <2>2 DEF Mapping, NextGroup
      <4> QED
        BY <2>2, <4>1, <4>2 DEF GroupRead, NextGroup
    <3>2. GroupRead(T, n, at, next, c.value)'
      BY <3>1, GroupReadPrime
    <3> QED
      BY <2>1, <3>2
  <2>3. CASE n # nth
    <3>1. PICK m : m = n + 1
      OBVIOUS
    <3>2. n \in 1..(nth - 1) /\ m \in 1..nth
      BY <1>2, <2>3, <3>1
    <3>3. at = p[n] /\ next = p[n + 1]
      BY <1>3, <2>1, <3>1, <3>2
    <3>4. GroupRead(R, n, at, next, value)
      BY <2>1, <3>2, <3>3 DEF Tracing
    <3>5. tmpl.groups[n].fd.name # NextGroup.fd.name
      BY <1>2, <3>2 DEF Apart, NextGroup
    <3>6. tmpl.groups[n].fd.name \in DOMAIN value
      BY <3>4 DEF GroupRead
    <3>7. /\ tmpl.groups[n].fd.name \in DOMAIN c.value
          /\ c.value[tmpl.groups[n].fd.name] = value[tmpl.groups[n].fd.name]
      BY <2>1, <3>5, <3>6 DEF Mapping
    <3>8. GroupRead(T, n, at, next, c.value)
      BY <3>4, <3>7, GroupStays
    <3>9. GroupRead(T, n, at, next, c.value)'
      BY <3>8, GroupReadPrime
    <3> QED
      BY <2>1, <3>9
  <2> QED
    BY <2>2, <2>3
<1>5. RootEnd' = RootEnd
  BY DEF RootEnd, U16
<1>6. q[1] = RootEnd /\ q[nth + 1] = pos'
  BY <1>2, <1>3 DEF Tracing
<1>7. nth + 1 \in 1..(Len(tmpl.groups) + 1) /\ nth' - 1 = nth
  BY <1>2
<1>8. Tracing(T, q)'
  BY <1>4, <1>5, <1>6, <1>7 DEF Tracing, Message
<1> QED
  BY <1>8

\* The entry being read, while a field of it is read.
LEMMA EntryKept ==
  ASSUME NEW R, NEW T, R \subseteq T, EntryTraced(R),
         UNCHANGED <<data, limits, tmpl, pos, nth, group, entries>>,
         frames'[2].fields = frames[2].fields, frames'[2].base = frames[2].base
  PROVE  EntryTraced(T)'
<1>1. PICK at, least : at = pos /\ least = NextGroup.block_length
  OBVIOUS
<1>2. GroupReadable(at, least)' /\ GroupAt(at)' = GroupAt(at)
  BY <1>1, GroupReadablePrime DEF EntryTraced
<1>3. GroupReadable(pos, NextGroup.block_length)' /\ GroupAt(pos)' = GroupAt(pos)
  BY <1>1, <1>2 DEF NextGroup
<1> QED
  BY <1>3 DEF EntryTraced, Listed, NextGroup

\* A step of something else.
LEMMA FaithKept ==
  ASSUME NEW R, NEW p, Faith(R, p),
         UNCHANGED <<data, limits, tmpl, pos, frames, entries, group, nth>>
  PROVE  Faith(R, p)'
<1>1. Known(R)'
  BY KnownPrime DEF Faith
<1>2. ASSUME frames # <<>>
      PROVE  Faith(R, p)'
  <2>1. Acceptable(tmpl) /\ BlocksSay(R, frames') /\ Tracing(R, p)
    BY <1>2 DEF Faith
  <2>2. PICK c : c = frames[1]
    OBVIOUS
  <2>3. Tracing(R, p)'
    BY <2>1, <2>2, TracingKept DEF Message, Keeps
  <2>4. InGroup(frames) => EntryTraced(R)'
    BY <1>2, EntryKept DEF Faith
  <2> QED
    BY <2>1, <2>3, <2>4, FaithPrime DEF Faith
<1> QED
  BY <1>1, <1>2 DEF Faith

\* A value read is in a record with no error.
LEMMA ReadIsRead ==
  ASSUME NEW ft, NEW from, NEW to, NEW read, read = ReadAt(ft, from, to), read.err = "none"
  PROVE  read = Read("none", read.val)
<1>1. \E err, val : read = Read(err, val)
  <2>1. CASE ft.encoding = "none"
    BY <2>1 DEF ReadAt
  <2>2. CASE ft.encoding # "none" /\ from + ft.size > to
    BY <2>2 DEF ReadAt
  <2>3. CASE ft.encoding # "none" /\ ~(from + ft.size > to)
    <3>1. PICK b : b = SubSeq(data, from + 1, from + ft.size)
      OBVIOUS
    <3>2. read = Value(ft, b)
      BY <2>3, <3>1 DEF ReadAt
    <3>3. \E err, val : Value(ft, b) = Read(err, val)
      BY DEF Value
    <3> QED
      BY <3>2, <3>3
  <2> QED
    BY <2>1, <2>2, <2>3
<1> QED
  BY <1>1 DEF Read

\* The top block of a stack, which is the decoder's or part of it, gets a value.
LEMMA LastWith ==
  ASSUME NEW S, NEW D, Closed(S, D), NEW R, NEW T, R \subseteq T, Known(T), NEW p,
         Acceptable(tmpl), Tracing(R, p), InGroup(frames) => EntryTraced(R),
         UNCHANGED <<data, limits, tmpl, pos, nth, group, entries>>,
         Len(frames) \in Nat,
         NEW s, IsSeq(s), s # <<>>, Len(s) <= Len(frames), \A k \in 1..Len(s) : s[k] = frames[k],
         BlocksSay(R, s), NEW b, b = s[Len(s)], BlockIn(S, b), b.at \in 1..Len(b.fields), NEW val,
         IF b.fields[b.at].composite # <<>>
         THEN <<b.fields[b.at].composite, b.base + b.fields[b.at].offset, val>> \in T
         ELSE ReadAt(b.fields[b.at], b.base + b.fields[b.at].offset, Len(data)) = Read("none", val),
         frames' = Append(SubSeq(s, 1, Len(s) - 1), With(b, val))
  PROVE  Faith(T, p)'
<1>1. PICK c, t : c = With(b, val) /\ t = Append(SubSeq(s, 1, Len(s) - 1), c)
  OBVIOUS
<1>2. /\ Len(t) = Len(s) /\ Len(s) \in Nat \ {0} /\ t[Len(s)] = c
      /\ \A k \in 1..(Len(s) - 1) : t[k] = s[k]
  BY <1>1, LastReplaced
<1>3. frames' = t
  BY <1>1
<1>4. c.role = b.role /\ c.fields = b.fields /\ c.base = b.base /\ c.at = b.at + 1
  BY <1>1, WithParts
<1>5. Told(T, c)
  <2>1. Says(R, b.fields, b.base, b.value)
    BY <1>2 DEF BlocksSay, Told
  <2>2. Says(T, b.fields, b.base, b.value)
    BY <2>1, SaysMore
  <2>3. Says(T, c.fields, c.base, c.value)
    BY <1>1, <2>2, WithSays
  <2>4. c.at - 1 = b.at
    BY <1>4
  <2> QED
    BY <1>4, <2>3, <2>4 DEF Told
<1>6. BlocksSay(T, t)
  BY <1>1, <1>4, <1>5, SayLast
<1>7. Tracing(T, p)'
  <2>1. PICK d : d = t[1]
    OBVIOUS
  <2>2. Message = s[1] /\ Message.fields = tmpl.fields /\ Strangers(tmpl.fields, tmpl.groups)
    BY <1>2 DEF Message, Tracing
  <2>3. CASE Len(s) = 1
    <3>1. d = c /\ Message = b
      BY <1>2, <2>1, <2>2, <2>3
    <3>2. PICK groups : groups = tmpl.groups
      OBVIOUS
    <3>3. Strangers(b.fields, groups)
      BY <2>2, <3>1, <3>2
    <3>4. Keeps(groups, b.value, c.value)
      BY <1>1, <3>3, WithKeepsGroups
    <3> QED
      BY <1>3, <1>4, <2>1, <3>1, <3>2, <3>4, TracingKept
  <2>4. CASE Len(s) # 1
    <3>1. d = Message
      BY <1>2, <2>1, <2>2, <2>4
    <3>2. Keeps(tmpl.groups, Message.value, d.value)
      BY <3>1 DEF Keeps
    <3> QED
      BY <1>3, <2>1, <3>1, <3>2, TracingKept
  <2> QED
    BY <2>3, <2>4
<1>8. ASSUME InGroup(t)
      PROVE  EntryTraced(T)'
  <2>1. Len(s) > 1 /\ 2 \in 1..Len(s) /\ t[2].role = "entry"
    BY <1>2, <1>8 DEF InGroup
  <2>2. t[2].role = s[2].role /\ t[2].fields = s[2].fields /\ t[2].base = s[2].base
    <3>1. CASE Len(s) = 2
      BY <1>2, <1>4, <3>1
    <3>2. CASE Len(s) # 2
      <4>1. 2 \in 1..(Len(s) - 1)
        BY <1>2, <2>1, <3>2
      <4> QED
        BY <1>2, <4>1
    <3> QED
      BY <3>1, <3>2
  <2>3. s[2] = frames[2] /\ Len(frames) > 1
    BY <1>2, <2>1
  <2>4. InGroup(frames)
    BY <2>1, <2>2, <2>3 DEF InGroup
  <2> QED
    BY <1>3, <2>2, <2>3, <2>4, EntryKept
<1> QED
  BY <1>3, <1>6, <1>7, <1>8, FaithPrime

LEMMA ReadScalarFaith ==
  ASSUME NEW S, NEW D, Closed(S, D), Decoding(S), NEW R, NEW p, Faith(R, p), ReadScalar
  PROVE  Faith(R, p)'
<1>1. /\ Reading /\ ~Filled /\ Field.composite = <<>>
      /\ UNCHANGED <<data, tmpl, pos, entries, group, nth, limits>>
  BY DEF ReadScalar, Scalar, Stop, templateVars
<1>2. PICK read : /\ read = ReadAt(Field, Inner.base + Field.offset, Len(data))
                  /\ Scalar(read)
  BY DEF ReadScalar
<1>3. /\ frames # <<>> /\ IsSeq(frames) /\ Len(frames) \in Nat \ {0}
      /\ BlockIn(S, Inner) /\ Inner = frames[Len(frames)]
  BY <1>1, InnerIn DEF Blocks
<1>4. Inner.at \in 1..Len(Inner.fields) /\ Field = Inner.fields[Inner.at]
  BY <1>1, InnerField DEF Field
<1>5. Known(R) /\ Acceptable(tmpl) /\ BlocksSay(R, frames) /\ Tracing(R, p)
      /\ (InGroup(frames) => EntryTraced(R))
  BY <1>3 DEF Faith
<1>6. CASE read.err # "none"
  <2>1. UNCHANGED frames
    BY <1>2, <1>6 DEF Scalar, Stop
  <2> QED
    BY <1>1, <2>1, FaithKept
<1>7. CASE read.err = "none"
  <2>1. PICK val, b : val = read.val /\ b = Inner
    OBVIOUS
  <2>2. read = Read("none", val)
    BY <1>2, <1>7, <2>1, ReadIsRead
  <2>3. frames' = Append(SubSeq(frames, 1, Len(frames) - 1), With(b, val))
    BY <1>2, <1>7, <2>1 DEF Scalar, Stop, Rest
  <2>4. IF b.fields[b.at].composite # <<>>
        THEN <<b.fields[b.at].composite, b.base + b.fields[b.at].offset, val>> \in R
        ELSE ReadAt(b.fields[b.at], b.base + b.fields[b.at].offset, Len(data)) = Read("none", val)
    BY <1>1, <1>2, <1>4, <2>1, <2>2
  <2>5. PICK s : s = frames
    OBVIOUS
  <2>6. /\ IsSeq(s) /\ s # <<>> /\ Len(s) <= Len(frames) /\ \A k \in 1..Len(s) : s[k] = frames[k]
        /\ BlocksSay(R, s) /\ b = s[Len(s)] /\ BlockIn(S, b) /\ b.at \in 1..Len(b.fields)
        /\ frames' = Append(SubSeq(s, 1, Len(s) - 1), With(b, val)) /\ Len(frames) \in Nat
    BY <1>3, <1>4, <1>5, <2>1, <2>3, <2>5
  <2> QED
    BY <1>1, <1>5, <2>4, <2>6, LastWith
<1> QED
  BY <1>6, <1>7

\* A block of which nothing has been read says nothing.
LEMMA FreshSays ==
  ASSUME NEW R, NEW b, b.value = <<>>, b.at = 1
  PROVE  Told(R, b)
<1>1. DOMAIN b.value = {}
  BY EmptySeq
<1> QED
  BY <1>1 DEF Told, Says

\* A block is put on top, which is a composite of the one below or an entry.
LEMMA PushFaith ==
  ASSUME NEW R, NEW p, Known(R), Acceptable(tmpl), Tracing(R, p), BlocksSay(R, frames),
         IsSeq(frames), frames # <<>>,
         UNCHANGED <<data, limits, tmpl, pos, nth>>,
         NEW b, b.value = <<>>, b.at = 1, b.role = "composite" => Inside(frames[Len(frames)], b),
         frames' = Append(frames, b),
         InGroup(frames') => EntryTraced(R)'
  PROVE  Faith(R, p)'
<1>1. PICK t : t = Append(frames, b)
  OBVIOUS
<1>2. BlocksSay(R, t)
  BY <1>1, FreshSays, SayPush
<1>3. PICK c : c = frames[1]
  OBVIOUS
<1>4. t[1] = c
  BY <1>1, <1>3, Pushed, Popped
<1>5. Keeps(tmpl.groups, Message.value, c.value)
  BY <1>3 DEF Keeps, Message
<1>6. Tracing(R, p)'
  BY <1>1, <1>3, <1>4, <1>5, TracingKept DEF Message
<1> QED
  BY <1>1, <1>2, <1>6, FaithPrime

LEMMA EnterCompositeFaith ==
  ASSUME NEW S, NEW D, Closed(S, D), Decoding(S), NEW R, NEW p, Faith(R, p), EnterComposite
  PROVE  Faith(R, p)'
<1>1. /\ Reading /\ ~Filled /\ Field.composite # <<>>
      /\ UNCHANGED <<data, tmpl, pos, entries, group, nth, limits>>
  BY DEF EnterComposite, templateVars
<1>2. PICK b : b = Block("composite", Field.composite, Inner.base + Field.offset,
                         Inner.base + Field.offset + Field.size)
  OBVIOUS
<1>3. /\ b.role = "composite" /\ b.fields = Field.composite /\ b.value = <<>> /\ b.at = 1
      /\ b.base = Inner.base + Field.offset
  BY <1>2 DEF Block
<1>4. /\ frames # <<>> /\ IsSeq(frames) /\ Len(frames) \in Nat \ {0} /\ Inner = frames[Len(frames)]
  BY <1>1, InnerIn DEF Blocks
<1>5. Inside(Inner, b)
  BY <1>1, <1>3, InnerField DEF Inside, Field
<1>6. Known(R) /\ Acceptable(tmpl) /\ BlocksSay(R, frames) /\ Tracing(R, p)
      /\ (InGroup(frames) => EntryTraced(R))
  BY <1>4 DEF Faith
<1>7. frames' = Append(frames, b)
  BY <1>2 DEF EnterComposite
<1>8. /\ Len(frames') = Len(frames) + 1 /\ frames'[Len(frames) + 1] = b
      /\ \A k \in 1..Len(frames) : frames'[k] = frames[k]
  <2>1. PICK t : t = Append(frames, b)
    OBVIOUS
  <2>2. /\ Len(t) = Len(frames) + 1 /\ t[Len(frames) + 1] = b
        /\ \A k \in 1..Len(frames) : t[k] = frames[k]
    BY <1>4, <2>1, Pushed
  <2> QED
    BY <1>7, <2>1, <2>2
<1>9. ASSUME InGroup(frames')
      PROVE  EntryTraced(R)'
  <2>1. CASE Len(frames) = 1
    BY <1>3, <1>8, <1>9, <2>1 DEF InGroup
  <2>2. CASE Len(frames) # 1
    <3>1. 2 \in 1..Len(frames) /\ Len(frames) > 1
      <4>1. PICK n \in Nat \ {0, 1} : n = Len(frames)
        BY <1>4, <2>2
      <4>2. 2 \in 1..n /\ n > 1
        OBVIOUS
      <4> QED
        BY <4>1, <4>2
    <3>2. frames'[2] = frames[2]
      BY <1>8, <3>1
    <3> QED
      BY <1>1, <1>6, <1>9, <3>1, <3>2, EntryKept DEF InGroup
  <2> QED
    BY <2>1, <2>2
<1> QED
  BY <1>1, <1>3, <1>4, <1>5, <1>6, <1>7, <1>9, PushFaith

LEMMA LeaveCompositeFaith ==
  ASSUME NEW S, NEW D, Closed(S, D), Decoding(S), NEW R, NEW p, Faith(R, p), LeaveComposite
  PROVE  \E T : Faith(T, p)'
<1>1. /\ Reading /\ Inner.role = "composite"
      /\ UNCHANGED <<data, tmpl, pos, entries, group, nth, limits>>
  BY DEF LeaveComposite, templateVars
<1>2. /\ Blocks(S, frames) /\ frames # <<>> /\ Len(frames) \in Nat \ {0} /\ Len(frames) # 1
      /\ Inner = frames[Len(frames)]
  BY <1>1, InnerIn
<1>3. Known(R) /\ Acceptable(tmpl) /\ BlocksSay(R, frames) /\ Tracing(R, p)
      /\ (InGroup(frames) => EntryTraced(R))
  BY <1>2 DEF Faith
<1>4. PICK s, m : s = Rest /\ m = Len(frames) - 1
  OBVIOUS
<1>5. /\ IsSeq(s) /\ Len(s) = m /\ m \in 1..Len(frames) /\ \A k \in 1..m : s[k] = frames[k]
  BY <1>2, <1>4, Popped DEF Blocks, Rest
<1>6. s # <<>>
  BY <1>5, EmptySeq
<1>7. PICK b, val : b = s[m] /\ val = Inner.value
  OBVIOUS
<1>8. b = frames[m] /\ BlockIn(S, b)
  BY <1>2, <1>5, <1>7 DEF Blocks
<1>9. Inside(b, Inner) /\ Says(R, Inner.fields, Inner.base, Inner.value)
  <2>1. m \in 1..(Len(frames) - 1) /\ m + 1 = Len(frames)
    BY <1>2, <1>4, <1>5
  <2>2. frames[m + 1].role = "composite" => Inside(frames[m], frames[m + 1])
    BY <1>3, <2>1 DEF BlocksSay
  <2>3. Inner = frames[m + 1]
    BY <1>2, <2>1
  <2>4. Says(R, Inner.fields, Inner.base, Inner.value)
    BY <1>2, <1>3 DEF BlocksSay, Told
  <2> QED
    BY <1>1, <1>8, <2>2, <2>3, <2>4
<1>10. PICK T : T = R \cup {<<Inner.fields, Inner.base, Inner.value>>}
  OBVIOUS
<1>11. R \subseteq T /\ Known(T)
  BY <1>3, <1>9, <1>10, KnownMore
<1>12. b.at \in 1..Len(b.fields) /\ b.fields[b.at].composite # <<>>
       /\ <<b.fields[b.at].composite, b.base + b.fields[b.at].offset, val>> \in T
  BY <1>7, <1>9, <1>10 DEF Inside
<1>13. BlocksSay(R, s)
  BY <1>2, <1>3, <1>4, SayPop DEF Blocks, Rest
<1>14. frames' = Append(SubSeq(s, 1, Len(s) - 1), With(b, val))
  BY <1>4, <1>5, <1>7 DEF LeaveComposite
<1>15. b = s[Len(s)] /\ Len(s) <= Len(frames) /\ Len(frames) \in Nat
       /\ \A k \in 1..Len(s) : s[k] = frames[k]
  BY <1>2, <1>5, <1>7
<1>16. Faith(T, p)'
  BY <1>1, <1>3, <1>5, <1>6, <1>8, <1>11, <1>12, <1>13, <1>14, <1>15, LastWith
<1> QED
  BY <1>16

\* The message with the list of another group.
LEMMA GroupedParts ==
  ASSUME NEW S, BlockIn(S, Message), NEW list
  PROVE  \E c : /\ Grouped(list) = <<c>>
                /\ c.fields = Message.fields /\ c.base = Message.base /\ c.at = Message.at
                /\ c.value = Mapping(Message.value, NextGroup.fd.name, list)
<1>1. PICK b, value : b = Message /\ value = Mapping(Message.value, NextGroup.fd.name, list)
  OBVIOUS
<1>2. PICK c : c = [b EXCEPT !.value = value]
  OBVIOUS
<1>3. b = [role |-> b.role, fields |-> b.fields, at |-> b.at,
           base |-> b.base, end |-> b.end, value |-> b.value]
  BY <1>1 DEF BlockIn
<1>4. c = [role |-> b.role, fields |-> b.fields, at |-> b.at,
           base |-> b.base, end |-> b.end, value |-> value]
  BY <1>2, <1>3
<1>5. c.fields = b.fields /\ c.base = b.base /\ c.at = b.at /\ c.value = value
  BY <1>4
<1>6. Grouped(list) = <<c>>
  BY <1>1, <1>2 DEF Grouped
<1> QED
  BY <1>1, <1>5, <1>6

LEMMA GroupedFaith ==
  ASSUME NEW S, BlockIn(S, Message), NEW R, NEW T, R \subseteq T, Known(T), NEW p,
         Acceptable(tmpl), Tracing(R, p), BlocksSay(R, frames), Len(frames) \in Nat \ {0},
         UNCHANGED <<data, limits, tmpl>>,
         GroupsLeft, GroupReadable(pos, NextGroup.block_length),
         nth' = nth + 1, pos' = pos + GroupAt(pos).total,
         NEW list, Len(list) = GroupAt(pos).count,
         Listed(T, NextGroup.fields, pos, GroupAt(pos).block_length, list),
         frames' = Grouped(list)
  PROVE  \E q : Faith(T, q)'
<1>1. PICK c : /\ Grouped(list) = <<c>>
               /\ c.fields = Message.fields /\ c.base = Message.base /\ c.at = Message.at
               /\ c.value = Mapping(Message.value, NextGroup.fd.name, list)
  BY GroupedParts
<1>2. frames'[1] = c /\ Len(frames') = 1
  <2>1. PICK s : s = <<c>>
    OBVIOUS
  <2>2. s[1] = c /\ Len(s) = 1
    BY <2>1
  <2> QED
    BY <1>1, <2>1, <2>2
<1>3. PICK q : Tracing(T, q)'
  BY <1>1, <1>2, TracingNext
<1>4. Told(T, c)
  <2>1. PICK fields, base, value, name :
          /\ fields = Message.fields /\ base = Message.base /\ value = Message.value
          /\ name = NextGroup.fd.name
    OBVIOUS
  <2>2. Says(R, fields, base, value) /\ (c.at = 1 \/ c.at - 1 \in 1..Len(fields))
    BY <1>1, <2>1 DEF BlocksSay, Told, Message
  <2>3. Says(T, fields, base, value)
    BY <2>2, SaysMore
  <2>4. Lacks(fields, name)
    <3>1. nth \in 1..Len(tmpl.groups) /\ fields = tmpl.fields /\ Strangers(tmpl.fields, tmpl.groups)
      BY <2>1 DEF Tracing, GroupsLeft
    <3> QED
      BY <2>1, <3>1 DEF Lacks, Strangers, NextGroup
  <2>5. Says(T, fields, base, Mapping(value, name, list))
    BY <2>3, <2>4, SaysOneGroup
  <2> QED
    BY <1>1, <2>1, <2>2, <2>5 DEF Told
<1>5. BlocksSay(T, frames')
  BY <1>1, <1>4, SayOne
<1>6. ~InGroup(frames')
  BY <1>2 DEF InGroup
<1>7. Faith(T, q)'
  BY <1>3, <1>5, <1>6, FaithPrime
<1> QED
  BY <1>7

LEMMA EnterGroupFaith ==
  ASSUME NEW S, NEW D, Closed(S, D), Decoding(S), NEW R, NEW p, Faith(R, p), EnterGroup
  PROVE  \E q : Faith(R, q)'
<1>1. Reading /\ Inner.role = "message" /\ GroupsLeft /\ UNCHANGED <<limits, data, tmpl>>
  BY DEF EnterGroup, AtGroups, Stop, templateVars
<1>2. /\ Blocks(S, frames) /\ IsSeq(frames) /\ frames # <<>> /\ Len(frames) = 1
      /\ Len(frames) \in Nat \ {0} /\ BlockIn(S, Message)
  BY <1>1, InnerIn DEF Message, Blocks
<1>3. Known(R) /\ Acceptable(tmpl) /\ BlocksSay(R, frames) /\ Tracing(R, p)
  BY <1>2 DEF Faith
<1>4. CASE Stop("BadGroup")
  <2>1. UNCHANGED <<frames, pos, entries, group, nth>>
    BY <1>4 DEF Stop
  <2> QED
    BY <1>1, <2>1, FaithKept
<1>5. CASE ~Stop("BadGroup")
  <2>1. PICK g : g = GroupAt(pos)
    OBVIOUS
  <2>2. /\ GroupReadable(pos, NextGroup.block_length)
        /\ group' = g /\ entries' = <<>>
        /\ IF g.count = 0
           THEN frames' = Grouped(<<>>) /\ pos' = pos + g.total /\ nth' = nth + 1
           ELSE frames' = Append(frames, Entry(g, 0)) /\ UNCHANGED <<pos, nth>>
    BY <1>5, <2>1 DEF EnterGroup
  <2>3. PICK none : none = <<>>
    OBVIOUS
  <2>4. IsSeq(none) /\ Len(none) = 0
    BY <2>3, EmptySeq DEF IsSeq
  <2>5. Listed(R, NextGroup.fields, pos, g.block_length, none)
    BY <2>4 DEF Listed
  <2>6. CASE g.count = 0
    <3>1. /\ frames' = Grouped(none) /\ pos' = pos + GroupAt(pos).total /\ nth' = nth + 1
          /\ Len(none) = GroupAt(pos).count
          /\ Listed(R, NextGroup.fields, pos, GroupAt(pos).block_length, none)
      BY <2>1, <2>2, <2>3, <2>4, <2>5, <2>6
    <3> QED
      BY <1>1, <1>2, <1>3, <2>2, <3>1, GroupedFaith
  <2>7. CASE g.count # 0
    <3>1. PICK b : b = Entry(g, 0)
      OBVIOUS
    <3>2. /\ b.role = "entry" /\ b.fields = NextGroup.fields /\ b.value = <<>> /\ b.at = 1
          /\ b.base = pos + GroupHeaderSize + 0 * g.block_length
      BY <3>1 DEF Entry, Block
    <3>3. frames' = Append(frames, b) /\ UNCHANGED <<pos, nth>>
      BY <2>2, <2>7, <3>1
    <3>4. frames'[2] = b
      <4>1. PICK t : t = Append(frames, b)
        OBVIOUS
      <4>2. t[Len(frames) + 1] = b
        BY <1>2, <4>1, Pushed
      <4> QED
        BY <1>2, <3>3, <4>1, <4>2
    <3>5. EntryTraced(R)'
      <4>1. PICK at, least : at = pos /\ least = NextGroup.block_length
        OBVIOUS
      <4>2. GroupReadable(at, least)' /\ GroupAt(at)' = GroupAt(at)
        BY <1>1, <2>2, <4>1, GroupReadablePrime
      <4>3. NextGroup' = NextGroup
        BY <1>1, <3>3 DEF NextGroup
      <4>4. GroupReadable(pos, NextGroup.block_length)' /\ group' = GroupAt(pos)'
        BY <2>1, <2>2, <3>3, <4>1, <4>2, <4>3
      <4>5. frames'[2].fields = NextGroup'.fields
        BY <3>2, <3>4, <4>3
      <4>6. frames'[2].base = pos' + GroupHeaderSize + Len(entries') * group'.block_length
        BY <2>2, <2>3, <2>4, <3>2, <3>3, <3>4
      <4>7. Listed(R, NextGroup.fields, pos, group.block_length, entries)'
        BY <2>2, <2>3, <2>5, <3>3, <4>3 DEF Listed
      <4> QED
        BY <4>4, <4>5, <4>6, <4>7 DEF EntryTraced
    <3>6. Faith(R, p)'
      BY <1>1, <1>2, <1>3, <3>2, <3>3, <3>5, PushFaith
    <3> QED
      BY <3>6
  <2> QED
    BY <2>6, <2>7
<1> QED
  BY <1>4, <1>5

\* One more entry of the list.
LEMMA ListedMore ==
  ASSUME NEW R, NEW fields, NEW at, NEW length, NEW list, Listed(R, fields, at, length, list),
         NEW n, n = Len(list), NEW value, NEW T, R \subseteq T,
         <<fields, at + GroupHeaderSize + n * length, value>> \in T
  PROVE  Listed(T, fields, at, length, Append(list, value))
<1>1. PICK more : more = Append(list, value)
  OBVIOUS
<1>2. /\ IsSeq(more) /\ Len(more) = n + 1 /\ n \in Nat /\ more[n + 1] = value
      /\ \A i \in 1..n : more[i] = list[i]
  BY <1>1, Pushed DEF Listed
<1>3. ASSUME NEW i \in 1..Len(more)
      PROVE  <<fields, at + GroupHeaderSize + (i - 1) * length, more[i]>> \in T
  <2>1. CASE i = n + 1
    <3>1. i - 1 = n
      BY <1>2, <2>1
    <3> QED
      BY <1>2, <2>1, <3>1
  <2>2. CASE i # n + 1
    <3>1. i \in 1..n
      BY <1>2, <2>2
    <3> QED
      BY <1>2, <3>1 DEF Listed
  <2> QED
    BY <2>1, <2>2
<1> QED
  BY <1>1, <1>2, <1>3 DEF Listed

LEMMA LeaveEntryFaith ==
  ASSUME NEW S, NEW D, Closed(S, D), Decoding(S), NEW R, NEW p, Faith(R, p), LeaveEntry
  PROVE  \E T, q : Faith(T, q)'
<1>1. Reading /\ Inner.role = "entry" /\ UNCHANGED <<limits, data, tmpl, group>>
  BY DEF LeaveEntry, templateVars
<1>2. /\ Blocks(S, frames) /\ frames # <<>> /\ Len(frames) = 2 /\ Len(frames) \in Nat \ {0}
      /\ IsSeq(frames) /\ Inner = frames[2]
  BY <1>1, InnerIn DEF Blocks
<1>3. InGroup(frames) /\ GroupOpen /\ BlockIn(S, Message)
  BY <1>1, <1>2 DEF Decoding, InGroup, Blocks, Message
<1>4. Known(R) /\ Acceptable(tmpl) /\ BlocksSay(R, frames) /\ Tracing(R, p) /\ EntryTraced(R)
  BY <1>2, <1>3 DEF Faith
<1>5. PICK n, value : n = Len(entries) /\ value = Inner.value
  OBVIOUS
<1>6. /\ n \in Nat /\ n < group.count /\ group.count \in Nat
      /\ GroupsLeft /\ group = GroupAt(pos) /\ GroupReadable(pos, NextGroup.block_length)
  <2>1. n \in Nat
    BY <1>5, EmptySeq DEF Decoding, IsSeq
  <2> QED
    BY <1>3, <1>4, <1>5, <2>1 DEF GroupOpen, GroupsLeft, EntryTraced
<1>7. /\ entries' = Append(entries, value)
      /\ IF n + 1 < group.count
         THEN frames' = Append(Rest, Entry(group, n + 1)) /\ UNCHANGED <<pos, nth>>
         ELSE frames' = Grouped(entries') /\ pos' = pos + group.total /\ nth' = nth + 1
  BY <1>5 DEF LeaveEntry
<1>8. /\ Inner.fields = NextGroup.fields
      /\ Inner.base = pos + GroupHeaderSize + n * group.block_length
      /\ Listed(R, NextGroup.fields, pos, group.block_length, entries)
  BY <1>2, <1>4, <1>5 DEF EntryTraced
<1>9. Says(R, Inner.fields, Inner.base, value)
  BY <1>2, <1>4, <1>5 DEF BlocksSay, Told
<1>10. PICK T : T = R \cup {<<Inner.fields, Inner.base, value>>}
  OBVIOUS
<1>11. R \subseteq T /\ Known(T)
  BY <1>4, <1>9, <1>10, KnownMore
<1>12. PICK list : list = Append(entries, value)
  OBVIOUS
<1>13. /\ Listed(T, NextGroup.fields, pos, group.block_length, list)
       /\ Len(list) = n + 1
  <2>1. PICK fields, at, length, sofar :
          /\ fields = NextGroup.fields /\ at = pos /\ length = group.block_length /\ sofar = entries
    OBVIOUS
  <2>2. <<fields, at + GroupHeaderSize + n * length, value>> \in T
    BY <1>8, <1>10, <2>1
  <2>3. Listed(R, fields, at, length, sofar) /\ n = Len(sofar)
    BY <1>5, <1>8, <2>1
  <2>4. Listed(T, fields, at, length, Append(sofar, value))
    BY <1>11, <2>2, <2>3, ListedMore
  <2>5. Len(list) = n + 1
    BY <1>5, <1>12, Pushed DEF Decoding
  <2> QED
    BY <1>12, <2>1, <2>4, <2>5
<1>14. CASE n + 1 < group.count
  <2>1. PICK m, r, b : m = n + 1 /\ r = Rest /\ b = Entry(group, m)
    OBVIOUS
  <2>2. /\ b.role = "entry" /\ b.fields = NextGroup.fields /\ b.value = <<>> /\ b.at = 1
        /\ b.base = pos + GroupHeaderSize + m * group.block_length
    BY <2>1 DEF Entry, Block
  <2>3. PICK t : t = Append(r, b)
    OBVIOUS
  <2>4. frames' = t /\ UNCHANGED <<pos, nth>>
    BY <1>7, <1>14, <2>1, <2>3
  <2>5. IsSeq(r) /\ Len(r) = 1 /\ r[1] = Message /\ r # <<>>
    <3>1. /\ IsSeq(r) /\ Len(r) = Len(frames) - 1
          /\ \A k \in 1..(Len(frames) - 1) : r[k] = frames[k]
      BY <1>2, <2>1, Popped DEF Rest
    <3>2. Len(frames) - 1 = 1 /\ 1 \in 1..(Len(frames) - 1)
      BY <1>2
    <3>3. IsSeq(r) /\ Len(r) = 1 /\ r[1] = Message
      BY <3>1, <3>2 DEF Message
    <3>4. r # <<>>
      <4>1. Len(r) = 1 /\ Len(<<>>) = 0
        BY <3>3, EmptySeq
      <4> QED
        BY <4>1
    <3> QED
      BY <3>3, <3>4
  <2>6. t[1] = Message /\ t[2] = b
    <3>1. t[Len(r) + 1] = b /\ \A k \in 1..Len(r) : t[k] = r[k]
      <4>1. IsSeq(r)
        BY <2>5
      <4> QED
        BY <2>3, <4>1, Pushed
    <3>2. Len(r) + 1 = 2 /\ 1 \in 1..Len(r)
      BY <2>5
    <3> QED
      BY <2>5, <3>1, <3>2
  <2>7. BlocksSay(T, t)
    <3>1. BlocksSay(R, r)
      BY <1>2, <1>4, <2>1, SayPop DEF Rest
    <3>2. BlocksSay(T, r)
      BY <1>11, <3>1, ToldMore DEF BlocksSay
    <3> QED
      BY <2>2, <2>3, <2>5, <3>2, FreshSays, SayPush
  <2>8. Tracing(T, p)'
    <3>1. PICK c : c = frames[1]
      OBVIOUS
    <3>2. /\ frames'[1] = c /\ c.fields = Message.fields /\ c.base = Message.base
          /\ Keeps(tmpl.groups, Message.value, c.value)
      BY <2>4, <2>6, <3>1 DEF Keeps, Message
    <3> QED
      BY <1>1, <1>4, <1>11, <2>4, <3>2, TracingKept
  <2>9. EntryTraced(T)'
    <3>1. PICK at, least : at = pos /\ least = NextGroup.block_length
      OBVIOUS
    <3>2. GroupReadable(at, least)' /\ GroupAt(at)' = GroupAt(at)
      BY <1>1, <1>6, <3>1, GroupReadablePrime
    <3>3. NextGroup' = NextGroup
      BY <1>1, <2>4 DEF NextGroup
    <3>4. GroupReadable(pos, NextGroup.block_length)' /\ group' = GroupAt(pos)'
      BY <1>1, <1>6, <2>4, <3>1, <3>2, <3>3
    <3>5. frames'[2].fields = NextGroup'.fields
      BY <2>2, <2>4, <2>6, <3>3
    <3>6. frames'[2].base = pos' + GroupHeaderSize + Len(entries') * group'.block_length
      BY <1>1, <1>7, <1>12, <1>13, <2>1, <2>2, <2>4, <2>6
    <3>7. Listed(T, NextGroup.fields, pos, group.block_length, entries)'
      BY <1>1, <1>7, <1>12, <1>13, <2>4, <3>3 DEF Listed
    <3> QED
      BY <3>4, <3>5, <3>6, <3>7 DEF EntryTraced
  <2>10. Faith(T, p)'
    BY <1>1, <1>4, <1>11, <2>4, <2>7, <2>8, <2>9, FaithPrime
  <2> QED
    BY <2>10
<1>15. CASE ~(n + 1 < group.count)
  <2>1. frames' = Grouped(list) /\ pos' = pos + GroupAt(pos).total /\ nth' = nth + 1
    BY <1>6, <1>7, <1>12, <1>15
  <2>2. Len(list) = GroupAt(pos).count
    BY <1>6, <1>13, <1>15
  <2>3. Listed(T, NextGroup.fields, pos, GroupAt(pos).block_length, list)
    BY <1>6, <1>13
  <2>4. \E q : Faith(T, q)'
    BY <1>1, <1>2, <1>3, <1>4, <1>6, <1>11, <2>1, <2>2, <2>3, GroupedFaith
  <2> QED
    BY <2>4
<1> QED
  BY <1>14, <1>15

LEMMA UnmarshalFaith ==
  ASSUME NEW S, NEW D, Closed(S, D), NEW R, NEW p, Faith(R, p), frames = <<>>, nth = 1,
         NEW type \in DOMAIN byName, TemplateIn(S, byName[type]), Unmarshal(type)
  PROVE  \E q : Faith(R, q)'
<1>1. UNCHANGED <<limits, data, nth>> /\ tmpl' = byName[type] /\ Known(R)
  BY DEF Unmarshal, templateVars, Faith
<1>2. CASE ~Acceptable(byName[type])
  BY <1>1, <1>2, KnownPrime DEF Unmarshal, Faith
<1>3. CASE Acceptable(byName[type])
  <2>1. PICK t, b, s, q : /\ t = byName[type] /\ b = Block("message", t.fields, HeaderSize, RootEnd)
                          /\ s = <<b>> /\ q = <<RootEnd>>
    OBVIOUS
  <2>2. frames' = s /\ pos' = RootEnd /\ tmpl' = t
    BY <1>1, <1>3, <2>1 DEF Unmarshal
  <2>3. b.fields = t.fields /\ b.base = HeaderSize /\ b.value = <<>> /\ b.at = 1
    BY <2>1 DEF Block
  <2>4. s[1] = b /\ Len(s) = 1 /\ q[1] = RootEnd
    BY <2>1
  <2>5. BlocksSay(R, s)
    BY <2>1, <2>3, FreshSays, SayOne
  <2>6. Acceptable(tmpl)'
    BY <1>1, <1>3 DEF Acceptable, MessageSound, TemplateId, RootSound, RootEnd, U16
  <2>7. Tracing(R, q)'
    <3>1. Apart(t.groups) /\ Strangers(t.fields, t.groups) /\ Len(t.groups) \in Nat
      BY <2>1, EmptySeq DEF TemplateIn, GroupsIn, IsSeq
    <3>2. nth' = 1 /\ 1 \in 1..(Len(t.groups) + 1) /\ 1..(nth' - 1) = {}
      BY <1>1, <3>1
    <3>3. RootEnd' = RootEnd
      BY <1>1 DEF RootEnd, U16
    <3> QED
      BY <2>2, <2>3, <2>4, <3>1, <3>2, <3>3 DEF Tracing, Message
  <2>8. ~InGroup(s)
    BY <2>4 DEF InGroup
  <2>9. Known(R)' /\ BlocksSay(R, frames)'
    BY <1>1, <2>2, <2>5, KnownPrime, BlocksSayPrime
  <2>10. Faith(R, q)'
    BY <2>2, <2>6, <2>7, <2>8, <2>9 DEF Faith, InGroup
  <2> QED
    BY <2>10
<1> QED
  BY <1>2, <1>3

LEMMA DecodeFaith ==
  ASSUME NEW S, NEW D, Layouts(S, D), Decoding(S), NEW R, NEW p, Faith(R, p),
         result = "received" => frames = <<>> /\ nth = 1, Decode
  PROVE  \E T, q : Faith(T, q)'
<1>1. Closed(S, D) /\ \A type \in DOMAIN byName : TemplateIn(S, byName[type])
  BY DEF Layouts
<1>2. CASE Finish
  <2>1. UNCHANGED <<data, limits, tmpl, pos, frames, entries, group, nth>>
    BY <1>2 DEF Finish, Stop, templateVars
  <2> QED
    BY <2>1, FaithKept
<1>3. CASE \E type \in DOMAIN byName : Unmarshal(type)
  <2>1. PICK type \in DOMAIN byName : Unmarshal(type)
    BY <1>3
  <2>2. frames = <<>> /\ nth = 1
    BY <2>1 DEF Unmarshal
  <2> QED
    BY <1>1, <2>1, <2>2, UnmarshalFaith
<1>4. CASE LeaveEntry
  BY <1>1, <1>4, LeaveEntryFaith
<1>5. CASE LeaveComposite
  BY <1>1, <1>5, LeaveCompositeFaith
<1>6. CASE EnterGroup
  BY <1>1, <1>6, EnterGroupFaith
<1>7. CASE ReadScalar \/ EnterComposite
  BY <1>1, <1>7, ReadScalarFaith, EnterCompositeFaith
<1> QED
  BY <1>2, <1>3, <1>4, <1>5, <1>6, <1>7 DEF Decode

-----------------------------------------------------------------------------
(***************************************************************************)
(* What it means that the decoder has stopped.                             *)
(***************************************************************************)
Outcome ==
  /\ result \in Results
  /\ result \in {"idle", "received", "BadMessage"} <=> frames = <<>>
  /\ frames = <<>> => nth = 1
  /\ result = "BadMessage" => ~Acceptable(tmpl)
  /\ result = "done" => ~GroupsLeft
  /\ result = "BadGroup" => GroupsLeft /\ ~GroupReadable(pos, NextGroup.block_length)
  /\ ~Decoded => view = NoView /\ walk = NoWalk /\ called = "ok"

LEMMA OutcomeKept ==
  ASSUME Outcome, UNCHANGED <<data, limits, tmpl, pos, frames, nth, result>>,
         Decoded \/ UNCHANGED viewVars
  PROVE  Outcome'
BY DEF Outcome, Decoded, GroupsLeft, NextGroup, Acceptable, MessageSound, TemplateId, RootSound, RootEnd,
       GroupReadable, GroupSound, GroupAt, U16, viewVars

\* The decoder reads on, or stops for a field.
LEMMA OutcomeReads ==
  ASSUME Outcome, UNCHANGED viewVars, result \in {"received", "reading"},
         result' \in {"reading", "NoEncoding", "InvalidUtf8", "OutOfBounds"}, frames' # <<>>
  PROVE  Outcome'
BY DEF Outcome, Decoded, Results, viewVars

LEMMA DecodeOutcome ==
  ASSUME NEW S, Decoding(S)', Outcome, Decode
  PROVE  Outcome'
<1>1. result \in {"received", "reading"} /\ UNCHANGED viewVars /\ UNCHANGED <<data, limits>>
  BY DEF Decode, Unmarshal, ReadScalar, Scalar, EnterComposite, LeaveComposite, EnterGroup, LeaveEntry,
         Finish, AtGroups, Reading, Stop, templateVars
<1>2. CASE \E type \in DOMAIN byName : Unmarshal(type)
  <2>1. PICK type \in DOMAIN byName : Unmarshal(type)
    BY <1>2
  <2>2. CASE Acceptable(byName[type])
    BY <1>1, <2>1, <2>2, OutcomeReads DEF Unmarshal, Decoding, Reading
  <2>3. CASE ~Acceptable(byName[type])
    <3>1. result' = "BadMessage" /\ tmpl' = byName[type] /\ UNCHANGED <<frames, nth>> /\ result = "received"
      BY <2>1, <2>3 DEF Unmarshal
    <3>2. ~Acceptable(tmpl)'
      BY <1>1, <2>3, <3>1 DEF Acceptable, MessageSound, TemplateId, RootSound, RootEnd, U16
    <3> QED
      BY <1>1, <3>1, <3>2 DEF Outcome, Decoded, Results, viewVars
  <2> QED
    BY <2>2, <2>3
<1>3. CASE ReadScalar
  <2>1. PICK read : read = ReadAt(Field, Inner.base + Field.offset, Len(data)) /\ Scalar(read)
    BY <1>3 DEF ReadScalar
  <2>2. read.err \in {"none", "NoEncoding", "InvalidUtf8", "OutOfBounds"}
    BY <2>1, ReadErrors
  <2>3. CASE read.err # "none"
    <3>1. result' = read.err /\ UNCHANGED frames /\ frames # <<>>
      BY <1>1, <1>3, <2>1, <2>3 DEF Scalar, Stop, ReadScalar, Reading, Outcome
    <3> QED
      BY <1>1, <2>2, <2>3, <3>1, OutcomeReads
  <2>4. CASE read.err = "none"
    <3>1. result' = "reading"
      BY <1>3, <2>1, <2>4 DEF Scalar, Stop, ReadScalar, Reading
    <3> QED
      BY <1>1, <3>1, OutcomeReads DEF Decoding, Reading
  <2> QED
    BY <2>3, <2>4
<1>4. CASE EnterComposite \/ LeaveComposite \/ LeaveEntry
  <2>1. result' = "reading"
    BY <1>4 DEF EnterComposite, LeaveComposite, LeaveEntry, Reading
  <2> QED
    BY <1>1, <2>1, OutcomeReads DEF Decoding, Reading
<1>5. CASE EnterGroup
  <2>1. CASE GroupReadable(pos, NextGroup.block_length)
    <3>1. result' = "reading"
      BY <1>5, <2>1 DEF EnterGroup, AtGroups, Reading
    <3> QED
      BY <1>1, <3>1, OutcomeReads DEF Decoding, Reading
  <2>2. CASE ~GroupReadable(pos, NextGroup.block_length)
    <3>1. /\ result' = "BadGroup" /\ UNCHANGED <<frames, nth, tmpl, pos>> /\ GroupsLeft
          /\ result = "reading"
      BY <1>5, <2>2 DEF EnterGroup, AtGroups, Reading, Stop
    <3>2. GroupsLeft' /\ NextGroup' = NextGroup
      BY <3>1 DEF GroupsLeft, NextGroup
    <3>3. ~GroupReadable(pos, NextGroup.block_length)'
      BY <1>1, <2>2, <3>1, <3>2 DEF GroupReadable, GroupSound, GroupAt, U16
    <3> QED
      BY <1>1, <3>1, <3>2, <3>3 DEF Outcome, Decoded, Results, viewVars
  <2> QED
    BY <2>1, <2>2
<1>6. CASE Finish
  <2>1. /\ result' = "done" /\ UNCHANGED <<frames, nth, tmpl, pos>> /\ ~GroupsLeft
        /\ result = "reading"
    BY <1>6 DEF Finish, AtGroups, Reading, Stop
  <2>2. ~GroupsLeft'
    BY <2>1 DEF GroupsLeft
  <2> QED
    BY <1>1, <2>1, <2>2 DEF Outcome, Decoded, Results, viewVars
<1> QED
  BY <1>2, <1>3, <1>4, <1>5, <1>6 DEF Decode

-----------------------------------------------------------------------------
(***************************************************************************)
(* The views say what the decoder has read, of the template of which they  *)
(* are views.                                                              *)
(***************************************************************************)
ViewSays(R, v) ==
  /\ v.kind # "none" => Acceptable(tmpl)
  /\ v.kind = "view" =>
       /\ v.groups # <<>> =>
            /\ v.groups = tmpl.groups /\ v.end = RootEnd
            /\ result = "done" => v.seen = Message.value
       /\ result = "done" => Says(R, v.fields, v.start, v.seen)
  /\ v.kind = "group" =>
       /\ result = "BadGroup" => v.nth < nth
       /\ result = "done" =>
            v.count = Len(v.seen) /\ Listed(R, v.fields, v.base, v.block_length, v.seen)

\* A walk comes to the groups where the decoder did.
WalkSays(p) ==
  walk # NoWalk =>
    /\ walk.next <= nth => walk.at = p[walk.next]
    /\ result = "BadGroup" => walk.next <= nth

Seen(R, p) ==
  Decoded /\ SameTemplate =>
    /\ called = "BadMessage" => result = "BadMessage"
    /\ called = "BadGroup" => result \in {"BadGroup", "InvalidUtf8", "NoEncoding"}
    /\ ViewSays(R, view) /\ WalkSays(p)

LEMMA SameTemplateKept ==
  ASSUME UNCHANGED <<data, tmpl, byId>>
  PROVE  SameTemplate' = SameTemplate
BY DEF SameTemplate, TemplateId, U16

LEMMA ViewSaysKept ==
  ASSUME NEW R, NEW v, ViewSays(R, v), UNCHANGED <<templateVars, readVars>>
  PROVE  ViewSays(R, v)'
<1>1. UNCHANGED <<data, limits, tmpl, nth, result, frames>>
  BY DEF templateVars, readVars
<1>2. Acceptable(tmpl) => Acceptable(tmpl)'
  BY <1>1, AcceptablePrime
<1>3. RootEnd' = RootEnd /\ Message' = Message
  BY <1>1 DEF RootEnd, U16, Message
<1>4. Says(R, v.fields, v.start, v.seen) => Says(R, v.fields, v.start, v.seen)'
  BY <1>1 DEF Says, ReadAt
<1>5. Listed(R, v.fields, v.base, v.block_length, v.seen)
        => Listed(R, v.fields, v.base, v.block_length, v.seen)'
  BY DEF Listed
<1> QED
  BY <1>1, <1>2, <1>3, <1>4, <1>5 DEF ViewSays

\* A call that returns a view which says the same, and one that fails.
LEMMA ReturnsSays ==
  ASSUME NEW R, NEW p, NEW v, Returns(v), SameTemplate => ViewSays(R, v)
  PROVE  Seen(R, p)'
<1>1. view' = v /\ walk' = NoWalk /\ called' = "ok" /\ UNCHANGED <<templateVars, readVars>>
  BY DEF Returns, readVars
<1>2. SameTemplate' = SameTemplate
  BY <1>1, SameTemplateKept DEF templateVars, readVars
<1>3. SameTemplate => ViewSays(R, v)'
  BY <1>1, ViewSaysKept
<1>4. SameTemplate => ViewSays(R, view)'
  BY <1>1, <1>3 DEF ViewSays
<1> QED
  BY <1>1, <1>2, <1>4 DEF Seen, WalkSays

LEMMA ErrsSays ==
  ASSUME NEW R, NEW p, NEW why, Errs(why), Decoded, Seen(R, p),
         SameTemplate /\ why = "BadMessage" => result = "BadMessage",
         SameTemplate /\ why = "BadGroup" => result \in {"BadGroup", "InvalidUtf8", "NoEncoding"}
  PROVE  Seen(R, p)'
<1>1. UNCHANGED view /\ walk' = NoWalk /\ called' = why /\ UNCHANGED <<templateVars, readVars>>
  BY DEF Errs, readVars
<1>2. SameTemplate' = SameTemplate /\ result' = result
  BY <1>1, SameTemplateKept DEF templateVars, readVars
<1>3. PICK v : v = view
  OBVIOUS
<1>4. SameTemplate => ViewSays(R, v)'
  BY <1>1, <1>3, ViewSaysKept DEF Seen
<1>5. SameTemplate => ViewSays(R, view)'
  BY <1>1, <1>3, <1>4 DEF ViewSays
<1> QED
  BY <1>1, <1>2, <1>5 DEF Seen, WalkSays

\* A message that has been accepted has been read at least in part.
LEMMA MessageRead ==
  ASSUME NEW S, Decoding(S), NEW R, NEW p, Faith(R, p), Outcome, Decoded, result # "BadMessage"
  PROVE  /\ frames # <<>> /\ IsSeq(frames) /\ Len(frames) \in Nat \ {0}
         /\ Acceptable(tmpl) /\ Tracing(R, p)
         /\ Says(R, Message.fields, Message.base, Message.value)
         /\ result \in {"done", "BadGroup", "InvalidUtf8", "NoEncoding"}
<1>1. frames # <<>> /\ result \in {"done", "BadGroup", "InvalidUtf8", "NoEncoding"}
  BY DEF Outcome, Decoded, Decoding, Results
<1>2. Acceptable(tmpl) /\ Tracing(R, p) /\ BlocksSay(R, frames)
  BY <1>1 DEF Faith
<1>3. IsSeq(frames) /\ Len(frames) \in Nat \ {0}
  BY <1>1, Popped DEF Decoding, Blocks
<1>4. Says(R, Message.fields, Message.base, Message.value)
  BY <1>2, <1>3 DEF BlocksSay, Told, Message
<1> QED
  BY <1>1, <1>2, <1>3, <1>4

LEMMA OpenViewSeen ==
  ASSUME NEW S, NEW D, Layouts(S, D), Decoding(S), NEW R, NEW p, Faith(R, p), Outcome, Seen(R, p),
         OpenView
  PROVE  Seen(R, p)'
<1>1. Decoded
  BY DEF OpenView
<1>2. SameTemplate => byId[TemplateId] = tmpl /\ tmpl.template_id = TemplateId
  BY DEF SameTemplate, Layouts
<1>3. SameTemplate => (Viewable <=> Acceptable(tmpl))
  BY <1>2 DEF SameTemplate, Viewable, Acceptable
<1>4. CASE ~Viewable
  <2>1. Errs("BadMessage")
    BY <1>4 DEF OpenView
  <2>2. SameTemplate => result = "BadMessage"
    BY <1>1, <1>3, <1>4, MessageRead
  <2> QED
    BY <1>1, <2>1, <2>2, ErrsSays
<1>5. CASE Viewable
  <2>1. PICK t, seen : t = byId[TemplateId] /\ seen = IF result = "done" THEN Message.value ELSE <<>>
    OBVIOUS
  <2>2. PICK v : v = ViewOf(t.fields, t.groups, HeaderSize, RootEnd, seen)
    OBVIOUS
  <2>3. Returns(v)
    BY <1>5, <2>1, <2>2 DEF OpenView
  <2>4. /\ v.kind = "view" /\ v.fields = t.fields /\ v.groups = t.groups /\ v.start = HeaderSize
        /\ v.end = RootEnd /\ v.seen = seen
    BY <2>2 DEF ViewOf
  <2>5. ASSUME SameTemplate
        PROVE  ViewSays(R, v)
    <3>1. t = tmpl /\ Acceptable(tmpl)
      BY <1>2, <1>3, <1>5, <2>1, <2>5
    <3>2. ASSUME result = "done"
          PROVE  Says(R, v.fields, v.start, v.seen)
      <4>1. Tracing(R, p) /\ Says(R, Message.fields, Message.base, Message.value)
        BY <1>1, <3>2, MessageRead
      <4>2. Message.fields = v.fields /\ Message.base = v.start /\ Message.value = v.seen
        BY <2>1, <2>4, <3>1, <3>2, <4>1 DEF Tracing
      <4> QED
        BY <4>1, <4>2
    <3> QED
      BY <2>1, <2>4, <3>1, <3>2 DEF ViewSays
  <2> QED
    BY <2>3, <2>5, ReturnsSays
<1> QED
  BY <1>4, <1>5

\* A part of a view which has no groups of its own.
LEMMA PartSays ==
  ASSUME NEW R, Acceptable(tmpl), NEW fields, NEW start, NEW end, NEW seen,
         result = "done" => Says(R, fields, start, seen)
  PROVE  ViewSays(R, ViewOf(fields, <<>>, start, end, seen))
<1>1. PICK v : v = ViewOf(fields, <<>>, start, end, seen)
  OBVIOUS
<1>2. v.kind = "view" /\ v.groups = <<>> /\ v.fields = fields /\ v.start = start /\ v.seen = seen
  BY <1>1 DEF ViewOf
<1> QED
  BY <1>1, <1>2 DEF ViewSays

LEMMA ViewCompositeSeen ==
  ASSUME NEW R, NEW p, Known(R), Decoded, Seen(R, p),
         NEW f \in 1..Len(view.fields), ViewComposite(f)
  PROVE  Seen(R, p)'
<1>1. view.kind = "view" /\ view.fields[f].composite # <<>>
  BY DEF ViewComposite, Idle
<1>2. PICK fields, start, end, seen, name :
        /\ fields = view.fields[f].composite /\ start = view.start + view.fields[f].offset
        /\ end = view.start + view.fields[f].offset + view.fields[f].size
        /\ name = view.fields[f].fd.name /\ seen = Part(view.seen, name)
  OBVIOUS
<1>3. Returns(ViewOf(fields, <<>>, start, end, seen))
  BY <1>2 DEF ViewComposite
<1>4. ASSUME SameTemplate
      PROVE  ViewSays(R, ViewOf(fields, <<>>, start, end, seen))
  <2>1. ViewSays(R, view)
    BY <1>4 DEF Seen
  <2>2. Acceptable(tmpl) /\ (result = "done" => Says(R, view.fields, view.start, view.seen))
    BY <1>1, <2>1 DEF ViewSays
  <2>3. ASSUME result = "done"
        PROVE  Says(R, fields, start, seen)
    <3>1. CASE name \in DOMAIN view.seen
      <4>1. seen = view.seen[name]
        BY <1>2, <3>1 DEF Part
      <4>2. <<fields, start, seen>> \in R
        BY <1>1, <1>2, <2>2, <2>3, <3>1, <4>1 DEF Says
      <4>3. PICK r : r = <<fields, start, seen>>
        OBVIOUS
      <4>4. Says(R, r[1], r[2], r[3])
        BY <4>2, <4>3 DEF Known
      <4> QED
        BY <4>3, <4>4
    <3>2. CASE name \notin DOMAIN view.seen
      <4>1. DOMAIN seen = {}
        BY <1>2, <3>2, EmptySeq DEF Part
      <4> QED
        BY <4>1 DEF Says
    <3> QED
      BY <3>1, <3>2
  <2> QED
    BY <2>2, <2>3, PartSays
<1> QED
  BY <1>3, <1>4, ReturnsSays

LEMMA ViewEntrySeen ==
  ASSUME NEW R, NEW p, Known(R), Decoded, Seen(R, p), view.count \in Nat, NEW i, ViewEntry(i)
  PROVE  Seen(R, p)'
<1>1. view.kind = "group" /\ i \in 0..(view.count - 1)
  BY DEF ViewEntry, Idle
<1>2. PICK m, fields, start, end, seen :
        /\ m = i + 1 /\ fields = view.fields
        /\ start = view.base + GroupHeaderSize + i * view.block_length
        /\ end = view.base + GroupHeaderSize + i * view.block_length + view.block_length
        /\ seen = Part(view.seen, m)
  OBVIOUS
<1>3. Returns(ViewOf(fields, <<>>, start, end, seen))
  BY <1>2 DEF ViewEntry
<1>4. ASSUME SameTemplate
      PROVE  ViewSays(R, ViewOf(fields, <<>>, start, end, seen))
  <2>1. ViewSays(R, view)
    BY <1>4 DEF Seen
  <2>2. /\ Acceptable(tmpl)
        /\ result = "done" =>
             view.count = Len(view.seen)
               /\ Listed(R, view.fields, view.base, view.block_length, view.seen)
    BY <1>1, <2>1 DEF ViewSays
  <2>3. ASSUME result = "done"
        PROVE  Says(R, fields, start, seen)
    <3>1. m \in 1..Len(view.seen) /\ m - 1 = i
      BY <1>1, <1>2, <2>2, <2>3
    <3>2. <<fields, view.base + GroupHeaderSize + (m - 1) * view.block_length, view.seen[m]>> \in R
      BY <1>2, <2>2, <2>3, <3>1 DEF Listed
    <3>3. seen = view.seen[m]
      <4>1. DOMAIN view.seen = 1..Len(view.seen)
        BY <2>2, <2>3 DEF Listed, IsSeq
      <4> QED
        BY <1>2, <3>1, <4>1 DEF Part
    <3>4. PICK r : r = <<fields, start, seen>>
      OBVIOUS
    <3>5. r \in R
      BY <1>2, <3>1, <3>2, <3>3, <3>4
    <3>6. Says(R, r[1], r[2], r[3])
      BY <3>5 DEF Known
    <3> QED
      BY <3>4, <3>6
  <2> QED
    BY <2>2, <2>3, PartSays
<1> QED
  BY <1>3, <1>4, ReturnsSays

\* A step of a walk, of a view which stays the same.
LEMMA WalkingSays ==
  ASSUME NEW R, NEW p, Seen(R, p), Decoded, UNCHANGED <<templateVars, readVars, view, called>>,
         SameTemplate => WalkSays(p)'
  PROVE  Seen(R, p)'
<1>1. PICK v : v = view
  OBVIOUS
<1>2. SameTemplate => ViewSays(R, v)'
  BY <1>1, ViewSaysKept DEF Seen
<1>3. SameTemplate => ViewSays(R, view)'
  BY <1>1, <1>2 DEF ViewSays
<1>4. SameTemplate' = SameTemplate /\ result' = result
  BY SameTemplateKept DEF templateVars, readVars
<1> QED
  BY <1>3, <1>4 DEF Seen

LEMMA ViewGroupSeen ==
  ASSUME NEW S, Decoding(S), Viewing(S), NEW R, NEW p, Faith(R, p), Outcome, Decoded, Seen(R, p),
         NEW n, ViewGroup(n)
  PROVE  Seen(R, p)'
<1>1. /\ view.kind = "view" /\ n \in 1..Len(view.groups)
      /\ walk' = [want |-> n, next |-> 1, at |-> view.end]
      /\ UNCHANGED <<templateVars, readVars, view, called>>
  BY DEF ViewGroup, Idle
<1>2. ASSUME SameTemplate
      PROVE  WalkSays(p)'
  <2>1. ViewSays(R, view)
    BY <1>2 DEF Seen
  <2>2. Acceptable(tmpl) /\ result # "BadMessage"
    BY <1>1, <2>1 DEF ViewSays, Outcome
  <2>3. view.groups # <<>>
    BY <1>1, EmptySeq
  <2>4. view.end = RootEnd
    BY <1>1, <2>1, <2>3 DEF ViewSays
  <2>5. p[1] = RootEnd /\ nth >= 1
    BY <2>2, MessageRead DEF Tracing
  <2>6. walk'.next = 1 /\ walk'.at = p[1] /\ UNCHANGED <<nth, result>>
    BY <1>1, <2>4, <2>5 DEF readVars
  <2> QED
    BY <2>5, <2>6 DEF WalkSays
<1> QED
  BY <1>1, <1>2, WalkingSays

\* A walk through the groups of the template, as far as the decoder came.
LEMMA WalkAlong ==
  ASSUME NEW S, Decoding(S), Viewing(S), NEW R, NEW p, Faith(R, p), Outcome, Decoded, Seen(R, p),
         SameTemplate, walk # NoWalk
  PROVE  /\ Acceptable(tmpl) /\ Tracing(R, p) /\ result \in {"done", "BadGroup", "InvalidUtf8", "NoEncoding"}
         /\ view.groups = tmpl.groups /\ walk.next \in 1..Len(tmpl.groups) /\ nth \in Nat
         /\ walk.next <= walk.want /\ walk.want \in Nat /\ Len(tmpl.groups) \in Nat
         /\ result = "done" => nth = Len(tmpl.groups) + 1 /\ view.seen = Message.value
         /\ result = "BadGroup" => walk.next <= nth
         /\ walk.next <= nth => walk.at = p[walk.next]
         /\ walk.next < nth =>
              GroupRead(R, walk.next, walk.at, p[walk.next + 1], Message.value)
         /\ walk.next = nth /\ result = "BadGroup" =>
              ~GroupReadable(walk.at, tmpl.groups[walk.next].block_length)
<1>1. /\ ViewIn(S, view) /\ walk.next \in Nat \ {0} /\ walk.want \in Nat
      /\ walk.next <= walk.want /\ walk.want <= Len(view.groups)
  BY DEF Viewing
<1>2. view.kind = "view" /\ Len(view.groups) \in Nat
  BY <1>1, EmptySeq DEF ViewIn, GroupsIn, IsSeq
<1>3. view.groups # <<>>
  BY <1>1, <1>2, EmptySeq
<1>4. ViewSays(R, view) /\ WalkSays(p)
  BY DEF Seen
<1>5. Acceptable(tmpl) /\ result # "BadMessage" /\ view.groups = tmpl.groups
      /\ (result = "done" => view.seen = Message.value)
  BY <1>2, <1>3, <1>4 DEF ViewSays, Outcome
<1>6. Tracing(R, p) /\ result \in {"done", "BadGroup", "InvalidUtf8", "NoEncoding"}
  BY <1>5, MessageRead
<1>7. walk.next \in 1..Len(tmpl.groups) /\ Len(tmpl.groups) \in Nat
  BY <1>1, <1>2, <1>5
<1>8. nth \in 1..(Len(tmpl.groups) + 1) /\ nth \in Nat
  BY <1>6, <1>7 DEF Tracing
<1>9. result = "done" => nth = Len(tmpl.groups) + 1
  BY <1>7, <1>8 DEF Outcome, GroupsLeft
<1>10. /\ result = "BadGroup" => walk.next <= nth
       /\ walk.next <= nth => walk.at = p[walk.next]
  BY <1>4 DEF WalkSays
<1>11. ASSUME walk.next < nth
       PROVE  GroupRead(R, walk.next, walk.at, p[walk.next + 1], Message.value)
  <2>1. PICK n : n = walk.next
    OBVIOUS
  <2>2. n \in 1..(nth - 1) /\ walk.at = p[n]
    BY <1>7, <1>8, <1>10, <1>11, <2>1
  <2>3. GroupRead(R, n, p[n], p[n + 1], Message.value)
    BY <1>6, <2>2 DEF Tracing
  <2> QED
    BY <2>1, <2>2, <2>3
<1>12. ASSUME walk.next = nth, result = "BadGroup"
       PROVE  ~GroupReadable(walk.at, tmpl.groups[walk.next].block_length)
  <2>1. walk.at = pos
    BY <1>6, <1>8, <1>10, <1>12 DEF Tracing
  <2> QED
    BY <1>12, <2>1 DEF Outcome, NextGroup
<1> QED
  BY <1>1, <1>5, <1>6, <1>7, <1>8, <1>9, <1>10, <1>11, <1>12

LEMMA WalkSeen ==
  ASSUME NEW S, Decoding(S), Viewing(S), NEW R, NEW p, Faith(R, p), Outcome, Decoded, Seen(R, p), Walk
  PROVE  Seen(R, p)'
<1>1. walk # NoWalk
  BY DEF Walk
<1>2. PICK at, n : at = walk.at /\ n = walk.next
  OBVIOUS
<1>3. CASE Errs("BadGroup") /\ ~GroupReadable(at, view.groups[n].block_length)
  <2>1. ASSUME SameTemplate, result = "done"
        PROVE  FALSE
    <3>1. /\ nth = Len(tmpl.groups) + 1 /\ n \in 1..Len(tmpl.groups) /\ Len(tmpl.groups) \in Nat
          /\ view.groups = tmpl.groups
      BY <1>1, <1>2, <2>1, WalkAlong
    <3>2. GroupRead(R, n, at, p[n + 1], Message.value)
      BY <1>1, <1>2, <2>1, <3>1, WalkAlong
    <3> QED
      BY <1>3, <3>1, <3>2 DEF GroupRead
  <2>2. SameTemplate => result \in {"BadGroup", "InvalidUtf8", "NoEncoding"}
    BY <1>1, <2>1, WalkAlong
  <2> QED
    BY <1>3, <2>2, ErrsSays
<1>4. CASE /\ GroupReadable(at, view.groups[n].block_length)
           /\ Returns(GroupView(n, GroupAt(at), at))
  <2>1. PICK v : v = GroupView(n, GroupAt(at), at)
    OBVIOUS
  <2>2. /\ v.kind = "group" /\ v.nth = n /\ v.fields = view.groups[n].fields /\ v.base = at
        /\ v.block_length = GroupAt(at).block_length /\ v.count = GroupAt(at).count
        /\ v.seen = Part(view.seen, view.groups[n].fd.name)
    BY <2>1 DEF GroupView
  <2>3. ASSUME SameTemplate
        PROVE  ViewSays(R, v)
    <3>1. /\ Acceptable(tmpl) /\ view.groups = tmpl.groups
          /\ n \in 1..Len(tmpl.groups) /\ Len(tmpl.groups) \in Nat /\ nth \in Nat
      BY <1>1, <1>2, <2>3, WalkAlong
    <3>2. ASSUME result = "BadGroup"
          PROVE  n < nth
      <4>1. n <= nth /\ n # nth
        BY <1>1, <1>2, <1>4, <2>3, <3>1, <3>2, WalkAlong
      <4> QED
        BY <3>1, <4>1
    <3>3. ASSUME result = "done"
          PROVE  v.count = Len(v.seen) /\ Listed(R, v.fields, v.base, v.block_length, v.seen)
      <4>1. nth = Len(tmpl.groups) + 1 /\ view.seen = Message.value
        BY <1>1, <2>3, <3>3, WalkAlong
      <4>2. GroupRead(R, n, at, p[n + 1], Message.value)
        BY <1>1, <1>2, <2>3, <3>1, <4>1, WalkAlong
      <4>3. v.seen = Message.value[tmpl.groups[n].fd.name]
        BY <2>2, <3>1, <4>1, <4>2 DEF GroupRead, Part
      <4> QED
        BY <2>2, <3>1, <4>2, <4>3 DEF GroupRead
    <3> QED
      BY <2>2, <3>1, <3>2, <3>3 DEF ViewSays
  <2> QED
    BY <1>4, <2>1, <2>3, ReturnsSays
<1>5. CASE /\ GroupReadable(at, view.groups[n].block_length) /\ n < walk.want
           /\ walk' = [walk EXCEPT !.next = @ + 1, !.at = @ + GroupAt(@).total]
           /\ UNCHANGED <<templateVars, readVars, view, called>>
  <2>1. walk'.next = n + 1 /\ walk'.at = at + GroupAt(at).total
    <3>1. PICK w, m, to : w = walk /\ m = n + 1 /\ to = at + GroupAt(at).total
      OBVIOUS
    <3>2. walk' = [w EXCEPT !.next = m, !.at = to]
      BY <1>2, <1>5, <3>1
    <3>3. w = [want |-> w.want, next |-> w.next, at |-> w.at]
      BY <1>1, <3>1 DEF Viewing
    <3>4. walk' = [want |-> w.want, next |-> m, at |-> to]
      BY <3>2, <3>3
    <3> QED
      BY <3>1, <3>4
  <2>2. UNCHANGED <<nth, result>>
    BY <1>5 DEF readVars
  <2>3. ASSUME SameTemplate
        PROVE  WalkSays(p)'
    <3>1. /\ view.groups = tmpl.groups /\ n \in 1..Len(tmpl.groups) /\ Len(tmpl.groups) \in Nat
          /\ nth \in Nat
      BY <1>1, <1>2, <2>3, WalkAlong
    <3>2. ASSUME n + 1 <= nth
          PROVE  walk'.at = p[n + 1]
      <4>1. n < nth
        BY <3>1, <3>2
      <4>2. GroupRead(R, n, at, p[n + 1], Message.value)
        BY <1>1, <1>2, <2>3, <4>1, WalkAlong
      <4> QED
        BY <2>1, <4>2 DEF GroupRead
    <3>3. ASSUME result = "BadGroup"
          PROVE  n + 1 <= nth
      <4>1. n <= nth /\ n # nth
        BY <1>1, <1>2, <1>5, <2>3, <3>1, <3>3, WalkAlong
      <4> QED
        BY <3>1, <4>1
    <3> QED
      BY <2>1, <2>2, <3>2, <3>3 DEF WalkSays
  <2> QED
    BY <1>5, <2>3, WalkingSays
<1> QED
  BY <1>2, <1>3, <1>4, <1>5 DEF Walk

LEMMA LookSeen ==
  ASSUME NEW S, NEW D, Layouts(S, D), Decoding(S), Viewing(S), NEW R, NEW p, Faith(R, p), Outcome,
         Seen(R, p), Look
  PROVE  Decoded /\ Seen(R, p)'
<1>1. Decoded
  <2>1. view.kind # "none" \/ walk # NoWalk \/ OpenView
    BY DEF Look, Walk, Idle
  <2> QED
    BY <2>1 DEF Outcome, NoView, OpenView
<1>2. Known(R)
  BY DEF Faith
<1>3. CASE OpenView
  BY <1>1, <1>3, OpenViewSeen
<1>4. CASE Walk
  BY <1>1, <1>4, WalkSeen
<1>5. CASE Idle("view") /\ \E f \in 1..Len(view.fields) : ViewComposite(f)
  BY <1>1, <1>2, <1>5, ViewCompositeSeen
<1>6. CASE Idle("view") /\ \E n \in 1..Len(view.groups) : ViewGroup(n)
  BY <1>1, <1>6, ViewGroupSeen
<1>7. CASE Idle("group") /\ \E i \in 0..(view.count - 1) : ViewEntry(i)
  <2>1. PICK i : ViewEntry(i)
    BY <1>7
  <2>2. view.count \in Nat
    BY <1>7, ViewKinds DEF Idle, GroupViewIn
  <2> QED
    BY <1>1, <1>2, <2>1, <2>2, ViewEntrySeen
<1> QED
  BY <1>1, <1>3, <1>4, <1>5, <1>6, <1>7 DEF Look

\* The invariant: the decoder and the views read the same.
Alike == Sound /\ Outcome /\ \E R, p : Faith(R, p) /\ Seen(R, p)

LEMMA NothingRead ==
  ASSUME frames' = <<>>, ~Decoded'
  PROVE  \E R, p : (Faith(R, p) /\ Seen(R, p))'
<1>1. PICK R, p : R = {} /\ p = <<>>
  OBVIOUS
<1>2. Faith(R, p)'
  BY <1>1 DEF Faith, Known
<1>3. Seen(R, p)'
  BY DEF Seen
<1> QED
  BY <1>2, <1>3

LEMMA AlikeInit == Init => Alike
<1> SUFFICES ASSUME Init PROVE Alike
  OBVIOUS
<1>1. result = "idle" /\ frames = <<>> /\ nth = 1 /\ view = NoView /\ walk = NoWalk /\ called = "ok"
  BY DEF Init, ReaderInit
<1>2. Outcome /\ ~Decoded
  BY <1>1 DEF Outcome, Decoded, Results
<1>3. PICK R, p : R = {} /\ p = <<>>
  OBVIOUS
<1>4. Faith(R, p) /\ Seen(R, p)
  BY <1>1, <1>2, <1>3 DEF Faith, Known, Seen
<1> QED
  BY <1>2, <1>4, SoundInit DEF Alike

LEMMA AlikeStep == Alike /\ [Next]_vars => Alike'
<1> SUFFICES ASSUME Alike, [Next]_vars PROVE Alike'
  OBVIOUS
<1>1. Sound' /\ Sound /\ Outcome
  BY SoundStep DEF Alike
<1>2. PICK R, p : Faith(R, p) /\ Seen(R, p)
  BY DEF Alike
<1>3. PICK S, D : Layouts(S, D) /\ Decoding(S) /\ Viewing(S)
  BY <1>1 DEF Sound
<1>4. CASE UNCHANGED vars
  <2>1. /\ UNCHANGED <<data, limits, tmpl, pos, frames, entries, group, nth, result>>
        /\ UNCHANGED <<templateVars, readVars, view, called>> /\ UNCHANGED viewVars /\ UNCHANGED walk
    BY <1>4 DEF vars, templateVars, readerVars, readVars, viewVars
  <2>2. Outcome' /\ Faith(R, p)'
    BY <1>1, <1>2, <2>1, OutcomeKept, FaithKept
  <2>3. Seen(R, p)'
    <3>1. CASE Decoded
      <4>1. SameTemplate => WalkSays(p)'
        BY <1>2, <2>1, <3>1 DEF Seen, WalkSays
      <4> QED
        BY <1>2, <2>1, <3>1, <4>1, WalkingSays
    <3>2. CASE ~Decoded
      BY <2>1, <3>2 DEF Seen, Decoded
    <3> QED
      BY <3>1, <3>2
  <2> QED
    BY <1>1, <2>2, <2>3 DEF Alike
<1>5. CASE Build /\ UNCHANGED readerVars
  <2>1. ~Ready
    BY <1>1, <1>5 DEF Sound, Registering, Ready, Build, OpenFile, Register, RefuseField, LayScalar,
           EnterMessage, LayComposite, LayGroup, LayMessage, Building
  <2>2. Fresh
    BY <1>1, <2>1 DEF Sound
  <2>3. /\ UNCHANGED <<data, tmpl, pos, frames, nth, result>> /\ UNCHANGED viewVars
        /\ UNCHANGED limits
    BY <1>5 DEF readerVars, readVars, Build, OpenFile, Register, RefuseField, Refuse, LayScalar,
           EnterMessage, LayComposite, LayGroup, LayMessage
  <2>4. Outcome' /\ frames' = <<>> /\ ~Decoded'
    BY <1>1, <2>2, <2>3, OutcomeKept DEF Fresh, Decoded
  <2> QED
    BY <1>1, <2>4, NothingRead DEF Alike
<1>6. CASE \E bytes \in Documents : Receive(bytes)
  <2>1. result' = "received" /\ result = "idle" /\ UNCHANGED <<frames, nth>> /\ UNCHANGED viewVars
    BY <1>6 DEF Receive
  <2>2. Outcome' /\ frames' = <<>> /\ ~Decoded'
    BY <1>1, <2>1 DEF Outcome, Decoded, Results, viewVars
  <2> QED
    BY <1>1, <2>2, NothingRead DEF Alike
<1>7. CASE Decode
  <2>1. result \in {"received", "reading"} /\ UNCHANGED viewVars
    BY <1>7 DEF Decode, Unmarshal, ReadScalar, Scalar, EnterComposite, LeaveComposite, EnterGroup,
                LeaveEntry, Finish, AtGroups, Reading, Stop
  <2>2. view' = NoView /\ walk' = NoWalk /\ called' = "ok"
    BY <1>1, <2>1 DEF Outcome, Decoded, viewVars
  <2>3. Decoding(S)'
    BY <1>1, <1>3, <1>7, DecodeKeeps, CountLimit DEF Sound
  <2>4. Outcome'
    BY <1>1, <1>7, <2>3, DecodeOutcome
  <2>5. PICK T, q : Faith(T, q)'
    BY <1>1, <1>2, <1>3, <1>7, DecodeFaith DEF Outcome
  <2>6. Seen(T, q)'
    BY <2>2 DEF Seen, ViewSays, WalkSays, NoView
  <2> QED
    BY <1>1, <2>4, <2>5, <2>6 DEF Alike
<1>8. CASE Look
  <2>1. Decoded /\ Seen(R, p)'
    BY <1>1, <1>2, <1>3, <1>8, LookSeen
  <2>2. UNCHANGED <<data, limits, tmpl, pos, frames, entries, group, nth, result>>
    BY <1>8 DEF Look, OpenView, Walk, ViewComposite, ViewGroup, ViewEntry, Returns, Errs, readVars,
                templateVars
  <2>3. Outcome' /\ Faith(R, p)'
    BY <1>1, <1>2, <2>1, <2>2, OutcomeKept, FaithKept
  <2> QED
    BY <1>1, <2>1, <2>3 DEF Alike
<1> QED
  BY <1>4, <1>5, <1>6, <1>7, <1>8 DEF Next, Rests

\* The decoder and the views of a buffer agree on whether it is a message of the
\* template, which of its groups can be read, how long each is and what every
\* field says (unmarshal_message, View), for all schemas and buffers.
THEOREM ViewsAgree == Spec => []ViewAgrees
<1>1. Alike => ViewAgrees
  <2> SUFFICES ASSUME Alike, Decoded, SameTemplate PROVE ViewAgrees
    BY DEF ViewAgrees
  <2>1. PICK R, p : Faith(R, p) /\ Seen(R, p)
    BY DEF Alike
  <2>2. PICK S, D : Closed(S, D) /\ Decoding(S) /\ Viewing(S)
    BY DEF Alike, Sound, Layouts
  <2>3. /\ called = "BadMessage" => result = "BadMessage"
        /\ called = "BadGroup" => result \in {"BadGroup", "InvalidUtf8", "NoEncoding"}
        /\ ViewSays(R, view)
    BY <2>1 DEF Seen
  <2>4. result = "BadMessage" => view.kind = "none"
    BY <2>3 DEF ViewSays, Alike, Outcome
  <2>5. result = "BadGroup" => ~(view.kind = "group" /\ view.nth = Len(tmpl.groups))
    <3> SUFFICES ASSUME result = "BadGroup", view.kind = "group", view.nth = Len(tmpl.groups)
                 PROVE  FALSE
      OBVIOUS
    <3>1. view.nth < nth /\ nth <= Len(tmpl.groups)
      BY <2>3 DEF ViewSays, Alike, Outcome, GroupsLeft
    <3>2. Tracing(R, p)
      BY <2>1, <2>2, MessageRead DEF Alike
    <3>3. nth \in Nat /\ Len(tmpl.groups) \in Nat
      BY <3>2 DEF Tracing
    <3> QED
      BY <3>1, <3>3
  <2>6. result = "done" /\ view.kind = "group" => view.count = Len(view.seen)
    BY <2>3 DEF ViewSays
  <2>7. ASSUME result = "done", view.kind = "view", NEW i \in 1..Len(view.fields),
               view.fields[i].composite = <<>>, view.fields[i].fd.name \in DOMAIN view.seen
        PROVE  Viewed(view.fields[i]) = Read("none", view.seen[view.fields[i].fd.name])
    <3>1. PICK ft, from, to, last : /\ ft = view.fields[i] /\ from = view.start + ft.offset
                                    /\ to = view.end /\ last = Len(data)
      OBVIOUS
    <3>2. ReadAt(ft, from, last) = Read("none", view.seen[ft.fd.name])
      BY <2>3, <2>7, <3>1 DEF ViewSays, Says
    <3>3. ~(from + ft.size > to) /\ ~(from + ft.size > last)
      <4>1. RoomFor(S, view.fields, view.start, view.end) /\ data \in Seq(Byte)
        BY <2>2, <2>7, ViewKinds DEF ViewIn, Decoding
      <4>2. /\ ft.offset \in Nat /\ ft.size \in Nat
            /\ view.start + ft.offset + ft.size <= view.end
        BY <2>2, <2>7, <3>1, <4>1, FieldIn
      <4>3. view.start \in Nat /\ to \in Nat /\ last \in Nat /\ to <= last
        BY <3>1, <4>1 DEF RoomFor
      <4>4. PICK start, offset, size : start = view.start /\ offset = ft.offset /\ size = ft.size
        OBVIOUS
      <4>5. /\ start \in Nat /\ offset \in Nat /\ size \in Nat /\ start + offset + size <= to
            /\ from = start + offset
        BY <3>1, <4>2, <4>3, <4>4
      <4>6. ~(from + size > to) /\ ~(from + size > last)
        BY <4>3, <4>5
      <4> QED
        BY <4>4, <4>6
    <3>4. ReadAt(ft, from, to) = ReadAt(ft, from, last)
      BY <3>3 DEF ReadAt
    <3> QED
      BY <3>1, <3>2, <3>4 DEF Viewed
  <2> QED
    BY <2>3, <2>4, <2>5, <2>6, <2>7 DEF ViewAgrees
<1> QED
  BY <1>1, AlikeInit, AlikeStep, PTL DEF Spec

-----------------------------------------------------------------------------
(***************************************************************************)
(* What a field can hold.                                                  *)
(***************************************************************************)
\* The number that some bytes are.
LEMMA UnsignedNatural ==
  ASSUME NEW b \in Seq(Byte)
  PROVE  Unsigned(b) \in Nat
<1>0. PICK k \in Nat : k = Len(b)
  OBVIOUS
<1> DEFINE from[i \in 1..(k + 1)] == IF i > k THEN 0 ELSE b[i] + Base * from[i + 1]
           E(n, v) == b[k + 1 - n] + Base * v
<1>1. ASSUME NEW n \in 1..k, NEW v \in Nat PROVE E(n, v) \in Nat
  <2>1. k + 1 - n \in 1..Len(b)
    BY <1>0
  <2>2. b[k + 1 - n] \in Nat
    BY <2>1, BaseAssumption DEF Byte
  <2>3. PICK m \in Nat : m = Base * v
    BY BaseAssumption, Products
  <2> QED
    BY <2>2, <2>3
<1> HIDE DEF E
<1>2. PICK f \in [0..k -> Nat] : f[0] = 0 /\ \A n \in 1..k : f[n] = E(n, f[n - 1])
  <2> DEFINE G == [n \in 1..k |-> [v \in Nat |-> E(n, v)]]
  <2>1. G \in [1..k -> [Nat -> Nat]]
    <3>1. \A n \in 1..k : [v \in Nat |-> E(n, v)] \in [Nat -> Nat]
      BY <1>1
    <3> QED
      BY <3>1
  <2>2. \A n \in 1..k, v \in Nat : G[n][v] = E(n, v)
    OBVIOUS
  <2>3. 0 \in Nat
    OBVIOUS
  <2> HIDE DEF G
  <2>4. PICK f \in [0..k -> Nat] : Iterates(f, k, 0, G)
    BY <2>1, <2>3, IntervalRecursion
  <2>5. \A n \in 1..k : n - 1 \in 0..k
    OBVIOUS
  <2> QED
    BY <2>2, <2>4, <2>5 DEF Iterates
<1>3. PICK g : g = [i \in 1..(k + 1) |-> f[k + 1 - i]]
  OBVIOUS
<1>4. g = [i \in 1..(k + 1) |-> IF i > k THEN 0 ELSE b[i] + Base * g[i + 1]]
  <2>1. ASSUME NEW i \in 1..(k + 1), i > k PROVE g[i] = 0
    <3>1. i = k + 1 /\ k + 1 - i = 0
      BY <2>1
    <3>2. g[i] = f[k + 1 - i]
      BY <1>3
    <3> QED
      BY <1>2, <3>1, <3>2
  <2>2. ASSUME NEW i \in 1..(k + 1), ~(i > k) PROVE g[i] = b[i] + Base * g[i + 1]
    <3>1. PICK n : n = k + 1 - i
      OBVIOUS
    <3>2. n \in 1..k /\ i + 1 \in 1..(k + 1) /\ k + 1 - n = i /\ k + 1 - (i + 1) = n - 1
      BY <2>2, <3>1
    <3>3. g[i] = f[n] /\ g[i + 1] = f[n - 1]
      BY <1>3, <3>1, <3>2
    <3>4. f[n] = E(n, f[n - 1])
      BY <1>2, <3>2
    <3> QED
      BY <3>2, <3>3, <3>4 DEF E
  <2> QED
    BY <1>3, <2>1, <2>2
<1>5. from = [i \in 1..(k + 1) |-> IF i > k THEN 0 ELSE b[i] + Base * from[i + 1]]
  BY <1>4
<1> HIDE DEF from
<1>6. 0..k \subseteq {n \in 0..k : from[k + 1 - n] \in Nat}
  <2> DEFINE T == {n \in 0..k : from[k + 1 - n] \in Nat}
  <2>1. 0 \in T
    BY <1>5
  <2>2. ASSUME NEW n \in 1..k, n - 1 \in T PROVE n \in T
    <3>1. PICK i : i = k + 1 - n
      OBVIOUS
    <3>2. i \in 1..(k + 1) /\ ~(i > k) /\ k + 1 - (n - 1) = i + 1 /\ n \in 0..k
      BY <3>1
    <3>3. from[i + 1] \in Nat
      BY <2>2, <3>2
    <3>4. E(n, from[i + 1]) \in Nat
      BY <1>1, <3>3
    <3>5. from[i] = b[i] + Base * from[i + 1]
      BY <1>5, <3>2
    <3> QED
      BY <3>1, <3>2, <3>4, <3>5 DEF E
  <2> HIDE DEF T
  <2>3. 0..k \subseteq T
    BY <2>1, <2>2, IntervalInductive
  <2> QED
    BY <2>3 DEF T
<1>7. from[1] \in Nat
  <2>1. k \in 0..k /\ k + 1 - k = 1
    OBVIOUS
  <2> QED
    BY <1>6, <2>1
<1>8. Unsigned(b) = from[1]
  BY <1>0 DEF Unsigned, from
<1> QED
  BY <1>7, <1>8

\* A text without its NULs.
LEMMA TrimmedText ==
  ASSUME NEW b \in Seq(Byte)
  PROVE  Trimmed(b) \in Seq(Byte)
<1> DEFINE kept == {n \in 0..Len(b) : \A i \in (n + 1)..Len(b) : b[i] = 0}
<1>1. Len(b) \in kept /\ kept \subseteq Nat
  OBVIOUS
<1>2. \E n \in kept : \A m \in kept : n <= m
  <2> HIDE DEF kept
  <2> QED
    BY <1>1, LeastNatural
<1>3. PICK n : n = CHOOSE x \in kept : \A m \in kept : x <= m
  OBVIOUS
<1>4. n \in kept
  <2> HIDE DEF kept
  <2> QED
    BY <1>2, <1>3
<1>5. n \in 0..Len(b)
  BY <1>4
<1>6. SubSeq(b, 1, n) \in Seq(Byte)
  <2>1. \A i \in 1..n : b[i] \in Byte
    BY <1>5
  <2> QED
    BY <1>5, <2>1
<1> QED
  BY <1>3, <1>6 DEF Trimmed

\* What `as` makes of a number.
LEMMA SignedRange ==
  ASSUME NEW v \in Int, NEW n \in {4, 8}
  PROVE  /\ 2 * Wrapped(v, n) \in -(Base^n)..(Base^n - 1)
         /\ v % Base^n \in 0..(Base^n - 1)
<1>1. PICK m \in Nat \ {0} : m = Base^n
  BY PowersAssumption
<1>2. v % m \in 0..(m - 1)
  BY <1>1
<1>3. PICK u \in 0..(m - 1) : u = v % m
  BY <1>2
<1>4. Wrapped(v, n) = IF 2 * u < m THEN u ELSE u - m
  BY <1>1, <1>3 DEF Wrapped, Signed
<1>5. 2 * (IF 2 * u < m THEN u ELSE u - m) \in -m..(m - 1)
  OBVIOUS
<1> QED
  BY <1>1, <1>2, <1>4, <1>5

LEMMA CoercedKind ==
  ASSUME NEW kind \in Integral, NEW v \in Int
  PROVE  KindOK(kind, Coerced(kind, v))
<1>1. CASE kind \in {"int32", "enum"}
  BY <1>1, SignedRange DEF KindOK, Coerced
<1>2. CASE kind = "int64"
  BY <1>2, SignedRange DEF KindOK, Coerced
<1>3. CASE kind = "uint32"
  BY <1>3, SignedRange DEF KindOK, Coerced
<1>4. CASE kind = "uint64"
  BY <1>4, SignedRange DEF KindOK, Coerced
<1>5. CASE kind = "bool"
  BY <1>5 DEF KindOK, Coerced
<1> QED
  BY <1>1, <1>2, <1>3, <1>4, <1>5 DEF Integral

\* The encoding of an integer is one of the numbers.
LEMMA IntegerEncoding ==
  ASSUME NEW e, Encodes(e), e.fd.kind \in Integral
  PROVE  /\ e.encoding \in {"int8", "int16", "int32", "int64", "uint8", "uint16", "uint32", "uint64"}
         /\ e.size \in {1, 2, 4, 8}
<1>1. /\ FieldOK(e.fd) /\ Encodable(e.fd)
      /\ e.encoding = EncodingOf(e.fd) /\ e.size = SizeOf(e.fd)
  BY DEF Encodes, Integral
<1>2. EncodingOf(e.fd) \in
        {"int8", "int16", "int32", "int64", "uint8", "uint16", "uint32", "uint64"}
  <2>1. CASE e.fd.encoding # <<>>
    BY <1>1, <2>1 DEF FieldOK, Encodable, EncodingOf, Widths
  <2>2. CASE e.fd.encoding = <<>>
    BY <2>2 DEF EncodingOf, Integral, Texts, Natural
  <2> QED
    BY <2>1, <2>2
<1>3. SizeOf(e.fd) \in {1, 2, 4, 8}
  BY <1>2 DEF SizeOf, Widths
<1> QED
  BY <1>1, <1>2, <1>3

LEMMA IntegerKind ==
  ASSUME NEW e, Encodes(e), e.fd.kind \in Integral, NEW b \in Seq(Byte), Len(b) = e.size,
         NEW val, Value(e, b) = Read("none", val)
  PROVE  KindOK(e.fd.kind, val)
<1>1. PICK u \in Nat : u = Unsigned(b)
  BY UnsignedNatural
<1>2. PICK m \in Nat \ {0} : m = Base^Len(b)
  BY IntegerEncoding, PowersAssumption
<1>3. Signed(u, Len(b)) \in Int
  BY <1>2 DEF Signed
<1>4. CASE e.encoding \in {"int8", "int16", "int32", "int64"}
  <2>1. val = Coerced(e.fd.kind, Signed(u, Len(b)))
    BY <1>1, <1>4 DEF Value, Read
  <2> QED
    BY <1>3, <2>1, CoercedKind
<1>5. CASE e.encoding \in {"uint8", "uint16", "uint32", "uint64"}
  <2>1. val = Coerced(e.fd.kind, u)
    BY <1>1, <1>5 DEF Value, Read
  <2> QED
    BY <2>1, CoercedKind
<1> QED
  BY <1>4, <1>5, IntegerEncoding

LEMMA BytesKind ==
  ASSUME NEW e, Encodes(e), e.fd.kind \in {"string", "bytes", "float", "double"},
         NEW b \in Seq(Byte), NEW val, Value(e, b) = Read("none", val)
  PROVE  KindOK(e.fd.kind, val)
<1>1. e.fd.encoding = <<>> /\ e.encoding = EncodingOf(e.fd)
  BY DEF Encodes, FieldOK, Integral
<1>2. e.encoding \in {"char", "float", "double"}
  BY <1>1 DEF EncodingOf, Texts, Natural
<1>3. val = b \/ val = Trimmed(b)
  BY <1>2 DEF Value, Read
<1>4. val \in Seq(Byte)
  BY <1>3, TrimmedText
<1> QED
  BY <1>4 DEF KindOK

\* What is read of a field is a value of its kind.
LEMMA ReadKind ==
  ASSUME data \in Seq(Byte), NEW e, Encodes(e), e.size \in Nat, NEW from \in Nat,
         NEW val, ReadAt(e, from, Len(data)) = Read("none", val)
  PROVE  KindOK(e.fd.kind, val)
<1>1. CASE e.fd.kind = "message"
  BY <1>1 DEF KindOK
<1>2. CASE e.fd.kind # "message"
  <2>1. PICK b : b = SubSeq(data, from + 1, from + e.size)
    OBVIOUS
  <2>2. e.encoding # "none" /\ ~(from + e.size > Len(data)) /\ Value(e, b) = Read("none", val)
    BY <2>1 DEF ReadAt, Read
  <2>3. b \in Seq(Byte) /\ Len(b) = e.size
    <3>1. PICK to : to = from + e.size
      OBVIOUS
    <3>2. /\ from + 1 \in Int /\ to \in Int /\ to <= Len(data) /\ from <= to
          /\ \A i \in (from + 1)..to : data[i] \in Byte
      BY <2>2, <3>1
    <3>3. /\ SubSeq(data, from + 1, to) \in Seq(Byte)
          /\ Len(SubSeq(data, from + 1, to)) = IF from + 1 <= to THEN to - (from + 1) + 1 ELSE 0
      BY <3>2, SubSeqProperties
    <3>4. IF from + 1 <= to THEN to - (from + 1) + 1 = e.size ELSE 0 = e.size
      BY <3>1, <3>2
    <3> QED
      BY <2>1, <3>1, <3>3, <3>4
  <2>4. CASE e.fd.kind \in Integral
    BY <2>2, <2>3, <2>4, IntegerKind
  <2>5. CASE e.fd.kind \in {"string", "bytes", "float", "double"}
    BY <2>2, <2>3, <2>5, BytesKind
  <2>6. e.fd.kind \in Kinds
    BY DEF Encodes, FieldOK
  <2> QED
    BY <1>2, <2>4, <2>5, <2>6 DEF Kinds, Integral, Texts, Natural
<1> QED
  BY <1>1, <1>2

\* The errors a call of a view returns.
Called == called \in {"ok", "BadMessage", "BadGroup"}

LEMMA CalledStep == Called /\ [Next]_vars => Called'
<1> SUFFICES ASSUME Called, [Next]_vars PROVE Called'
  OBVIOUS
<1>1. CASE Look
  BY <1>1 DEF Called, Look, OpenView, Walk, ViewComposite, ViewGroup, ViewEntry, Returns, Errs
<1>2. CASE UNCHANGED called
  BY <1>2 DEF Called
<1>3. ~Look => UNCHANGED called
  BY DEF Next, Rests, vars, readerVars, viewVars, Receive, Decode, Unmarshal, ReadScalar, Scalar,
         EnterComposite, LeaveComposite, EnterGroup, LeaveEntry, Finish, Stop
<1> QED
  BY <1>1, <1>2, <1>3

\* Every field that has been read, in whichever block, holds a value of its kind:
\* a number in the range of its type whatever the width it has on the wire, bytes
\* where there are bytes (read_field, int_to_value, uint_to_value), for all
\* schemas, encodings and buffers.
THEOREM TypeCorrect == Spec => []TypeOK
<1>1. Alike /\ Called => TypeOK
  <2> SUFFICES ASSUME Alike, Called PROVE TypeOK
    OBVIOUS
  <2>1. PICK R, p : Faith(R, p)
    BY DEF Alike
  <2>2. PICK S, D : Closed(S, D) /\ Decoding(S)
    BY DEF Alike, Sound, Layouts
  <2>3. data \in Seq(Byte) /\ limits \in Limits /\ pos \in Nat /\ nth \in Nat
    BY <2>2 DEF Alike, Sound, Registering, Decoding
  <2>4. result \in Results /\ called \in {"ok", "BadMessage", "BadGroup"}
    BY DEF Alike, Outcome, Called
  <2>5. ASSUME NEW k \in 1..Len(frames), NEW i \in 1..(frames[k].at - 1),
               frames[k].fields[i].fd.name \in DOMAIN frames[k].value
        PROVE  KindOK(frames[k].fields[i].fd.kind, frames[k].value[frames[k].fields[i].fd.name])
    <3>1. PICK b : b = frames[k]
      OBVIOUS
    <3>2. RoomFor(S, b.fields, b.base, b.end) /\ b.at \in Nat
      BY <2>2, <3>1 DEF Decoding, Blocks, BlockIn
    <3>3. PICK size : <<b.fields, size>> \in S
      BY <3>2 DEF RoomFor
    <3>4. b.fields \in Seq(D)
      BY <2>2, <3>3 DEF Closed
    <3>5. Told(R, b)
      <4>1. frames # <<>>
        BY EmptySeq
      <4> QED
        BY <2>1, <3>1, <4>1 DEF Faith, BlocksSay
    <3>6. i \in 1..Len(b.fields)
      BY <2>5, <3>1, <3>2, <3>4, <3>5 DEF Told
    <3>7. PICK e, val : e = b.fields[i] /\ val = b.value[e.fd.name]
      OBVIOUS
    <3>8. Encodes(e) /\ e.offset \in Nat /\ e.size \in Nat
      <4>1. e \in D
        BY <3>4, <3>6, <3>7
      <4> QED
        BY <2>2, <4>1 DEF Closed
    <3>9. CASE e.composite # <<>>
      <4>1. e.fd.kind = "message"
        BY <3>8, <3>9 DEF Encodes
      <4> QED
        BY <3>1, <3>7, <4>1 DEF KindOK
    <3>10. CASE e.composite = <<>>
      <4>1. PICK from : from = b.base + e.offset
        OBVIOUS
      <4>2. from \in Nat
        <5>1. PICK base, offset : base = b.base /\ offset = e.offset
          OBVIOUS
        <5>2. base \in Nat /\ offset \in Nat
          BY <3>2, <3>8, <5>1 DEF RoomFor
        <5> QED
          BY <4>1, <5>1, <5>2
      <4>3. ReadAt(e, from, Len(data)) = Read("none", val)
        BY <2>5, <3>1, <3>5, <3>6, <3>7, <3>10, <4>1 DEF Told, Says
      <4>4. KindOK(e.fd.kind, val)
        BY <2>3, <3>8, <4>2, <4>3, ReadKind
      <4> QED
        BY <3>1, <3>7, <4>4
    <3> QED
      BY <3>9, <3>10
  <2> QED
    BY <2>3, <2>4, <2>5 DEF TypeOK
<1>2. Init => Called
  BY DEF Init, ReaderInit, Called
<1> QED
  BY <1>1, <1>2, AlikeInit, AlikeStep, CalledStep, PTL DEF Spec
=============================================================================
