--------------------------- MODULE PbReaderProofs ---------------------------
(***************************************************************************)
(* Theorems about the decoder of binary messages, for every schema, every  *)
(* document and all limits; and for the schema of the envelope, that what  *)
(* it reads is what the slices of the document tell.                       *)
(***************************************************************************)
EXTENDS EnvelopeCodec, Induction, SequenceTheorems, FunctionTheorems, TLAPS

-----------------------------------------------------------------------------
(***************************************************************************)
(* What the reads of PbWire return lies in the buffer.                     *)
(***************************************************************************)

\* A varint that was read ends in the buffer (Reader::varint).
LEMMA VarintInBuffer ==
  ASSUME NEW s, NEW at, GetVarint(s, at).err = "none"
  PROVE  /\ GetVarint(s, at).pos \in VarintEnds(s, at)
         /\ GetVarint(s, at).val = VarintAt(s, at, GetVarint(s, at).pos)
         /\ GetVarint(s, at).pos <= Len(s)
<1> DEFINE ends == VarintEnds(s, at)
<1>1. ends # {}
  BY DEF GetVarint, VarintUpTo, NoRead
<1>2. PICK end : end = (CHOOSE e \in ends : TRUE)
  OBVIOUS
<1>3. end \in ends
  BY <1>1, <1>2
<1>4. GetVarint(s, at).pos = end /\ GetVarint(s, at).val = VarintAt(s, at, end)
  BY <1>1, <1>2 DEF GetVarint, VarintUpTo, VarintTo, Read
<1> QED
  BY <1>3, <1>4 DEF VarintEnds

\* A length that was read measures bytes of the buffer (Reader::read_length).
LEMMA LengthInBuffer ==
  ASSUME NEW s, NEW at, NEW e, e # "none", GetLength(s, at, e).err = "none"
  PROVE  GetLength(s, at, e).pos <= Len(s) /\ GetLength(s, at, e).val <= Len(s)
<1> DEFINE len == GetVarint(s, at)
<1>1. len.err = "none"
  BY DEF GetLength, LengthFrom
<1>2. len.pos <= Len(s)
  BY <1>1, VarintInBuffer
<1>3. GetLength(s, at, e) = EndOf(s, len.pos, len.val, e)
  BY <1>1 DEF GetLength, LengthFrom
<1>4. len.pos + len.val <= Len(s) /\ GetLength(s, at, e) = Read(len.pos + len.val, len.pos)
  BY <1>3 DEF EndOf, NoRead
<1> QED
  BY <1>2, <1>4 DEF Read

\* Bytes that were read lie in the buffer (Reader::bytes_view).
LEMMA BytesInBuffer ==
  ASSUME NEW s, NEW at, GetBytes(s, at).err = "none"
  PROVE  GetBytes(s, at).pos <= Len(s)
<1> DEFINE end == GetLength(s, at, "TruncatedLengthDelim")
<1>1. end.err = "none" /\ GetBytes(s, at).pos = end.val
  BY DEF GetBytes, BytesUpTo, Read
<1> QED
  BY <1>1, LengthInBuffer

\* A string that was read lies in the buffer (Reader::string).
LEMMA StringInBuffer ==
  ASSUME NEW s, NEW at, GetString(s, at).err = "none"
  PROVE  GetString(s, at).pos <= Len(s)
<1>1. GetString(s, at) = GetBytes(s, at)
  BY DEF GetString, Utf8, NoRead
<1> QED
  BY <1>1, BytesInBuffer

\* What was skipped lies in the buffer (Reader::skip).
LEMMA SkipInBuffer ==
  ASSUME NEW s, NEW at, NEW wt, GetSkip(s, at, wt).err = "none"
  PROVE  GetSkip(s, at, wt).pos <= Len(s)
<1> USE DEF GetSkip, Varint, Fixed64, Fixed32, LengthDelimited
<1>1. CASE wt = 0
  BY <1>1, VarintInBuffer
<1>2. CASE wt = 1
  <2>1. GetSkip(s, at, wt) = GetFixed(s, at, 8, "TruncatedFixed64")
    BY <1>2
  <2> QED
    BY <2>1 DEF GetFixed, Read, NoRead
<1>3. CASE wt = 5
  <2>1. GetSkip(s, at, wt) = GetFixed(s, at, 4, "TruncatedFixed32")
    BY <1>3
  <2> QED
    BY <2>1 DEF GetFixed, Read, NoRead
<1>4. CASE wt = 2
  BY <1>4, BytesInBuffer
<1>5. CASE wt \notin {0, 1, 2, 5}
  BY <1>5 DEF NoRead
<1> QED
  BY <1>1, <1>2, <1>3, <1>4, <1>5

LEMMA ScalarInBuffer ==
  ASSUME NEW kind, NEW at, Scalar(kind, at).err = "none"
  PROVE  Scalar(kind, at).pos <= Len(data)
BY VarintInBuffer, BytesInBuffer, StringInBuffer DEF Scalar

-----------------------------------------------------------------------------
(***************************************************************************)
(* One frame: a message being read.                                        *)
(***************************************************************************)
Listed == {"strings", "messages", "map"}

Names(type) == {f.name : f \in FieldsOf(type)}

\* The list a field holds is a sequence within the limit.
Counted(list) == (\E S : list \in Seq(S)) /\ Len(list) <= limits.max_repeated_count

Sane(frame) ==
  /\ frame.end <= Len(data)
  /\ frame.value = [name \in Names(frame.type) |-> frame.value[name]]
  /\ \A f \in FieldsOf(frame.type) : f.kind \in Listed => Counted(frame.value[f.name])

Frames(E, V) == [type : DOMAIN Schema, field : FieldType, end : E, value : V]

\* A field of a type is what its number maps to, and its name tells it apart.
LEMMA FieldsApart ==
  ASSUME NEW type \in DOMAIN Schema, NEW f \in FieldsOf(type), NEW g \in FieldsOf(type),
         f.name = g.name
  PROVE  f = g
BY SchemaAssumption DEF FieldsOf

\* A message that was just entered is sane.
LEMMA FreshFrame ==
  ASSUME limits \in Limit, NEW type \in DOMAIN Schema, NEW field, NEW end, end <= Len(data)
  PROVE  Sane(Frame(type, field, end))
<1> DEFINE frame == Frame(type, field, end)
<1>1. frame.type = type /\ frame.end = end /\ frame.value = Default(type)
  BY DEF Frame
<1>2. ASSUME NEW f \in FieldsOf(type), f.kind \in Listed
      PROVE  Default(type)[f.name] = <<>>
  <2>1. (CHOOSE g \in FieldsOf(type) : g.name = f.name) = f
    BY FieldsApart
  <2> QED
    BY <1>2, <2>1 DEF Default, Empty, Listed
<1>3. ASSUME NEW f \in FieldsOf(type), f.kind \in Listed
      PROVE  Counted(frame.value[f.name])
  <2>1. frame.value[f.name] = <<>>
    BY <1>1, <1>2, <1>3
  <2>2. <<>> \in Seq({}) /\ Len(<<>>) = 0 /\ limits.max_repeated_count \in Nat
    BY DEF Limit
  <2> QED
    BY <2>1, <2>2 DEF Counted
<1>4. frame.value = [name \in Names(type) |-> frame.value[name]]
  BY <1>1 DEF Default, Names
<1> QED
  BY <1>1, <1>3, <1>4 DEF Sane

\* A list that takes one more element stays within the limit if it was below
\* it (push_element), and a map that takes a key it holds keeps its size.
LEMMA MergedCounted ==
  ASSUME limits \in Limit, NEW field, field.kind \in Listed, NEW old, Counted(old),
         NEW new, ~Refused(field, old, new)
  PROVE  Counted(Merged(field, old, new))
<1>1. PICK S : old \in Seq(S)
  BY DEF Counted
<1> DEFINE T == S \cup {new}
<1>2. old \in Seq(T) /\ Len(old) \in Nat /\ limits.max_repeated_count \in Nat
  BY <1>1 DEF Limit
<1>3. ASSUME ~Full(old) PROVE Counted(Append(old, new))
  <2>1. Append(old, new) \in Seq(T) /\ Len(Append(old, new)) = Len(old) + 1
    BY <1>2
  <2>2. Len(old) < limits.max_repeated_count
    BY <1>2, <1>3 DEF Full
  <2> QED
    BY <1>2, <2>1, <2>2 DEF Counted
<1>4. CASE field.kind \in {"strings", "messages"}
  BY <1>3, <1>4 DEF Refused, Merged
<1>5. CASE field.kind = "map" /\ new.key \notin Keys(old)
  BY <1>3, <1>5 DEF Refused, Merged, Insert
<1>6. CASE field.kind = "map" /\ new.key \in Keys(old)
  <2> DEFINE put == [i \in DOMAIN old |-> IF old[i].key = new.key THEN new ELSE old[i]]
  <2>1. Merged(field, old, new) = put
    BY <1>6 DEF Merged, Insert
  <2>2. DOMAIN old = 1..Len(old) /\ \A i \in 1..Len(old) : old[i] \in T
    BY <1>2
  <2>3. put \in [1..Len(old) -> T]
    BY <2>2
  <2>4. put \in Seq(T) /\ Len(put) = Len(old)
    BY <1>2, <2>3
  <2> QED
    BY <2>1, <2>4 DEF Counted
<1> QED
  BY <1>4, <1>5, <1>6 DEF Listed

\* The message read in a frame, with another value for a field.
Put(frame, name, val) == [frame EXCEPT !.value[name] = val]

IsFrame(frame) == \E E, V : frame \in Frames(E, V)

LEMMA PutParts ==
  ASSUME NEW old, IsFrame(old), NEW name, NEW val
  PROVE  /\ Put(old, name, val).type = old.type /\ Put(old, name, val).field = old.field
         /\ Put(old, name, val).end = old.end
<1> DEFINE put == [old.value EXCEPT ![name] = val]
<1>1. Put(old, name, val) = [old EXCEPT !.value = put]
  BY DEF Put
<1> QED
  BY <1>1 DEF IsFrame, Frames

LEMMA PutValue ==
  ASSUME NEW old, IsFrame(old), NEW name, NEW val
  PROVE  Put(old, name, val).value = [old.value EXCEPT ![name] = val]
<1> DEFINE put == [old.value EXCEPT ![name] = val]
<1>1. Put(old, name, val) = [old EXCEPT !.value = put]
  BY DEF Put
<1> QED
  BY <1>1 DEF IsFrame, Frames

LEMMA PutFrame ==
  ASSUME NEW E, NEW V, NEW old \in Frames(E, V), NEW name, NEW val,
         NEW W, V \subseteq W, Put(old, name, val).value \in W
  PROVE  Put(old, name, val) \in Frames(E, W)
<1> DEFINE put == [old.value EXCEPT ![name] = val]
<1>1. Put(old, name, val) = [old EXCEPT !.value = put]
  BY DEF Put
<1> QED
  BY <1>1 DEF Frames

\* A sane message that takes a value for one of its fields is sane.
LEMMA MergedFrame ==
  ASSUME limits \in Limit, NEW old, IsFrame(old), Sane(old),
         NEW field, field \in FieldsOf(old.type), NEW new,
         ~Refused(field, old.value[field.name], new)
  PROVE  Sane(Put(old, field.name, Merged(field, old.value[field.name], new)))
<1>1. PICK frame : frame = Put(old, field.name, Merged(field, old.value[field.name], new))
  OBVIOUS
<1> DEFINE put == [old.value EXCEPT ![field.name] = Merged(field, old.value[field.name], new)]
<1>2. frame.type = old.type /\ frame.end = old.end /\ frame.value = put
  <2>1. frame.type = old.type /\ frame.end = old.end
    BY <1>1, PutParts
  <2>2. frame.value = put
    BY <1>1, PutValue
  <2> QED
    BY <2>1, <2>2
<1>3. DOMAIN old.value = Names(old.type) /\ field.name \in Names(old.type)
  BY DEF Sane, Names
<1>4. frame.value = [name \in Names(frame.type) |-> frame.value[name]]
  BY <1>2, <1>3
<1>5. ASSUME NEW f \in FieldsOf(old.type), f.kind \in Listed
      PROVE  Counted(frame.value[f.name])
  <2>1. Counted(old.value[f.name])
    BY <1>5 DEF Sane
  <2>2. CASE f = field
    <3>1. frame.value[f.name] = Merged(field, old.value[field.name], new)
      BY <1>2, <1>3, <2>2
    <3> QED
      BY <1>5, <2>1, <2>2, <3>1, MergedCounted
  <2>3. CASE f # field
    <3>1. f.name # field.name
      BY <2>3, FieldsApart DEF IsFrame, Frames
    <3>2. frame.value[f.name] = old.value[f.name]
      BY <1>2, <1>3, <3>1 DEF Names
    <3> QED
      BY <2>1, <3>2
  <2> QED
    BY <2>2, <2>3
<1> QED
  BY <1>1, <1>2, <1>4, <1>5 DEF Sane

-----------------------------------------------------------------------------
(***************************************************************************)
(* The inductive invariant: while the decode goes on, the messages being   *)
(* read are sane, each is the value of a field of the one around it, and   *)
(* the depth counts them.                                                  *)
(***************************************************************************)
Reading ==
  /\ limits \in Limit
  /\ \E E, V : stack \in Seq(Frames(E, V))
  /\ Len(stack) > 0
  /\ pos <= Len(data)
  /\ DepthBounded
  /\ \A k \in 1..Len(stack) : Sane(stack[k])
  /\ \A k \in 1..(Len(stack) - 1) : stack[k + 1].field \in FieldsOf(stack[k].type)

LEMMA ReadingInit == Init => Reading
<1> SUFFICES ASSUME Init PROVE Reading
  OBVIOUS
<1>1. /\ stack = <<Frame(Root, RootField, Len(data))>>
      /\ pos = 0 /\ depth = 0
  BY DEF Init
<1>2. limits \in Limit /\ data \in Seq(Byte)
  BY DecodesAssumption DEF Init
<1>3. Len(data) \in Nat
  BY <1>2
<1>4. Root \in DOMAIN Schema
  BY SchemaAssumption
<1>5. RootField \in FieldType
  BY <1>4 DEF RootField, FieldType, Kinds, Nestings
<1> DEFINE F == Frames({Len(data)}, {Default(Root)})
<1>6. PICK frame : frame = Frame(Root, RootField, Len(data))
  OBVIOUS
<1>7. /\ stack \in Seq(F) /\ Len(stack) = 1 /\ stack[1] = frame
  <2>1. frame \in F
    BY <1>4, <1>5, <1>6 DEF Frame, Frames
  <2>2. stack = <<frame>>
    BY <1>1, <1>6
  <2> HIDE DEF F
  <2> QED
    BY <2>1, <2>2
<1>8. Sane(frame)
  <2>1. Len(data) <= Len(data)
    BY <1>3
  <2> QED
    BY <1>2, <1>4, <1>6, <2>1, FreshFrame
<1>9. DepthBounded
  BY <1>1, <1>2, <1>7 DEF DepthBounded, Limit
<1>10. pos <= Len(data)
  BY <1>1, <1>3
<1> QED
  <2>1. \E E, V : stack \in Seq(Frames(E, V))
    BY <1>7
  <2> QED
    BY <1>2, <1>7, <1>8, <1>9, <1>10, <2>1 DEF Reading

\* A step that leaves the messages alone, and fails or stays in the buffer.
LEMMA StackKept ==
  ASSUME Reading, UNCHANGED <<data, limits, stack>>, pos' <= Len(data'),
         \/ err' \notin {"none", "done"}
         \/ UNCHANGED depth /\ err = "none"
  PROVE  Reading'
<1>1. DepthBounded'
  BY DEF DepthBounded, Reading
<1>2. \A k \in 1..Len(stack) : Sane(stack[k])'
  BY DEF Reading, Sane, Counted
<1> QED
  BY <1>1, <1>2 DEF Reading

\* A value enters the message at index k, which becomes the top.
LEMMA MergeReads ==
  ASSUME Reading, UNCHANGED <<data, limits>>, pos' <= Len(data'), err = "none",
         NEW k \in 1..Len(stack), NEW field, field \in FieldsOf(stack[k].type), NEW val,
         Merge(k, field, val), depth' = k - 1, k - 1 <= depth
  PROVE  Reading'
<1>1. PICK E, V : stack \in Seq(Frames(E, V))
  BY DEF Reading
<1>0. PICK old : old = stack[k]
  OBVIOUS
<1>2. old \in Frames(E, V) /\ Sane(old) /\ Len(stack) \in Nat
  BY <1>1, <1>0 DEF Reading
<1>3. CASE err' = "RepeatedCountExceeded" /\ UNCHANGED stack
  BY <1>3, StackKept
<1>4. CASE /\ ~Refused(field, old.value[field.name], val)
           /\ stack' = [SubSeq(stack, 1, k) EXCEPT
                          ![k].value[field.name] = Merged(field, old.value[field.name], val)]
           /\ UNCHANGED err
  <2>01. PICK frame : frame = Put(old, field.name, Merged(field, old.value[field.name], val))
    OBVIOUS
  <2>02. PICK sub : sub = SubSeq(stack, 1, k)
    OBVIOUS
  <2>03. PICK W : W = V \cup {frame.value}
    OBVIOUS
  <2>1. /\ frame \in Frames(E, W) /\ Sane(frame)
        /\ frame.type = old.type /\ frame.field = old.field
    <3>1. limits \in Limit /\ field \in FieldsOf(old.type)
      BY <1>0 DEF Reading
    <3>2. ~Refused(field, old.value[field.name], val)
      BY <1>4
    <3>3. /\ frame \in Frames(E, W) /\ Sane(frame)
          /\ frame.type = old.type /\ frame.field = old.field
      <4>2. IsFrame(old)
        BY <1>2 DEF IsFrame
      <4>1. frame \in Frames(E, W) /\ frame.type = old.type /\ frame.field = old.field
        <5>1. V \subseteq W /\ frame.value \in W
          BY <2>03
        <5>2. old \in Frames(E, V)
          BY <1>2
        <5>3. frame \in Frames(E, W)
          BY <2>01, <5>1, <5>2, PutFrame
        <5> QED
          BY <2>01, <4>2, <5>3, PutParts
      <4>3. Sane(Put(old, field.name, Merged(field, old.value[field.name], val)))
        <5>1. Sane(old)
          BY <1>2
        <5> QED
          BY <3>1, <3>2, <4>2, <5>1, MergedFrame
      <4> QED
        BY <2>01, <4>1, <4>3
    <3> QED
      BY <2>03, <3>3
  <2>2. sub \in Seq(Frames(E, V)) /\ Len(sub) = k /\ \A i \in 1..k : sub[i] = stack[i]
    BY <1>1, <1>2, <2>02
  <2>3. stack' = [sub EXCEPT ![k] = frame]
    <3>1. PICK m : m = Merged(field, old.value[field.name], val)
      OBVIOUS
    <3>2. stack' = [sub EXCEPT ![k].value[field.name] = m]
      BY <1>4, <2>02, <3>1
    <3>3. stack' = [sub EXCEPT ![k] = [sub[k] EXCEPT !.value[field.name] = m]]
      BY <3>2
    <3>4. sub[k] = old
      BY <1>0, <2>2
    <3> QED
      BY <2>01, <3>1, <3>3, <3>4 DEF Put
  <2>4. sub \in Seq(Frames(E, W))
    <3>1. Frames(E, V) \subseteq Frames(E, W)
      BY <2>03 DEF Frames
    <3> QED
      BY <2>2, <3>1
  <2>5. /\ stack' \in Seq(Frames(E, W)) /\ Len(stack') = k
        /\ stack'[k] = frame /\ \A i \in 1..(k - 1) : stack'[i] = stack[i]
    BY <2>1, <2>2, <2>3, <2>4
  <2>6. ASSUME NEW i \in 1..k PROVE Sane(stack[i])'
    <3>1. CASE i = k
      BY <2>1, <2>5, <3>1 DEF Sane, Counted
    <3>2. CASE i # k
      <4>1. Sane(stack[i]) /\ stack'[i] = stack[i]
        BY <2>5, <3>2 DEF Reading
      <4> QED
        BY <4>1 DEF Sane, Counted
    <3> QED
      BY <3>1, <3>2
  <2>7. ASSUME NEW i \in 1..(k - 1)
        PROVE  stack'[i + 1].field \in FieldsOf(stack'[i].type)
    <3>1. stack[i + 1].field \in FieldsOf(stack[i].type)
      BY DEF Reading
    <3>2. stack'[i + 1].field = stack[i + 1].field
      BY <1>0, <2>1, <2>5
    <3> QED
      BY <1>0, <2>1, <2>5, <3>1, <3>2
  <2>8. DepthBounded'
    <3>1. depth \in Int /\ depth <= limits.max_nesting_depth /\ limits.max_nesting_depth \in Nat
      BY <1>2 DEF Reading, DepthBounded, Limit
    <3> QED
      BY <2>5, <3>1 DEF DepthBounded
  <2>9. limits' \in Limit
    BY DEF Reading
  <2> QED
    BY <2>5, <2>6, <2>7, <2>8, <2>9 DEF Reading
<1> QED
  BY <1>3, <1>4, <1>0 DEF Merge

LEMMA ScalarReads ==
  ASSUME Reading, err = "none", NEW field \in FieldsOf(Top.type), NEW at,
         ReadScalar(field, at)
  PROVE  Reading'
<1> DEFINE r == Scalar(field.kind, at)
<1>1. CASE r.err # "none" /\ Fail(r.err)
  <2>1. err' # "none" /\ UNCHANGED <<data, limits, pos, depth, stack>>
    BY <1>1 DEF Fail
  <2> QED
    BY <2>1, StackKept DEF Reading
<1>2. CASE /\ r.err = "none" /\ pos' = r.pos
           /\ Merge(Len(stack), field, Decoded(field.kind, r.val))
           /\ UNCHANGED <<data, limits, depth>>
  <2>1. pos' <= Len(data')
    BY <1>2, ScalarInBuffer
  <2>2. Len(stack) \in 1..Len(stack) /\ depth = Len(stack) - 1
    BY DEF Reading, DepthBounded
  <2> QED
    BY <1>2, <2>1, <2>2, MergeReads DEF Top
<1> QED
  BY <1>1, <1>2 DEF ReadScalar, ScalarRead

LEMMA EnterReads ==
  ASSUME Reading, err = "none", NEW field \in FieldsOf(Top.type), NEW at,
         EnterMessage(field, at)
  PROVE  Reading'
<1> DEFINE end   == GetLength(data, at, "NestedExceedsBuffer")
           frame == Frame(field.of, field, end.val)
<1>1. CASE \E e : e # "none" /\ e # "done" /\ Fail(e)
  BY <1>1, StackKept DEF Reading, Fail
<1>2. CASE /\ end.err = "none" /\ depth < limits.max_nesting_depth
           /\ depth' = depth + 1 /\ pos' = end.pos
           /\ stack' = Append(stack, frame)
           /\ UNCHANGED <<data, limits, err>>
  <2>1. PICK E, V : stack \in Seq(Frames(E, V))
    BY DEF Reading
  <2>2. Len(stack) \in Nat /\ Top.type \in DOMAIN Schema
    <3>1. Len(stack) \in Nat /\ stack[Len(stack)] \in Frames(E, V)
      BY <2>1 DEF Reading
    <3> QED
      BY <3>1 DEF Top, Frames
  <2>3. field \in FieldType /\ field.of \in DOMAIN Schema
    BY <2>2, SchemaAssumption DEF FieldsOf, EnterMessage
  <2>4. end.pos <= Len(data) /\ end.val <= Len(data)
    BY <1>2, LengthInBuffer
  <2> DEFINE F == Frames(E \cup {end.val}, V \cup {Default(field.of)})
  <2>5. frame \in F /\ Sane(frame) /\ frame.field = field
    BY <2>3, <2>4, FreshFrame DEF Frame, Frames, Reading
  <2>6. stack \in Seq(F)
    <3>1. Frames(E, V) \subseteq F
      BY DEF Frames
    <3> HIDE DEF F
    <3> QED
      BY <2>1, <3>1
  <2>7. /\ stack' \in Seq(F) /\ Len(stack') = Len(stack) + 1
        /\ stack'[Len(stack) + 1] = frame
        /\ \A i \in 1..Len(stack) : stack'[i] = stack[i]
    BY <1>2, <2>5, <2>6
  <2>8. ASSUME NEW i \in 1..Len(stack') PROVE Sane(stack[i])'
    <3>1. Sane(stack'[i])
      BY <2>2, <2>5, <2>7 DEF Reading
    <3> QED
      BY <1>2, <3>1 DEF Sane, Counted
  <2>9. ASSUME NEW i \in 1..(Len(stack') - 1)
        PROVE  stack'[i + 1].field \in FieldsOf(stack'[i].type)
    <3>1. CASE i = Len(stack)
      BY <2>2, <2>5, <2>7, <3>1 DEF Top
    <3>2. CASE i # Len(stack)
      BY <2>2, <2>7, <3>2 DEF Reading
    <3> QED
      BY <3>1, <3>2
  <2>10. DepthBounded'
    BY <1>2, <2>2, <2>7 DEF Reading, DepthBounded, Limit
  <2> QED
    BY <1>2, <2>2, <2>4, <2>7, <2>8, <2>9, <2>10 DEF Reading
<1> QED
  <2>1. end.err # "done"
    BY DEF GetLength, LengthFrom, EndOf, GetVarint, VarintUpTo, VarintTo, Read, NoRead
  <2> QED
    BY <1>1, <1>2, <2>1 DEF EnterMessage, Enter

LEMMA ReadFieldReads == Reading /\ ReadField => Reading'
<1> SUFFICES ASSUME Reading, ReadField PROVE Reading'
  OBVIOUS
<1> DEFINE t == GetTag(data, pos)
<1>1. err = "none"
  BY DEF ReadField
<1>2. CASE t.err # "none" /\ Fail(t.err)
  <2>1. t.err # "done"
    BY DEF GetTag, TagFrom, TagAt, GetVarint, VarintUpTo, VarintTo, Read, NoRead
  <2> QED
    BY <1>2, <2>1, StackKept DEF Reading, Fail
<1>3. CASE Field(t.val, t.pos)
  <2>1. CASE /\ t.val.number \in DOMAIN Schema[Top.type]
             /\ ReadKnown(Schema[Top.type][t.val.number], t.pos)
    <3> DEFINE field == Schema[Top.type][t.val.number]
    <3>1. field \in FieldsOf(Top.type)
      BY <2>1 DEF FieldsOf
    <3> QED
      BY <1>1, <2>1, <3>1, ScalarReads, EnterReads DEF ReadKnown
  <2>2. CASE Skipped(GetSkip(data, t.pos, t.val.type))
    <3> DEFINE r == GetSkip(data, t.pos, t.val.type)
    <3>1. CASE r.err # "none" /\ Fail(r.err)
      BY <1>1, <3>1, StackKept DEF Reading, Fail
    <3>2. CASE r.err = "none" /\ pos' = r.pos /\ UNCHANGED <<data, limits, depth, stack, err>>
      <4>1. pos' <= Len(data')
        BY <3>2, SkipInBuffer
      <4> QED
        BY <1>1, <3>2, <4>1, StackKept
    <3> QED
      BY <2>2, <3>1, <3>2 DEF Skipped
  <2> QED
    BY <1>3, <2>1, <2>2 DEF Field
<1> QED
  BY <1>2, <1>3 DEF ReadField, Tagged

LEMMA LeaveReads == Reading /\ LeaveMessage => Reading'
<1> SUFFICES ASSUME Reading, LeaveMessage PROVE Reading'
  OBVIOUS
<1>1. err = "none" /\ Len(stack) > 1 /\ depth' = depth - 1 /\ UNCHANGED <<data, limits, pos>>
  BY DEF LeaveMessage
<1>2. CASE err' = "Overrun" /\ UNCHANGED stack
  BY <1>1, <1>2, StackKept DEF Reading
<1>3. CASE Merge(Len(stack) - 1, Top.field, Top.value)
  <2>0. PICK k : k = Len(stack) - 1
    OBVIOUS
  <2>1. Len(stack) \in Nat
    BY DEF Reading
  <2>2. k \in 1..Len(stack) /\ depth = k
    BY <1>1, <2>0, <2>1 DEF Reading, DepthBounded
  <2>3. Top.field \in FieldsOf(stack[k].type)
    BY <1>1, <2>0, <2>1 DEF Reading, Top
  <2> QED
    <3>1. pos' <= Len(data') /\ depth' = k - 1 /\ k - 1 <= depth
      BY <1>1, <2>1, <2>2 DEF Reading
    <3> QED
      BY <1>1, <1>3, <2>0, <2>2, <2>3, <3>1, MergeReads
<1> QED
  BY <1>2, <1>3 DEF LeaveMessage

LEMMA ReadingStep == Reading /\ [Next]_vars => Reading'
<1> SUFFICES ASSUME Reading, [Next]_vars PROVE Reading'
  OBVIOUS
<1>1. CASE TooLarge
  BY <1>1, StackKept DEF TooLarge, Fail, Reading
<1>2. CASE ReadField
  BY <1>2, ReadFieldReads
<1>3. CASE LeaveMessage
  BY <1>3, LeaveReads
<1>4. CASE Finish
  BY <1>4, StackKept DEF Finish, Reading
<1>5. CASE UNCHANGED vars
  <2>1. DepthBounded'
    BY <1>5 DEF vars, DepthBounded, Reading
  <2>2. \A k \in 1..Len(stack) : Sane(stack[k])'
    BY <1>5 DEF vars, Reading, Sane, Counted
  <2> QED
    BY <1>5, <2>1, <2>2 DEF vars, Reading
<1> QED
  BY <1>1, <1>2, <1>3, <1>4, <1>5 DEF Next, Returned

-----------------------------------------------------------------------------
\* Reading is an invariant of the decoder.
THEOREM DecoderReads == Spec => []Reading
<1> QED
  BY ReadingInit, ReadingStep, PTL DEF Spec

\* No read leaves the buffer, whatever lengths the document holds
\* (read_length, read_message).
THEOREM ReadsStayInBuffer == Spec => []InBuffer
<1>1. Reading => InBuffer
  BY DEF Reading, InBuffer, Sane
<1> QED
  BY <1>1, DecoderReads, PTL

\* The depth counts the messages being read and never passes the limit
\* (read_message).
THEOREM DepthStaysBounded == Spec => []DepthBounded
<1>1. Reading => DepthBounded
  BY DEF Reading
<1> QED
  BY <1>1, DecoderReads, PTL

\* No list or map ever holds more elements than the limit (push_element,
\* check_repeated).
THEOREM CountsStayBounded == Spec => []CountBounded
<1>1. Reading => CountBounded
  BY DEF Reading, CountBounded, Sane, Counted, Listed
<1> QED
  BY <1>1, DecoderReads, PTL

-----------------------------------------------------------------------------
(***************************************************************************)
(* What the reads return: numbers, bytes and characters, and a position    *)
(* after the one they started from.                                        *)
(***************************************************************************)

\* The groups of a varint that ends at `end`, one by one from its end.
Grouped(g, s, end, k) ==
  \A n \in 0..k : g[n] = IF n = 0 THEN 0 ELSE (s[end + 1 - n] % 128) + 128 * g[n - 1]

\* The seven-bit groups of a varint make a number (Reader::varint).
LEMMA GroupsAre ==
  ASSUME NEW s \in Seq(Byte), NEW at \in Nat, NEW end \in Nat, at < end, end <= Len(s)
  PROVE  /\ Groups(s, at, end) \in [0..(end - at) -> Nat]
         /\ Grouped(Groups(s, at, end), s, end, end - at)
<1>0. PICK k \in Nat : k = end - at
  OBVIOUS
<1> DEFINE E(n, v) == (s[end + 1 - n] % 128) + 128 * v
           value[n \in 0..k] == IF n = 0 THEN 0 ELSE (s[end + 1 - n] % 128) + 128 * value[n - 1]
<1>1. ASSUME NEW n \in 1..k PROVE s[end + 1 - n] % 128 \in Nat
  <2>1. end + 1 - n \in 1..Len(s)
    BY <1>0
  <2>2. s[end + 1 - n] \in Byte
    BY <2>1
  <2>3. \A b \in 0..255 : b % 128 \in Nat
    OBVIOUS
  <2> QED
    BY <2>2, <2>3 DEF Byte
<1>2. ASSUME NEW n \in 1..k, NEW v \in Nat PROVE E(n, v) \in Nat
  BY <1>1
<1> HIDE DEF E
<1>3. PICK f \in [0..k -> Nat] : f[0] = 0 /\ \A n \in 1..k : f[n] = E(n, f[n - 1])
  <2> DEFINE G == [n \in 1..k |-> [v \in Nat |-> E(n, v)]]
  <2>1. G \in [1..k -> [Nat -> Nat]]
    <3>1. \A n \in 1..k : [v \in Nat |-> E(n, v)] \in [Nat -> Nat]
      BY <1>2
    <3> QED
      BY <3>1
  <2>2. \A n \in 1..k, v \in Nat : G[n][v] = E(n, v)
    OBVIOUS
  <2>0. 0 \in Nat
    OBVIOUS
  <2> HIDE DEF G
  <2>3. PICK f \in [0..k -> Nat] : Iterates(f, k, 0, G)
    BY <2>0, <2>1, IntervalRecursion
  <2>4. \A n \in 1..k : n - 1 \in 0..k
    OBVIOUS
  <2> QED
    BY <2>2, <2>3, <2>4 DEF Iterates
<1>4. f = [n \in 0..k |-> IF n = 0 THEN 0 ELSE E(n, f[n - 1])]
  <2>1. \A n \in 0..k : n # 0 => n \in 1..k
    OBVIOUS
  <2> QED
    BY <1>3, <2>1
<1>5. value = [n \in 0..k |-> IF n = 0 THEN 0 ELSE E(n, value[n - 1])]
  BY <1>4 DEF E
<1> HIDE DEF value
<1>6. 0..k \subseteq {n \in 0..k : value[n] \in Nat}
  <2> DEFINE T == {n \in 0..k : value[n] \in Nat}
  <2>1. 0 \in T
    BY <1>5
  <2>2. ASSUME NEW n \in 1..k, n - 1 \in T PROVE n \in T
    <3>1. value[n] = E(n, value[n - 1])
      BY <1>5
    <3>2. value[n - 1] \in Nat /\ n \in 0..k
      BY <2>2
    <3>3. E(n, value[n - 1]) \in Nat
      BY <1>2, <3>2
    <3> QED
      BY <3>1, <3>2, <3>3
  <2>3. 0..k \subseteq T
    <3> HIDE DEF T
    <3> QED
      BY <2>1, <2>2, IntervalInductive
  <2> QED
    BY <2>3
<1>7. value \in [0..k -> Nat]
  BY <1>5, <1>6
<1>8. Groups(s, at, end) = value
  BY <1>0 DEF Groups, value
<1>9. Grouped(value, s, end, k)
  BY <1>5 DEF E, Grouped
<1> QED
  BY <1>0, <1>7, <1>8, <1>9

LEMMA GroupsNat ==
  ASSUME NEW s \in Seq(Byte), NEW at \in Nat, NEW end \in Nat, at < end, end <= Len(s)
  PROVE  Groups(s, at, end) \in [0..(end - at) -> Nat]
BY GroupsAre

\* A varint that was read is a number and takes at least a byte.
LEMMA VarintForward ==
  ASSUME NEW s \in Seq(Byte), NEW at \in Nat, GetVarint(s, at).err = "none"
  PROVE  /\ GetVarint(s, at).val \in Nat
         /\ GetVarint(s, at).pos \in (at + 1)..Len(s)
<1>1. PICK end : end = GetVarint(s, at).pos
  OBVIOUS
<1>2. end \in VarintEnds(s, at) /\ GetVarint(s, at).val = VarintAt(s, at, end)
  BY <1>1, VarintInBuffer
<1>3. end \in (at + 1)..Len(s)
  <2>1. end \in (at + 1)..(at + MaxVarintBytes) /\ end <= Len(s)
    BY <1>2 DEF VarintEnds
  <2> QED
    BY <2>1, WireAssumption
<1>4. VarintAt(s, at, end) \in Nat
  <2>1. Groups(s, at, end) \in [0..(end - at) -> Nat] /\ end - at \in 0..(end - at)
    BY <1>3, GroupsNat
  <2>2. PICK n \in Nat : n = Groups(s, at, end)[end - at]
    BY <2>1
  <2>3. PICK m \in Nat \ {0} : m = 2^Width
    BY PowersAssumption
  <2>4. n % m \in Nat
    OBVIOUS
  <2> QED
    BY <2>2, <2>3, <2>4 DEF VarintAt
<1> QED
  BY <1>1, <1>2, <1>3, <1>4

\* A sequence whose elements are in a set is a sequence over it.
LEMMA SeqOver ==
  ASSUME NEW S, NEW T, NEW v \in Seq(S), \A i \in 1..Len(v) : v[i] \in T
  PROVE  v \in Seq(T)
<1>1. Len(v) \in Nat /\ DOMAIN v = 1..Len(v)
  OBVIOUS
<1>2. v = [i \in 1..Len(v) |-> v[i]]
  BY <1>1
<1>3. v \in [1..Len(v) -> T]
  BY <1>2
<1> QED
  BY <1>1, <1>3

\* A length that was read takes at least a byte, and what it measures comes after.
LEMMA LengthForward ==
  ASSUME NEW s \in Seq(Byte), NEW at \in Nat, NEW e, e # "none",
         GetLength(s, at, e).err = "none"
  PROVE  /\ GetLength(s, at, e).pos \in (at + 1)..Len(s)
         /\ GetLength(s, at, e).val \in GetLength(s, at, e).pos..Len(s)
<1>1. PICK len : len = GetVarint(s, at)
  OBVIOUS
<1>2. len.err = "none" /\ GetLength(s, at, e) = EndOf(s, len.pos, len.val, e)
  BY <1>1 DEF GetLength, LengthFrom
<1>3. len.val \in Nat /\ len.pos \in (at + 1)..Len(s)
  BY <1>1, <1>2, VarintForward
<1>4. len.pos + len.val <= Len(s) /\ GetLength(s, at, e) = Read(len.pos + len.val, len.pos)
  BY <1>2 DEF EndOf, NoRead
<1>5. GetLength(s, at, e).pos = len.pos /\ GetLength(s, at, e).val = len.pos + len.val
  BY <1>4 DEF Read
<1> QED
  BY <1>3, <1>4, <1>5

\* Bytes that were read are bytes of the buffer (Reader::bytes_view).
LEMMA BytesForward ==
  ASSUME NEW s \in Seq(Byte), NEW at \in Nat, GetBytes(s, at).err = "none"
  PROVE  /\ GetBytes(s, at).pos \in (at + 1)..Len(s)
         /\ GetBytes(s, at).val \in Seq(Byte)
<1>1. PICK end : end = GetLength(s, at, "TruncatedLengthDelim")
  OBVIOUS
<1>2. /\ end.err = "none" /\ GetBytes(s, at).pos = end.val
      /\ GetBytes(s, at).val = SubSeq(s, end.pos + 1, end.val)
  BY <1>1 DEF GetBytes, BytesUpTo, Read
<1>3. end.pos \in (at + 1)..Len(s) /\ end.val \in end.pos..Len(s)
  BY <1>1, <1>2, LengthForward
<1>4. \A i \in (end.pos + 1)..end.val : s[i] \in Byte
  BY <1>3
<1>5. SubSeq(s, end.pos + 1, end.val) \in Seq(Byte)
  BY <1>3, <1>4
<1> QED
  BY <1>2, <1>3, <1>5

\* A string that was read is made of characters (Reader::string).
LEMMA StringForward ==
  ASSUME NEW s \in Seq(Byte), NEW at \in Nat, GetString(s, at).err = "none"
  PROVE  /\ GetString(s, at).pos \in (at + 1)..Len(s)
         /\ GetString(s, at).val \in Seq(0..127)
<1>1. PICK b : b = GetBytes(s, at)
  OBVIOUS
<1>2. GetString(s, at) = b /\ b.err = "none" /\ \A i \in DOMAIN b.val : ~(b.val[i] >= 128)
  BY <1>1 DEF GetString, Utf8, NoRead
<1>3. b.pos \in (at + 1)..Len(s) /\ b.val \in Seq(Byte)
  BY <1>1, <1>2, BytesForward
<1>4. PICK v \in Seq(Byte) : v = b.val
  BY <1>3
<1>5. ASSUME NEW i \in 1..Len(v) PROVE v[i] \in 0..127
  <2>1. v[i] \in Byte /\ ~(v[i] >= 128)
    BY <1>2, <1>4
  <2>2. PICK n : n = v[i]
    OBVIOUS
  <2>3. n \in 0..255 /\ ~(n >= 128)
    BY <2>1, <2>2 DEF Byte
  <2>4. n \in 0..127
    BY <2>3
  <2> QED
    BY <2>2, <2>4
<1>6. v \in Seq(0..127)
  BY <1>4, <1>5, SeqOver
<1> QED
  BY <1>2, <1>3, <1>4, <1>6

\* What was skipped takes at least a byte (Reader::skip).
LEMMA SkipForward ==
  ASSUME NEW s \in Seq(Byte), NEW at \in Nat, NEW wt, GetSkip(s, at, wt).err = "none"
  PROVE  GetSkip(s, at, wt).pos \in (at + 1)..Len(s)
<1> USE DEF GetSkip, Varint, Fixed64, Fixed32, LengthDelimited
<1>1. CASE wt = 0
  BY <1>1, VarintForward
<1>2. CASE wt = 1
  <2>1. GetSkip(s, at, wt) = GetFixed(s, at, 8, "TruncatedFixed64")
    BY <1>2
  <2> QED
    BY <2>1 DEF GetFixed, Read, NoRead
<1>3. CASE wt = 5
  <2>1. GetSkip(s, at, wt) = GetFixed(s, at, 4, "TruncatedFixed32")
    BY <1>3
  <2> QED
    BY <2>1 DEF GetFixed, Read, NoRead
<1>4. CASE wt = 2
  BY <1>4, BytesForward
<1>5. CASE wt \notin {0, 1, 2, 5}
  BY <1>5 DEF NoRead
<1> QED
  BY <1>1, <1>2, <1>3, <1>4, <1>5

\* A tag that was read takes at least a byte (Reader::tag).
LEMMA TagForward ==
  ASSUME NEW s \in Seq(Byte), NEW at \in Nat, GetTag(s, at).err = "none"
  PROVE  GetTag(s, at).pos \in (at + 1)..Len(s)
<1>1. PICK t : t = GetVarint(s, at)
  OBVIOUS
<1>2. t.err = "none" /\ GetTag(s, at).pos = t.pos
  BY <1>1 DEF GetTag, TagFrom, TagAt, Read, NoRead
<1> QED
  BY <1>1, <1>2, VarintForward

\* A number cut to 32 bits is one of a signed integer (`as i32`).
LEMMA SignedFits ==
  ASSUME NEW v \in Nat
  PROVE  AsInt32(v) \in -(2^(Width32 - 1))..(2^(Width32 - 1) - 1)
<1>1. PICK half \in Nat : half = 2^(Width32 - 1)
  BY PowersAssumption
<1>2. 2^Width32 = 2 * half /\ half > 0
  BY <1>1, PowersAssumption
<1>3. PICK all \in Nat : all = 2 * half /\ all > 0
  BY <1>2
<1>4. PICK u \in 0..(all - 1) : u = v % all
  BY <1>3
<1>5. AsInt32(v) = IF u < half THEN u ELSE u - all
  <2>1. AsInt32(v) = Signed(v % all) /\ v % all = u
    BY <1>2, <1>3, <1>4 DEF AsInt32
  <2> QED
    BY <1>1, <1>2, <1>3, <2>1 DEF Signed
<1>6. AsInt32(v) \in -half..(half - 1)
  BY <1>2, <1>3, <1>4, <1>5
<1> QED
  BY <1>1, <1>6

\* A scalar that was read is of its kind, and takes at least a byte.
LEMMA ScalarForward ==
  ASSUME data \in Seq(Byte), NEW kind, NEW at \in Nat, Scalar(kind, at).err = "none"
  PROVE  /\ Scalar(kind, at).pos \in (at + 1)..Len(data)
         /\ kind \in Scalars => ValueOK(kind, Decoded(kind, Scalar(kind, at).val))
<1>1. CASE kind = "int32"
  <2>1. Scalar(kind, at) = GetVarint(data, at)
    BY <1>1 DEF Scalar
  <2>2. PICK v \in Nat : v = Scalar(kind, at).val
    BY <2>1, VarintForward
  <2>3. ValueOK(kind, Decoded(kind, v))
    BY <1>1, SignedFits DEF ValueOK, Decoded
  <2> QED
    BY <2>1, <2>2, <2>3, VarintForward
<1>2. CASE kind = "bytes"
  <2>1. Scalar(kind, at) = GetBytes(data, at)
    BY <1>2 DEF Scalar
  <2> QED
    BY <1>2, <2>1, BytesForward DEF ValueOK, Decoded
<1>3. CASE kind \notin {"int32", "bytes"}
  <2>1. Scalar(kind, at) = GetString(data, at)
    BY <1>3 DEF Scalar
  <2>2. kind \in Scalars => kind = "string"
    BY <1>3 DEF Scalars
  <2> QED
    BY <1>3, <2>1, <2>2, StringForward DEF ValueOK, Decoded
<1> QED
  BY <1>1, <1>2, <1>3

-----------------------------------------------------------------------------
(***************************************************************************)
(* The second inductive invariant, which rests on the first: the variables *)
(* have their types, and only a message field is entered.                  *)
(***************************************************************************)
Nested == \A k \in 2..Len(stack) : stack[k].field.kind \in Nestings

Typed == TypeOK /\ Nested

\* What the errors of the reads are.
LEMMA ReadErrors ==
  ASSUME NEW s, NEW at
  PROVE  /\ GetVarint(s, at).err \in Errors \cup {"none"}
         /\ GetTag(s, at).err \in Errors \cup {"none"}
         /\ \A e \in Errors : GetLength(s, at, e).err \in Errors \cup {"none"}
         /\ GetBytes(s, at).err \in Errors \cup {"none"}
         /\ GetString(s, at).err \in Errors \cup {"none"}
         /\ \A wt : GetSkip(s, at, wt).err \in Errors \cup {"none"}
<1>1. GetVarint(s, at).err \in Errors \cup {"none"}
  BY DEF GetVarint, VarintUpTo, VarintTo, Read, NoRead, Errors
<1>2. GetTag(s, at).err \in Errors \cup {"none"}
  BY <1>1 DEF GetTag, TagFrom, TagAt, Read, NoRead, Errors
<1>3. ASSUME NEW e \in Errors PROVE GetLength(s, at, e).err \in Errors \cup {"none"}
  BY <1>1 DEF GetLength, LengthFrom, EndOf, Read, NoRead
<1>4. GetBytes(s, at).err \in Errors \cup {"none"}
  <2>1. "TruncatedLengthDelim" \in Errors
    BY DEF Errors
  <2> QED
    BY <1>3, <2>1 DEF GetBytes, BytesUpTo, Read
<1>5. GetString(s, at).err \in Errors \cup {"none"}
  BY <1>4 DEF GetString, Utf8, NoRead, Errors
<1>6. ASSUME NEW wt PROVE GetSkip(s, at, wt).err \in Errors \cup {"none"}
  BY <1>1, <1>4 DEF GetSkip, GetFixed, Read, NoRead, Errors
<1> QED
  BY <1>1, <1>2, <1>3, <1>4, <1>5, <1>6

\* A message that was just entered has values of the kinds of its fields.
LEMMA FreshTyped ==
  ASSUME NEW type \in DOMAIN Schema, NEW field \in FieldType, NEW end \in Nat
  PROVE  FrameOK(Frame(type, field, end))
<1> DEFINE frame == Frame(type, field, end)
<1>1. frame.type = type /\ frame.end = end /\ frame.value = Default(type) /\ frame.field = field
  BY DEF Frame
<1>2. ASSUME NEW f \in FieldsOf(type) PROVE ValueOK(f.kind, Default(type)[f.name])
  <2>1. (CHOOSE g \in FieldsOf(type) : g.name = f.name) = f
    BY FieldsApart
  <2>2. Default(type)[f.name] = Empty(f.kind)
    BY <2>1 DEF Default
  <2>3. CASE f.kind = "int32"
    <3>1. PICK half \in Nat : half = 2^(Width32 - 1) /\ half > 0
      BY PowersAssumption
    <3>2. 0 \in -half..(half - 1)
      BY <3>1
    <3> QED
      BY <2>2, <2>3, <3>1, <3>2 DEF Empty, ValueOK
  <2>4. CASE f.kind # "int32"
    <3>1. <<>> \in Seq(Byte) /\ <<>> \in Seq(0..127) /\ Len(<<>>) \in Nat
      OBVIOUS
    <3> QED
      BY <2>2, <2>4, <3>1 DEF Empty, ValueOK
  <2> QED
    BY <2>3, <2>4
<1> QED
  BY <1>1, <1>2 DEF FrameOK

\* What a field holds after a value of its kind was merged into it.
LEMMA MergedTyped ==
  ASSUME limits \in Limit, NEW old, IsFrame(old), Sane(old), FrameOK(old),
         NEW field, field \in FieldsOf(old.type), NEW new,
         ~Refused(field, old.value[field.name], new),
         field.kind \in Scalars => ValueOK(field.kind, new)
  PROVE  ValueOK(field.kind, Merged(field, old.value[field.name], new))
<1>1. CASE field.kind \in Listed
  <2>1. Counted(old.value[field.name])
    BY <1>1 DEF Sane
  <2>2. Counted(Merged(field, old.value[field.name], new))
    BY <1>1, <2>1, MergedCounted
  <2>3. Len(Merged(field, old.value[field.name], new)) \in Nat
    BY <2>2 DEF Counted
  <2> QED
    BY <1>1, <2>3 DEF ValueOK, Listed
<1>2. CASE field.kind = "message"
  BY <1>2 DEF Merged, ValueOK
<1>3. CASE field.kind \in Scalars
  BY <1>3 DEF Merged, Scalars
<1>4. field.kind \in Kinds
  BY SchemaAssumption DEF FrameOK, FieldsOf, FieldType
<1> QED
  BY <1>1, <1>2, <1>3, <1>4 DEF Kinds, Nestings, Listed

\* A message keeps its types when one of its fields takes a value of its kind.
LEMMA PutTyped ==
  ASSUME limits \in Limit, NEW old, IsFrame(old), Sane(old), FrameOK(old),
         NEW field, field \in FieldsOf(old.type), NEW val, ValueOK(field.kind, val)
  PROVE  FrameOK(Put(old, field.name, val))
<1>1. PICK frame : frame = Put(old, field.name, val)
  OBVIOUS
<1> DEFINE put == [old.value EXCEPT ![field.name] = val]
<1>2. /\ frame.type = old.type /\ frame.field = old.field /\ frame.end = old.end
      /\ frame.value = put
  <2>1. frame.type = old.type /\ frame.field = old.field /\ frame.end = old.end
    BY <1>1, PutParts
  <2>2. frame.value = put
    BY <1>1, PutValue
  <2> QED
    BY <2>1, <2>2
<1>3. DOMAIN old.value = Names(old.type)
  BY DEF Sane
<1>4. ASSUME NEW f \in FieldsOf(old.type) PROVE ValueOK(f.kind, frame.value[f.name])
  <2>1. f.name \in Names(old.type) /\ field.name \in Names(old.type)
    BY DEF Names
  <2>2. CASE f = field
    BY <1>2, <1>3, <2>1, <2>2
  <2>3. CASE f # field
    <3>1. f.name # field.name
      BY <2>3, FieldsApart DEF IsFrame, Frames
    <3> QED
      BY <1>2, <1>3, <2>1, <3>1 DEF FrameOK
  <2> QED
    BY <2>2, <2>3
<1> QED
  BY <1>1, <1>2, <1>4 DEF FrameOK

\* The stack after a value has entered the message at index k.
LEMMA MergedStack ==
  ASSUME Reading, NEW k \in 1..Len(stack), NEW field, NEW val,
         stack' = [SubSeq(stack, 1, k) EXCEPT ![k].value[field.name] = val]
  PROVE  /\ Len(stack') = k /\ stack'[k] = Put(stack[k], field.name, val)
         /\ \A i \in 1..(k - 1) : stack'[i] = stack[i]
<1>1. PICK E, V : stack \in Seq(Frames(E, V))
  BY DEF Reading
<1>2. PICK sub : sub = SubSeq(stack, 1, k)
  OBVIOUS
<1>3. Len(stack) \in Nat /\ k \in Nat /\ k > 0
  BY <1>1
<1>4. sub \in Seq(Frames(E, V)) /\ Len(sub) = k /\ \A i \in 1..k : sub[i] = stack[i]
  BY <1>1, <1>2, <1>3
<1>0. PICK frame : frame = Put(stack[k], field.name, val)
  OBVIOUS
<1>5. stack' = [sub EXCEPT ![k] = frame]
  <2>1. stack' = [sub EXCEPT ![k] = [sub[k] EXCEPT !.value[field.name] = val]]
    BY <1>2
  <2>2. sub[k] = stack[k]
    BY <1>3, <1>4
  <2> QED
    BY <1>0, <2>1, <2>2 DEF Put
<1>6. Len(stack') = k /\ stack'[k] = frame /\ \A i \in 1..(k - 1) : stack'[i] = sub[i]
  BY <1>3, <1>4, <1>5
<1>7. \A i \in 1..(k - 1) : i \in 1..k
  BY <1>3
<1>8. \A i \in 1..(k - 1) : stack'[i] = stack[i]
  BY <1>4, <1>6, <1>7
<1> QED
  BY <1>0, <1>6, <1>8

LEMMA FrameFacts ==
  ASSUME Reading, TypeOK, NEW k \in 1..Len(stack)
  PROVE  IsFrame(stack[k]) /\ Sane(stack[k]) /\ FrameOK(stack[k])
<1>1. PICK E, V : stack \in Seq(Frames(E, V))
  BY DEF Reading
<1>2. stack[k] \in Frames(E, V)
  BY <1>1
<1> QED
  BY <1>2 DEF IsFrame, Reading, TypeOK

\* A step that leaves the messages alone.
LEMMA TypedKept ==
  ASSUME Typed, UNCHANGED <<data, limits, stack>>, pos' \in Nat, depth' \in Nat,
         err' \in Errors \cup {"none", "done"}
  PROVE  Typed'
<1>1. \A k \in 1..Len(stack) : FrameOK(stack[k])'
  BY DEF Typed, TypeOK, FrameOK
<1> QED
  BY <1>1 DEF Typed, TypeOK, Nested

\* A value of the kind of a field enters the message at index k.
LEMMA MergeTyped ==
  ASSUME Reading, Typed, UNCHANGED <<data, limits>>, pos' \in Nat, depth' \in Nat,
         err = "none", NEW k \in 1..Len(stack), NEW field, field \in FieldsOf(stack[k].type),
         NEW val, field.kind \in Scalars => ValueOK(field.kind, val), Merge(k, field, val)
  PROVE  Typed' /\ (err' = "none" => Len(stack') = k)
<1>1. CASE err' = "RepeatedCountExceeded" /\ UNCHANGED stack
  BY <1>1, TypedKept DEF Errors
<1>2. CASE /\ ~Refused(field, stack[k].value[field.name], val)
           /\ stack' = [SubSeq(stack, 1, k) EXCEPT
                          ![k].value[field.name] = Merged(field, stack[k].value[field.name], val)]
           /\ UNCHANGED err
  <2>1. PICK old : old = stack[k]
    OBVIOUS
  <2>2. PICK new : new = Merged(field, old.value[field.name], val)
    OBVIOUS
  <2>3. IsFrame(old) /\ Sane(old) /\ FrameOK(old)
    BY <2>1, FrameFacts DEF Typed
  <2>4. limits \in Limit /\ field \in FieldsOf(old.type)
    BY <2>1 DEF Reading
  <2>5. ValueOK(field.kind, new)
    BY <1>2, <2>1, <2>2, <2>3, <2>4, MergedTyped
  <2>6. FrameOK(Put(old, field.name, new))
    BY <2>3, <2>4, <2>5, PutTyped
  <2>7. /\ Len(stack') = k /\ stack'[k] = Put(old, field.name, new)
        /\ \A i \in 1..(k - 1) : stack'[i] = stack[i]
    <3>1. stack' = [SubSeq(stack, 1, k) EXCEPT ![k].value[field.name] = new]
      BY <1>2, <2>1, <2>2
    <3> QED
      BY <2>1, <3>1, MergedStack
  <2>8. stack'[k].field = old.field
    BY <2>3, <2>7, PutParts
  <2>9. ASSUME NEW i \in 1..Len(stack') PROVE FrameOK(stack'[i])
    <3>1. CASE i = k
      BY <2>6, <2>7, <3>1
    <3>2. CASE i # k
      <4>1. i \in 1..(k - 1) /\ i \in 1..Len(stack)
        BY <2>7, <3>2
      <4>2. FrameOK(stack[i]) /\ stack'[i] = stack[i]
        BY <2>7, <4>1 DEF Typed, TypeOK
      <4> QED
        BY <4>2
    <3> QED
      BY <3>1, <3>2
  <2>10. ASSUME NEW i \in 2..Len(stack') PROVE stack'[i].field.kind \in Nestings
    <3>0. i \in 2..Len(stack)
      BY <2>7
    <3>1. CASE i = k
      BY <2>1, <2>8, <3>0, <3>1 DEF Typed, Nested
    <3>2. CASE i # k
      <4>1. i \in 1..(k - 1)
        BY <2>7, <3>2
      <4>2. stack[i].field.kind \in Nestings /\ stack'[i] = stack[i]
        BY <2>7, <3>0, <4>1 DEF Typed, Nested
      <4> QED
        BY <4>2
    <3> QED
      BY <3>1, <3>2
  <2>11. Len(stack') > 0
    BY <2>7
  <2>12. \A i \in 1..Len(stack') : FrameOK(stack[i])'
    BY <2>9 DEF FrameOK
  <2> QED
    BY <1>2, <2>7, <2>10, <2>11, <2>12 DEF Typed, TypeOK, Nested
<1> QED
  BY <1>1, <1>2 DEF Merge

LEMMA TypedInit == Init => Typed
<1> SUFFICES ASSUME Init PROVE Typed
  OBVIOUS
<1>1. limits \in Limit /\ data \in Seq(Byte) /\ Len(data) \in Nat
  BY DecodesAssumption DEF Init
<1>2. PICK frame : frame = Frame(Root, RootField, Len(data))
  OBVIOUS
<1>3. stack = <<frame>>
  BY <1>2 DEF Init
<1>4. Root \in DOMAIN Schema /\ RootField \in FieldType
  BY SchemaAssumption DEF RootField, FieldType, Kinds, Nestings
<1>5. FrameOK(frame)
  BY <1>1, <1>2, <1>4, FreshTyped
<1>6. Len(stack) = 1 /\ stack[1] = frame
  BY <1>3
<1> QED
  BY <1>1, <1>5, <1>6 DEF Init, Typed, TypeOK, Nested

\* What a step of the decoder does: it returns, moves on in the buffer, or leaves
\* a message.
Onward ==
  \/ err' # "none"
  \/ pos' \in (pos + 1)..Len(data)
  \/ pos' = pos /\ Len(stack') < Len(stack)

LEMMA FailTyped ==
  ASSUME Typed, NEW e \in Errors, Fail(e)
  PROVE  Typed' /\ Onward
<1>1. e # "none"
  BY DEF Errors
<1> QED
  BY <1>1, TypedKept DEF Fail, Typed, TypeOK, Onward

LEMMA ScalarTyped ==
  ASSUME Reading, Typed, err = "none", NEW field \in FieldsOf(Top.type),
         NEW at \in Nat, at >= pos, ReadScalar(field, at)
  PROVE  Typed' /\ Onward
<1>1. PICK r : r = Scalar(field.kind, at)
  OBVIOUS
<1>2. CASE r.err # "none" /\ Fail(r.err)
  <2>1. r.err \in Errors
    BY <1>1, <1>2, ReadErrors DEF Scalar
  <2> QED
    BY <1>2, <2>1, FailTyped
<1>3. CASE /\ r.err = "none" /\ pos' = r.pos
           /\ Merge(Len(stack), field, Decoded(field.kind, r.val))
           /\ UNCHANGED <<data, limits, depth>>
  <2>1. data \in Seq(Byte) /\ pos \in Nat /\ depth \in Nat
    BY DEF Typed, TypeOK
  <2>2. /\ r.pos \in (at + 1)..Len(data)
        /\ field.kind \in Scalars => ValueOK(field.kind, Decoded(field.kind, r.val))
    BY <1>1, <1>3, <2>1, ScalarForward
  <2>3. pos' \in (pos + 1)..Len(data) /\ pos' \in Nat
    <3>1. Len(data) \in Nat
      BY <2>1
    <3> QED
      BY <1>3, <2>1, <2>2, <3>1
  <2>4. Len(stack) \in 1..Len(stack)
    BY DEF Reading
  <2> QED
    BY <1>3, <2>1, <2>2, <2>3, <2>4, MergeTyped DEF Top, Onward
<1> QED
  BY <1>1, <1>2, <1>3 DEF ReadScalar, ScalarRead

LEMMA EnterTyped ==
  ASSUME Reading, Typed, err = "none", NEW field \in FieldsOf(Top.type),
         NEW at \in Nat, at >= pos, EnterMessage(field, at)
  PROVE  Typed' /\ Onward
<1>1. PICK end : end = GetLength(data, at, "NestedExceedsBuffer")
  OBVIOUS
<1>2. CASE end.err # "none" /\ Fail(end.err)
  <2>1. "NestedExceedsBuffer" \in Errors
    BY DEF Errors
  <2>2. end.err \in Errors
    BY <1>1, <1>2, <2>1, ReadErrors
  <2> QED
    BY <1>2, <2>2, FailTyped
<1>3. CASE Fail("DepthExceeded")
  <2>1. "DepthExceeded" \in Errors
    BY DEF Errors
  <2> QED
    BY <1>3, <2>1, FailTyped
<1>4. CASE /\ end.err = "none" /\ depth < limits.max_nesting_depth
           /\ depth' = depth + 1 /\ pos' = end.pos
           /\ stack' = Append(stack, Frame(field.of, field, end.val))
           /\ UNCHANGED <<data, limits, err>>
  <2>1. data \in Seq(Byte) /\ pos \in Nat /\ depth \in Nat /\ Len(data) \in Nat
    BY DEF Typed, TypeOK
  <2>2. end.pos \in (at + 1)..Len(data) /\ end.val \in Nat
    <3>1. end.pos \in (at + 1)..Len(data) /\ end.val \in end.pos..Len(data)
      BY <1>1, <1>4, <2>1, LengthForward
    <3> QED
      BY <2>1, <3>1
  <2>3. pos' \in (pos + 1)..Len(data) /\ pos' \in Nat
    BY <1>4, <2>1, <2>2
  <2>4. PICK frame : frame = Frame(field.of, field, end.val)
    OBVIOUS
  <2>5. Len(stack) \in Nat /\ Top.type \in DOMAIN Schema
    <3>1. Len(stack) \in 1..Len(stack) /\ Len(stack) \in Nat
      BY DEF Reading
    <3> QED
      BY <3>1 DEF Top, Typed, TypeOK, FrameOK
  <2>6. field \in FieldType /\ field.of \in DOMAIN Schema /\ field.kind \in Nestings
    BY <2>5, SchemaAssumption DEF FieldsOf, EnterMessage
  <2>7. FrameOK(frame) /\ frame.field = field
    BY <2>2, <2>4, <2>6, FreshTyped DEF Frame
  <2>8. /\ Len(stack') = Len(stack) + 1 /\ stack'[Len(stack) + 1] = frame
        /\ \A k \in 1..Len(stack) : stack'[k] = stack[k]
    <3>1. PICK E, V : stack \in Seq(Frames(E, V))
      BY DEF Reading
    <3>2. stack' = Append(stack, frame)
      BY <1>4, <2>4
    <3> QED
      BY <3>1, <3>2
  <2>9. ASSUME NEW k \in 1..Len(stack') PROVE FrameOK(stack'[k])
    <3>1. CASE k = Len(stack) + 1
      BY <2>7, <2>8, <3>1
    <3>2. CASE k # Len(stack) + 1
      <4>1. k \in 1..Len(stack)
        BY <2>5, <2>8, <3>2
      <4>2. FrameOK(stack[k]) /\ stack'[k] = stack[k]
        BY <2>8, <4>1 DEF Typed, TypeOK
      <4> QED
        BY <4>2
    <3> QED
      BY <3>1, <3>2
  <2>10. ASSUME NEW k \in 2..Len(stack') PROVE stack'[k].field.kind \in Nestings
    <3>1. CASE k = Len(stack) + 1
      BY <2>6, <2>7, <2>8, <3>1
    <3>2. CASE k # Len(stack) + 1
      <4>1. k \in 2..Len(stack) /\ k \in 1..Len(stack)
        BY <2>5, <2>8, <3>2
      <4>2. stack[k].field.kind \in Nestings /\ stack'[k] = stack[k]
        BY <2>8, <4>1 DEF Typed, Nested
      <4> QED
        BY <4>2
    <3> QED
      BY <3>1, <3>2
  <2>11. \A k \in 1..Len(stack') : FrameOK(stack[k])'
    BY <2>9 DEF FrameOK
  <2>12. Len(stack') > 0 /\ depth' \in Nat
    BY <1>4, <2>1, <2>5, <2>8
  <2> QED
    BY <1>4, <2>3, <2>10, <2>11, <2>12 DEF Typed, TypeOK, Nested, Onward
<1> QED
  BY <1>1, <1>2, <1>3, <1>4 DEF EnterMessage, Enter

LEMMA ReadFieldTyped ==
  ASSUME Reading, Typed, ReadField
  PROVE  Typed' /\ Onward
<1>1. PICK t : t = GetTag(data, pos)
  OBVIOUS
<1>2. err = "none" /\ data \in Seq(Byte) /\ pos \in Nat
  BY DEF ReadField, Typed, TypeOK
<1>3. CASE t.err # "none" /\ Fail(t.err)
  <2>1. t.err \in Errors
    BY <1>1, <1>3, ReadErrors
  <2> QED
    BY <1>3, <2>1, FailTyped
<1>4. CASE t.err = "none" /\ Field(t.val, t.pos)
  <2>1. t.pos \in (pos + 1)..Len(data)
    BY <1>1, <1>2, <1>4, TagForward
  <2>2. t.pos \in Nat /\ t.pos >= pos
    BY <1>2, <2>1
  <2>3. CASE /\ t.val.number \in DOMAIN Schema[Top.type]
             /\ ReadKnown(Schema[Top.type][t.val.number], t.pos)
    <3>1. PICK field : field = Schema[Top.type][t.val.number]
      OBVIOUS
    <3>2. field \in FieldsOf(Top.type)
      BY <2>3, <3>1 DEF FieldsOf
    <3>3. CASE ReadScalar(field, t.pos)
      BY <1>2, <2>2, <3>2, <3>3, ScalarTyped
    <3>4. CASE EnterMessage(field, t.pos)
      BY <1>2, <2>2, <3>2, <3>4, EnterTyped
    <3> QED
      BY <2>3, <3>1, <3>3, <3>4 DEF ReadKnown
  <2>4. CASE Skipped(GetSkip(data, t.pos, t.val.type))
    <3>1. PICK r : r = GetSkip(data, t.pos, t.val.type)
      OBVIOUS
    <3>2. CASE r.err # "none" /\ Fail(r.err)
      <4>1. r.err \in Errors
        BY <3>1, <3>2, ReadErrors
      <4> QED
        BY <3>2, <4>1, FailTyped
    <3>3. CASE r.err = "none" /\ pos' = r.pos /\ UNCHANGED <<data, limits, depth, stack, err>>
      <4>1. r.pos \in (t.pos + 1)..Len(data)
        BY <1>2, <2>2, <3>1, <3>3, SkipForward
      <4>2. pos' \in Nat /\ pos' \in (pos + 1)..Len(data)
        BY <1>2, <2>2, <3>3, <4>1
      <4> QED
        BY <3>3, <4>2, TypedKept DEF Typed, TypeOK, Onward
    <3> QED
      BY <2>4, <3>1, <3>2, <3>3 DEF Skipped
  <2> QED
    BY <1>4, <2>3, <2>4 DEF Field
<1> QED
  BY <1>1, <1>3, <1>4 DEF ReadField, Tagged

LEMMA LeaveTyped ==
  ASSUME Reading, Typed, LeaveMessage
  PROVE  Typed' /\ Onward
<1>1. /\ err = "none" /\ Len(stack) > 1 /\ depth' = depth - 1
      /\ UNCHANGED <<data, limits, pos>>
  BY DEF LeaveMessage
<1>2. PICK k : k = Len(stack) - 1
  OBVIOUS
<1>3. Len(stack) \in Nat /\ k \in 1..Len(stack) /\ depth = k /\ pos \in Nat /\ k < Len(stack)
  <2>1. Len(stack) \in Nat /\ depth = Len(stack) - 1 /\ pos \in Nat
    BY <1>1 DEF Reading, DepthBounded, Typed, TypeOK
  <2> QED
    BY <1>1, <1>2, <2>1
<1>4. depth' \in Nat
  BY <1>1, <1>3
<1>5. CASE err' = "Overrun" /\ UNCHANGED stack
  BY <1>1, <1>3, <1>4, <1>5, TypedKept DEF Errors, Onward
<1>6. CASE Merge(k, Top.field, Top.value)
  <2>1. Top.field \in FieldsOf(stack[k].type)
    BY <1>1, <1>2, <1>3 DEF Reading, Top
  <2>2. Top.field.kind \in Nestings
    BY <1>1, <1>3 DEF Typed, Nested, Top
  <2>3. Top.field.kind \notin Scalars
    BY <2>2 DEF Nestings, Scalars
  <2> QED
    BY <1>1, <1>3, <1>4, <1>6, <2>1, <2>3, MergeTyped DEF Onward
<1> QED
  BY <1>2, <1>5, <1>6 DEF LeaveMessage

LEMMA StepTyped ==
  ASSUME Reading, Typed, Next
  PROVE  Typed' /\ (Onward \/ UNCHANGED vars)
<1>1. CASE TooLarge
  <2>1. "MessageTooLarge" \in Errors
    BY DEF Errors
  <2> QED
    BY <1>1, <2>1, FailTyped DEF TooLarge
<1>2. CASE ReadField
  BY <1>2, ReadFieldTyped
<1>3. CASE LeaveMessage
  BY <1>3, LeaveTyped
<1>4. CASE Finish
  BY <1>4, TypedKept DEF Finish, Typed, TypeOK, Onward
<1>5. CASE Returned
  BY <1>5, TypedKept DEF Returned, vars, Typed, TypeOK
<1> QED
  BY <1>1, <1>2, <1>3, <1>4, <1>5 DEF Next

LEMMA TypedStep == Reading /\ Typed /\ [Next]_vars => Typed'
<1>1. CASE Next
  BY <1>1, StepTyped
<1>2. CASE UNCHANGED vars
  BY <1>2, TypedKept DEF vars, Typed, TypeOK
<1> QED
  BY <1>1, <1>2

\* Typed is an invariant of the decoder.
THEOREM DecoderTyped == Spec => []Typed
<1> QED
  BY TypedInit, TypedStep, DecoderReads, PTL DEF Spec

\* What is decoded is of the kind of its field: a number in the range of an i32,
\* the bytes of the buffer, characters only in a string (varint, `as i32`,
\* bytes_view, string).
THEOREM TypeCorrect == Spec => []TypeOK
<1>1. Typed => TypeOK
  BY DEF Typed
<1> QED
  BY <1>1, DecoderTyped, PTL

\* Every step brings the decode nearer to its end (unmarshal_with, read_message).
THEOREM DecodeAdvances == Spec => Advances
<1>1. Reading /\ Typed /\ [Next]_vars =>
        [\/ err' # "none"
         \/ pos' \in (pos + 1)..Len(data)
         \/ pos' = pos /\ Len(stack') < Len(stack)]_vars
  BY StepTyped DEF Onward
<1> QED
  BY <1>1, DecoderReads, DecoderTyped, PTL DEF Spec, Advances

-----------------------------------------------------------------------------
(***************************************************************************)
(* Reading in a part of a buffer.  What is read in the buffer is read in   *)
(* the part if it ends there, and nothing else is.                         *)
(***************************************************************************)
IsPart(u, s, b, e) ==
  /\ b \in Nat /\ e \in b..Len(s) /\ s \in Seq(Byte) /\ u \in Seq(Byte)
  /\ Len(u) = e - b /\ \A i \in 1..Len(u) : u[i] = s[b + i]

LEMMA PartIs ==
  ASSUME NEW s \in Seq(Byte), NEW b \in Nat, NEW e \in b..Len(s)
  PROVE  IsPart(SubSeq(s, b + 1, e), s, b, e)
<1>1. PICK l \in Nat : l = Len(s)
  OBVIOUS
<1>2. b + 1 \in Int /\ e \in Int /\ \A i \in (b + 1)..e : i \in 1..l
  BY <1>1
<1>3. \A i \in (b + 1)..e : s[i] \in Byte
  BY <1>1, <1>2
<1>4. PICK u : u = SubSeq(s, b + 1, e)
  OBVIOUS
<1>5. u \in Seq(Byte) /\ Len(u) = e - b /\ \A i \in 1..(e - b) : u[i] = s[b + i]
  <2>1. u = [i \in 1..(e - b) |-> s[b + i]]
    BY <1>1, <1>4
  <2>2. \A i \in 1..(e - b) : b + i \in (b + 1)..e
    OBVIOUS
  <2>3. e - b \in Nat
    OBVIOUS
  <2> QED
    BY <1>3, <2>1, <2>2, <2>3
<1> QED
  BY <1>4, <1>5 DEF IsPart

\* q is r, as it is read in the part from b to e.
ReadInPart(r, q, b, e) ==
  IF r.err = "none" /\ r.pos <= e THEN q.err = "none" /\ q.pos = r.pos - b /\ q.val = r.val
                                  ELSE q.err # "none"

\* A varint ends at one place.
LEMMA VarintEndsOnce ==
  ASSUME NEW s \in Seq(Byte), NEW at \in Nat, NEW x \in VarintEnds(s, at), NEW y \in VarintEnds(s, at)
  PROVE  x = y
<1>1. x \in Int /\ y \in Int /\ x > at /\ y > at
  BY WireAssumption DEF VarintEnds
<1>2. ASSUME NEW m \in VarintEnds(s, at), NEW n \in VarintEnds(s, at), m \in Int, n \in Int, m > at, m < n
      PROVE  FALSE
  <2>1. s[m] < 128 /\ \A i \in (at + 1)..(n - 1) : s[i] >= 128
    BY DEF VarintEnds
  <2>2. m \in (at + 1)..(n - 1)
    BY <1>2
  <2>3. s[m] >= 128
    BY <2>1, <2>2
  <2>4. m \in 1..Len(s)
    BY <1>2 DEF VarintEnds
  <2>5. s[m] \in Byte
    BY <2>4
  <2>6. PICK v \in 0..255 : v = s[m]
    BY <2>5 DEF Byte
  <2> QED
    BY <2>1, <2>3, <2>6
<1> QED
  BY <1>1, <1>2

LEMMA VarintIs ==
  ASSUME NEW s \in Seq(Byte), NEW at \in Nat, NEW end \in VarintEnds(s, at)
  PROVE  GetVarint(s, at) = Read(VarintAt(s, at, end), end)
<1>1. (CHOOSE x \in VarintEnds(s, at) : TRUE) = end
  BY VarintEndsOnce
<1> QED
  BY <1>1 DEF GetVarint, VarintUpTo, VarintTo

\* A part holds the same numbers.
LEMMA VarintOfPart ==
  ASSUME NEW u, NEW s, NEW b, NEW e, IsPart(u, s, b, e),
         NEW at \in Nat, NEW p \in Nat, at = b + p, NEW end \in Nat, NEW q \in Nat, end = b + q,
         p < q, q <= Len(u)
  PROVE  VarintAt(u, p, q) = VarintAt(s, at, end)
<1>1. /\ b \in Nat /\ s \in Seq(Byte) /\ u \in Seq(Byte) /\ Len(u) \in Nat /\ Len(s) \in Nat
      /\ b + Len(u) <= Len(s) /\ \A i \in 1..Len(u) : u[i] = s[b + i]
  BY DEF IsPart
<1>2. PICK k \in Nat : k = q - p
  OBVIOUS
<1>3. at < end /\ end <= Len(s) /\ end - at = k
  BY <1>1, <1>2
<1>4. PICK f, g : f = Groups(u, p, q) /\ g = Groups(s, at, end)
  OBVIOUS
<1>5. Grouped(f, u, q, k)
  BY <1>1, <1>2, <1>4, GroupsAre
<1>6. Grouped(g, s, end, k)
  BY <1>1, <1>3, <1>4, GroupsAre
<1> DEFINE T == {n \in 0..k : f[n] = g[n]}
<1>7. 0 \in T
  BY <1>5, <1>6 DEF Grouped
<1>8. ASSUME NEW n \in 1..k, n - 1 \in T PROVE n \in T
  <2>1. q + 1 - n \in 1..Len(u) /\ b + (q + 1 - n) = end + 1 - n
    BY <1>1, <1>2
  <2>2. u[q + 1 - n] = s[end + 1 - n]
    BY <1>1, <2>1
  <2>3. n \in 0..k /\ n # 0 /\ f[n - 1] = g[n - 1]
    BY <1>8
  <2> QED
    BY <1>5, <1>6, <2>2, <2>3 DEF Grouped
<1>9. 0..k \subseteq T
  <2> HIDE DEF T
  <2> QED
    BY <1>7, <1>8, IntervalInductive
<1>10. f[k] = g[k]
  BY <1>9
<1> QED
  BY <1>2, <1>3, <1>4, <1>10 DEF VarintAt

\* A varint (Reader::varint).
LEMMA VarintInPart ==
  ASSUME NEW u, NEW s, NEW b, NEW e, IsPart(u, s, b, e),
         NEW at \in Nat, NEW p \in Nat, at = b + p
  PROVE  ReadInPart(GetVarint(s, at), GetVarint(u, p), b, e)
<1>1. /\ b \in Nat /\ s \in Seq(Byte) /\ u \in Seq(Byte) /\ Len(u) \in Nat /\ Len(s) \in Nat
      /\ b + Len(u) <= Len(s) /\ \A i \in 1..Len(u) : u[i] = s[b + i]
      /\ e = b + Len(u)
  BY DEF IsPart
<1>2. PICK r, q : r = GetVarint(s, at) /\ q = GetVarint(u, p)
  OBVIOUS
<1>3. CASE r.err = "none" /\ r.pos <= e
  <2>1. PICK end : end = r.pos /\ end \in VarintEnds(s, at) /\ r.val = VarintAt(s, at, end)
    BY <1>2, <1>3, VarintInBuffer
  <2>2. /\ end \in (at + 1)..(at + MaxVarintBytes) /\ end <= e /\ s[end] < 128
        /\ \A i \in (at + 1)..(end - 1) : s[i] >= 128
    BY <1>3, <2>1 DEF VarintEnds
  <2>3. PICK k \in Nat : k = end - b /\ end = b + k
    BY <1>1, <2>2, WireAssumption
  <2>4. k \in (p + 1)..(p + MaxVarintBytes) /\ k <= Len(u) /\ end \in Nat
    BY <1>1, <2>2, <2>3, WireAssumption
  <2>5. u[k] < 128
    BY <1>1, <2>2, <2>3, <2>4
  <2>6. ASSUME NEW i \in (p + 1)..(k - 1) PROVE u[i] >= 128
    <3>1. i \in 1..Len(u) /\ b + i \in (at + 1)..(end - 1)
      BY <1>1, <2>3, <2>4
    <3> QED
      BY <1>1, <2>2, <3>1
  <2>7. k \in VarintEnds(u, p)
    BY <2>4, <2>5, <2>6 DEF VarintEnds
  <2>8. q = Read(VarintAt(u, p, k), k)
    BY <1>1, <1>2, <2>7, VarintIs
  <2>9. VarintAt(u, p, k) = VarintAt(s, at, end)
    BY <2>3, <2>4, VarintOfPart
  <2> QED
    BY <1>2, <1>3, <2>1, <2>3, <2>8, <2>9 DEF ReadInPart, Read
<1>4. ASSUME q.err = "none" PROVE r.err = "none" /\ r.pos <= e
  <2>1. PICK k : k \in VarintEnds(u, p)
    BY <1>2, <1>4, VarintInBuffer
  <2>2. /\ k \in (p + 1)..(p + MaxVarintBytes) /\ k <= Len(u) /\ u[k] < 128
        /\ \A i \in (p + 1)..(k - 1) : u[i] >= 128
    BY <2>1 DEF VarintEnds
  <2>3. PICK end \in Nat : end = b + k
    BY <1>1, <2>2, WireAssumption
  <2>4. k \in 1..Len(u) /\ end \in (at + 1)..(at + MaxVarintBytes) /\ end <= Len(s) /\ end <= e
    BY <1>1, <2>2, <2>3, WireAssumption
  <2>5. s[end] < 128
    BY <1>1, <2>2, <2>3, <2>4
  <2>6. ASSUME NEW i \in (at + 1)..(end - 1) PROVE s[i] >= 128
    <3>1. PICK j \in (p + 1)..(k - 1) : i = b + j
      <4>1. i - b \in (p + 1)..(k - 1) /\ i = b + (i - b)
        BY <1>1, <2>2, <2>3, WireAssumption
      <4> QED
        BY <4>1
    <3>2. j \in 1..Len(u)
      BY <2>4
    <3> QED
      BY <1>1, <2>2, <3>1, <3>2
  <2>7. end \in VarintEnds(s, at)
    BY <2>4, <2>5, <2>6 DEF VarintEnds
  <2>8. r = Read(VarintAt(s, at, end), end)
    BY <1>1, <1>2, <2>7, VarintIs
  <2> QED
    BY <2>4, <2>8 DEF Read
<1> QED
  BY <1>2, <1>3, <1>4 DEF ReadInPart

\* A tag (Reader::tag).
LEMMA TagInPart ==
  ASSUME NEW u, NEW s, NEW b, NEW e, IsPart(u, s, b, e),
         NEW at \in Nat, NEW p \in Nat, at = b + p
  PROVE  ReadInPart(GetTag(s, at), GetTag(u, p), b, e)
<1>1. PICK r, q : r = GetVarint(s, at) /\ q = GetVarint(u, p)
  OBVIOUS
<1>2. ReadInPart(r, q, b, e)
  BY <1>1, VarintInPart
<1>3. GetTag(s, at) = TagFrom(r) /\ GetTag(u, p) = TagFrom(q)
  BY <1>1 DEF GetTag
<1>4. \A x : x.err # "none" => TagFrom(x).err # "none"
  BY DEF TagFrom, TagAt
<1>5. \A x : TagFrom(x).err = "none" => x.err = "none" /\ TagFrom(x) = Read(TagOf(x.val), x.pos)
  BY DEF TagFrom, TagAt, NoRead
<1>6. \A x, y : x.err = "none" /\ y.err = "none" /\ x.val = y.val
                 => (TagFrom(x).err = "none" <=> TagFrom(y).err = "none")
  BY DEF TagFrom, TagAt, Read, NoRead
<1>7. \A v, n : Read(v, n).pos = n /\ Read(v, n).val = v
  BY DEF Read
<1> QED
  BY <1>2, <1>3, <1>4, <1>5, <1>6, <1>7 DEF ReadInPart

\* q is the end r of a length-delimited payload, as it is read in the part from b
\* to e.
EndInPart(r, q, b, e) ==
  IF r.err = "none" /\ r.val <= e THEN q.err = "none" /\ q.pos = r.pos - b /\ q.val = r.val - b
                                  ELSE q.err # "none"

\* A length (Reader::read_length).
LEMMA LengthInPart ==
  ASSUME NEW u, NEW s, NEW b, NEW e, IsPart(u, s, b, e), Len(s) < 2^Width,
         NEW at \in Nat, NEW p \in Nat, at = b + p, NEW x, x # "none", NEW y, y # "none"
  PROVE  EndInPart(GetLength(s, at, x), GetLength(u, p, y), b, e)
<1>1. /\ b \in Nat /\ s \in Seq(Byte) /\ u \in Seq(Byte) /\ Len(u) \in Nat /\ Len(s) \in Nat
      /\ b + Len(u) <= Len(s) /\ e = b + Len(u)
  BY DEF IsPart
<1>2. PICK r, q : r = GetVarint(s, at) /\ q = GetVarint(u, p)
  OBVIOUS
<1>3. ReadInPart(r, q, b, e)
  BY <1>2, VarintInPart
<1>4. r.err = "none" => r.val \in Nat /\ r.pos \in (at + 1)..Len(s)
  BY <1>1, <1>2, VarintForward
<1>5. PICK top \in Nat : top = 2^Width
  BY PowersAssumption
<1>6. GetLength(s, at, x) = LengthFrom(s, r, x) /\ GetLength(u, p, y) = LengthFrom(u, q, y)
  BY <1>2 DEF GetLength
<1>7. CASE r.err = "none" /\ r.pos <= e
  <2>1. PICK m \in Nat, n \in Nat : r.val = m /\ r.pos = n
    BY <1>1, <1>4, <1>7
  <2>2. q.err = "none" /\ q.pos = n - b /\ q.val = m
    BY <1>3, <1>7, <2>1 DEF ReadInPart
  <2>3. PICK k \in Nat : k = n - b
    BY <1>1, <1>4, <2>1, <1>7
  <2>4. n + m < top \/ ~(n + m <= Len(s))
    BY <1>1, <1>5, <2>1
  <2>5. k + m < top \/ ~(k + m <= Len(u))
    BY <1>1, <1>5, <2>1, <2>3
  <2>6. GetLength(s, at, x) = IF n + m <= Len(s) THEN Read(n + m, n) ELSE NoRead(x)
    BY <1>5, <1>6, <1>7, <2>1, <2>4 DEF LengthFrom, EndOf
  <2>7. GetLength(u, p, y) = IF k + m <= Len(u) THEN Read(k + m, k) ELSE NoRead(y)
    BY <1>5, <1>6, <2>2, <2>3, <2>5 DEF LengthFrom, EndOf
  <2>8. CASE k + m <= Len(u)
    <3>1. n + m <= Len(s) /\ n + m <= e /\ k + m = (n + m) - b
      BY <1>1, <2>1, <2>3, <2>8
    <3>2. GetLength(s, at, x).err = "none" /\ GetLength(s, at, x).val = n + m /\ GetLength(s, at, x).pos = n
      BY <2>6, <3>1 DEF Read
    <3>3. GetLength(u, p, y).err = "none" /\ GetLength(u, p, y).val = k + m /\ GetLength(u, p, y).pos = k
      BY <2>7, <2>8 DEF Read
    <3> QED
      BY <2>3, <3>1, <3>2, <3>3 DEF EndInPart
  <2>9. CASE ~(k + m <= Len(u))
    <3>1. ~(n + m <= e)
      BY <1>1, <2>1, <2>3, <2>9
    <3>2. GetLength(s, at, x).err = "none" => GetLength(s, at, x).val = n + m
      BY <2>6 DEF Read, NoRead
    <3>3. GetLength(u, p, y).err # "none"
      BY <2>7, <2>9 DEF NoRead
    <3> QED
      BY <3>1, <3>2, <3>3 DEF EndInPart
  <2> QED
    BY <2>8, <2>9
<1>8. CASE ~(r.err = "none" /\ r.pos <= e)
  <2>1. q.err # "none"
    BY <1>3, <1>8 DEF ReadInPart
  <2>2. GetLength(u, p, y).err # "none"
    BY <1>6, <2>1 DEF LengthFrom
  <2>3. ASSUME GetLength(s, at, x).err = "none" PROVE ~(GetLength(s, at, x).val <= e)
    <3>1. r.err = "none" /\ GetLength(s, at, x) = EndOf(s, r.pos, r.val, x)
      BY <1>6, <2>3 DEF LengthFrom
    <3>2. GetLength(s, at, x).val = r.pos + r.val
      BY <2>3, <3>1 DEF EndOf, Read, NoRead
    <3>5. r.val \in Nat /\ r.pos \in Nat
      BY <1>4, <3>1
    <3>3. PICK m \in Nat, n \in Nat : r.val = m /\ r.pos = n
      BY <3>5
    <3>4. ~(n <= e)
      BY <1>8, <3>1, <3>3
    <3> QED
      BY <1>1, <3>2, <3>3, <3>4
  <2> QED
    BY <2>2, <2>3 DEF EndInPart
<1> QED
  BY <1>7, <1>8

\* Bytes (Reader::bytes_view).
LEMMA BytesInPart ==
  ASSUME NEW u, NEW s, NEW b, NEW e, IsPart(u, s, b, e), Len(s) < 2^Width,
         NEW at \in Nat, NEW p \in Nat, at = b + p
  PROVE  ReadInPart(GetBytes(s, at), GetBytes(u, p), b, e)
<1>1. /\ b \in Nat /\ s \in Seq(Byte) /\ u \in Seq(Byte) /\ Len(u) \in Nat /\ Len(s) \in Nat
      /\ b + Len(u) <= Len(s) /\ e = b + Len(u) /\ \A i \in 1..Len(u) : u[i] = s[b + i]
  BY DEF IsPart
<1>2. PICK r, q : r = GetLength(s, at, "TruncatedLengthDelim") /\ q = GetLength(u, p, "TruncatedLengthDelim")
  OBVIOUS
<1>3. EndInPart(r, q, b, e)
  BY <1>2, LengthInPart
<1>4. GetBytes(s, at) = BytesUpTo(s, r) /\ GetBytes(u, p) = BytesUpTo(u, q)
  BY <1>2 DEF GetBytes
<1>5. /\ r.err # "none" => GetBytes(s, at).err # "none"
      /\ r.err = "none" => GetBytes(s, at) = Read(SubSeq(s, r.pos + 1, r.val), r.val)
      /\ q.err # "none" => GetBytes(u, p).err # "none"
      /\ q.err = "none" => GetBytes(u, p) = Read(SubSeq(u, q.pos + 1, q.val), q.val)
  BY <1>4 DEF BytesUpTo
<1>6. r.err = "none" => r.pos \in (at + 1)..Len(s) /\ r.val \in r.pos..Len(s)
  BY <1>1, <1>2, LengthForward
<1>7. CASE r.err = "none" /\ r.val <= e
  <2>1. PICK m \in Nat, n \in Nat : r.val = m /\ r.pos = n /\ n \in (at + 1)..Len(s) /\ m \in n..e
    BY <1>1, <1>6, <1>7
  <2>2. PICK i \in Nat, j \in Nat : i = n - b /\ j = m - b
    BY <1>1, <2>1
  <2>3. q.err = "none" /\ q.pos = i /\ q.val = j
    BY <1>3, <1>7, <2>1, <2>2 DEF EndInPart
  <2>4. SubSeq(u, i + 1, j) = SubSeq(s, n + 1, m)
    <3>1. SubSeq(u, i + 1, j) = [k \in 1..(j - i) |-> u[i + k]]
      BY <1>1
    <3>2. SubSeq(s, n + 1, m) = [k \in 1..(m - n) |-> s[n + k]]
      BY <1>1, <2>1
    <3>3. j - i = m - n
      BY <1>1, <2>2
    <3>4. ASSUME NEW k \in 1..(j - i) PROVE u[i + k] = s[n + k]
      <4>1. i + k \in 1..Len(u) /\ b + (i + k) = n + k
        BY <1>1, <2>1, <2>2
      <4> QED
        BY <1>1, <4>1
    <3> QED
      BY <3>1, <3>2, <3>3, <3>4
  <2>5. PICK v : v = SubSeq(s, n + 1, m)
    OBVIOUS
  <2>6. GetBytes(s, at) = Read(v, m)
    BY <1>5, <1>7, <2>1, <2>5
  <2>7. GetBytes(u, p) = Read(v, j)
    BY <1>5, <2>3, <2>4, <2>5
  <2>8. m <= e
    BY <1>1, <2>1
  <2> QED
    <3>1. GetBytes(s, at).err = "none" /\ GetBytes(s, at).pos = m /\ GetBytes(s, at).val = v
      BY <2>6 DEF Read
    <3>2. GetBytes(u, p).err = "none" /\ GetBytes(u, p).pos = j /\ GetBytes(u, p).val = v
      BY <2>7 DEF Read
    <3> QED
      BY <2>2, <2>8, <3>1, <3>2 DEF ReadInPart
<1>8. CASE ~(r.err = "none" /\ r.val <= e)
  <2>1. GetBytes(u, p).err # "none"
    BY <1>3, <1>5, <1>8 DEF EndInPart
  <2>2. GetBytes(s, at).err = "none" => r.err = "none" /\ GetBytes(s, at).pos = r.val
    BY <1>5 DEF Read
  <2> QED
    BY <1>8, <2>1, <2>2 DEF ReadInPart
<1> QED
  BY <1>7, <1>8

\* A string (Reader::string).
LEMMA StringInPart ==
  ASSUME NEW u, NEW s, NEW b, NEW e, IsPart(u, s, b, e), Len(s) < 2^Width,
         NEW at \in Nat, NEW p \in Nat, at = b + p
  PROVE  ReadInPart(GetString(s, at), GetString(u, p), b, e)
<1>1. PICK r, q : r = GetBytes(s, at) /\ q = GetBytes(u, p)
  OBVIOUS
<1>2. ReadInPart(r, q, b, e)
  BY <1>1, BytesInPart
<1>3. GetString(s, at) = Utf8(r) /\ GetString(u, p) = Utf8(q)
  BY <1>1 DEF GetString
<1> DEFINE wide(v) == \E i \in DOMAIN v : v[i] >= 128
<1>4. \A x : Utf8(x) = IF x.err = "none" /\ wide(x.val) THEN NoRead("InvalidUtf8") ELSE x
  BY DEF Utf8
<1>5. NoRead("InvalidUtf8").err # "none"
  BY DEF NoRead
<1> HIDE DEF wide
<1> QED
  BY <1>2, <1>3, <1>4, <1>5 DEF ReadInPart

\* What is skipped (Reader::skip).
LEMMA SkipInPart ==
  ASSUME NEW u, NEW s, NEW b, NEW e, IsPart(u, s, b, e), Len(s) < 2^Width,
         NEW at \in Nat, NEW p \in Nat, at = b + p, NEW wt
  PROVE  ReadInPart(GetSkip(s, at, wt), GetSkip(u, p, wt), b, e)
<1>1. /\ b \in Nat /\ Len(u) \in Nat /\ Len(s) \in Nat /\ b + Len(u) <= Len(s) /\ e = b + Len(u)
  BY DEF IsPart
<1>2. CASE wt = Varint
  <2>1. GetSkip(s, at, wt) = GetVarint(s, at) /\ GetSkip(u, p, wt) = GetVarint(u, p)
    BY <1>2 DEF GetSkip, Fixed64, Varint, Fixed32, LengthDelimited
  <2> QED
    BY <2>1, VarintInPart
<1>3. ASSUME NEW n \in Nat, NEW x, x # "none"
      PROVE  ReadInPart(GetFixed(s, at, n, x), GetFixed(u, p, n, x), b, e)
  <2>1. p + n <= Len(u) <=> at + n <= e
    BY <1>1
  <2>2. at + n <= e => at + n <= Len(s)
    BY <1>1
  <2>3. p + n = (at + n) - b
    BY <1>1
  <2> QED
    BY <1>3, <2>1, <2>2, <2>3 DEF GetFixed, Read, NoRead, ReadInPart
<1>4. CASE wt = Fixed64
  <2>1. GetSkip(s, at, wt) = GetFixed(s, at, 8, "TruncatedFixed64") /\ GetSkip(u, p, wt) = GetFixed(u, p, 8, "TruncatedFixed64")
    BY <1>4 DEF GetSkip, Fixed64, Varint, Fixed32, LengthDelimited
  <2> QED
    BY <1>3, <2>1
<1>5. CASE wt = Fixed32
  <2>1. GetSkip(s, at, wt) = GetFixed(s, at, 4, "TruncatedFixed32") /\ GetSkip(u, p, wt) = GetFixed(u, p, 4, "TruncatedFixed32")
    BY <1>5 DEF GetSkip, Fixed64, Varint, Fixed32, LengthDelimited
  <2> QED
    BY <1>3, <2>1
<1>6. CASE wt = LengthDelimited
  <2>1. GetSkip(s, at, wt) = GetBytes(s, at) /\ GetSkip(u, p, wt) = GetBytes(u, p)
    BY <1>6 DEF GetSkip, Fixed64, Varint, Fixed32, LengthDelimited
  <2> QED
    BY <2>1, BytesInPart
<1>7. CASE wt \notin {Varint, Fixed64, Fixed32, LengthDelimited}
  <2>1. GetSkip(u, p, wt).err # "none" /\ GetSkip(s, at, wt).err # "none"
    BY <1>7 DEF GetSkip, NoRead
  <2> QED
    BY <2>1 DEF ReadInPart
<1> QED
  BY <1>2, <1>4, <1>5, <1>6, <1>7

-----------------------------------------------------------------------------
(***************************************************************************)
(* A slice taken apart.                                                    *)
(***************************************************************************)
Payloads == Nat \cup Seq(Byte)

CutsOver(type) == [all : [DOMAIN Schema[type] -> Seq(Payloads)], bad : BOOLEAN]

PieceAt(type, s, p) == Piece(type, s, GetTag(s, p))
Whole(piece)  == piece.payload.err = "none"
Behind(piece) == piece.payload.pos
Number(piece) == piece.tag.val.number

\* A whole field is behind its tag and in the slice.
LEMMA PieceForward ==
  ASSUME NEW type, NEW s \in Seq(Byte), NEW p \in Nat, Whole(PieceAt(type, s, p))
  PROVE  /\ Behind(PieceAt(type, s, p)) \in (p + 1)..Len(s)
         /\ Number(PieceAt(type, s, p)) \in DOMAIN Schema[type]
              => PieceAt(type, s, p).payload.val \in Payloads
<1>1. PICK t : t = GetTag(s, p)
  OBVIOUS
<1>2. PICK load : load = IF t.err = "none" THEN Payload(type, s, t.val, t.pos) ELSE t
  OBVIOUS
<1>3. PieceAt(type, s, p) = [tag |-> t, payload |-> load]
  BY <1>1, <1>2 DEF PieceAt, Piece
<1>4. load.err = "none" /\ t.err = "none" /\ load = Payload(type, s, t.val, t.pos)
  BY <1>2, <1>3 DEF Whole
<1>5. PICK l \in Nat : l = Len(s)
  OBVIOUS
<1>6. t.pos \in (p + 1)..l
  BY <1>1, <1>4, <1>5, TagForward
<1>7. PICK at \in Nat : at = t.pos /\ at > p
  BY <1>6
<1>8. CASE t.val.number \notin DOMAIN Schema[type]
  <2>1. load = GetSkip(s, at, t.val.type)
    BY <1>4, <1>7, <1>8 DEF Payload
  <2>2. PICK n \in (at + 1)..l : n = load.pos
    BY <1>4, <1>5, <2>1, SkipForward
  <2>3. load.pos \in (p + 1)..l
    BY <1>7, <2>2
  <2> QED
    BY <1>3, <1>5, <1>8, <2>3 DEF Behind, Number
<1>9. CASE t.val.number \in DOMAIN Schema[type]
  <2>1. load = GetVarint(s, at) \/ load = GetString(s, at) \/ load = GetBytes(s, at)
    <3>1. load = FieldPayload(Schema[type][t.val.number], s, at)
      BY <1>4, <1>7, <1>9 DEF Payload
    <3> QED
      BY <3>1 DEF FieldPayload
  <2>2. PICK n \in (at + 1)..l : n = load.pos
    BY <1>4, <1>5, <2>1, VarintForward, StringForward, BytesForward
  <2>3. load.pos \in (p + 1)..l
    BY <1>7, <2>2
  <2>4. load.val \in Payloads
    <3>1. ASSUME NEW v \in Seq(0..127) PROVE v \in Seq(Byte)
      <4>1. ASSUME NEW i \in 1..Len(v) PROVE v[i] \in Byte
        <5>1. PICK C : C = 0..127
          OBVIOUS
        <5>2. v \in Seq(C)
          BY <5>1
        <5>3. v[i] \in C
          BY <5>2
        <5> QED
          BY <5>1, <5>3 DEF Byte
      <4> QED
        BY <4>1, SeqOver
    <3>2. CASE load = GetVarint(s, at)
      BY <1>4, <3>2, VarintForward DEF Payloads
    <3>3. CASE load = GetString(s, at)
      BY <1>4, <3>1, <3>3, StringForward DEF Payloads
    <3>4. CASE load = GetBytes(s, at)
      BY <1>4, <3>4, BytesForward DEF Payloads
    <3> QED
      BY <2>1, <3>2, <3>3, <3>4
  <2> QED
    BY <1>3, <1>5, <2>3, <2>4 DEF Behind
<1> QED
  BY <1>8, <1>9

LEMMA NoFieldIs ==
  ASSUME NEW type, NEW bad \in BOOLEAN
  PROVE  /\ NoField(type, bad) \in CutsOver(type) /\ NoField(type, bad).bad = bad
         /\ \A n \in DOMAIN Schema[type] : NoField(type, bad).all[n] = <<>>
<1>1. PICK none : none = [n \in DOMAIN Schema[type] |-> <<>>]
  OBVIOUS
<1>2. none \in [DOMAIN Schema[type] -> Seq(Payloads)]
  <2>1. <<>> \in Seq(Payloads)
    OBVIOUS
  <2> QED
    BY <1>1, <2>1
<1>3. NoField(type, bad) = [all |-> none, bad |-> bad]
  BY <1>1 DEF NoField
<1>4. NoField(type, bad).all = none
  BY <1>3
<1> QED
  BY <1>1, <1>2, <1>3, <1>4 DEF CutsOver

\* One field before those of a cut.
LEMMA BeforeCut ==
  ASSUME NEW type, NEW cut \in CutsOver(type), NEW n, NEW val,
         n \in DOMAIN Schema[type] => val \in Payloads
  PROVE  /\ Before(n, val, cut) \in CutsOver(type)
         /\ Before(n, val, cut).bad = cut.bad
         /\ \A m \in DOMAIN Schema[type] :
              Before(n, val, cut).all[m] = IF m = n THEN <<val>> \o cut.all[m] ELSE cut.all[m]
<1>1. PICK D : D = DOMAIN Schema[type]
  OBVIOUS
<1>2. PICK all : all = cut.all
  OBVIOUS
<1>3. all \in [D -> Seq(Payloads)] /\ cut.bad \in BOOLEAN /\ DOMAIN all = D
  BY <1>1, <1>2 DEF CutsOver
<1>4. PICK more : more = [m \in DOMAIN all |-> IF m = n THEN <<val>> \o all[m] ELSE all[m]]
  OBVIOUS
<1>5. Before(n, val, cut) = [cut EXCEPT !.all = more]
  BY <1>2, <1>4 DEF Before
<1>6. more \in [D -> Seq(Payloads)]
  <2>1. ASSUME NEW m \in D PROVE more[m] \in Seq(Payloads)
    <3>1. all[m] \in Seq(Payloads)
      BY <1>3
    <3>2. m = n => <<val>> \o all[m] \in Seq(Payloads)
      BY <1>1, <3>1
    <3> QED
      BY <1>3, <1>4, <3>1, <3>2
  <2> QED
    BY <1>3, <1>4, <2>1
<1>7. cut = [all |-> all, bad |-> cut.bad]
  BY <1>2 DEF CutsOver
<1>8. Before(n, val, cut) = [all |-> more, bad |-> cut.bad]
  BY <1>5, <1>7
<1> QED
  BY <1>1, <1>2, <1>3, <1>4, <1>6, <1>8 DEF CutsOver

\* The cuts of a slice, each made of a later one.
IsCuts(f, type, s) ==
  \A p \in 0..Len(s) :
    /\ f[p] \in CutsOver(type)
    /\ p = Len(s) => f[p] = NoField(type, FALSE)
    /\ p # Len(s) /\ ~Whole(PieceAt(type, s, p)) => f[p] = NoField(type, TRUE)
    /\ p # Len(s) /\ Whole(PieceAt(type, s, p))
         => f[p] = Before(Number(PieceAt(type, s, p)), PieceAt(type, s, p).payload.val,
                          f[Behind(PieceAt(type, s, p))])

LEMMA CutsAre ==
  ASSUME NEW type, NEW s \in Seq(Byte)
  PROVE  IsCuts(Cuts(type, s), type, s)
<1>0. PICK l \in Nat : l = Len(s)
  OBVIOUS
<1> DEFINE P(p)  == PieceAt(type, s, p)
           V(f, p) == CASE p = l -> NoField(type, FALSE)
                        [] p # l /\ P(p).payload.err # "none" -> NoField(type, TRUE)
                        [] OTHER -> Before(P(p).tag.val.number, P(p).payload.val, f[P(p).payload.pos])
           S == CutsOver(type)
<1>1. NoField(type, FALSE) \in S /\ NoField(type, TRUE) \in S
  BY NoFieldIs
<1>2. ASSUME NEW p \in 0..l, p # l, Whole(P(p))
      PROVE  /\ Behind(P(p)) \in (p + 1)..l
             /\ Number(P(p)) \in DOMAIN Schema[type] => P(p).payload.val \in Payloads
  <2>1. p \in Nat
    OBVIOUS
  <2> QED
    BY <1>0, <1>2, <2>1, PieceForward
<1> DEFINE Ends == {i \in 1..(l + 1) : i = l + 1 \/ ~Whole(P(i - 1))}
           base == [i \in 1..(l + 1) |-> IF i = l + 1 THEN NoField(type, FALSE) ELSE NoField(type, TRUE)]
           next == [i \in 1..(l + 1) |-> Behind(P(i - 1)) + 1]
           Op   == [i \in 1..(l + 1) |-> [c \in S |-> Before(Number(P(i - 1)), P(i - 1).payload.val, c)]]
<1>3. PICK g \in [1..(l + 1) -> S] : FollowsChain(g, l + 1, Ends, base, next, Op)
  <2>1. ASSUME NEW i \in 1..(l + 1), i \in Ends PROVE base[i] \in S
    BY <1>1
  <2>2. ASSUME NEW i \in 1..(l + 1), i \notin Ends
        PROVE  next[i] \in (i + 1)..(l + 1) /\ Op[i] \in [S -> S]
    <3>1. PICK p \in 0..l : p = i - 1 /\ p # l /\ Whole(P(p))
      <4>1. i - 1 \in 0..l /\ i - 1 # l /\ Whole(P(i - 1))
        BY <2>2
      <4> QED
        BY <4>1
    <3>2. Behind(P(p)) \in (p + 1)..l /\ next[i] = Behind(P(p)) + 1
      BY <1>2, <3>1
    <3>3. next[i] \in (i + 1)..(l + 1)
      BY <3>1, <3>2
    <3>4. \A c \in S : Before(Number(P(p)), P(p).payload.val, c) \in S
      BY <1>2, <3>1, BeforeCut
    <3>5. Op[i] = [c \in S |-> Before(Number(P(p)), P(p).payload.val, c)]
      BY <3>1
    <3> QED
      BY <3>3, <3>4, <3>5
  <2>3. l + 1 \in Nat
    OBVIOUS
  <2> HIDE DEF S, Ends, base, next, Op
  <2>4. IsChain(l + 1, S, Ends, base, next, Op)
    BY <2>1, <2>2 DEF IsChain
  <2> QED
    BY <2>3, <2>4, ChainRecursion
<1>4. PICK f : f = [p \in 0..l |-> g[p + 1]]
  OBVIOUS
<1>5. ASSUME NEW p \in 0..l PROVE f[p] \in S /\ f[p] = V(f, p)
  <2>1. p + 1 \in 1..(l + 1) /\ (p + 1) - 1 = p
    OBVIOUS
  <2>2. f[p] = g[p + 1] /\ f[p] \in S
    BY <1>3, <1>4, <2>1
  <2>3. g[p + 1] = IF p + 1 \in Ends THEN base[p + 1] ELSE Op[p + 1][g[next[p + 1]]]
    BY <1>3, <2>1 DEF FollowsChain
  <2>4. CASE p = l
    BY <2>1, <2>2, <2>3, <2>4
  <2>5. CASE p # l /\ ~Whole(P(p))
    <3>0. PICK q \in 1..(l + 1) : q = p + 1 /\ q - 1 = p /\ q # l + 1
      BY <2>1, <2>5
    <3>1. q \in Ends /\ base[q] = NoField(type, TRUE)
      BY <2>5, <3>0
    <3> QED
      BY <2>2, <2>3, <2>5, <3>0, <3>1 DEF Whole
  <2>6. CASE p # l /\ Whole(P(p))
    <3>1. p + 1 \notin Ends /\ next[p + 1] = Behind(P(p)) + 1
      BY <2>1, <2>6
    <3>2. PICK k \in 0..l : k = Behind(P(p))
      BY <1>2, <2>6
    <3>3. k + 1 \in 1..(l + 1) /\ f[k] = g[k + 1] /\ f[k] \in S
      BY <1>3, <1>4
    <3>4. Op[p + 1][f[k]] = Before(Number(P(p)), P(p).payload.val, f[k])
      BY <2>1, <3>3
    <3>5. f[p] = Before(Number(P(p)), P(p).payload.val, f[k])
      BY <2>2, <2>3, <3>1, <3>2, <3>3, <3>4
    <3> QED
      BY <2>2, <2>6, <3>2, <3>5 DEF Whole, Number, Behind
  <2> QED
    BY <2>4, <2>5, <2>6
<1> DEFINE cut[p \in 0..l] == V(cut, p)
<1>6. f = [p \in 0..l |-> V(f, p)]
  BY <1>4, <1>5
<1>7. cut = [p \in 0..l |-> V(cut, p)]
  <2> HIDE DEF V
  <2> QED
    BY <1>6
<1>8. Cuts(type, s) = cut
  BY <1>0 DEF Cuts, PieceAt
<1> HIDE DEF cut
<1>9. ASSUME NEW p \in 0..l PROVE cut[p] = V(cut, p)
  BY <1>7
<1> DEFINE T == {p \in 0..l : cut[p] \in S}
<1>10. ASSUME NEW p \in 0..l, \A j \in (p + 1)..l : j \in T PROVE p \in T
  <2>1. CASE p = l \/ ~Whole(P(p))
    BY <1>1, <1>9, <2>1 DEF Whole
  <2>2. CASE p # l /\ Whole(P(p))
    <3>1. PICK k \in (p + 1)..l : k = Behind(P(p))
      BY <1>2, <2>2
    <3>2. cut[k] \in S
      BY <1>10, <3>1
    <3>3. Before(Number(P(p)), P(p).payload.val, cut[k]) \in S
      BY <1>2, <2>2, <3>2, BeforeCut
    <3> QED
      BY <1>9, <2>2, <3>1, <3>3 DEF Whole, Number, Behind
  <2> QED
    BY <2>1, <2>2
<1>11. 0..l \subseteq T
  <2> HIDE DEF T
  <2>1. 0 \in Int /\ l \in Int
    OBVIOUS
  <2> QED
    BY <1>10, <2>1, BackwardInductive
<1>12. ASSUME NEW p \in 0..l PROVE cut[p] \in S
  BY <1>11
<1> QED
  BY <1>0, <1>8, <1>9, <1>12 DEF IsCuts, Whole, Number, Behind

\* What the reader reads of a field after its tag t in the buffer s, and the piece
\* that is read of it in a part of the buffer.
FieldInPart(type, t, piece, s, b, e) ==
  /\ t.err # "none" => ~Whole(piece)
  /\ t.err = "none" => /\ ReadInPart(Payload(type, s, t.val, t.pos), piece.payload, b, e)
                       /\ Whole(piece) => Number(piece) = t.val.number

LEMMA PieceInPart ==
  ASSUME NEW u, NEW s, NEW b, NEW e, IsPart(u, s, b, e), Len(s) < 2^Width,
         NEW at \in Nat, NEW p \in Nat, at = b + p, NEW type,
         NEW t, t = GetTag(s, at), NEW piece, piece = PieceAt(type, u, p)
  PROVE  FieldInPart(type, t, piece, s, b, e)
<1> SUFFICES /\ t.err # "none" => ~Whole(piece)
             /\ t.err = "none" => /\ ReadInPart(Payload(type, s, t.val, t.pos), piece.payload, b, e)
                                  /\ Whole(piece) => Number(piece) = t.val.number
  BY DEF FieldInPart
<1>1. /\ b \in Nat /\ s \in Seq(Byte) /\ u \in Seq(Byte) /\ Len(u) \in Nat /\ Len(s) \in Nat
      /\ b + Len(u) <= Len(s) /\ e = b + Len(u)
  BY DEF IsPart
<1>2. PICK q : q = GetTag(u, p)
  OBVIOUS
<1>3. ReadInPart(t, q, b, e)
  BY <1>2, TagInPart
<1>4. PICK load : load = IF q.err = "none" THEN Payload(type, u, q.val, q.pos) ELSE q
  OBVIOUS
<1>5. piece = [tag |-> q, payload |-> load]
  BY <1>2, <1>4 DEF PieceAt, Piece
<1>6. CASE t.err # "none"
  BY <1>3, <1>4, <1>5, <1>6 DEF ReadInPart, Whole
<1>7. CASE t.err = "none"
  <2>1. PICK m \in Nat : m = t.pos /\ m \in (at + 1)..Len(s)
    BY <1>1, <1>7, TagForward
  <2>2. PICK f, w : f = t.val.number /\ w = t.val.type
    OBVIOUS
  <2>3. Payload(type, s, t.val, t.pos) = IF f \in DOMAIN Schema[type] THEN FieldPayload(Schema[type][f], s, m)
                                                                      ELSE GetSkip(s, m, w)
    BY <2>1, <2>2 DEF Payload
  <2>4. CASE m <= e
    <3>1. q.err = "none" /\ q.pos = m - b /\ q.val = t.val
      BY <1>3, <1>7, <2>1, <2>4 DEF ReadInPart
    <3>2. PICK k \in Nat : k = m - b /\ m = b + k
      <4>1. m \in Int /\ m >= at + 1 /\ at >= b
        BY <1>1, <2>1
      <4>2. m - b \in Nat /\ m = b + (m - b)
        BY <1>1, <4>1
      <4> QED
        BY <4>2
    <3>3. load = IF f \in DOMAIN Schema[type] THEN FieldPayload(Schema[type][f], u, k) ELSE GetSkip(u, k, w)
      BY <1>4, <2>2, <3>1, <3>2 DEF Payload
    <3>4. \A g : ReadInPart(FieldPayload(g, s, m), FieldPayload(g, u, k), b, e)
      <4> SUFFICES ASSUME NEW g PROVE ReadInPart(FieldPayload(g, s, m), FieldPayload(g, u, k), b, e)
        OBVIOUS
      <4>1. /\ ReadInPart(GetVarint(s, m), GetVarint(u, k), b, e)
            /\ ReadInPart(GetString(s, m), GetString(u, k), b, e)
            /\ ReadInPart(GetBytes(s, m), GetBytes(u, k), b, e)
        BY <3>2, VarintInPart, StringInPart, BytesInPart
      <4>2. CASE g.kind = "int32"
        BY <4>1, <4>2 DEF FieldPayload
      <4>3. CASE g.kind \in {"string", "strings"}
        BY <4>1, <4>3 DEF FieldPayload
      <4>4. CASE g.kind \notin {"int32", "string", "strings"}
        BY <4>1, <4>4 DEF FieldPayload
      <4> QED
        BY <4>2, <4>3, <4>4
    <3>5. ReadInPart(GetSkip(s, m, w), GetSkip(u, k, w), b, e)
      BY <3>2, SkipInPart
    <3>6. ReadInPart(Payload(type, s, t.val, t.pos), load, b, e)
      BY <2>3, <3>3, <3>4, <3>5
    <3> QED
      BY <1>5, <1>7, <2>2, <3>1, <3>6 DEF Number
  <2>5. CASE ~(m <= e)
    <3>1. q.err # "none"
      BY <1>3, <2>1, <2>5 DEF ReadInPart
    <3>2. ~Whole(piece) /\ piece.payload.err # "none"
      BY <1>4, <1>5, <3>1 DEF Whole
    <3>3. PICK r : r = Payload(type, s, t.val, t.pos)
      OBVIOUS
    <3>4. r.err = "none" => ~(r.pos <= e)
      <4> SUFFICES ASSUME r.err = "none" PROVE ~(r.pos <= e)
        OBVIOUS
      <4>1. \/ r = GetVarint(s, m) \/ r = GetString(s, m) \/ r = GetBytes(s, m) \/ r = GetSkip(s, m, w)
        BY <2>3, <3>3 DEF FieldPayload
      <4>2. PICK n \in (m + 1)..Len(s) : n = r.pos
        BY <1>1, <4>1, VarintForward, StringForward, BytesForward, SkipForward
      <4>5. e \in Nat /\ m \in Int
        BY <1>1
      <4>6. n \in Nat /\ n > m
        BY <1>1, <4>5
      <4>3. e \in Nat /\ n \in Nat /\ n > m /\ m > e
        BY <2>5, <4>5, <4>6
      <4>4. ~(n <= e)
        BY ONLY m \in Nat, <4>3
      <4> QED
        BY <4>2, <4>4
    <3> QED
      BY <1>7, <3>2, <3>3, <3>4 DEF ReadInPart
  <2> QED
    BY <2>4, <2>5
<1> QED
  BY <1>6, <1>7

-----------------------------------------------------------------------------
(***************************************************************************)
(* A slice of which the fields up to a position have been read.            *)
(***************************************************************************)
Lists(type) == [DOMAIN Schema[type] -> Seq(Payloads)]

\* The lists `got`, and one more payload of field n.
With(got, n, val) == [m \in DOMAIN got |-> IF m = n THEN Append(got[m], val) ELSE got[m]]

Consumed(type, s, p, got) ==
  /\ p \in 0..Len(s) /\ got \in Lists(type)
  /\ Cut(type, s).bad = Cuts(type, s)[p].bad
  /\ \A n \in DOMAIN Schema[type] : Cut(type, s).all[n] = got[n] \o Cuts(type, s)[p].all[n]

LEMMA ConsumedNone ==
  ASSUME NEW type, NEW s \in Seq(Byte)
  PROVE  Consumed(type, s, 0, [n \in DOMAIN Schema[type] |-> <<>>])
<1>1. PICK none : none = [n \in DOMAIN Schema[type] |-> <<>>]
  OBVIOUS
<1>2. none \in Lists(type)
  <2>1. <<>> \in Seq(Payloads)
    OBVIOUS
  <2> QED
    BY <1>1, <2>1 DEF Lists
<1>3. 0 \in 0..Len(s)
  OBVIOUS
<1>4. Cuts(type, s)[0] \in CutsOver(type)
  BY <1>3, CutsAre DEF IsCuts
<1>5. ASSUME NEW n \in DOMAIN Schema[type] PROVE Cut(type, s).all[n] = none[n] \o Cuts(type, s)[0].all[n]
  <2>1. PICK x \in Seq(Payloads) : x = Cuts(type, s)[0].all[n]
    BY <1>4 DEF CutsOver
  <2>2. none[n] = <<>> /\ <<>> \o x = x
    BY <1>1, ConcatEmptySeq
  <2> QED
    BY <2>1, <2>2 DEF Cut
<1> QED
  BY <1>1, <1>2, <1>3, <1>5 DEF Consumed, Cut

LEMMA AppendBefore ==
  ASSUME NEW S, NEW x \in Seq(S), NEW y \in Seq(S), NEW v \in S
  PROVE  x \o (<<v>> \o y) = Append(x, v) \o y
<1>4. <<v>> \in Seq(S)
  OBVIOUS
<1>1. PICK one \in Seq(S) : one = <<v>>
  BY <1>4
<1>2. Append(x, v) = x \o one
  BY <1>1, AppendIsConcat
<1>3. (x \o one) \o y = x \o (one \o y)
  BY ConcatAssociative
<1> QED
  BY <1>1, <1>2, <1>3

LEMMA ConsumedNext ==
  ASSUME NEW type, NEW s \in Seq(Byte), NEW p, NEW got, Consumed(type, s, p, got), p # Len(s),
         NEW piece, piece = PieceAt(type, s, p), Whole(piece)
  PROVE  Consumed(type, s, Behind(piece), With(got, Number(piece), piece.payload.val))
<1>1. PICK c : c = Cuts(type, s)
  OBVIOUS
<1>2. p \in 0..Len(s) /\ got \in Lists(type) /\ IsCuts(c, type, s) /\ p \in Nat /\ Len(s) \in Nat
  BY <1>1, CutsAre DEF Consumed
<1>3. PICK k, n, val : k = Behind(piece) /\ n = Number(piece) /\ val = piece.payload.val
  OBVIOUS
<1>4. k \in (p + 1)..Len(s) /\ (n \in DOMAIN Schema[type] => val \in Payloads)
  BY <1>2, <1>3, PieceForward
<1>5. k \in 0..Len(s)
  BY <1>2, <1>4
<1>6. c[k] \in CutsOver(type) /\ c[p] = Before(n, val, c[k])
  BY <1>2, <1>3, <1>5 DEF IsCuts
<1>7. /\ c[p].bad = c[k].bad
      /\ \A m \in DOMAIN Schema[type] :
           c[p].all[m] = IF m = n THEN <<val>> \o c[k].all[m] ELSE c[k].all[m]
  BY <1>4, <1>6, BeforeCut
<1>8. PICK more : more = With(got, n, val)
  OBVIOUS
<1>9. DOMAIN got = DOMAIN Schema[type] /\ \A m \in DOMAIN Schema[type] : got[m] \in Seq(Payloads)
  BY <1>2 DEF Lists
<1>10. more \in Lists(type)
  <2>1. ASSUME NEW m \in DOMAIN Schema[type]
        PROVE  (IF m = n THEN Append(got[m], val) ELSE got[m]) \in Seq(Payloads)
    <3>1. got[m] \in Seq(Payloads)
      BY <1>9
    <3>2. m = n => Append(got[m], val) \in Seq(Payloads)
      BY <1>4, <3>1
    <3> QED
      BY <3>1, <3>2
  <2> QED
    BY <1>8, <1>9, <2>1 DEF With, Lists
<1>11. ASSUME NEW m \in DOMAIN Schema[type] PROVE Cut(type, s).all[m] = more[m] \o c[k].all[m]
  <2>1. Cut(type, s).all[m] = got[m] \o c[p].all[m]
    BY <1>1 DEF Consumed
  <2>2. PICK x \in Seq(Payloads), y \in Seq(Payloads) : x = got[m] /\ y = c[k].all[m]
    BY <1>6, <1>9 DEF CutsOver
  <2>3. more[m] = IF m = n THEN Append(x, val) ELSE x
    BY <1>8, <1>9, <2>2 DEF With
  <2>4. CASE m = n
    <3>1. val \in Payloads
      BY <1>4, <2>4
    <3>2. x \o (<<val>> \o y) = Append(x, val) \o y
      BY <3>1, AppendBefore
    <3> QED
      BY <1>7, <2>1, <2>2, <2>3, <2>4, <3>2
  <2>5. CASE m # n
    BY <1>7, <2>1, <2>2, <2>3, <2>5
  <2> QED
    BY <2>4, <2>5
<1> QED
  BY <1>1, <1>3, <1>5, <1>7, <1>8, <1>10, <1>11 DEF Consumed

\* A field that is not whole spoils the slice.
LEMMA ConsumedBad ==
  ASSUME NEW type, NEW s \in Seq(Byte), NEW p, NEW got, Consumed(type, s, p, got), p # Len(s),
         ~Whole(PieceAt(type, s, p))
  PROVE  Cut(type, s).bad = TRUE
<1>1. Cuts(type, s)[p] = NoField(type, TRUE)
  BY CutsAre DEF IsCuts, Consumed
<1>2. TRUE \in BOOLEAN
  OBVIOUS
<1> QED
  BY <1>1, <1>2, NoFieldIs DEF Consumed

\* What has been read is the start of what there is.
LEMMA ConsumedHas ==
  ASSUME NEW type, NEW s \in Seq(Byte), NEW p, NEW got, Consumed(type, s, p, got),
         NEW n \in DOMAIN Schema[type]
  PROVE  /\ got[n] \in Seq(Payloads) /\ All(Cut(type, s), n) \in Seq(Payloads)
         /\ Len(got[n]) <= Len(All(Cut(type, s), n))
         /\ \A i \in 1..Len(got[n]) : All(Cut(type, s), n)[i] = got[n][i]
<1>1. Cuts(type, s)[p] \in CutsOver(type) /\ got \in Lists(type)
  BY CutsAre DEF IsCuts, Consumed
<1>2. PICK x \in Seq(Payloads), y \in Seq(Payloads) : x = got[n] /\ y = Cuts(type, s)[p].all[n]
  BY <1>1 DEF CutsOver, Lists
<1>3. PICK z : z = All(Cut(type, s), n) /\ z = x \o y
  BY <1>2 DEF Consumed, All
<1>4. PICK l \in Nat, k \in Nat : l = Len(x) /\ k = Len(y)
  OBVIOUS
<1>5. z \in Seq(Payloads) /\ Len(z) = l + k /\ \A i \in 1..l : z[i] = x[i]
  BY <1>3, <1>4
<1>6. Len(x) <= Len(z)
  BY <1>4, <1>5
<1> QED
  BY <1>2, <1>3, <1>4, <1>5, <1>6

\* A slice is whole fields, and these are the payloads in them.
Holds(type, s, got) ==
  Cut(type, s).bad = FALSE /\ \A n \in DOMAIN Schema[type] : All(Cut(type, s), n) = got[n]

\* At its end it is all there is.
LEMMA ConsumedAll ==
  ASSUME NEW type, NEW s \in Seq(Byte), NEW p, NEW got, Consumed(type, s, p, got), p = Len(s)
  PROVE  Holds(type, s, got)
<1>1. Cuts(type, s)[p] = NoField(type, FALSE) /\ got \in Lists(type)
  BY CutsAre DEF IsCuts, Consumed
<1>2. FALSE \in BOOLEAN
  OBVIOUS
<1>3. NoField(type, FALSE).bad = FALSE /\ \A n \in DOMAIN Schema[type] : NoField(type, FALSE).all[n] = <<>>
  BY <1>2, NoFieldIs
<1>4. ASSUME NEW n \in DOMAIN Schema[type] PROVE All(Cut(type, s), n) = got[n]
  <2>1. PICK x \in Seq(Payloads) : x = got[n]
    BY <1>1 DEF Lists
  <2>2. All(Cut(type, s), n) = x \o <<>>
    BY <1>1, <1>3, <2>1 DEF Consumed, All
  <2> QED
    BY <2>1, <2>2
<1> QED
  BY <1>1, <1>3, <1>4 DEF Consumed, Holds

-----------------------------------------------------------------------------
(***************************************************************************)
(* The map that a list of entries makes, and the one that is kept in the   *)
(* order in which its keys came.                                           *)
(***************************************************************************)
Entries(A, n) == n \in Nat /\ DOMAIN A = 1..n

LEMMA MapFinite ==
  ASSUME NEW A, NEW n, Entries(A, n)
  PROVE  IsFiniteSet(MapOf(A))
<1>1. PICK g : g = [i \in 1..n |-> A[i]]
  OBVIOUS
<1>2. g \in Surjection(1..n, Range(g))
  <2>1. PICK T : T = {A[i] : i \in 1..n}
    OBVIOUS
  <2>2. g \in [1..n -> T]
    BY <1>1, <2>1
  <2> QED
    BY <2>2, Fun_RangeProperties
<1>3. IsFiniteSet(1..n)
  BY FS_Interval DEF Entries
<1>4. IsFiniteSet(Range(g))
  BY <1>2, <1>3, FS_Surjection
<1>5. MapOf(A) \subseteq Range(g)
  BY <1>1 DEF MapOf, Entries, Range
<1> QED
  BY <1>4, <1>5, FS_Subset

LEMMA MapHasKeys ==
  ASSUME NEW A, NEW n, Entries(A, n), NEW i \in 1..n
  PROVE  \E e \in MapOf(A) : e.key = A[i].key
<1>1. n \in Nat /\ DOMAIN A = 1..n
  BY DEF Entries
<1>2. PICK J : J = {j \in 1..n : A[j].key = A[i].key}
  OBVIOUS
<1>3. PICK T : T = {n - j : j \in J}
  OBVIOUS
<1>4. T \subseteq Nat /\ T # {}
  BY <1>1, <1>2, <1>3
<1>5. PICK x \in T : \A y \in T : x <= y
  BY <1>4, LeastNatural
<1>6. PICK j \in J : x = n - j
  BY <1>3
<1>7. ASSUME NEW k \in 1..n, k > j PROVE A[k].key # A[j].key
  <2>1. SUFFICES ASSUME A[k].key = A[j].key PROVE FALSE
    OBVIOUS
  <2>2. k \in J
    BY <1>2, <2>1
  <2>3. x <= n - k
    BY <1>3, <1>5, <2>2
  <2>4. j \in Nat /\ k \in Nat
    BY <1>1, <1>2
  <2> QED
    BY <1>1, <1>6, <1>7, <2>3, <2>4
<1>8. j \in 1..n /\ A[j].key = A[i].key
  BY <1>2
<1>9. A[j] \in MapOf(A)
  BY <1>1, <1>7, <1>8 DEF MapOf
<1> QED
  BY <1>8, <1>9

LEMMA MapKeysApart ==
  ASSUME NEW A, NEW n, Entries(A, n), NEW e \in MapOf(A), NEW f \in MapOf(A), e.key = f.key
  PROVE  e = f
<1>1. PICK i \in 1..n : e = A[i] /\ \A k \in 1..n : k > i => A[k].key # A[i].key
  BY DEF MapOf, Entries
<1>2. PICK j \in 1..n : f = A[j] /\ \A k \in 1..n : k > j => A[k].key # A[j].key
  BY DEF MapOf, Entries
<1>3. i \in Nat /\ j \in Nat
  BY DEF Entries
<1>4. ~(i < j) /\ ~(j < i)
  BY <1>1, <1>2, <1>3
<1>5. i = j
  BY <1>3, <1>4
<1> QED
  BY <1>1, <1>2, <1>5

\* One more entry takes the place of the one with its key.
LEMMA MapOfMore ==
  ASSUME NEW A, NEW n, Entries(A, n), NEW B, Entries(B, n + 1), \A i \in 1..n : B[i] = A[i]
  PROVE  MapOf(B) = {e \in MapOf(A) : e.key # B[n + 1].key} \cup {B[n + 1]}
<1>1. n \in Nat /\ DOMAIN A = 1..n /\ DOMAIN B = 1..(n + 1)
  BY DEF Entries
<1>2. PICK new : new = B[n + 1]
  OBVIOUS
<1>3. \A j \in 1..(n + 1) : j \in 1..n \/ j = n + 1
  BY <1>1
<1>4. \A j \in 1..n : j \in 1..(n + 1) /\ n + 1 > j
  BY <1>1
<1>5. n + 1 \in 1..(n + 1) /\ \A k \in 1..(n + 1) : ~(k > n + 1)
  BY <1>1
<1>6. ASSUME NEW e \in MapOf(B) PROVE e = new \/ (e \in MapOf(A) /\ e.key # new.key)
  <2>1. PICK j \in 1..(n + 1) : e = B[j] /\ \A k \in 1..(n + 1) : k > j => B[k].key # B[j].key
    BY <1>1 DEF MapOf
  <2>2. CASE j = n + 1
    BY <1>2, <2>1, <2>2
  <2>3. CASE j \in 1..n
    <3>1. e = A[j] /\ e.key # new.key
      BY <1>2, <1>4, <1>5, <2>1, <2>3
    <3>2. \A k \in 1..n : k > j => A[k].key # A[j].key
      BY <1>4, <2>1, <2>3
    <3> QED
      BY <1>1, <2>3, <3>1, <3>2 DEF MapOf
  <2> QED
    BY <1>3, <2>2, <2>3
<1>7. new \in MapOf(B)
  BY <1>1, <1>2, <1>5 DEF MapOf
<1>8. ASSUME NEW e \in MapOf(A), e.key # new.key PROVE e \in MapOf(B)
  <2>1. PICK j \in 1..n : e = A[j] /\ \A k \in 1..n : k > j => A[k].key # A[j].key
    BY <1>1 DEF MapOf
  <2>2. \A k \in 1..(n + 1) : k > j => B[k].key # B[j].key
    BY <1>2, <1>3, <1>8, <2>1
  <2> QED
    BY <1>1, <1>4, <2>1, <2>2 DEF MapOf
<1> QED
  BY <1>2, <1>6, <1>7, <1>8

\* A map is a sequence of entries with different keys.
IsMap(map) ==
  /\ \E S : map \in Seq(S)
  /\ \A i, j \in 1..Len(map) : map[i].key = map[j].key => i = j

LEMMA InsertIs ==
  ASSUME NEW map, IsMap(map), NEW new
  PROVE  /\ IsMap(Insert(map, new))
         /\ Range(Insert(map, new)) = {e \in Range(map) : e.key # new.key} \cup {new}
<1>1. PICK S : map \in Seq(S)
  BY DEF IsMap
<1>2. PICK T : T = S \cup {new}
  OBVIOUS
<1>3. PICK l \in Nat : l = Len(map)
  BY <1>1
<1>4. map \in Seq(T) /\ DOMAIN map = 1..l /\ new \in T /\ \A i \in 1..l : map[i] \in T
  BY <1>1, <1>2, <1>3
<1>5. PICK put : put = Insert(map, new)
  OBVIOUS
<1>6. \A i \in 1..l : \A j \in 1..l : map[i].key = map[j].key => i = j
  BY <1>3 DEF IsMap
<1>7. CASE new.key \in Keys(map)
  <2>1. PICK m \in 1..l : map[m].key = new.key
    BY <1>4, <1>7 DEF Keys
  <2>2. put = [i \in 1..l |-> IF map[i].key = new.key THEN new ELSE map[i]]
    BY <1>4, <1>5, <1>7 DEF Insert
  <2>3. put \in [1..l -> T]
    BY <1>4, <2>2
  <2>4. put \in Seq(T) /\ Len(put) = l /\ DOMAIN put = 1..l
    BY <2>3
  <2>5. \A i \in 1..l : put[i] = IF i = m THEN new ELSE map[i]
    BY <1>6, <2>1, <2>2
  <2>6. \A i \in 1..l : put[i].key = map[i].key
    BY <2>1, <2>5
  <2>7. IsMap(put)
    BY <1>6, <2>4, <2>6 DEF IsMap
  <2>8. Range(put) = {put[i] : i \in 1..l} /\ Range(map) = {map[i] : i \in 1..l}
    BY <1>4, <2>4 DEF Range
  <2>9. ASSUME NEW e \in Range(put) PROVE e = new \/ (e \in Range(map) /\ e.key # new.key)
    BY <1>6, <2>1, <2>5, <2>8
  <2>10. new \in Range(put)
    BY <2>5, <2>8
  <2>11. ASSUME NEW e \in Range(map), e.key # new.key PROVE e \in Range(put)
    BY <2>1, <2>5, <2>8, <2>11
  <2> QED
    BY <1>5, <2>7, <2>9, <2>10, <2>11
<1>8. CASE new.key \notin Keys(map)
  <2>1. put = Append(map, new)
    BY <1>5, <1>8 DEF Insert
  <2>2. put \in Seq(T) /\ Len(put) = l + 1 /\ put[l + 1] = new /\ \A i \in 1..l : put[i] = map[i]
    BY <1>3, <1>4, <2>1
  <2>3. DOMAIN put = 1..(l + 1)
    BY <2>2
  <2>4. \A i \in 1..l : map[i].key # new.key
    BY <1>4, <1>8 DEF Keys
  <2>5. \A i \in 1..(l + 1) : i \in 1..l \/ i = l + 1
    OBVIOUS
  <2>6. IsMap(put)
    BY <1>6, <2>2, <2>4, <2>5 DEF IsMap
  <2>7. Range(put) = {put[i] : i \in 1..(l + 1)} /\ Range(map) = {map[i] : i \in 1..l}
    BY <1>4, <2>3 DEF Range
  <2>8. l + 1 \in 1..(l + 1) /\ \A i \in 1..l : i \in 1..(l + 1)
    OBVIOUS
  <2>9. ASSUME NEW e \in Range(put) PROVE e = new \/ (e \in Range(map) /\ e.key # new.key)
    BY <2>2, <2>4, <2>5, <2>7
  <2>10. new \in Range(put)
    BY <2>2, <2>7, <2>8
  <2>11. ASSUME NEW e \in Range(map), e.key # new.key PROVE e \in Range(put)
    BY <2>2, <2>7, <2>8
  <2> QED
    BY <1>5, <2>6, <2>9, <2>10, <2>11
<1> QED
  BY <1>7, <1>8

\* A map is as long as what a list of entries makes.
LEMMA MapFits ==
  ASSUME NEW map, IsMap(map), NEW A, Range(map) = MapOf(A)
  PROVE  Cardinality(MapOf(A)) <= Len(map)
<1>1. PICK S : map \in Seq(S)
  BY DEF IsMap
<1>2. PICK l \in Nat : l = Len(map)
  BY <1>1
<1>3. map \in [1..l -> S]
  BY <1>1, <1>2
<1>4. map \in Surjection(1..l, Range(map))
  BY <1>3, Fun_RangeProperties
<1>5. ExistsSurjection(1..l, Range(map))
  BY <1>4 DEF ExistsSurjection
<1> QED
  BY <1>2, <1>5, FS_SurjCardinalityBound

\* Entries that have the keys of a map and another one make a longer map.
LEMMA MapTooLong ==
  ASSUME NEW map, IsMap(map), NEW A, NEW n, Entries(A, n),
         \A i \in 1..Len(map) : \E j \in 1..n : A[j].key = map[i].key,
         NEW m \in 1..n, A[m].key \notin Keys(map), NEW max \in Nat, Len(map) >= max
  PROVE  ~(Cardinality(MapOf(A)) <= max)
<1>1. PICK S : map \in Seq(S)
  BY DEF IsMap
<1>2. PICK l \in Nat : l = Len(map)
  BY <1>1
<1>3. DOMAIN map = 1..l /\ \A i \in 1..l : \A j \in 1..l : map[i].key = map[j].key => i = j
  BY <1>1, <1>2 DEF IsMap
<1>4. PICK key : key = [i \in 1..(l + 1) |-> IF i = l + 1 THEN A[m].key ELSE map[i].key]
  OBVIOUS
<1>5. \A i \in 1..(l + 1) : i \in 1..l \/ i = l + 1
  OBVIOUS
<1>6. \A i \in 1..l : i \in 1..(l + 1) /\ i # l + 1
  OBVIOUS
<1>7. l + 1 \in 1..(l + 1)
  OBVIOUS
<1>8. \A i \in 1..l : key[i] = map[i].key
  BY <1>4, <1>6
<1>9. key[l + 1] = A[m].key
  BY <1>4, <1>7
<1>10. \A i \in 1..l : map[i].key # A[m].key
  BY <1>3 DEF Keys
<1>11. \A i \in 1..(l + 1) : \A j \in 1..(l + 1) : key[i] = key[j] => i = j
  BY <1>3, <1>5, <1>8, <1>9, <1>10
<1>12. ASSUME NEW i \in 1..(l + 1) PROVE \E e \in MapOf(A) : e.key = key[i]
  <2>1. PICK j \in 1..n : A[j].key = key[i]
    BY <1>2, <1>5, <1>8, <1>9
  <2> QED
    BY <2>1, MapHasKeys
<1>13. PICK f : f = [i \in 1..(l + 1) |-> CHOOSE e \in MapOf(A) : e.key = key[i]]
  OBVIOUS
<1>14. \A i \in 1..(l + 1) : f[i] \in MapOf(A) /\ f[i].key = key[i]
  BY <1>12, <1>13
<1>15. f \in [1..(l + 1) -> MapOf(A)]
  BY <1>13, <1>14
<1>16. f \in Injection(1..(l + 1), MapOf(A))
  <2>1. \A i \in 1..(l + 1) : \A j \in 1..(l + 1) : f[i] = f[j] => i = j
    BY <1>11, <1>14
  <2>2. DOMAIN f = 1..(l + 1)
    BY <1>13
  <2> QED
    BY <1>15, <2>1, <2>2 DEF Injection, IsInjective
<1>17. Cardinality(1..(l + 1)) <= Cardinality(MapOf(A))
  BY <1>16, MapFinite, FS_Injection
<1>18. Cardinality(1..(l + 1)) = l + 1
  BY FS_Interval
<1>19. Cardinality(MapOf(A)) \in Nat
  BY MapFinite, FS_CardinalityType
<1> QED
  BY <1>2, <1>17, <1>18, <1>19

-----------------------------------------------------------------------------
(***************************************************************************)
(* What a slice says, field by field: whether its message is acceptable,   *)
(* and its value.  Of a message of the envelope's schema only.             *)
(***************************************************************************)
MessageOf(type, s, l) ==
  CASE type = "Envelope"   -> EnvelopeOf(Cut(type, s), l)
    [] type = "AppError"   -> AppErrorOf(Cut(type, s), l)
    [] type = "FieldError" -> FieldErrorOf(Cut(type, s), l)
    [] OTHER               -> EntryOf(Cut(type, s))

\* How many messages it takes to reach one of a type, itself included.
Level(type) == IF type = "Envelope" THEN 1 ELSE IF type = "AppError" THEN 2 ELSE 3

MessagesOf(type, list, l) == [i \in DOMAIN list |-> MessageOf(type, list[i], l)]
ValuesOf(type, list, l) == [i \in DOMAIN list |-> MessageOf(type, list[i], l).value]

\* The messages in the payloads of a field are acceptable, for a message at level k.
NestSound(f, list, k, l) ==
  f.kind \in Nestings => /\ \A i \in DOMAIN list : MessageOf(f.of, list[i], l).sound
                         /\ list # <<>> => k <= l.max_nesting_depth

FieldSound(f, list, k, l) ==
  /\ NestSound(f, list, k, l)
  /\ f.kind \in {"strings", "messages"} => Len(list) <= l.max_repeated_count
  /\ f.kind = "map" => Cardinality(MapOf(ValuesOf(f.of, list, l))) <= l.max_repeated_count

Sound(type, s, l) ==
  /\ Cut(type, s).bad = FALSE
  /\ \A n \in DOMAIN Schema[type] : FieldSound(Schema[type][n], All(Cut(type, s), n), Level(type), l)

LEMMA SchemaIs ==
  ASSUME Schema = EnvelopeSchema
  PROVE  /\ DOMAIN Schema = {"Envelope", "AppError", "FieldError", "MetadataEntry"}
         /\ DOMAIN Schema["Envelope"] = 1..4 /\ DOMAIN Schema["AppError"] = 1..5
         /\ DOMAIN Schema["FieldError"] = 1..4 /\ DOMAIN Schema["MetadataEntry"] = 1..2
         /\ Schema["Envelope"][1] = FieldIs("status", "int32", "none")
         /\ Schema["Envelope"][2] = FieldIs("transport_error", "string", "none")
         /\ Schema["Envelope"][3] = FieldIs("data", "bytes", "none")
         /\ Schema["Envelope"][4] = FieldIs("error", "message", "AppError")
         /\ Schema["AppError"][1] = FieldIs("code", "string", "none")
         /\ Schema["AppError"][2] = FieldIs("message", "string", "none")
         /\ Schema["AppError"][3] = FieldIs("args", "strings", "none")
         /\ Schema["AppError"][4] = FieldIs("details", "messages", "FieldError")
         /\ Schema["AppError"][5] = FieldIs("metadata", "map", "MetadataEntry")
         /\ Schema["FieldError"][1] = FieldIs("field", "string", "none")
         /\ Schema["FieldError"][2] = FieldIs("code", "string", "none")
         /\ Schema["FieldError"][3] = FieldIs("message", "string", "none")
         /\ Schema["FieldError"][4] = FieldIs("args", "strings", "none")
         /\ Schema["MetadataEntry"][1] = FieldIs("key", "string", "none")
         /\ Schema["MetadataEntry"][2] = FieldIs("value", "string", "none")
BY DEF EnvelopeSchema

LEMMA FieldParts ==
  ASSUME NEW name, NEW kind, NEW of
  PROVE  FieldIs(name, kind, of).name = name /\ FieldIs(name, kind, of).kind = kind
         /\ FieldIs(name, kind, of).of = of
BY DEF FieldIs

\* A scalar is always within the limits, and a string list if it is not too long.
LEMMA ScalarSound ==
  ASSUME NEW name, NEW kind, NEW list, NEW k, NEW l
  PROVE  /\ kind \in Scalars => FieldSound(FieldIs(name, kind, "none"), list, k, l)
         /\ kind = "strings" => (FieldSound(FieldIs(name, kind, "none"), list, k, l)
                                   <=> Len(list) <= l.max_repeated_count)
BY FieldParts DEF FieldSound, NestSound, Scalars, Nestings

\* A mapped list is empty when the list is.
LEMMA MessagesAre ==
  ASSUME NEW S, NEW list \in Seq(S), NEW type, NEW l
  PROVE  /\ MessagesOf(type, list, l) = <<>> <=> list = <<>>
         /\ Len(MessagesOf(type, list, l)) = Len(list)
         /\ DOMAIN list = 1..Len(list) /\ DOMAIN MessagesOf(type, list, l) = 1..Len(list)
         /\ \A i \in 1..Len(list) : MessagesOf(type, list, l)[i] = MessageOf(type, list[i], l)
         /\ Values(MessagesOf(type, list, l)) = ValuesOf(type, list, l)
         /\ AllSound(MessagesOf(type, list, l)) <=> \A i \in DOMAIN list : MessageOf(type, list[i], l).sound
<1>1. PICK k \in Nat : k = Len(list)
  OBVIOUS
<1>2. DOMAIN list = 1..k
  BY <1>1
<1>3. PICK m : m = MessagesOf(type, list, l)
  OBVIOUS
<1>4. m = [i \in 1..k |-> MessageOf(type, list[i], l)]
  BY <1>2, <1>3 DEF MessagesOf
<1>5. PICK T : T = {MessageOf(type, list[i], l) : i \in 1..k}
  OBVIOUS
<1>6. m \in [1..k -> T]
  BY <1>4, <1>5
<1>7. m \in Seq(T) /\ Len(m) = k
  BY <1>6
<1>8. m = <<>> <=> list = <<>>
  BY <1>1, <1>7, EmptySeq
<1>9. \A i \in 1..k : m[i] = MessageOf(type, list[i], l)
  BY <1>4
<1>10. DOMAIN m = 1..k
  BY <1>4
<1>11. Values(m) = ValuesOf(type, list, l)
  BY <1>2, <1>9, <1>10 DEF Values, Mapped, ValuesOf
<1>12. AllSound(m) <=> \A i \in DOMAIN list : MessageOf(type, list[i], l).sound
  BY <1>2, <1>9, <1>10 DEF AllSound
<1> QED
  BY <1>1, <1>2, <1>3, <1>7, <1>8, <1>9, <1>10, <1>11, <1>12

\* The payloads of a cut.
LEMMA CutIs ==
  ASSUME NEW type, NEW s \in Seq(Byte)
  PROVE  /\ Cut(type, s).bad \in BOOLEAN
         /\ \A n \in DOMAIN Schema[type] : All(Cut(type, s), n) \in Seq(Payloads)
<1>1. 0 \in 0..Len(s)
  OBVIOUS
<1>2. Cut(type, s) \in CutsOver(type)
  BY <1>1, CutsAre DEF IsCuts, Cut
<1> QED
  BY <1>2 DEF CutsOver, All

LEMMA EntrySound ==
  ASSUME Schema = EnvelopeSchema, NEW s \in Seq(Byte), NEW l
  PROVE  MessageOf("MetadataEntry", s, l).sound <=> Sound("MetadataEntry", s, l)
<1>1. PICK c : c = Cut("MetadataEntry", s)
  OBVIOUS
<1>2. MessageOf("MetadataEntry", s, l) = EntryOf(c)
  BY <1>1 DEF MessageOf
<1>3. EntryOf(c).sound <=> c.bad = FALSE
  BY <1>1, CutIs DEF EntryOf
<1>4. \A n \in DOMAIN Schema["MetadataEntry"] :
        FieldSound(Schema["MetadataEntry"][n], All(c, n), Level("MetadataEntry"), l)
  <2>1. ASSUME NEW n \in 1..2
        PROVE  FieldSound(Schema["MetadataEntry"][n], All(c, n), Level("MetadataEntry"), l)
    <3>1. n = 1 \/ n = 2
      OBVIOUS
    <3>2. "string" \in Scalars
      BY DEF Scalars
    <3> QED
      BY <3>1, <3>2, SchemaIs, ScalarSound
  <2> QED
    BY <2>1, SchemaIs
<1> QED
  BY <1>1, <1>2, <1>3, <1>4 DEF Sound

LEMMA FieldErrorSound ==
  ASSUME Schema = EnvelopeSchema, NEW s \in Seq(Byte), NEW l
  PROVE  MessageOf("FieldError", s, l).sound <=> Sound("FieldError", s, l)
<1>1. PICK c : c = Cut("FieldError", s)
  OBVIOUS
<1>2. MessageOf("FieldError", s, l) = FieldErrorOf(c, l)
  BY <1>1 DEF MessageOf
<1>3. FieldErrorOf(c, l).sound <=> c.bad = FALSE /\ Len(All(c, 4)) <= l.max_repeated_count
  BY <1>1, CutIs DEF FieldErrorOf
<1>4. PICK k : k = Level("FieldError")
  OBVIOUS
<1>5. \A n \in 1..3 : FieldSound(Schema["FieldError"][n], All(c, n), k, l)
  <2>1. ASSUME NEW n \in 1..3
        PROVE  FieldSound(Schema["FieldError"][n], All(c, n), k, l)
    <3>1. n = 1 \/ n = 2 \/ n = 3
      OBVIOUS
    <3>2. "string" \in Scalars
      BY DEF Scalars
    <3> QED
      BY <3>1, <3>2, SchemaIs, ScalarSound
  <2> QED
    BY <2>1
<1>6. FieldSound(Schema["FieldError"][4], All(c, 4), k, l) <=> Len(All(c, 4)) <= l.max_repeated_count
  BY SchemaIs, ScalarSound
<1>7. \A n : n \in DOMAIN Schema["FieldError"] <=> n \in 1..3 \/ n = 4
  BY SchemaIs
<1> QED
  BY <1>1, <1>2, <1>3, <1>4, <1>5, <1>6, <1>7 DEF Sound

LEMMA AppErrorSound ==
  ASSUME Schema = EnvelopeSchema, NEW s \in Seq(Byte), NEW l \in Limit
  PROVE  MessageOf("AppError", s, l).sound <=> Sound("AppError", s, l)
<1>1. PICK c : c = Cut("AppError", s)
  OBVIOUS
<1>2. PICK k : k = Level("AppError") /\ k = 2
  BY DEF Level
<1>3. PICK args \in Seq(Payloads), details \in Seq(Payloads), entries \in Seq(Payloads) :
        args = All(c, 3) /\ details = All(c, 4) /\ entries = All(c, 5)
  BY <1>1, CutIs, SchemaIs
<1>4. PICK d, e : d = MessagesOf("FieldError", details, l) /\ e = MessagesOf("MetadataEntry", entries, l)
  OBVIOUS
<1>5. MessageOf("AppError", s, l) = AppErrorMade(c, d, e, l)
  <2>1. \A x : MessageOf("FieldError", x, l) = FieldErrorOf(Cut("FieldError", x), l)
    BY DEF MessageOf
  <2>2. \A x : MessageOf("MetadataEntry", x, l) = EntryOf(Cut("MetadataEntry", x))
    BY DEF MessageOf
  <2>3. Mapped(All(c, 4), LAMBDA x : FieldErrorOf(Cut("FieldError", x), l)) = d
    BY <1>3, <1>4, <2>1 DEF MessagesOf, Mapped
  <2>4. Mapped(All(c, 5), LAMBDA x : EntryOf(Cut("MetadataEntry", x))) = e
    BY <1>3, <1>4, <2>2 DEF MessagesOf, Mapped
  <2>5. MessageOf("AppError", s, l) = AppErrorOf(c, l)
    BY <1>1 DEF MessageOf
  <2> QED
    BY <2>3, <2>4, <2>5 DEF AppErrorOf
<1>6. /\ d = <<>> <=> details = <<>>
      /\ e = <<>> <=> entries = <<>>
      /\ Len(d) = Len(details)
      /\ AllSound(d) <=> \A i \in DOMAIN details : MessageOf("FieldError", details[i], l).sound
      /\ AllSound(e) <=> \A i \in DOMAIN entries : MessageOf("MetadataEntry", entries[i], l).sound
      /\ Values(e) = ValuesOf("MetadataEntry", entries, l)
  BY <1>4, MessagesAre
<1>7. PICK m, max : m = l.max_nesting_depth /\ max = l.max_repeated_count
  OBVIOUS
<1>8. PICK held : held = Cardinality(MapOf(ValuesOf("MetadataEntry", entries, l)))
  OBVIOUS
<1>9. MessageOf("AppError", s, l).sound
        <=> /\ c.bad = FALSE /\ AllSound(d) /\ AllSound(e)
            /\ m >= 2 \/ (d = <<>> /\ e = <<>>)
            /\ Len(args) <= max /\ Len(d) <= max /\ held <= max
  <2>1. c.bad = FALSE <=> ~c.bad
    BY <1>1, CutIs
  <2> QED
    BY <1>3, <1>5, <1>6, <1>7, <1>8, <2>1 DEF AppErrorMade
<1>10. FieldSound(Schema["AppError"][1], All(c, 1), k, l) /\ FieldSound(Schema["AppError"][2], All(c, 2), k, l)
  <2>1. "string" \in Scalars
    BY DEF Scalars
  <2> QED
    BY <2>1, SchemaIs, ScalarSound
<1>11. FieldSound(Schema["AppError"][3], args, k, l) <=> Len(args) <= max
  BY <1>7, SchemaIs, ScalarSound
<1>12. FieldSound(Schema["AppError"][4], details, k, l)
         <=> AllSound(d) /\ (details # <<>> => k <= m) /\ Len(details) <= max
  BY <1>6, <1>7, SchemaIs, FieldParts DEF FieldSound, NestSound, Nestings
<1>13. FieldSound(Schema["AppError"][5], entries, k, l)
         <=> AllSound(e) /\ (entries # <<>> => k <= m) /\ held <= max
  BY <1>6, <1>7, <1>8, SchemaIs, FieldParts DEF FieldSound, NestSound, Nestings
<1>14. \A n : n \in DOMAIN Schema["AppError"] <=> n \in {1, 2, 3, 4, 5}
  BY SchemaIs
<1>15. (\A n \in DOMAIN Schema["AppError"] : FieldSound(Schema["AppError"][n], All(c, n), k, l))
         <=> /\ FieldSound(Schema["AppError"][3], args, k, l)
             /\ FieldSound(Schema["AppError"][4], details, k, l)
             /\ FieldSound(Schema["AppError"][5], entries, k, l)
  BY <1>3, <1>10, <1>14
<1>16. m \in Nat /\ (m >= 2 <=> k <= m)
  BY <1>2, <1>7 DEF Limit
<1> QED
  BY <1>1, <1>2, <1>6, <1>9, <1>11, <1>12, <1>13, <1>15, <1>16 DEF Sound

LEMMA EnvelopeSound ==
  ASSUME Schema = EnvelopeSchema, NEW s \in Seq(Byte), NEW l \in Limit
  PROVE  MessageOf("Envelope", s, l).sound <=> Sound("Envelope", s, l)
<1>1. PICK c : c = Cut("Envelope", s)
  OBVIOUS
<1>2. PICK k : k = Level("Envelope") /\ k = 1
  BY DEF Level
<1>3. PICK list \in Seq(Payloads) : list = All(c, 4)
  BY <1>1, CutIs, SchemaIs
<1>4. PICK d : d = MessagesOf("AppError", list, l)
  OBVIOUS
<1>5. MessageOf("Envelope", s, l) = EnvelopeMade(c, d, l)
  <2>1. \A x : MessageOf("AppError", x, l) = AppErrorOf(Cut("AppError", x), l)
    BY DEF MessageOf
  <2>2. Mapped(All(c, 4), LAMBDA x : AppErrorOf(Cut("AppError", x), l)) = d
    BY <1>3, <1>4, <2>1 DEF MessagesOf, Mapped
  <2>3. MessageOf("Envelope", s, l) = EnvelopeOf(c, l)
    BY <1>1 DEF MessageOf
  <2> QED
    BY <2>2, <2>3 DEF EnvelopeOf
<1>6. /\ d = <<>> <=> list = <<>>
      /\ AllSound(d) <=> \A i \in DOMAIN list : MessageOf("AppError", list[i], l).sound
  BY <1>4, MessagesAre
<1>7. PICK m : m = l.max_nesting_depth
  OBVIOUS
<1>8. MessageOf("Envelope", s, l).sound <=> c.bad = FALSE /\ AllSound(d) /\ (d = <<>> \/ m >= 1)
  <2>1. c.bad = FALSE <=> ~c.bad
    BY <1>1, CutIs
  <2> QED
    BY <1>5, <1>7, <2>1 DEF EnvelopeMade
<1>9. \A n \in {1, 2, 3} : FieldSound(Schema["Envelope"][n], All(c, n), k, l)
  <2>1. "string" \in Scalars /\ "int32" \in Scalars /\ "bytes" \in Scalars
    BY DEF Scalars
  <2> QED
    BY <2>1, SchemaIs, ScalarSound
<1>10. FieldSound(Schema["Envelope"][4], list, k, l) <=> AllSound(d) /\ (list # <<>> => k <= m)
  BY <1>6, <1>7, SchemaIs, FieldParts DEF FieldSound, NestSound, Nestings
<1>11. \A n : n \in DOMAIN Schema["Envelope"] <=> n \in {1, 2, 3} \/ n = 4
  BY SchemaIs
<1>12. m \in Nat /\ (m >= 1 <=> k <= m)
  BY <1>2, <1>7 DEF Limit
<1> QED
  BY <1>1, <1>2, <1>3, <1>6, <1>8, <1>9, <1>10, <1>11, <1>12 DEF Sound

\* A message is acceptable when it is a sequence of whole fields and the payloads
\* of each are within the limits.
LEMMA SoundIs ==
  ASSUME Schema = EnvelopeSchema, NEW type \in DOMAIN Schema, NEW s \in Seq(Byte), NEW l \in Limit
  PROVE  MessageOf(type, s, l).sound <=> Sound(type, s, l)
BY SchemaIs, EntrySound, FieldErrorSound, AppErrorSound, EnvelopeSound

-----------------------------------------------------------------------------
(***************************************************************************)
(* What a field holds is what its payloads tell.                           *)
(***************************************************************************)
\* A message as it was read, v, has the value w: a map is read in some order.
Like(type, v, w) ==
  CASE type = "Envelope" -> Plain(v) = w
    [] type = "AppError" -> [v EXCEPT !.metadata = Range(@)] = w
    [] OTHER             -> v = w

LastIn(list, zero) == IF list = <<>> THEN zero ELSE Last(list)

Tells(f, list, v, l) ==
  /\ f.kind = "int32" => v = AsInt32(LastIn(list, 0))
  /\ f.kind \in {"string", "bytes"} => v = LastIn(list, <<>>)
  /\ f.kind = "strings" => v = list
  /\ f.kind = "messages" => v = ValuesOf(f.of, list, l)
  /\ f.kind = "message" =>
       IF list = <<>> THEN v = <<>>
       ELSE \E w : v = <<w>> /\ Like(f.of, w, MessageOf(f.of, Last(list), l).value)
  /\ f.kind = "map" => IsMap(v) /\ Range(v) = MapOf(ValuesOf(f.of, list, l))

\* A message each field of which holds what its payloads tell.
Faithful(type, got, v, l) ==
  /\ v = [name \in Names(type) |-> v[name]]
  /\ \A n \in DOMAIN Schema[type] : Tells(Schema[type][n], got[n], v[Schema[type][n].name], l)

LEMMA NamesAre ==
  ASSUME Schema = EnvelopeSchema
  PROVE  /\ Names("Envelope") = {"status", "transport_error", "data", "error"}
         /\ Names("AppError") = {"code", "message", "args", "details", "metadata"}
         /\ Names("FieldError") = {"field", "code", "message", "args"}
         /\ Names("MetadataEntry") = {"key", "value"}
<1>1. \A type : Names(type) = {Schema[type][n].name : n \in DOMAIN Schema[type]}
  BY DEF Names, FieldsOf
<1>2. Names("Envelope") = {"status", "transport_error", "data", "error"}
  <2>1. DOMAIN Schema["Envelope"] = {1, 2, 3, 4}
    BY SchemaIs
  <2> QED
    BY <1>1, <2>1, SchemaIs, FieldParts
<1>3. Names("AppError") = {"code", "message", "args", "details", "metadata"}
  <2>1. DOMAIN Schema["AppError"] = {1, 2, 3, 4, 5}
    BY SchemaIs
  <2> QED
    BY <1>1, <2>1, SchemaIs, FieldParts
<1>4. Names("FieldError") = {"field", "code", "message", "args"}
  <2>1. DOMAIN Schema["FieldError"] = {1, 2, 3, 4}
    BY SchemaIs
  <2> QED
    BY <1>1, <2>1, SchemaIs, FieldParts
<1>5. Names("MetadataEntry") = {"key", "value"}
  <2>1. DOMAIN Schema["MetadataEntry"] = {1, 2}
    BY SchemaIs
  <2> QED
    BY <1>1, <2>1, SchemaIs, FieldParts
<1> QED
  BY <1>2, <1>3, <1>4, <1>5

LEMMA EntryLike ==
  ASSUME Schema = EnvelopeSchema, NEW s, NEW v, NEW l,
         Faithful("MetadataEntry", Cut("MetadataEntry", s).all, v, l)
  PROVE  Like("MetadataEntry", v, MessageOf("MetadataEntry", s, l).value)
<1>1. PICK c : c = Cut("MetadataEntry", s)
  OBVIOUS
<1>2. MessageOf("MetadataEntry", s, l).value = [key |-> LastOf(c, 1, <<>>), value |-> LastOf(c, 2, <<>>)]
  BY <1>1 DEF MessageOf, EntryOf
<1>3. v = [name \in {"key", "value"} |-> v[name]]
  BY NamesAre DEF Faithful
<1>4. v.key = LastOf(c, 1, <<>>) /\ v.value = LastOf(c, 2, <<>>)
  <2>1. DOMAIN Schema["MetadataEntry"] = {1, 2}
    BY SchemaIs
  <2> QED
    BY <1>1, <2>1, SchemaIs, FieldParts DEF Faithful, Tells, LastOf, LastIn, All
<1>5. v = [key |-> LastOf(c, 1, <<>>), value |-> LastOf(c, 2, <<>>)]
  BY <1>3, <1>4
<1> QED
  BY <1>2, <1>5 DEF Like

LEMMA FieldErrorLike ==
  ASSUME Schema = EnvelopeSchema, NEW s, NEW v, NEW l,
         Faithful("FieldError", Cut("FieldError", s).all, v, l)
  PROVE  Like("FieldError", v, MessageOf("FieldError", s, l).value)
<1>1. PICK c : c = Cut("FieldError", s)
  OBVIOUS
<1>2. MessageOf("FieldError", s, l).value
        = [field |-> LastOf(c, 1, <<>>), code |-> LastOf(c, 2, <<>>),
           message |-> LastOf(c, 3, <<>>), args |-> All(c, 4)]
  BY <1>1 DEF MessageOf, FieldErrorOf
<1>3. v = [name \in {"field", "code", "message", "args"} |-> v[name]]
  BY NamesAre DEF Faithful
<1>4. v.field = LastOf(c, 1, <<>>) /\ v.code = LastOf(c, 2, <<>>) /\ v.message = LastOf(c, 3, <<>>)
      /\ v.args = All(c, 4)
  <2>1. DOMAIN Schema["FieldError"] = {1, 2, 3, 4}
    BY SchemaIs
  <2> QED
    BY <1>1, <2>1, SchemaIs, FieldParts DEF Faithful, Tells, LastOf, LastIn, All
<1>5. v = [field |-> LastOf(c, 1, <<>>), code |-> LastOf(c, 2, <<>>),
           message |-> LastOf(c, 3, <<>>), args |-> All(c, 4)]
  BY <1>3, <1>4
<1> QED
  BY <1>2, <1>5 DEF Like

LEMMA AppErrorLike ==
  ASSUME Schema = EnvelopeSchema, NEW s \in Seq(Byte), NEW v, NEW l,
         Faithful("AppError", Cut("AppError", s).all, v, l)
  PROVE  Like("AppError", v, MessageOf("AppError", s, l).value)
<1>1. PICK c : c = Cut("AppError", s)
  OBVIOUS
<1>2. PICK details \in Seq(Payloads), entries \in Seq(Payloads) :
        details = All(c, 4) /\ entries = All(c, 5)
  BY <1>1, CutIs, SchemaIs
<1>3. PICK d, e : d = MessagesOf("FieldError", details, l) /\ e = MessagesOf("MetadataEntry", entries, l)
  OBVIOUS
<1>4. MessageOf("AppError", s, l) = AppErrorMade(c, d, e, l)
  <2>1. \A x : MessageOf("FieldError", x, l) = FieldErrorOf(Cut("FieldError", x), l)
    BY DEF MessageOf
  <2>2. \A x : MessageOf("MetadataEntry", x, l) = EntryOf(Cut("MetadataEntry", x))
    BY DEF MessageOf
  <2>3. Mapped(All(c, 4), LAMBDA x : FieldErrorOf(Cut("FieldError", x), l)) = d
    BY <1>2, <1>3, <2>1 DEF MessagesOf, Mapped
  <2>4. Mapped(All(c, 5), LAMBDA x : EntryOf(Cut("MetadataEntry", x))) = e
    BY <1>2, <1>3, <2>2 DEF MessagesOf, Mapped
  <2>5. MessageOf("AppError", s, l) = AppErrorOf(c, l)
    BY <1>1 DEF MessageOf
  <2> QED
    BY <2>3, <2>4, <2>5 DEF AppErrorOf
<1>5. Values(d) = ValuesOf("FieldError", details, l) /\ Values(e) = ValuesOf("MetadataEntry", entries, l)
  BY <1>3, MessagesAre
<1>6. MessageOf("AppError", s, l).value
        = [code |-> LastOf(c, 1, <<>>), message |-> LastOf(c, 2, <<>>), args |-> All(c, 3),
           details |-> ValuesOf("FieldError", details, l),
           metadata |-> MapOf(ValuesOf("MetadataEntry", entries, l))]
  BY <1>4, <1>5 DEF AppErrorMade
<1>7. v = [name \in {"code", "message", "args", "details", "metadata"} |-> v[name]]
  BY NamesAre DEF Faithful
<1>8. /\ v.code = LastOf(c, 1, <<>>) /\ v.message = LastOf(c, 2, <<>>) /\ v.args = All(c, 3)
      /\ v.details = ValuesOf("FieldError", details, l)
      /\ Range(v.metadata) = MapOf(ValuesOf("MetadataEntry", entries, l))
  <2>1. DOMAIN Schema["AppError"] = {1, 2, 3, 4, 5}
    BY SchemaIs
  <2>2. \A n \in {1, 2, 3, 4, 5} : Tells(Schema["AppError"][n], All(c, n), v[Schema["AppError"][n].name], l)
    BY <1>1, <2>1 DEF Faithful, All
  <2>3. v.code = LastOf(c, 1, <<>>) /\ v.message = LastOf(c, 2, <<>>)
    BY <2>2, SchemaIs, FieldParts DEF Tells, LastOf, LastIn
  <2>4. v.args = All(c, 3) /\ v.details = ValuesOf("FieldError", details, l)
    BY <1>2, <2>2, SchemaIs, FieldParts DEF Tells
  <2>5. Range(v.metadata) = MapOf(ValuesOf("MetadataEntry", entries, l))
    BY <1>2, <2>2, SchemaIs, FieldParts DEF Tells
  <2> QED
    BY <2>3, <2>4, <2>5
<1>9. PICK set : set = Range(v.metadata)
  OBVIOUS
<1>10. [v EXCEPT !.metadata = Range(@)] = [v EXCEPT !.metadata = set]
  BY <1>9
<1>11. [v EXCEPT !.metadata = set]
         = [code |-> v.code, message |-> v.message, args |-> v.args, details |-> v.details, metadata |-> set]
  BY <1>7
<1> QED
  BY <1>6, <1>8, <1>9, <1>10, <1>11 DEF Like

LEMMA EnvelopeLike ==
  ASSUME Schema = EnvelopeSchema, NEW s \in Seq(Byte), NEW v, NEW l,
         Faithful("Envelope", Cut("Envelope", s).all, v, l)
  PROVE  Like("Envelope", v, MessageOf("Envelope", s, l).value)
<1>1. PICK c : c = Cut("Envelope", s)
  OBVIOUS
<1>2. PICK list \in Seq(Payloads) : list = All(c, 4)
  BY <1>1, CutIs, SchemaIs
<1>3. PICK d : d = MessagesOf("AppError", list, l)
  OBVIOUS
<1>4. MessageOf("Envelope", s, l) = EnvelopeMade(c, d, l)
  <2>1. \A x : MessageOf("AppError", x, l) = AppErrorOf(Cut("AppError", x), l)
    BY DEF MessageOf
  <2>2. Mapped(All(c, 4), LAMBDA x : AppErrorOf(Cut("AppError", x), l)) = d
    BY <1>2, <1>3, <2>1 DEF MessagesOf, Mapped
  <2>3. MessageOf("Envelope", s, l) = EnvelopeOf(c, l)
    BY <1>1 DEF MessageOf
  <2> QED
    BY <2>2, <2>3 DEF EnvelopeOf
<1>5. PICK told : told = IF d = <<>> THEN <<>> ELSE <<Last(d).value>>
  OBVIOUS
<1>6. MessageOf("Envelope", s, l).value
        = [status |-> AsInt32(LastOf(c, 1, 0)), transport_error |-> LastOf(c, 2, <<>>),
           data |-> LastOf(c, 3, <<>>), error |-> told]
  BY <1>4, <1>5 DEF EnvelopeMade
<1>7. v = [name \in {"status", "transport_error", "data", "error"} |-> v[name]]
  BY NamesAre DEF Faithful
<1>8. \A n \in {1, 2, 3, 4} : Tells(Schema["Envelope"][n], All(c, n), v[Schema["Envelope"][n].name], l)
  <2>1. DOMAIN Schema["Envelope"] = {1, 2, 3, 4}
    BY SchemaIs
  <2> QED
    BY <1>1, <2>1 DEF Faithful, All
<1>9. /\ v.status = AsInt32(LastOf(c, 1, 0)) /\ v.transport_error = LastOf(c, 2, <<>>)
      /\ v.data = LastOf(c, 3, <<>>)
  BY <1>8, SchemaIs, FieldParts DEF Tells, LastOf, LastIn
<1>10. IF list = <<>> THEN v.error = <<>>
       ELSE \E w : v.error = <<w>> /\ Like("AppError", w, MessageOf("AppError", Last(list), l).value)
  BY <1>2, <1>8, SchemaIs, FieldParts DEF Tells
<1>11. PICK plain : plain = Mapped(v.error, LAMBDA ae : [ae EXCEPT !.metadata = Range(@)])
  OBVIOUS
<1>12. plain = told
  <2>1. CASE list = <<>>
    <3>1. d = <<>>
      BY <1>3, <2>1, MessagesAre
    <3>2. v.error = <<>>
      BY <1>10, <2>1
    <3>3. plain = [i \in DOMAIN <<>> |-> [<<>>[i] EXCEPT !.metadata = Range(@)]]
      BY <1>11, <3>2 DEF Mapped
    <3>4. DOMAIN plain = DOMAIN <<>>
      BY <3>3
    <3>5. plain = <<>>
      BY <3>3
    <3> QED
      BY <1>5, <3>1, <3>5
  <2>2. CASE list # <<>>
    <3>1. PICK w : v.error = <<w>> /\ Like("AppError", w, MessageOf("AppError", Last(list), l).value)
      BY <1>10, <2>2
    <3>2. [w EXCEPT !.metadata = Range(@)] = MessageOf("AppError", Last(list), l).value
      BY <3>1 DEF Like
    <3>3. plain = [i \in DOMAIN <<w>> |-> [<<w>>[i] EXCEPT !.metadata = Range(@)]]
      BY <1>11, <3>1 DEF Mapped
    <3>4. DOMAIN <<w>> = {1} /\ <<w>>[1] = w
      OBVIOUS
    <3>5. PICK x : x = [w EXCEPT !.metadata = Range(@)]
      OBVIOUS
    <3>6. plain = [i \in {1} |-> x]
      BY <3>3, <3>4, <3>5
    <3>7. plain = <<x>>
      BY <3>6
    <3>8. PICK k \in Nat : k = Len(list) /\ k >= 1
      BY <2>2, EmptySeq
    <3>9. d # <<>> /\ Len(d) = k /\ d[k] = MessageOf("AppError", list[k], l)
      BY <1>3, <2>2, <3>8, MessagesAre
    <3>10. Last(d).value = MessageOf("AppError", Last(list), l).value
      BY <3>8, <3>9 DEF Last
    <3> QED
      BY <1>5, <3>2, <3>5, <3>7, <3>9, <3>10
  <2> QED
    BY <2>1, <2>2
<1>13. Plain(v) = [v EXCEPT !.error = plain]
  BY <1>11 DEF Plain
<1>14. [v EXCEPT !.error = plain]
         = [status |-> v.status, transport_error |-> v.transport_error, data |-> v.data, error |-> plain]
  BY <1>7
<1> QED
  BY <1>6, <1>9, <1>12, <1>13, <1>14 DEF Like

\* A message that holds what the slice tells has the value of the slice.
LEMMA LikeIs ==
  ASSUME Schema = EnvelopeSchema, NEW type \in DOMAIN Schema, NEW s \in Seq(Byte), NEW v, NEW l,
         Faithful(type, Cut(type, s).all, v, l)
  PROVE  Like(type, v, MessageOf(type, s, l).value)
BY SchemaIs, EntryLike, FieldErrorLike, AppErrorLike, EnvelopeLike

-----------------------------------------------------------------------------
(***************************************************************************)
(* One more payload of a field.                                            *)
(***************************************************************************)
\* The value read from a payload x: of a message, what its slice tells.
ReadFrom(f, x, new, l) ==
  IF f.kind \in Nestings THEN Like(f.of, new, MessageOf(f.of, x, l).value)
                         ELSE new = Decoded(f.kind, x)

\* A field of the envelope's schema.
EnvelopeField(f) ==
  /\ f.kind \in Kinds
  /\ f.kind \in {"messages", "map"} => f.of \notin {"Envelope", "AppError"}

LEMMA FieldsEnvelope ==
  ASSUME Schema = EnvelopeSchema, NEW type \in DOMAIN Schema, NEW f \in FieldsOf(type)
  PROVE  EnvelopeField(f)
<1>1. PICK n \in DOMAIN Schema[type] : f = Schema[type][n]
  BY DEF FieldsOf
<1>2. f.kind \in Kinds
  <2>1. Schema[type][n] \in FieldType
    BY SchemaAssumption
  <2>2. PICK N, O : FieldType = [name : N, kind : Kinds, of : O]
    BY Zenon DEF FieldType
  <2> QED
    BY <1>1, <2>1, <2>2
<1>3. f.kind \in {"messages", "map"} => f.of \notin {"Envelope", "AppError"}
  <2>1. CASE type = "Envelope"
    <3>1. n \in {1, 2, 3, 4}
      BY <1>1, <2>1, SchemaIs
    <3> QED
      BY <1>1, <2>1, <3>1, SchemaIs, FieldParts
  <2>2. CASE type = "AppError"
    <3>1. n \in {1, 2, 3, 4, 5}
      BY <1>1, <2>2, SchemaIs
    <3> QED
      BY <1>1, <2>2, <3>1, SchemaIs, FieldParts
  <2>3. CASE type = "FieldError"
    <3>1. n \in {1, 2, 3, 4}
      BY <1>1, <2>3, SchemaIs
    <3> QED
      BY <1>1, <2>3, <3>1, SchemaIs, FieldParts
  <2>4. CASE type = "MetadataEntry"
    <3>1. n \in {1, 2}
      BY <1>1, <2>4, SchemaIs
    <3> QED
      BY <1>1, <2>4, <3>1, SchemaIs, FieldParts
  <2> QED
    BY <2>1, <2>2, <2>3, <2>4, SchemaIs
<1> QED
  BY <1>2, <1>3 DEF EnvelopeField

LEMMA ValuesAre ==
  ASSUME NEW S, NEW list \in Seq(S), NEW type, NEW l
  PROVE  /\ Entries(ValuesOf(type, list, l), Len(list)) /\ Len(ValuesOf(type, list, l)) = Len(list)
         /\ \E T : ValuesOf(type, list, l) \in Seq(T)
         /\ \A i \in 1..Len(list) : ValuesOf(type, list, l)[i] = MessageOf(type, list[i], l).value
<1>1. PICK k \in Nat : k = Len(list)
  OBVIOUS
<1>2. PICK v : v = ValuesOf(type, list, l)
  OBVIOUS
<1>3. v = [i \in 1..k |-> MessageOf(type, list[i], l).value]
  BY <1>1, <1>2 DEF ValuesOf
<1>4. PICK T : T = {MessageOf(type, list[i], l).value : i \in 1..k}
  OBVIOUS
<1>5. v \in [1..k -> T]
  BY <1>3, <1>4
<1>6. v \in Seq(T) /\ Len(v) = k /\ DOMAIN v = 1..k
  BY <1>5
<1>7. \A i \in 1..k : v[i] = MessageOf(type, list[i], l).value
  BY <1>3
<1> QED
  BY <1>1, <1>2, <1>6, <1>7 DEF Entries

\* The values of one more payload.
LEMMA ValuesOfMore ==
  ASSUME NEW S, NEW list \in Seq(S), NEW x \in S, NEW type, NEW l
  PROVE  ValuesOf(type, Append(list, x), l) = Append(ValuesOf(type, list, l), MessageOf(type, x, l).value)
<1>1. PICK k \in Nat : k = Len(list)
  OBVIOUS
<1>2. PICK v, w : v = ValuesOf(type, list, l) /\ w = ValuesOf(type, Append(list, x), l)
  OBVIOUS
<1>3. PICK y : y = MessageOf(type, x, l).value
  OBVIOUS
<1>4. Append(list, x) \in Seq(S) /\ Len(Append(list, x)) = k + 1 /\ Append(list, x)[k + 1] = x
      /\ \A i \in 1..k : Append(list, x)[i] = list[i]
  BY <1>1
<1>5. PICK T : v \in Seq(T)
  BY <1>2, ValuesAre
<1>6. PICK U : w \in Seq(U)
  BY <1>2, <1>4, ValuesAre
<1>7. Len(v) = k /\ \A i \in 1..k : v[i] = MessageOf(type, list[i], l).value
  BY <1>1, <1>2, ValuesAre
<1>8. Len(w) = k + 1 /\ \A i \in 1..(k + 1) : w[i] = MessageOf(type, Append(list, x)[i], l).value
  <2>1. PICK more \in Seq(S) : more = Append(list, x) /\ Len(more) = k + 1
    BY <1>4
  <2>2. w = ValuesOf(type, more, l)
    BY <1>2, <2>1
  <2>3. Len(w) = Len(more) /\ \A i \in 1..Len(more) : w[i] = MessageOf(type, more[i], l).value
    BY <2>2, ValuesAre
  <2> QED
    BY <2>1, <2>3
<1>9. \A i \in 1..k : i \in 1..(k + 1)
  OBVIOUS
<1>10. k + 1 \in 1..(k + 1)
  OBVIOUS
<1>11. w[k + 1] = y /\ \A i \in 1..k : w[i] = v[i]
  BY <1>3, <1>4, <1>7, <1>8, <1>9, <1>10
<1>12. PICK W : W = T \cup U \cup {y}
  OBVIOUS
<1>13. v \in Seq(W) /\ w \in Seq(W) /\ y \in W
  BY <1>5, <1>6, <1>12, SeqMonotonic
<1>14. PICK z : z = Append(v, y)
  OBVIOUS
<1>15. z \in Seq(W) /\ Len(z) = k + 1 /\ z[k + 1] = y /\ \A i \in 1..k : z[i] = v[i]
  BY <1>7, <1>13, <1>14
<1>16. \A i \in 1..(k + 1) : i \in 1..k \/ i = k + 1
  OBVIOUS
<1>17. \A i \in 1..(k + 1) : w[i] = z[i]
  BY <1>11, <1>15, <1>16
<1> QED
  BY <1>2, <1>3, <1>8, <1>13, <1>14, <1>15, <1>17, SeqEqual

LEMMA MapTells ==
  ASSUME NEW S, NEW list \in Seq(S), NEW x \in S, NEW type, NEW l, NEW old, NEW new,
         IsMap(old), Range(old) = MapOf(ValuesOf(type, list, l)), new = MessageOf(type, x, l).value
  PROVE  /\ IsMap(Insert(old, new))
         /\ Range(Insert(old, new)) = MapOf(ValuesOf(type, Append(list, x), l))
<1>1. PICK k \in Nat : k = Len(list)
  OBVIOUS
<1>2. PICK v, w : v = ValuesOf(type, list, l) /\ w = ValuesOf(type, Append(list, x), l)
  OBVIOUS
<1>3. Append(list, x) \in Seq(S) /\ Len(Append(list, x)) = k + 1
  BY <1>1
<1>4. Entries(v, k) /\ Len(v) = k /\ \E T : v \in Seq(T)
  BY <1>1, <1>2, ValuesAre
<1>5. Entries(w, k + 1)
  BY <1>2, <1>3, ValuesAre
<1>6. w = Append(v, new)
  BY <1>2, ValuesOfMore
<1>7. w[k + 1] = new /\ \A i \in 1..k : w[i] = v[i]
  <2>1. PICK T : v \in Seq(T)
    BY <1>4
  <2> QED
    BY <1>4, <1>6, <2>1
<1>8. MapOf(w) = {e \in MapOf(v) : e.key # new.key} \cup {new}
  BY <1>4, <1>5, <1>7, MapOfMore
<1> QED
  BY <1>2, <1>8, InsertIs

\* A field that takes the value read from one more payload tells that, too.
LEMMA TellsMore ==
  ASSUME NEW f, EnvelopeField(f), NEW list \in Seq(Payloads), NEW x \in Payloads, NEW l, NEW old, NEW new,
         Tells(f, list, old, l), ReadFrom(f, x, new, l)
  PROVE  Tells(f, Append(list, x), Merged(f, old, new), l)
<1>1. PICK more : more = Append(list, x)
  OBVIOUS
<1>2. more # <<>> /\ Last(more) = x
  <2>1. Len(more) = Len(list) + 1 /\ more[Len(list) + 1] = x /\ Len(list) \in Nat
    BY <1>1
  <2>2. more \in Seq(Payloads)
    BY <1>1
  <2> QED
    BY <2>1, <2>2, EmptySeq DEF Last
<1>3. LastIn(more, 0) = x /\ LastIn(more, <<>>) = x
  BY <1>2 DEF LastIn
<1>4. CASE f.kind = "int32"
  BY <1>1, <1>3, <1>4 DEF Tells, Merged, ReadFrom, Decoded, Nestings
<1>5. CASE f.kind \in {"string", "bytes"}
  BY <1>1, <1>3, <1>5 DEF Tells, Merged, ReadFrom, Decoded, Nestings
<1>6. CASE f.kind = "strings"
  BY <1>1, <1>6 DEF Tells, Merged, ReadFrom, Decoded, Nestings
<1>7. CASE f.kind = "messages"
  <2>1. Like(f.of, new, MessageOf(f.of, x, l).value) /\ f.of \notin {"Envelope", "AppError"}
    BY <1>7 DEF ReadFrom, Nestings, EnvelopeField
  <2>2. new = MessageOf(f.of, x, l).value
    BY <2>1 DEF Like
  <2>3. Merged(f, old, new) = Append(old, new) /\ old = ValuesOf(f.of, list, l)
    BY <1>7 DEF Merged, Tells
  <2>4. Merged(f, old, new) = ValuesOf(f.of, more, l)
    BY <1>1, <2>2, <2>3, ValuesOfMore
  <2> QED
    BY <1>1, <1>7, <2>4 DEF Tells
<1>8. CASE f.kind = "message"
  <2>1. Like(f.of, new, MessageOf(f.of, x, l).value)
    BY <1>8 DEF ReadFrom, Nestings
  <2>2. Merged(f, old, new) = <<new>>
    BY <1>8 DEF Merged
  <2> QED
    BY <1>1, <1>2, <1>8, <2>1, <2>2 DEF Tells
<1>9. CASE f.kind = "map"
  <2>1. Like(f.of, new, MessageOf(f.of, x, l).value) /\ f.of \notin {"Envelope", "AppError"}
    BY <1>9 DEF ReadFrom, Nestings, EnvelopeField
  <2>2. new = MessageOf(f.of, x, l).value
    BY <2>1 DEF Like
  <2>3. Merged(f, old, new) = Insert(old, new)
    BY <1>9 DEF Merged
  <2>4. IsMap(old) /\ Range(old) = MapOf(ValuesOf(f.of, list, l))
    BY <1>9 DEF Tells
  <2>5. IsMap(Insert(old, new)) /\ Range(Insert(old, new)) = MapOf(ValuesOf(f.of, more, l))
    BY <1>1, <2>2, <2>4, MapTells
  <2> QED
    BY <1>1, <1>9, <2>3, <2>5 DEF Tells
<1>10. f.kind \in Kinds
  BY DEF EnvelopeField
<1> QED
  BY <1>4, <1>5, <1>6, <1>7, <1>8, <1>9, <1>10 DEF Kinds, Scalars, Nestings

LEMMA NestSoundMore ==
  ASSUME NEW f, NEW list \in Seq(Payloads), NEW x \in Payloads, NEW k, NEW l, NestSound(f, list, k, l),
         f.kind \in Nestings => MessageOf(f.of, x, l).sound /\ k <= l.max_nesting_depth
  PROVE  NestSound(f, Append(list, x), k, l)
<1>1. PICK m \in Nat : m = Len(list) /\ DOMAIN list = 1..m
  OBVIOUS
<1>2. PICK more : more = Append(list, x)
  OBVIOUS
<1>3. DOMAIN more = 1..(m + 1) /\ more[m + 1] = x /\ \A i \in 1..m : more[i] = list[i]
  BY <1>1, <1>2
<1>4. \A i \in 1..(m + 1) : i \in 1..m \/ i = m + 1
  OBVIOUS
<1> QED
  BY <1>1, <1>2, <1>3, <1>4 DEF NestSound

\* A field that tells its payloads and is within the limit says that they are.
LEMMA CountsSound ==
  ASSUME NEW f, NEW list \in Seq(Payloads), NEW v, NEW k, Tells(f, list, v, limits), limits \in Limit,
         f.kind \in Listed => Counted(v), NestSound(f, list, k, limits)
  PROVE  FieldSound(f, list, k, limits)
<1>1. CASE f.kind \in {"strings", "messages"}
  <2>1. Len(v) <= limits.max_repeated_count
    BY <1>1 DEF Counted, Listed
  <2>2. Len(v) = Len(list)
    BY <1>1, ValuesAre DEF Tells
  <2> QED
    BY <1>1, <2>1, <2>2 DEF FieldSound
<1>2. CASE f.kind = "map"
  <2>1. IsMap(v) /\ Range(v) = MapOf(ValuesOf(f.of, list, limits))
    BY <1>2 DEF Tells
  <2>2. Cardinality(MapOf(ValuesOf(f.of, list, limits))) <= Len(v)
    BY <2>1, MapFits
  <2>3. Len(v) <= limits.max_repeated_count
    BY <1>2 DEF Counted, Listed
  <2>4. PICK n \in Nat : n = Len(v)
    BY <2>1 DEF IsMap
  <2>5. PICK m \in Nat : m = limits.max_repeated_count
    BY DEF Limit
  <2>6. Cardinality(MapOf(ValuesOf(f.of, list, limits))) \in Nat
    BY ValuesAre, MapFinite, FS_CardinalityType
  <2>7. Cardinality(MapOf(ValuesOf(f.of, list, limits))) <= m
    BY <2>2, <2>3, <2>4, <2>5, <2>6
  <2> QED
    BY <1>2, <2>5, <2>7 DEF FieldSound
<1>3. CASE f.kind \notin {"strings", "messages", "map"}
  BY <1>3 DEF FieldSound
<1> QED
  BY <1>1, <1>2, <1>3

\* `full` goes on after `list` with x.
GoesOn(list, x, full) ==
  /\ full \in Seq(Payloads) /\ Len(list) + 1 <= Len(full)
  /\ full[Len(list) + 1] = x /\ \A i \in 1..Len(list) : full[i] = list[i]

\* A value that is refused for its number is beyond the limit.
LEMMA RefusedFails ==
  ASSUME NEW f, EnvelopeField(f), NEW list \in Seq(Payloads), NEW x, NEW full, GoesOn(list, x, full),
         NEW old, NEW new, NEW k, Tells(f, list, old, limits), ReadFrom(f, x, new, limits),
         limits \in Limit, Refused(f, old, new)
  PROVE  ~FieldSound(f, full, k, limits)
<1>1. PICK m \in Nat, n \in Nat, max \in Nat : m = Len(list) /\ n = Len(full) /\ max = limits.max_repeated_count
  BY DEF GoesOn, Limit
<1>2. full \in Seq(Payloads) /\ m + 1 <= n /\ full[m + 1] = x /\ \A i \in 1..m : full[i] = list[i]
  BY <1>1 DEF GoesOn
<1>3. CASE f.kind \in {"strings", "messages"}
  <2>1. Len(old) >= max
    BY <1>1, <1>3 DEF Refused, Full
  <2>2. Len(old) = m
    BY <1>1, <1>3, ValuesAre DEF Tells
  <2>3. ~(n <= max)
    BY <1>2, <2>1, <2>2
  <2> QED
    BY <1>1, <1>3, <2>3 DEF FieldSound
<1>4. CASE f.kind = "map"
  <2>1. PICK v, w : v = ValuesOf(f.of, list, limits) /\ w = ValuesOf(f.of, full, limits)
    OBVIOUS
  <2>2. IsMap(old) /\ Range(old) = MapOf(v)
    BY <1>4, <2>1 DEF Tells
  <2>3. new.key \notin Keys(old) /\ Len(old) >= max
    BY <1>1, <1>4 DEF Refused, Full
  <2>4. Like(f.of, new, MessageOf(f.of, x, limits).value) /\ f.of \notin {"Envelope", "AppError"}
    BY <1>4 DEF ReadFrom, Nestings, EnvelopeField
  <2>5. new = MessageOf(f.of, x, limits).value
    BY <2>4 DEF Like
  <2>6. Entries(v, m) /\ \A i \in 1..m : v[i] = MessageOf(f.of, list[i], limits).value
    BY <1>1, <2>1, ValuesAre
  <2>7. Entries(w, n) /\ \A i \in 1..n : w[i] = MessageOf(f.of, full[i], limits).value
    BY <1>1, <1>2, <2>1, ValuesAre
  <2>8. m + 1 \in 1..n /\ \A i \in 1..m : i \in 1..n
    BY <1>2
  <2>9. w[m + 1] = new /\ \A i \in 1..m : w[i] = v[i]
    BY <1>2, <2>5, <2>6, <2>7, <2>8
  <2>10. ASSUME NEW i \in 1..Len(old) PROVE \E j \in 1..n : w[j].key = old[i].key
    <3>1. PICK S : old \in Seq(S)
      BY <2>2 DEF IsMap
    <3>2. old[i] \in Range(old)
      BY <3>1 DEF Range
    <3>3. PICK j \in 1..m : old[i] = v[j]
      BY <2>2, <2>6, <3>2 DEF MapOf, Entries
    <3> QED
      BY <2>8, <2>9, <3>3
  <2>11. ~(Cardinality(MapOf(w)) <= max)
    <3>1. w[m + 1].key \notin Keys(old)
      BY <2>3, <2>9
    <3> QED
      BY <2>2, <2>3, <2>7, <2>8, <2>10, <3>1, MapTooLong
  <2> QED
    BY <1>1, <1>4, <2>1, <2>11 DEF FieldSound
<1> QED
  BY <1>3, <1>4 DEF Refused

\* A message that is not acceptable, or is too deep.
LEMMA NestFails ==
  ASSUME NEW f, f.kind \in Nestings, NEW list \in Seq(Payloads), NEW x, NEW full, GoesOn(list, x, full), NEW k,
         ~MessageOf(f.of, x, limits).sound \/ ~(k <= limits.max_nesting_depth)
  PROVE  ~FieldSound(f, full, k, limits)
<1>1. PICK m \in Nat, n \in Nat : m = Len(list) /\ n = Len(full)
  BY DEF GoesOn
<1>2. full \in Seq(Payloads) /\ m + 1 <= n /\ full[m + 1] = x
  BY <1>1 DEF GoesOn
<1>3. full # <<>> /\ m + 1 \in DOMAIN full
  BY <1>1, <1>2
<1> QED
  BY <1>2, <1>3 DEF FieldSound, NestSound

-----------------------------------------------------------------------------
(***************************************************************************)
(* The third inductive invariant: while the decode goes on, every message  *)
(* being read is the start of its slice, which lies in the slice of the    *)
(* message around it.  Or a length reached past the message it is in: then *)
(* the document is not acceptable, and a position stays past its end.      *)
(***************************************************************************)
PartOf(stk, b, k) == SubSeq(data, b[k] + 1, stk[k].end)

\* A message at level k holds what the payloads `got` of its fields tell, and the
\* messages in them are acceptable.
Held(frame, got, k) ==
  /\ got \in Lists(frame.type)
  /\ Faithful(frame.type, got, frame.value, limits)
  /\ \A n \in DOMAIN Schema[frame.type] : NestSound(Schema[frame.type][n], got[n], k, limits)

\* The message on the top has been read up to `at`.
Taken(stk, at, b, k) ==
  \E got : Held(stk[k], got, k) /\ Consumed(stk[k].type, PartOf(stk, b, k), at - b[k], got)

\* The message at k has been read up to the one in it, which is the next payload
\* of its field.
Around(stk, b, k) ==
  /\ k <= limits.max_nesting_depth
  /\ \E got, n :
       /\ n \in DOMAIN Schema[stk[k].type] /\ stk[k + 1].field = Schema[stk[k].type][n]
       /\ Held(stk[k], got, k)
       /\ Consumed(stk[k].type, PartOf(stk, b, k), stk[k + 1].end - b[k],
                   With(got, n, PartOf(stk, b, k + 1)))

Bases(stk, b) ==
  b[1] = 0 /\ \A k \in 1..Len(stk) : b[k] \in Nat /\ b[k] <= stk[k].end

GoodAt(stk, at, b) ==
  /\ Bases(stk, b) /\ Taken(stk, at, b, Len(stk))
  /\ \A k \in 1..(Len(stk) - 1) : Around(stk, b, k)

Unacceptable == ~MessageOf("Envelope", data, limits).sound

\* Where the reading of the message at k has come to.
Cursor(stk, at, k) == IF k = Len(stk) THEN at ELSE stk[k + 1].end

DoomedAt(stk, at) ==
  Unacceptable /\ \E k \in 1..Len(stk) : ~(Cursor(stk, at, k) <= stk[k].end)

Shaped ==
  /\ Len(data) < 2^Width
  /\ stack[1].type = "Envelope" /\ stack[1].end = Len(data)
  /\ \A k \in 1..Len(stack) : Level(stack[k].type) = k
  /\ \A k \in 2..Len(stack) : stack[k].type = stack[k].field.of
  /\ Len(stack) > 1 => Admitted

Slicing ==
  /\ Shaped
  /\ err = "none" => (\E b : GoodAt(stack, pos, b)) \/ DoomedAt(stack, pos)
  /\ err # "none" => ReadsAsSliced

\* What there is to know of the messages being read.
LEMMA FrameIs ==
  ASSUME Reading, Typed, Shaped, NEW k \in 1..Len(stack)
  PROVE  /\ IsFrame(stack[k]) /\ Sane(stack[k]) /\ stack[k].type \in DOMAIN Schema
         /\ stack[k].end \in 0..Len(data) /\ Level(stack[k].type) = k
         /\ data \in Seq(Byte) /\ Len(data) \in Nat /\ limits \in Limit
         /\ k \in Nat /\ Len(stack) \in Nat
<1>1. IsFrame(stack[k]) /\ Sane(stack[k]) /\ FrameOK(stack[k])
  BY FrameFacts DEF Typed
<1>2. data \in Seq(Byte) /\ Len(data) \in Nat /\ limits \in Limit
  BY DEF Typed, TypeOK
<1>3. Len(stack) \in Nat
  BY DEF Reading
<1>4. stack[k].end \in 0..Len(data)
  BY <1>1, <1>2 DEF Sane, FrameOK
<1> QED
  BY <1>1, <1>2, <1>3, <1>4 DEF FrameOK, Shaped

LEMMA PartIsOf ==
  ASSUME Reading, Typed, Shaped, NEW b, Bases(stack, b), NEW k \in 1..Len(stack)
  PROVE  /\ IsPart(PartOf(stack, b, k), data, b[k], stack[k].end)
         /\ PartOf(stack, b, k) \in Seq(Byte) /\ PartOf(stack, b, k) \in Payloads
         /\ Len(PartOf(stack, b, k)) = stack[k].end - b[k] /\ b[k] \in Nat
<1>1. PICK e \in Nat, c \in Nat : e = stack[k].end /\ c = b[k]
  BY FrameIs DEF Bases
<1>2. e <= Len(data) /\ c <= e /\ data \in Seq(Byte) /\ Len(data) \in Nat
  BY <1>1, FrameIs DEF Bases
<1>3. e \in c..Len(data)
  BY <1>2
<1>4. PartOf(stack, b, k) = SubSeq(data, c + 1, e)
  BY <1>1 DEF PartOf
<1>5. IsPart(PartOf(stack, b, k), data, c, e)
  BY <1>2, <1>3, <1>4, PartIs
<1> QED
  BY <1>1, <1>5 DEF IsPart, Payloads

\* A field whose payloads are beyond the limits spoils its message.
LEMMA FieldSpoils ==
  ASSUME Schema = EnvelopeSchema, NEW type \in DOMAIN Schema, NEW s \in Seq(Byte), limits \in Limit,
         NEW n \in DOMAIN Schema[type],
         ~FieldSound(Schema[type][n], All(Cut(type, s), n), Level(type), limits)
  PROVE  ~MessageOf(type, s, limits).sound
BY SoundIs DEF Sound

LEMMA BadSpoils ==
  ASSUME Schema = EnvelopeSchema, NEW type \in DOMAIN Schema, NEW s \in Seq(Byte), limits \in Limit,
         Cut(type, s).bad = TRUE
  PROVE  ~MessageOf(type, s, limits).sound
BY SoundIs DEF Sound

\* What was read of a slice with one more payload of a field goes on in it.
LEMMA WithGoesOn ==
  ASSUME NEW type, NEW s \in Seq(Byte), NEW p, NEW got \in Lists(type), NEW n \in DOMAIN Schema[type],
         NEW x \in Payloads, Consumed(type, s, p, With(got, n, x))
  PROVE  got[n] \in Seq(Payloads) /\ GoesOn(got[n], x, All(Cut(type, s), n))
<1>1. PICK list \in Seq(Payloads) : list = got[n]
  BY DEF Lists
<1>2. PICK full : full = All(Cut(type, s), n)
  OBVIOUS
<1>3. With(got, n, x)[n] = Append(list, x)
  BY <1>1 DEF With, Lists
<1>4. PICK m \in Nat : m = Len(list)
  OBVIOUS
<1>5. PICK more \in Seq(Payloads) : more = Append(list, x) /\ Len(more) = m + 1 /\ more[m + 1] = x
                                    /\ \A i \in 1..m : more[i] = list[i]
  <2>1. Append(list, x) \in Seq(Payloads) /\ Len(Append(list, x)) = m + 1
        /\ Append(list, x)[m + 1] = x /\ \A i \in 1..m : Append(list, x)[i] = list[i]
    BY <1>4
  <2> QED
    BY <2>1
<1>6. full \in Seq(Payloads) /\ Len(more) <= Len(full) /\ \A i \in 1..Len(more) : full[i] = more[i]
  <2>1. PICK past : past = With(got, n, x)
    OBVIOUS
  <2>2. Consumed(type, s, p, past) /\ past[n] = more
    BY <1>3, <1>5, <2>1
  <2>3. /\ All(Cut(type, s), n) \in Seq(Payloads) /\ Len(past[n]) <= Len(All(Cut(type, s), n))
        /\ \A i \in 1..Len(past[n]) : All(Cut(type, s), n)[i] = past[n][i]
    BY <2>2, ConsumedHas
  <2> QED
    BY <1>2, <2>2, <2>3
<1>7. m + 1 \in 1..(m + 1) /\ \A i \in 1..m : i \in 1..(m + 1)
  OBVIOUS
<1>8. full[m + 1] = x /\ \A i \in 1..m : full[i] = list[i]
  BY <1>5, <1>6, <1>7
<1> QED
  BY <1>1, <1>2, <1>4, <1>5, <1>6, <1>8 DEF GoesOn

\* A message that is not acceptable spoils the one around it.
LEMMA AroundSpoils ==
  ASSUME Schema = EnvelopeSchema, Reading, Typed, Shaped, NEW b, Bases(stack, b),
         NEW k \in 1..(Len(stack) - 1), Around(stack, b, k),
         ~MessageOf(stack[k + 1].type, PartOf(stack, b, k + 1), limits).sound
  PROVE  ~MessageOf(stack[k].type, PartOf(stack, b, k), limits).sound
<1>1. Len(stack) \in Nat /\ k \in 1..Len(stack) /\ k + 1 \in 1..Len(stack) /\ k + 1 \in 2..Len(stack)
  BY DEF Reading
<1>2. PICK got, n : /\ n \in DOMAIN Schema[stack[k].type]
                    /\ stack[k + 1].field = Schema[stack[k].type][n]
                    /\ Held(stack[k], got, k)
                    /\ Consumed(stack[k].type, PartOf(stack, b, k), stack[k + 1].end - b[k],
                                With(got, n, PartOf(stack, b, k + 1)))
  BY DEF Around
<1>3. PICK type, f, s, x : type = stack[k].type /\ f = Schema[type][n] /\ s = PartOf(stack, b, k)
                           /\ x = PartOf(stack, b, k + 1)
  OBVIOUS
<1>4. s \in Seq(Byte) /\ x \in Payloads
  BY <1>1, <1>3, PartIsOf
<1>5. got \in Lists(type)
  BY <1>2, <1>3 DEF Held
<1>6. got[n] \in Seq(Payloads) /\ GoesOn(got[n], x, All(Cut(type, s), n))
  BY <1>2, <1>3, <1>4, <1>5, WithGoesOn
<1>7. f.kind \in Nestings /\ f.of = stack[k + 1].type
  BY <1>1, <1>2, <1>3 DEF Typed, Nested, Shaped
<1>8. ~FieldSound(f, All(Cut(type, s), n), Level(type), limits)
  BY <1>3, <1>6, <1>7, NestFails
<1>9. type \in DOMAIN Schema /\ limits \in Limit
  BY <1>1, <1>3, FrameIs
<1> QED
  BY <1>2, <1>3, <1>4, <1>8, <1>9, FieldSpoils

\* The root is all of the buffer.
LEMMA RootIs ==
  ASSUME Reading, Typed, Shaped, NEW b, Bases(stack, b)
  PROVE  PartOf(stack, b, 1) = data
<1>1. stack[1].end = Len(data) /\ b[1] = 0 /\ data \in Seq(Byte)
  BY DEF Shaped, Bases, Typed, TypeOK
<1>2. PartOf(stack, b, 1) = SubSeq(data, 1, Len(data))
  BY <1>1 DEF PartOf
<1> QED
  BY <1>1, <1>2, SubSeqFull

\* So does any of the messages being read spoil the document.
LEMMA Spoils ==
  ASSUME Schema = EnvelopeSchema, Reading, Typed, Shaped, NEW b, Bases(stack, b),
         NEW k \in 1..Len(stack), \A j \in 1..(k - 1) : Around(stack, b, j),
         ~MessageOf(stack[k].type, PartOf(stack, b, k), limits).sound
  PROVE  Unacceptable
<1>1. PICK spoilt : spoilt = [j \in 1..k |-> ~MessageOf(stack[j].type, PartOf(stack, b, j), limits).sound]
  OBVIOUS
<1>2. k \in Nat /\ Len(stack) \in Nat
  BY DEF Reading
<1>3. PICK S : S = {i \in Nat : i < k => spoilt[k - i]}
  OBVIOUS
<1>4. 0 \in S
  <2>1. k - 0 = k /\ k \in 1..k
    BY <1>2
  <2> QED
    BY <1>1, <1>3, <2>1
<1>5. ASSUME NEW i \in Nat, i \in S PROVE i + 1 \in S
  <2>1. SUFFICES ASSUME i + 1 < k PROVE spoilt[k - (i + 1)]
    BY <1>3
  <2>2. PICK j \in Nat : j = k - (i + 1) /\ j + 1 = k - i
    <3>1. k - (i + 1) \in Nat /\ (k - (i + 1)) + 1 = k - i
      BY <1>2, <2>1
    <3> QED
      BY <3>1
  <2>3. i < k
    BY <1>2, <2>1
  <2>4. j \in 1..k /\ j + 1 \in 1..k /\ j \in 1..(k - 1) /\ j \in 1..(Len(stack) - 1)
    BY <1>2, <2>1, <2>2
  <2>5. spoilt[j + 1]
    BY <1>3, <1>5, <2>2, <2>3
  <2>6. ~MessageOf(stack[j + 1].type, PartOf(stack, b, j + 1), limits).sound
    BY <1>1, <2>4, <2>5
  <2>7. ~MessageOf(stack[j].type, PartOf(stack, b, j), limits).sound
    BY <2>4, <2>6, AroundSpoils
  <2> QED
    BY <1>1, <2>2, <2>4, <2>7
<1>6. Nat \subseteq S
  BY <1>4, <1>5, NatInductive
<1>7. spoilt[1]
  <2>1. k - 1 \in Nat /\ k - 1 < k /\ k - (k - 1) = 1
    BY <1>2
  <2> QED
    BY <1>3, <1>6, <2>1
<1>8. 1 \in 1..k
  BY <1>2
<1>9. ~MessageOf(stack[1].type, PartOf(stack, b, 1), limits).sound
  BY <1>1, <1>7, <1>8
<1>10. stack[1].type = "Envelope" /\ PartOf(stack, b, 1) = data
  BY RootIs DEF Shaped
<1> QED
  BY <1>9, <1>10 DEF Unacceptable

-----------------------------------------------------------------------------
(***************************************************************************)
(* A value that enters a message, and what comes of it.                    *)
(***************************************************************************)
\* A payload that may stand in a field of a message at level k.
Fitting(f, x, k) ==
  f.kind \in Nestings => MessageOf(f.of, x, limits).sound /\ k <= limits.max_nesting_depth

LEMMA HeldMore ==
  ASSUME Schema = EnvelopeSchema, limits \in Limit, NEW frame, IsFrame(frame), Sane(frame),
         frame.type \in DOMAIN Schema, NEW got, NEW k, Held(frame, got, k),
         NEW n \in DOMAIN Schema[frame.type], NEW f, f = Schema[frame.type][n],
         NEW x \in Payloads, NEW new, ReadFrom(f, x, new, limits), Fitting(f, x, k)
  PROVE  Held(Put(frame, f.name, Merged(f, frame.value[f.name], new)), With(got, n, x), k)
<1>1. PICK type, v, w, old : /\ type = frame.type /\ v = frame.value /\ old = v[f.name]
                             /\ w = [v EXCEPT ![f.name] = Merged(f, old, new)]
  OBVIOUS
<1>2. PICK put : put = Put(frame, f.name, Merged(f, old, new))
  OBVIOUS
<1>3. put.type = type /\ put.value = w
  BY <1>1, <1>2, PutParts, PutValue
<1>4. got \in Lists(type) /\ DOMAIN got = DOMAIN Schema[type]
      /\ \A m \in DOMAIN Schema[type] : got[m] \in Seq(Payloads)
  BY <1>1 DEF Held, Lists
<1>5. PICK more : more = With(got, n, x)
  OBVIOUS
<1>6. more = [m \in DOMAIN Schema[type] |-> IF m = n THEN Append(got[m], x) ELSE got[m]]
  BY <1>4, <1>5 DEF With
<1>7. more \in Lists(type)
  <2>1. ASSUME NEW m \in DOMAIN Schema[type]
        PROVE  (IF m = n THEN Append(got[m], x) ELSE got[m]) \in Seq(Payloads)
    <3>1. PICK list \in Seq(Payloads) : list = got[m]
      BY <1>4
    <3>2. Append(list, x) \in Seq(Payloads)
      OBVIOUS
    <3> QED
      BY <3>1, <3>2
  <2> QED
    BY <1>6, <2>1 DEF Lists
<1>8. v = [name \in Names(type) |-> v[name]]
      /\ \A m \in DOMAIN Schema[type] : Tells(Schema[type][m], got[m], v[Schema[type][m].name], limits)
  BY <1>1 DEF Held, Faithful
<1>9. DOMAIN v = Names(type) /\ \A m \in DOMAIN Schema[type] : Schema[type][m].name \in Names(type)
  BY <1>8 DEF Names, FieldsOf
<1>10. DOMAIN w = Names(type) /\ w[f.name] = Merged(f, old, new)
       /\ \A name \in Names(type) : name # f.name => w[name] = v[name]
  BY <1>1, <1>9
<1>11. w = [name \in Names(type) |-> w[name]]
  BY <1>1, <1>8
<1>12. EnvelopeField(f) /\ n \in DOMAIN Schema[type] /\ f = Schema[type][n]
  BY <1>1, FieldsEnvelope DEF FieldsOf
<1>13. ASSUME NEW m \in DOMAIN Schema[type]
       PROVE  Tells(Schema[type][m], more[m], w[Schema[type][m].name], limits)
              /\ NestSound(Schema[type][m], more[m], k, limits)
  <2>1. NestSound(Schema[type][m], got[m], k, limits) /\ Tells(Schema[type][m], got[m], v[Schema[type][m].name], limits)
    BY <1>1, <1>8 DEF Held
  <2>2. CASE m = n
    <3>1. PICK list \in Seq(Payloads) : list = got[m]
      BY <1>4
    <3>2. more[m] = Append(list, x)
      BY <1>6, <2>2, <3>1
    <3>3. Tells(f, list, old, limits) /\ NestSound(f, list, k, limits)
      BY <1>1, <1>12, <2>1, <2>2, <3>1
    <3>4. Tells(f, Append(list, x), Merged(f, old, new), limits)
      BY <1>12, <3>3, TellsMore
    <3>5. NestSound(f, Append(list, x), k, limits)
      BY <3>3, NestSoundMore DEF Fitting
    <3> QED
      BY <1>10, <1>12, <2>2, <3>2, <3>4, <3>5
  <2>3. CASE m # n
    <3>1. Schema[type][m].name # f.name
      BY <1>1, <1>12, <2>3, SchemaAssumption
    <3>2. more[m] = got[m] /\ w[Schema[type][m].name] = v[Schema[type][m].name]
      BY <1>6, <1>9, <1>10, <2>3, <3>1
    <3> QED
      BY <2>1, <3>2
  <2> QED
    BY <2>2, <2>3
<1>14. Faithful(type, more, w, limits)
  BY <1>11, <1>13 DEF Faithful
<1>15. Held(put, more, k)
  BY <1>3, <1>7, <1>13, <1>14 DEF Held
<1>16. put = Put(frame, f.name, Merged(f, frame.value[f.name], new))
  BY <1>1, <1>2
<1> QED
  BY <1>5, <1>15, <1>16

\* A message that was just entered.
LEMMA HeldNone ==
  ASSUME Schema = EnvelopeSchema, NEW type \in DOMAIN Schema, NEW field, NEW end, NEW k
  PROVE  Held(Frame(type, field, end), [n \in DOMAIN Schema[type] |-> <<>>], k)
<1>1. PICK frame, none : frame = Frame(type, field, end) /\ none = [n \in DOMAIN Schema[type] |-> <<>>]
  OBVIOUS
<1>2. frame.type = type /\ frame.value = Default(type)
  BY <1>1 DEF Frame
<1>3. none \in Lists(type)
  <2>1. <<>> \in Seq(Payloads)
    OBVIOUS
  <2> QED
    BY <1>1, <2>1 DEF Lists
<1>4. PICK v : v = Default(type)
  OBVIOUS
<1>5. v = [name \in Names(type) |-> v[name]]
  BY <1>4 DEF Default, Names
<1>6. ASSUME NEW n \in DOMAIN Schema[type]
      PROVE  Tells(Schema[type][n], none[n], v[Schema[type][n].name], limits)
             /\ NestSound(Schema[type][n], none[n], k, limits)
  <2>1. PICK f \in FieldsOf(type) : f = Schema[type][n]
    BY DEF FieldsOf
  <2>2. none[n] = <<>>
    BY <1>1
  <2>3. v[f.name] = Empty(f.kind)
    <3>1. (CHOOSE g \in FieldsOf(type) : g.name = f.name) = f
      BY FieldsApart
    <3> QED
      BY <1>4, <3>1 DEF Default
  <2>4. NestSound(f, <<>>, k, limits)
    <3>1. DOMAIN <<>> = {}
      OBVIOUS
    <3> QED
      BY <3>1 DEF NestSound
  <2>5. EnvelopeField(f)
    BY FieldsEnvelope
  <2>6. CASE f.kind = "int32"
    <3>1. PICK half \in Nat : half = 2^(Width32 - 1) /\ 2^Width32 = 2 * half /\ 2^Width32 > 0
      BY PowersAssumption
    <3>2. PICK all \in Nat : all = 2^Width32 /\ all > 0 /\ half > 0
      BY <3>1
    <3>3. 0 % all = 0
      BY <3>2
    <3>4. AsInt32(0) = 0
      BY <3>1, <3>2, <3>3 DEF AsInt32, Signed
    <3> QED
      BY <2>1, <2>2, <2>3, <2>4, <2>6, <3>4 DEF Tells, LastIn, Empty
  <2>7. CASE f.kind \in {"string", "bytes", "strings", "message"}
    BY <2>1, <2>2, <2>3, <2>4, <2>7 DEF Tells, LastIn, Empty
  <2>8. CASE f.kind = "messages"
    <3>1. ValuesOf(f.of, <<>>, limits) = <<>>
      <4>1. PICK S : S = {}
        OBVIOUS
      <4>5. <<>> \in Seq(S)
        OBVIOUS
      <4>2. PICK e \in Seq(S) : e = <<>>
        BY <4>5
      <4>3. Len(e) = 0
        BY <4>2
      <4>4. \E T : ValuesOf(f.of, e, limits) \in Seq(T) /\ Len(ValuesOf(f.of, e, limits)) = 0
        BY <4>3, ValuesAre
      <4> QED
        BY <4>2, <4>4, EmptySeq
    <3> QED
      BY <2>1, <2>2, <2>3, <2>4, <2>8, <3>1 DEF Tells, Empty
  <2>9. CASE f.kind = "map"
    <3>1. DOMAIN <<>> = {} /\ Len(<<>>) = 0 /\ <<>> \in Seq({})
      OBVIOUS
    <3>2. IsMap(<<>>)
      BY <3>1 DEF IsMap
    <3>3. Range(<<>>) = {}
      BY <3>1 DEF Range
    <3>4. MapOf(ValuesOf(f.of, <<>>, limits)) = {}
      BY <3>1 DEF MapOf, ValuesOf
    <3> QED
      BY <2>1, <2>2, <2>3, <2>4, <2>9, <3>2, <3>3, <3>4 DEF Tells, Empty
  <2> QED
    BY <2>5, <2>6, <2>7, <2>8, <2>9 DEF EnvelopeField, Kinds, Scalars, Nestings
<1>7. Faithful(type, none, v, limits)
  BY <1>5, <1>6 DEF Faithful
<1> QED
  BY <1>1, <1>2, <1>3, <1>4, <1>6, <1>7 DEF Held

\* A message all of whose fields have been read is acceptable, and is read.
LEMMA WholeMessage ==
  ASSUME Schema = EnvelopeSchema, limits \in Limit, NEW frame, IsFrame(frame), Sane(frame),
         frame.type \in DOMAIN Schema, NEW got, Held(frame, got, Level(frame.type)),
         NEW s \in Seq(Byte), NEW p, Consumed(frame.type, s, p, got), p = Len(s)
  PROVE  /\ MessageOf(frame.type, s, limits).sound
         /\ Like(frame.type, frame.value, MessageOf(frame.type, s, limits).value)
<1>1. PICK type, v, k : type = frame.type /\ v = frame.value /\ k = Level(type)
  OBVIOUS
<1>2. Cut(type, s).bad = FALSE /\ \A n \in DOMAIN Schema[type] : All(Cut(type, s), n) = got[n]
  <2>1. Consumed(type, s, p, got)
    BY <1>1
  <2>2. Holds(type, s, got)
    BY <2>1, ConsumedAll
  <2> QED
    BY <2>2 DEF Holds
<1>3. /\ got \in Lists(type) /\ Faithful(type, got, v, limits)
      /\ \A n \in DOMAIN Schema[type] : NestSound(Schema[type][n], got[n], k, limits)
  BY <1>1 DEF Held
<1>4. ASSUME NEW n \in DOMAIN Schema[type]
      PROVE  FieldSound(Schema[type][n], All(Cut(type, s), n), k, limits)
  <2>1. PICK f \in FieldsOf(type) : f = Schema[type][n]
    BY DEF FieldsOf
  <2>2. PICK list \in Seq(Payloads) : list = got[n]
    BY <1>3 DEF Lists
  <2>3. Tells(f, list, v[f.name], limits) /\ NestSound(f, list, k, limits)
    BY <1>3, <2>1, <2>2 DEF Faithful
  <2>4. f.kind \in Listed => Counted(v[f.name])
    BY <1>1, <2>1 DEF Sane
  <2>5. FieldSound(f, list, k, limits)
    BY <2>3, <2>4, CountsSound
  <2> QED
    BY <1>2, <2>1, <2>2, <2>5
<1>5. Sound(type, s, limits)
  BY <1>1, <1>2, <1>4 DEF Sound
<1>6. MessageOf(type, s, limits).sound
  BY <1>1, <1>5, SoundIs
<1>7. Faithful(type, Cut(type, s).all, v, limits)
  BY <1>2, <1>3 DEF Faithful, All
<1>8. Like(type, v, MessageOf(type, s, limits).value)
  BY <1>1, <1>7, LikeIs
<1> QED
  BY <1>1, <1>6, <1>8

-----------------------------------------------------------------------------
\* Failures other than the one of the message size.
Failures == Errors \ {"MessageTooLarge"}

\* What a step leaves: a refusal of a document that is not acceptable, or a decode
\* that goes on.
Outcome(e, stk, at) ==
  \/ e \in Failures /\ Unacceptable
  \/ e = "none" /\ ((\E b : GoodAt(stk, at, b)) \/ DoomedAt(stk, at))

\* The messages around one that took a value are as they were.
LEMMA AroundKept ==
  ASSUME NEW stk, NEW other, NEW b, NEW c, NEW k, Around(stk, b, k), other[k] = stk[k],
         other[k + 1].field = stk[k + 1].field, other[k + 1].end = stk[k + 1].end,
         c[k] = b[k], c[k + 1] = b[k + 1]
  PROVE  Around(other, c, k)
<1>1. PartOf(other, c, k) = PartOf(stk, b, k) /\ PartOf(other, c, k + 1) = PartOf(stk, b, k + 1)
  BY DEF PartOf
<1> QED
  BY <1>1 DEF Around

Merges(k, f, val) == stack' = [SubSeq(stack, 1, k) EXCEPT ![k].value[f.name] = val]

LEMMA MergesStack ==
  ASSUME Reading, NEW k \in 1..Len(stack), NEW f, NEW val, Merges(k, f, val)
  PROVE  /\ Len(stack') = k /\ stack'[k] = Put(stack[k], f.name, val)
         /\ \A i \in 1..(k - 1) : stack'[i] = stack[i]
BY MergedStack DEF Merges

\* A value enters the message at k, from its next payload.
LEMMA MergeOutcome ==
  ASSUME Schema = EnvelopeSchema, Reading, Typed, Shaped, err = "none", NEW b, Bases(stack, b),
         NEW k \in 1..Len(stack), \A j \in 1..(k - 1) : Around(stack, b, j),
         NEW got, Held(stack[k], got, k), NEW n \in DOMAIN Schema[stack[k].type],
         NEW f, f = Schema[stack[k].type][n], NEW x \in Payloads, NEW new, ReadFrom(f, x, new, limits),
         Fitting(f, x, k), NEW at, Consumed(stack[k].type, PartOf(stack, b, k), at - b[k], With(got, n, x)),
         Merge(k, f, new)
  PROVE  Outcome(err', stack', at)
<1>1. PICK frame, type, s : frame = stack[k] /\ type = frame.type /\ s = PartOf(stack, b, k)
  OBVIOUS
<1>2. /\ IsFrame(frame) /\ Sane(frame) /\ type \in DOMAIN Schema /\ limits \in Limit /\ Level(type) = k
      /\ k \in Nat /\ Len(stack) \in Nat
  BY <1>1, FrameIs
<1>3. s \in Seq(Byte)
  BY <1>1, PartIsOf
<1>4. EnvelopeField(f) /\ f = Schema[type][n] /\ n \in DOMAIN Schema[type]
  BY <1>1, <1>2, FieldsEnvelope DEF FieldsOf
<1>5. CASE Refused(f, frame.value[f.name], new) /\ err' = "RepeatedCountExceeded"
  <2>1. got \in Lists(type) /\ Tells(f, got[n], frame.value[f.name], limits)
    BY <1>1, <1>4 DEF Held, Faithful
  <2>2. got[n] \in Seq(Payloads) /\ GoesOn(got[n], x, All(Cut(type, s), n))
    BY <1>1, <1>3, <1>4, <2>1, WithGoesOn
  <2>3. ~FieldSound(f, All(Cut(type, s), n), k, limits)
    BY <1>2, <1>4, <1>5, <2>1, <2>2, RefusedFails
  <2>4. ~MessageOf(type, s, limits).sound
    BY <1>2, <1>3, <1>4, <2>3, FieldSpoils
  <2>5. Unacceptable
    BY <1>1, <2>4, Spoils
  <2> QED
    BY <1>5, <2>5 DEF Outcome, Failures, Errors
<1>6. CASE /\ ~Refused(f, frame.value[f.name], new) /\ err' = "none"
           /\ stack' = [SubSeq(stack, 1, k) EXCEPT ![k].value[f.name] = Merged(f, frame.value[f.name], new)]
  <2>1. PICK val, put : val = Merged(f, frame.value[f.name], new) /\ put = Put(frame, f.name, val)
    OBVIOUS
  <2>2. Len(stack') = k /\ stack'[k] = put /\ \A i \in 1..(k - 1) : stack'[i] = stack[i]
    <3>1. Merges(k, f, val)
      BY ONLY <1>6, <2>1, Zenon DEF Merges
    <3>2. /\ Len(stack') = k /\ stack'[k] = Put(stack[k], f.name, val)
          /\ \A i \in 1..(k - 1) : stack'[i] = stack[i]
      BY <3>1, MergesStack
    <3>3. put = Put(stack[k], f.name, val)
      BY <1>1, <2>1
    <3> QED
      BY <3>2, <3>3
  <2>3. put.type = type /\ put.field = frame.field /\ put.end = frame.end
    <3>1. put = Put(frame, f.name, val) /\ IsFrame(frame)
      BY <1>2, <2>1
    <3>2. put.type = frame.type /\ put.field = frame.field /\ put.end = frame.end
      BY <3>1, PutParts
    <3> QED
      BY <1>1, <3>2
  <2>4. PICK more : more = With(got, n, x)
    OBVIOUS
  <2>5. Held(put, more, k)
    <3>1. /\ Held(frame, got, k) /\ n \in DOMAIN Schema[frame.type] /\ f = Schema[frame.type][n]
          /\ frame.type \in DOMAIN Schema /\ x \in Payloads /\ Schema = EnvelopeSchema
          /\ limits \in Limit /\ IsFrame(frame) /\ Sane(frame)
          /\ ReadFrom(f, x, new, limits) /\ Fitting(f, x, k)
      BY <1>1, <1>2
    <3>2. Held(Put(frame, f.name, Merged(f, frame.value[f.name], new)), With(got, n, x), k)
      BY ONLY <3>1, HeldMore, Zenon
    <3>3. put = Put(frame, f.name, Merged(f, frame.value[f.name], new))
      BY <2>1
    <3> QED
      BY <2>4, <3>2, <3>3
  <2>6. PartOf(stack', b, k) = s
    BY <1>1, <2>2, <2>3 DEF PartOf
  <2>7. Taken(stack', at, b, k)
    <3>1. Consumed(stack'[k].type, PartOf(stack', b, k), at - b[k], more)
      BY <1>1, <2>2, <2>3, <2>4, <2>6
    <3>2. Held(stack'[k], more, k)
      BY <2>2, <2>5
    <3> QED
      BY <3>1, <3>2 DEF Taken
  <2>8. Bases(stack', b)
    <3>1. b[1] = 0 /\ \A j \in 1..Len(stack) : b[j] \in Nat /\ b[j] <= stack[j].end
      BY DEF Bases
    <3>2. ASSUME NEW j \in 1..k PROVE b[j] \in Nat /\ b[j] <= stack'[j].end
      <4>1. j \in 1..Len(stack) /\ (j = k \/ j \in 1..(k - 1))
        BY <1>2
      <4>2. stack'[j].end = stack[j].end
        BY <1>1, <2>2, <2>3, <4>1
      <4> QED
        BY <3>1, <4>1, <4>2
    <3> QED
      BY <2>2, <3>1, <3>2 DEF Bases
  <2>9. ASSUME NEW j \in 1..(k - 1) PROVE Around(stack', b, j)
    <3>1. j + 1 = k \/ j + 1 \in 1..(k - 1)
      BY <1>2
    <3>2. stack'[j] = stack[j] /\ stack'[j + 1].field = stack[j + 1].field /\ stack'[j + 1].end = stack[j + 1].end
      BY <1>1, <2>2, <2>3, <3>1
    <3> QED
      BY <3>2, AroundKept
  <2>10. GoodAt(stack', at, b)
    BY <2>2, <2>7, <2>8, <2>9 DEF GoodAt
  <2> QED
    BY <1>6, <2>10 DEF Outcome
<1> QED
  BY <1>1, <1>5, <1>6 DEF Merge

-----------------------------------------------------------------------------
(***************************************************************************)
(* What a step does to the shape of what is read.                          *)
(***************************************************************************)
\* No read refuses a document for its size.
LEMMA ReadFailures ==
  ASSUME NEW s, NEW at
  PROVE  /\ GetVarint(s, at).err \in Failures \cup {"none"}
         /\ GetTag(s, at).err \in Failures \cup {"none"}
         /\ \A e \in Failures : GetLength(s, at, e).err \in Failures \cup {"none"}
         /\ GetBytes(s, at).err \in Failures \cup {"none"}
         /\ GetString(s, at).err \in Failures \cup {"none"}
         /\ \A wt : GetSkip(s, at, wt).err \in Failures \cup {"none"}
<1>1. GetVarint(s, at).err \in Failures \cup {"none"}
  BY DEF GetVarint, VarintUpTo, VarintTo, Read, NoRead, Failures, Errors
<1>2. GetTag(s, at).err \in Failures \cup {"none"}
  BY <1>1 DEF GetTag, TagFrom, TagAt, Read, NoRead, Failures, Errors
<1>3. ASSUME NEW e \in Failures PROVE GetLength(s, at, e).err \in Failures \cup {"none"}
  BY <1>1 DEF GetLength, LengthFrom, EndOf, Read, NoRead
<1>4. GetBytes(s, at).err \in Failures \cup {"none"}
  <2>1. "TruncatedLengthDelim" \in Failures
    BY DEF Failures, Errors
  <2> QED
    BY <1>3, <2>1 DEF GetBytes, BytesUpTo, Read
<1>5. GetString(s, at).err \in Failures \cup {"none"}
  BY <1>4 DEF GetString, Utf8, NoRead, Failures, Errors
<1>6. ASSUME NEW wt PROVE GetSkip(s, at, wt).err \in Failures \cup {"none"}
  BY <1>1, <1>4 DEF GetSkip, GetFixed, Read, NoRead, Failures, Errors
<1> QED
  BY <1>1, <1>2, <1>3, <1>4, <1>5, <1>6

\* The messages of the envelope's schema are nested by level.
LEMMA NextLevel ==
  ASSUME Schema = EnvelopeSchema, NEW type \in DOMAIN Schema, NEW f \in FieldsOf(type),
         f.kind \in Nestings
  PROVE  Level(f.of) = Level(type) + 1
<1>1. PICK n \in DOMAIN Schema[type] : f = Schema[type][n]
  BY DEF FieldsOf
<1>2. \A name, kind, of : FieldIs(name, kind, of).kind = kind /\ FieldIs(name, kind, of).of = of
  BY FieldParts
<1>3. CASE type = "Envelope"
  <2>1. n \in 1..4
    BY <1>1, <1>3, SchemaIs
  <2>2. n = 4
    BY <1>1, <1>2, <1>3, <2>1, SchemaIs DEF Nestings
  <2>3. f.of = "AppError"
    BY <1>1, <1>2, <1>3, <2>2, SchemaIs
  <2> QED
    BY <1>3, <2>3 DEF Level
<1>4. CASE type = "AppError"
  <2>1. n \in 1..5
    BY <1>1, <1>4, SchemaIs
  <2>2. n = 4 \/ n = 5
    BY <1>1, <1>2, <1>4, <2>1, SchemaIs DEF Nestings
  <2>3. f.of = "FieldError" \/ f.of = "MetadataEntry"
    BY <1>1, <1>2, <1>4, <2>2, SchemaIs
  <2> QED
    BY <1>4, <2>3 DEF Level
<1>5. CASE type = "FieldError"
  <2>1. n \in 1..4
    BY <1>1, <1>5, SchemaIs
  <2> QED
    BY <1>1, <1>2, <1>5, <2>1, SchemaIs DEF Nestings
<1>6. CASE type = "MetadataEntry"
  <2>1. n \in 1..2
    BY <1>1, <1>6, SchemaIs
  <2> QED
    BY <1>1, <1>2, <1>6, <2>1, SchemaIs DEF Nestings
<1> QED
  BY <1>3, <1>4, <1>5, <1>6, SchemaIs

\* The messages up to k are read on: their types, fields and ends are kept.
Kept(k) ==
  /\ k <= Len(stack')
  /\ \A i \in 1..k : /\ stack'[i].type = stack[i].type /\ stack'[i].field = stack[i].field
                     /\ stack'[i].end = stack[i].end

LEMMA ShapedKept ==
  ASSUME Reading, Shaped, UNCHANGED <<data, limits>>, NEW k \in 1..Len(stack), Kept(k), Len(stack') = k
  PROVE  Shaped'
<1>1. Len(stack) \in Nat /\ k \in Nat /\ 1 \in 1..k
  BY DEF Reading
<1>2. Len(data') < 2^Width /\ stack'[1].type = "Envelope" /\ stack'[1].end = Len(data')
  BY <1>1 DEF Shaped, Kept
<1>3. ASSUME NEW i \in 1..Len(stack') PROVE Level(stack'[i].type) = i
  <2>1. i \in 1..k /\ i \in 1..Len(stack)
    BY <1>1
  <2> QED
    BY <2>1 DEF Shaped, Kept
<1>4. ASSUME NEW i \in 2..Len(stack') PROVE stack'[i].type = stack'[i].field.of
  <2>1. i \in 1..k /\ i \in 2..Len(stack)
    BY <1>1
  <2> QED
    BY <2>1 DEF Shaped, Kept
<1>5. Len(stack') > 1 => Admitted'
  BY <1>1 DEF Shaped, Admitted
<1> QED
  BY <1>2, <1>3, <1>4, <1>5 DEF Shaped

Enters(f, end) == stack' = Append(stack, Frame(f.of, f, end))

\* The stack with one more message.
LEMMA EntersStack ==
  ASSUME Reading, NEW f, NEW end, Enters(f, end)
  PROVE  /\ Len(stack') = Len(stack) + 1 /\ stack'[Len(stack) + 1] = Frame(f.of, f, end)
         /\ \A i \in 1..Len(stack) : stack'[i] = stack[i]
<1>1. PICK E, V : stack \in Seq(Frames(E, V))
  BY DEF Reading
<1>2. PICK S : S = Frames(E, V) \cup {Frame(f.of, f, end)}
  OBVIOUS
<1>3. \A i \in 1..Len(stack) : stack[i] \in S
  BY <1>1, <1>2
<1>4. stack \in Seq(S)
  BY <1>1, <1>3, SeqOver
<1>5. PICK old \in Seq(S), x \in S : old = stack /\ x = Frame(f.of, f, end)
  BY <1>2, <1>4
<1>6. /\ Len(Append(old, x)) = Len(old) + 1 /\ Append(old, x)[Len(old) + 1] = x
      /\ \A i \in 1..Len(old) : Append(old, x)[i] = old[i]
  OBVIOUS
<1> QED
  BY <1>5, <1>6 DEF Enters

LEMMA ShapedEntered ==
  ASSUME Schema = EnvelopeSchema, Reading, Typed, Shaped, Admitted, UNCHANGED <<data, limits>>,
         NEW f \in FieldsOf(Top.type), f.kind \in Nestings, NEW end, Enters(f, end)
  PROVE  Shaped'
<1>1. PICK n \in Nat : n = Len(stack)
  BY DEF Reading
<1>2. n > 0 /\ n \in 1..n
  BY <1>1 DEF Reading
<1>3. /\ Len(stack') = n + 1 /\ stack'[n + 1] = Frame(f.of, f, end)
      /\ \A i \in 1..n : stack'[i] = stack[i]
  BY <1>1, EntersStack
<1>4. stack'[n + 1].type = f.of /\ stack'[n + 1].field = f
  BY <1>3 DEF Frame
<1>5. Top = stack[n] /\ Level(Top.type) = n /\ Top.type \in DOMAIN Schema
  BY <1>1, <1>2, FrameIs DEF Top
<1>6. Level(f.of) = n + 1
  BY <1>5, NextLevel
<1>7. Len(data') < 2^Width /\ stack'[1].type = "Envelope" /\ stack'[1].end = Len(data')
  BY <1>2, <1>3 DEF Shaped
<1>8. ASSUME NEW i \in 1..(n + 1) PROVE Level(stack'[i].type) = i
  <2>1. CASE i \in 1..n
    BY <1>1, <1>3, <2>1 DEF Shaped
  <2>2. CASE i = n + 1
    BY <1>4, <1>6, <2>2
  <2> QED
    BY <1>1, <2>1, <2>2
<1>9. ASSUME NEW i \in 2..(n + 1) PROVE stack'[i].type = stack'[i].field.of
  <2>1. CASE i \in 2..n
    <3>1. i \in 1..n
      BY <2>1
    <3> QED
      BY <1>1, <1>3, <2>1, <3>1 DEF Shaped
  <2>2. CASE i = n + 1
    BY <1>4, <2>2
  <2> QED
    BY <1>1, <2>1, <2>2
<1>10. Admitted'
  BY DEF Admitted
<1> QED
  BY <1>3, <1>7, <1>8, <1>9, <1>10 DEF Shaped

\* What a merge does to the messages.
LEMMA MergeKeeps ==
  ASSUME Reading, NEW k \in 1..Len(stack), NEW f, NEW val, Merge(k, f, val)
  PROVE  \/ err' = "RepeatedCountExceeded" /\ stack' = stack
         \/ UNCHANGED err /\ Kept(k) /\ Len(stack') = k
<1>1. PICK old, new : old = stack[k].value[f.name] /\ new = Merged(f, old, val)
  OBVIOUS
<1>2. CASE err' = "RepeatedCountExceeded" /\ UNCHANGED stack
  BY <1>2
<1>3. CASE /\ stack' = [SubSeq(stack, 1, k) EXCEPT ![k].value[f.name] = new]
           /\ UNCHANGED err
  <2>1. Merges(k, f, new)
    BY ONLY <1>3, Zenon DEF Merges
  <2>2. PICK put : put = Put(stack[k], f.name, new)
    OBVIOUS
  <2>3. Len(stack') = k /\ stack'[k] = put /\ \A i \in 1..(k - 1) : stack'[i] = stack[i]
    BY <2>1, <2>2, MergesStack
  <2>4. put.type = stack[k].type /\ put.field = stack[k].field /\ put.end = stack[k].end
    <3>1. PICK E, V : stack \in Seq(Frames(E, V))
      BY DEF Reading
    <3>2. IsFrame(stack[k])
      BY <3>1 DEF IsFrame
    <3> QED
      BY <2>2, <3>2, PutParts
  <2>5. k \in Nat
    BY DEF Reading
  <2>6. ASSUME NEW i \in 1..k
        PROVE  /\ stack'[i].type = stack[i].type /\ stack'[i].field = stack[i].field
               /\ stack'[i].end = stack[i].end
    <3>1. i = k \/ i \in 1..(k - 1)
      BY <2>5
    <3> QED
      BY <2>3, <2>4, <3>1
  <2> QED
    BY <1>3, <2>3, <2>5, <2>6 DEF Kept
<1> QED
  BY <1>1, <1>2, <1>3 DEF Merge

-----------------------------------------------------------------------------
(***************************************************************************)
(* A document that is not acceptable stays so, and is refused in the end.  *)
(***************************************************************************)
\* The reading of a message up to k has come past its end.
PastAt(stk, at, k) == \E i \in 1..k : ~(IF i = k THEN at <= stk[i].end ELSE stk[i + 1].end <= stk[i].end)

LEMMA DoomedIs ==
  ASSUME NEW stk, NEW at
  PROVE  DoomedAt(stk, at) <=> Unacceptable /\ PastAt(stk, at, Len(stk))
BY DEF DoomedAt, PastAt, Cursor

LEMMA FailOutcome ==
  ASSUME NEW e \in Failures, Fail(e), Unacceptable, NEW at
  PROVE  Outcome(err', stack', at)
BY DEF Fail, Outcome

\* What is past its end stays so when the messages are kept.
LEMMA KeptPast ==
  ASSUME Reading, NEW k \in 1..Len(stack), Kept(k), NEW at, PastAt(stack, at, k), Len(stack') = k
  PROVE  PastAt(stack', at, Len(stack'))
<1>1. k \in Nat
  BY DEF Reading
<1>2. PICK i \in 1..k : ~(IF i = k THEN at <= stack[i].end ELSE stack[i + 1].end <= stack[i].end)
  BY DEF PastAt
<1>3. i = k \/ i + 1 \in 1..k
  BY <1>1
<1>4. stack'[i].end = stack[i].end /\ (i # k => stack'[i + 1].end = stack[i + 1].end)
  BY <1>3 DEF Kept
<1> QED
  BY <1>2, <1>4 DEF PastAt

LEMMA MergeDoomed ==
  ASSUME Reading, Unacceptable, err = "none", NEW k \in 1..Len(stack), NEW f, NEW val, Merge(k, f, val),
         NEW at, PastAt(stack, at, k)
  PROVE  Outcome(err', stack', at)
<1>1. CASE err' = "RepeatedCountExceeded"
  BY <1>1 DEF Outcome, Failures, Errors
<1>2. CASE UNCHANGED err /\ Kept(k) /\ Len(stack') = k
  <2>1. PastAt(stack', at, Len(stack'))
    BY <1>2, KeptPast
  <2>2. DoomedAt(stack', at)
    BY <2>1, DoomedIs
  <2> QED
    BY <1>2, <2>2 DEF Outcome
<1> QED
  BY <1>1, <1>2, MergeKeeps

LEMMA EntersDoomed ==
  ASSUME Reading, Unacceptable, err' = "none", NEW f, NEW end, Enters(f, end), PastAt(stack, end, Len(stack)),
         NEW at
  PROVE  Outcome(err', stack', at)
<1>1. PICK n \in Nat : n = Len(stack)
  BY DEF Reading
<1>2. /\ Len(stack') = n + 1 /\ stack'[n + 1] = Frame(f.of, f, end)
      /\ \A i \in 1..n : stack'[i] = stack[i]
  BY <1>1, EntersStack
<1>3. stack'[n + 1].end = end
  BY <1>2 DEF Frame
<1>4. PICK i \in 1..n : ~(IF i = n THEN end <= stack[i].end ELSE stack[i + 1].end <= stack[i].end)
  BY <1>1 DEF PastAt
<1>5. i # n => i + 1 \in 1..n
  BY <1>1
<1>6. stack'[i].end = stack[i].end /\ stack'[i + 1].end = IF i = n THEN end ELSE stack[i + 1].end
  BY <1>2, <1>3, <1>5
<1>7. i \in 1..(n + 1) /\ i # n + 1
  BY <1>1
<1>8. PastAt(stack', at, n + 1)
  BY <1>4, <1>6, <1>7 DEF PastAt
<1>9. DoomedAt(stack', at)
  BY <1>2, <1>8, DoomedIs
<1> QED
  BY <1>9 DEF Outcome

\* What a message field's length says, as its bytes: where it ends.
LEMMA LengthIsBytes ==
  ASSUME NEW s, NEW at, NEW r, r = GetBytes(s, at),
         NEW end, end = GetLength(s, at, "NestedExceedsBuffer")
  PROVE  /\ r.err = "none" <=> end.err = "none"
         /\ r.err = "none" => r.pos = end.val /\ r.val = SubSeq(s, end.pos + 1, end.val)
<1>1. PICK len : len = GetVarint(s, at)
  OBVIOUS
<1>2. CASE len.err # "none"
  BY <1>1, <1>2 DEF GetBytes, GetLength, LengthFrom, BytesUpTo
<1>3. CASE len.err = "none"
  <2>1. end = EndOf(s, len.pos, len.val, "NestedExceedsBuffer")
        /\ r = BytesUpTo(s, EndOf(s, len.pos, len.val, "TruncatedLengthDelim"))
    BY <1>1, <1>3 DEF GetBytes, GetLength, LengthFrom
  <2>2. CASE len.pos + len.val < 2^Width /\ len.pos + len.val <= Len(s)
    <3>1. PICK to, place : to = len.pos + len.val /\ place = len.pos
      OBVIOUS
    <3>2. end = Read(to, place) /\ r = BytesUpTo(s, Read(to, place))
      BY <2>1, <2>2, <3>1 DEF EndOf
    <3>3. Read(to, place).err = "none" /\ Read(to, place).val = to /\ Read(to, place).pos = place
      BY DEF Read
    <3>4. PICK sub : sub = SubSeq(s, place + 1, to)
      OBVIOUS
    <3>5. r = Read(sub, to)
      BY <3>2, <3>3, <3>4 DEF BytesUpTo
    <3>6. r.err = "none" /\ r.val = sub /\ r.pos = to
      BY <3>5 DEF Read
    <3> QED
      BY <3>2, <3>3, <3>4, <3>6
  <2>3. CASE ~(len.pos + len.val < 2^Width /\ len.pos + len.val <= Len(s))
    BY <2>1, <2>3 DEF EndOf, BytesUpTo, NoRead
  <2> QED
    BY <2>2, <2>3
<1> QED
  BY <1>2, <1>3

\* The payload of a field, as it is read.
PayloadAt(f, at) == FieldPayload(f, data, at)

LEMMA ScalarIsPayload ==
  ASSUME NEW f, f.kind \in Kinds \ Nestings, NEW at
  PROVE  Scalar(f.kind, at) = PayloadAt(f, at) /\ PayloadAt(f, at).err \in Failures \cup {"none"}
<1>1. f.kind \in {"int32", "bytes", "string", "strings"}
  BY DEF Kinds, Scalars, Nestings
<1>2. /\ GetVarint(data, at).err \in Failures \cup {"none"} /\ GetBytes(data, at).err \in Failures \cup {"none"}
      /\ GetString(data, at).err \in Failures \cup {"none"}
  BY ReadFailures
<1>3. Scalar(f.kind, at) = PayloadAt(f, at)
  BY <1>1 DEF Scalar, PayloadAt, FieldPayload
<1>4. PayloadAt(f, at) \in {GetVarint(data, at), GetBytes(data, at), GetString(data, at)}
  BY DEF PayloadAt, FieldPayload
<1> QED
  BY <1>2, <1>3, <1>4

LEMMA NestedIsPayload ==
  ASSUME NEW f, f.kind \in Nestings, NEW at, NEW end, end = GetLength(data, at, "NestedExceedsBuffer")
  PROVE  /\ PayloadAt(f, at).err = "none" <=> end.err = "none"
         /\ PayloadAt(f, at).err = "none" => /\ PayloadAt(f, at).pos = end.val
                                             /\ PayloadAt(f, at).val = SubSeq(data, end.pos + 1, end.val)
         /\ end.err \in Failures \cup {"none"}
<1>1. PayloadAt(f, at) = GetBytes(data, at)
  BY DEF PayloadAt, FieldPayload, Nestings
<1>2. "NestedExceedsBuffer" \in Failures
  BY DEF Failures, Errors
<1>3. end.err \in Failures \cup {"none"}
  BY <1>2, ReadFailures
<1> QED
  BY <1>1, <1>3, LengthIsBytes

-----------------------------------------------------------------------------
(***************************************************************************)
(* A field that is not whole in its message: the document is not           *)
(* acceptable, and what is read of the field is refused or ends too far.   *)
(***************************************************************************)
\* What is known of the message on the top and of its next field.
LEMMA KnownFails ==
  ASSUME Reading, Unacceptable, err = "none", NEW f, f.kind \in Kinds, NEW at, ReadKnown(f, at),
         PayloadAt(f, at).err = "none" => PastAt(stack, PayloadAt(f, at).pos, Len(stack))
  PROVE  Outcome(err', stack', pos')
<1>1. Len(stack) \in 1..Len(stack)
  BY DEF Reading
<1>2. CASE ReadScalar(f, at)
  <2>1. PICK r : r = Scalar(f.kind, at)
    OBVIOUS
  <2>2. r = PayloadAt(f, at) /\ r.err \in Failures \cup {"none"}
    <3>1. f.kind \in Kinds \ Nestings
      BY <1>2 DEF ReadScalar
    <3> QED
      BY <2>1, <3>1, ScalarIsPayload
  <2>3. ScalarRead(f, r)
    BY <1>2, <2>1 DEF ReadScalar
  <2>4. CASE r.err # "none" /\ Fail(r.err)
    BY <2>2, <2>4, FailOutcome
  <2>5. CASE r.err = "none" /\ pos' = r.pos /\ Merge(Len(stack), f, Decoded(f.kind, r.val))
    <3>1. PICK new, k : new = Decoded(f.kind, r.val) /\ k = Len(stack)
      OBVIOUS
    <3>2. Merge(k, f, new) /\ k \in 1..Len(stack) /\ PastAt(stack, pos', k)
      BY <1>1, <2>2, <2>5, <3>1
    <3> QED
      BY <3>2, MergeDoomed
  <2> QED
    BY <2>3, <2>4, <2>5 DEF ScalarRead
<1>3. CASE EnterMessage(f, at)
  <2>1. PICK end : end = GetLength(data, at, "NestedExceedsBuffer")
    OBVIOUS
  <2>2. f.kind \in Nestings /\ Enter(f, end)
    BY <1>3, <2>1 DEF EnterMessage
  <2>3. /\ PayloadAt(f, at).err = "none" <=> end.err = "none"
        /\ PayloadAt(f, at).err = "none" => PayloadAt(f, at).pos = end.val
        /\ end.err \in Failures \cup {"none"}
    BY <2>1, <2>2, NestedIsPayload
  <2>4. CASE end.err # "none" /\ Fail(end.err)
    BY <2>3, <2>4, FailOutcome
  <2>5. CASE Fail("DepthExceeded")
    <3>1. "DepthExceeded" \in Failures
      BY DEF Failures, Errors
    <3> QED
      BY <2>5, <3>1, FailOutcome
  <2>6. CASE end.err = "none" /\ Enters(f, end.val) /\ UNCHANGED err
    <3>1. PICK v : v = end.val
      OBVIOUS
    <3>2. Enters(f, v) /\ PastAt(stack, v, Len(stack)) /\ err' = "none"
      BY <2>3, <2>6, <3>1
    <3> QED
      BY <3>2, EntersDoomed
  <2> QED
    BY <2>2, <2>4, <2>5, <2>6 DEF Enter, Enters
<1> QED
  BY <1>2, <1>3 DEF ReadKnown

\* The tag's field, of which the payload is not whole.
LEMMA FieldFails ==
  ASSUME Reading, Typed, Unacceptable, err = "none", NEW tag, NEW at, Field(tag, at), NEW r,
         r = Payload(Top.type, data, tag, at),
         r.err = "none" => PastAt(stack, r.pos, Len(stack))
  PROVE  Outcome(err', stack', pos')
<1>1. PICK n, type : n = tag.number /\ type = Top.type
  OBVIOUS
<1>2. Len(stack) \in 1..Len(stack) /\ type \in DOMAIN Schema
  BY <1>1, FrameFacts DEF Reading, Typed, FrameOK, Top
<1>3. CASE n \in DOMAIN Schema[type] /\ ReadKnown(Schema[type][n], at)
  <2>1. PICK f \in FieldsOf(type) : f = Schema[type][n]
    BY <1>3 DEF FieldsOf
  <2>2. f.kind \in Kinds
    <3>1. PICK N, O : FieldType = [name : N, kind : Kinds, of : O]
      BY Zenon DEF FieldType
    <3>2. f \in FieldType
      BY <1>2, <1>3, <2>1, SchemaAssumption
    <3> QED
      BY <3>1, <3>2
  <2>3. r = PayloadAt(f, at)
    BY <1>1, <1>3, <2>1 DEF Payload, PayloadAt
  <2>4. ReadKnown(f, at)
    BY <1>3, <2>1
  <2> QED
    BY <2>2, <2>3, <2>4, KnownFails
<1>4. CASE n \notin DOMAIN Schema[type] /\ Skipped(r)
  <2>1. r.err \in Failures \cup {"none"}
    <3>1. r = GetSkip(data, at, tag.type)
      BY <1>1, <1>4 DEF Payload
    <3> QED
      BY <3>1, ReadFailures
  <2>2. CASE r.err # "none" /\ Fail(r.err)
    BY <2>1, <2>2, FailOutcome
  <2>3. CASE r.err = "none" /\ pos' = r.pos /\ UNCHANGED <<stack, err>>
    <3>1. PastAt(stack', pos', Len(stack'))
      BY <2>3
    <3>2. DoomedAt(stack', pos')
      BY <3>1, DoomedIs
    <3> QED
      BY <2>3, <3>2 DEF Outcome
  <2> QED
    BY <1>4, <2>2, <2>3 DEF Skipped
<1> QED
  BY <1>1, <1>3, <1>4 DEF Field, Payload

-----------------------------------------------------------------------------
(***************************************************************************)
(* A field that is whole in its message.                                   *)
(***************************************************************************)
\* The message on the top, k, has been read, and its next payload x is one of field
\* n and goes up to `at`.
ReadsNext(b, k, got, n, x, at) ==
  /\ Bases(stack, b) /\ \A j \in 1..(k - 1) : Around(stack, b, j)
  /\ Held(stack[k], got, k)
  /\ Consumed(stack[k].type, PartOf(stack, b, k), at - b[k], With(got, n, x))

LEMMA ScalarGood ==
  ASSUME Schema = EnvelopeSchema, Reading, Typed, Shaped, err = "none", NEW k, k = Len(stack),
         NEW n \in DOMAIN Schema[stack[k].type], NEW f, f = Schema[stack[k].type][n],
         f.kind \in Kinds \ Nestings, NEW at, ReadScalar(f, at), NEW r, r = PayloadAt(f, at), r.err = "none",
         r.val \in Payloads, NEW b, NEW got, ReadsNext(b, k, got, n, r.val, r.pos)
  PROVE  Outcome(err', stack', pos')
<1>1. k \in 1..Len(stack)
  BY DEF Reading
<1>2. ScalarRead(f, r)
  BY ScalarIsPayload DEF ReadScalar
<1>3. PICK x, new, to : x \in Payloads /\ x = r.val /\ new = Decoded(f.kind, x) /\ to = r.pos
  BY Zenon
<1>4. pos' = to /\ Merge(k, f, new)
  BY <1>2, <1>3, Zenon DEF ScalarRead
<1>5. ReadFrom(f, x, new, limits) /\ Fitting(f, x, k)
  BY <1>3, Zenon DEF ReadFrom, Fitting
<1>6. /\ Bases(stack, b) /\ \A j \in 1..(k - 1) : Around(stack, b, j)
      /\ Held(stack[k], got, k)
      /\ Consumed(stack[k].type, PartOf(stack, b, k), to - b[k], With(got, n, x))
  BY <1>3, Zenon DEF ReadsNext
<1>7. Outcome(err', stack', to)
  BY <1>1, <1>3, <1>4, <1>5, <1>6, MergeOutcome, Zenon
<1> QED
  BY <1>4, <1>7

\* A message that was just entered, in one read up to it.
LEMMA Entered ==
  ASSUME Schema = EnvelopeSchema, NEW k \in Nat, k > 0, k = Len(stack), NEW stk, Len(stk) = k + 1,
         \A i \in 1..k : stk[i] = stack[i],
         NEW of \in DOMAIN Schema, NEW f, NEW to \in Nat, stk[k + 1] = Frame(of, f, to),
         NEW n \in DOMAIN Schema[stack[k].type], f = Schema[stack[k].type][n],
         NEW from \in Nat, from <= to, NEW x \in Seq(Byte), x = SubSeq(data, from + 1, to),
         NEW b, NEW got, ReadsNext(b, k, got, n, x, to), k <= limits.max_nesting_depth
  PROVE  \E c : GoodAt(stk, from, c)
<1>1. 1 \in 1..k /\ k \in 1..k /\ k + 1 \in 1..(k + 1) /\ \A j \in 1..k : j \in 1..(k + 1) /\ j # k + 1
  OBVIOUS
<1>2. stk[k + 1].type = of /\ stk[k + 1].field = f /\ stk[k + 1].end = to
  BY DEF Frame
<1>3. PICK c : c = [j \in 1..(k + 1) |-> IF j = k + 1 THEN from ELSE b[j]]
  OBVIOUS
<1>4. c[k + 1] = from /\ \A j \in 1..k : c[j] = b[j]
  BY ONLY <1>1, <1>3
<1>5. /\ Bases(stack, b) /\ \A j \in 1..(k - 1) : Around(stack, b, j)
      /\ Held(stack[k], got, k)
      /\ Consumed(stack[k].type, PartOf(stack, b, k), to - b[k], With(got, n, x))
  BY Zenon DEF ReadsNext
<1>6. Bases(stk, c)
  <2>1. b[1] = 0 /\ \A j \in 1..k : b[j] \in Nat /\ b[j] <= stack[j].end
    BY <1>5, Zenon DEF Bases
  <2>2. c[1] = 0
    BY ONLY <1>1, <1>4, <2>1
  <2>3. ASSUME NEW j \in 1..(k + 1) PROVE c[j] \in Nat /\ c[j] <= stk[j].end
    <3>1. CASE j = k + 1
      BY ONLY <1>2, <1>4, <3>1, from \in Nat, to \in Nat, from <= to
    <3>2. CASE j \in 1..k
      BY ONLY <1>4, <2>1, <3>2, \A i \in 1..k : stk[i] = stack[i]
    <3> QED
      BY ONLY <3>1, <3>2, k \in Nat, j \in 1..(k + 1)
  <2> QED
    BY <2>2, <2>3, Zenon DEF Bases
<1>7. PartOf(stk, c, k + 1) = x
  BY ONLY <1>2, <1>4, x = SubSeq(data, from + 1, to), Zenon DEF PartOf
<1>8. Taken(stk, from, c, k + 1)
  <2>1. PICK none, l : none = [m \in DOMAIN Schema[of] |-> <<>>] /\ l = k + 1
    BY Zenon
  <2>2. Held(Frame(of, f, to), none, l)
    BY ONLY <2>1, HeldNone, Zenon, Schema = EnvelopeSchema, of \in DOMAIN Schema
  <2>3. Consumed(of, x, 0, none)
    BY ONLY <2>1, ConsumedNone, Zenon, x \in Seq(Byte)
  <2>4. from - c[k + 1] = 0
    BY ONLY <1>4, from \in Nat
  <2>5. Held(stk[k + 1], none, k + 1)
    BY <2>1, <2>2, Zenon
  <2>6. Consumed(stk[k + 1].type, PartOf(stk, c, k + 1), from - c[k + 1], none)
    BY <1>2, <1>7, <2>3, <2>4, Zenon
  <2> QED
    BY <2>5, <2>6, Zenon DEF Taken
<1>9. Around(stk, c, k)
  <2>1. stk[k] = stack[k] /\ c[k] = b[k]
    BY <1>1, <1>4, Zenon
  <2>2. PartOf(stk, c, k) = PartOf(stack, b, k)
    BY <2>1, Zenon DEF PartOf
  <2>3. n \in DOMAIN Schema[stk[k].type] /\ stk[k + 1].field = Schema[stk[k].type][n]
    BY <1>2, <2>1, Zenon
  <2>4. Held(stk[k], got, k)
    BY <1>5, <2>1, Zenon
  <2>5. Consumed(stk[k].type, PartOf(stk, c, k), stk[k + 1].end - c[k],
                 With(got, n, PartOf(stk, c, k + 1)))
    BY <1>2, <1>5, <1>7, <2>1, <2>2, Zenon
  <2> QED
    BY <2>3, <2>4, <2>5, Zenon DEF Around
<1>10. ASSUME NEW j \in 1..k PROVE Around(stk, c, j)
  <2>1. CASE j = k
    BY <1>9, <2>1, Zenon
  <2>2. CASE j \in 1..(k - 1)
    <3>1. j \in 1..k /\ j + 1 \in 1..k
      BY ONLY k \in Nat, <2>2
    <3>2. stk[j] = stack[j] /\ stk[j + 1] = stack[j + 1] /\ c[j] = b[j] /\ c[j + 1] = b[j + 1]
      BY <1>4, <3>1, Zenon
    <3>3. Around(stack, b, j)
      BY <1>5, <2>2, Zenon
    <3> QED
      BY <3>2, <3>3, AroundKept, Zenon
  <2> QED
    BY ONLY <2>1, <2>2, k \in Nat, j \in 1..k
<1>11. Len(stk) = k + 1 /\ Len(stk) - 1 = k
  <2>1. (k + 1) - 1 = k
    BY ONLY k \in Nat
  <2> QED
    BY ONLY <2>1, Len(stk) = k + 1, Zenon
<1> QED
  BY <1>6, <1>8, <1>10, <1>11, Zenon DEF GoodAt

LEMMA EnterGood ==
  ASSUME Schema = EnvelopeSchema, Reading, Typed, Shaped, err = "none", NEW k, k = Len(stack),
         NEW n \in DOMAIN Schema[stack[k].type], NEW f, f = Schema[stack[k].type][n],
         f.kind \in Nestings, NEW at \in Nat, EnterMessage(f, at), NEW r, r = PayloadAt(f, at), r.err = "none",
         r.val \in Payloads, NEW b, NEW got, ReadsNext(b, k, got, n, r.val, r.pos)
  PROVE  Outcome(err', stack', pos')
<1>1. k \in 1..Len(stack) /\ k \in Nat /\ k > 0
  BY DEF Reading
<1>2. PICK type, s : type = stack[k].type /\ s = PartOf(stack, b, k)
  OBVIOUS
<1>3. type \in DOMAIN Schema /\ limits \in Limit /\ Level(type) = k /\ data \in Seq(Byte) /\ Len(data) \in Nat
  BY <1>1, <1>2, FrameIs
<1>4. s \in Seq(Byte)
  BY <1>1, <1>2, PartIsOf DEF ReadsNext
<1>5. PICK end : end = GetLength(data, at, "NestedExceedsBuffer")
  OBVIOUS
<1>6. end.err = "none" /\ r.pos = end.val /\ r.val = SubSeq(data, end.pos + 1, end.val)
  <2>1. PayloadAt(f, at).err = "none" /\ f.kind \in Nestings
    OBVIOUS
  <2>2. /\ end.err = "none" /\ PayloadAt(f, at).pos = end.val
        /\ PayloadAt(f, at).val = SubSeq(data, end.pos + 1, end.val)
    BY ONLY <1>5, <2>1, NestedIsPayload, Zenon
  <2> QED
    BY ONLY <2>2, r = PayloadAt(f, at), Zenon
<1>7. PICK x \in Payloads, to \in Nat, from \in Nat : x = r.val /\ to = end.val /\ from = end.pos /\ from <= to
                                                     /\ from \in 0..Len(data) /\ to \in from..Len(data)
  <2>1. end.pos \in (at + 1)..Len(data) /\ end.val \in end.pos..Len(data)
    BY <1>3, <1>5, <1>6, LengthForward
  <2>2. end.pos \in Nat
    BY <1>3, <2>1
  <2>3. end.val \in Nat /\ end.pos <= end.val /\ end.pos \in 0..Len(data)
    BY <1>3, <2>1, <2>2
  <2> QED
    BY <2>1, <2>2, <2>3
<1>8. /\ Bases(stack, b) /\ \A j \in 1..(k - 1) : Around(stack, b, j)
      /\ Held(stack[k], got, k)
      /\ Consumed(type, s, to - b[k], With(got, n, x))
  BY <1>2, <1>6, <1>7 DEF ReadsNext
<1>9. Enter(f, end)
  BY <1>5 DEF EnterMessage
<1>10. depth = k - 1 /\ depth \in Nat /\ limits.max_nesting_depth \in Nat
  <2>1. depth = k - 1
    BY DEF Reading, DepthBounded
  <2> QED
    BY <1>3, <2>1 DEF Limit, Typed, TypeOK
<1>11. CASE depth >= limits.max_nesting_depth /\ Fail("DepthExceeded")
  <2>1. ~(k <= limits.max_nesting_depth)
    BY <1>1, <1>10, <1>11
  <2>2. got \in Lists(type)
    BY <1>2, <1>8 DEF Held
  <2>3. got[n] \in Seq(Payloads) /\ GoesOn(got[n], x, All(Cut(type, s), n))
    BY <1>2, <1>4, <1>8, <2>2, WithGoesOn
  <2>4. ~FieldSound(f, All(Cut(type, s), n), k, limits)
    BY <2>1, <2>3, NestFails
  <2>5. ~MessageOf(type, s, limits).sound
    BY <1>2, <1>3, <1>4, <2>4, FieldSpoils
  <2>6. Unacceptable
    BY <1>1, <1>2, <1>8, <2>5, Spoils
  <2>7. "DepthExceeded" \in Failures
    BY DEF Failures, Errors
  <2> QED
    BY <1>11, <2>6, <2>7, FailOutcome
<1>12. CASE depth < limits.max_nesting_depth /\ pos' = from /\ Enters(f, to) /\ UNCHANGED err
  <2>1. PICK stk : stk = stack'
    BY Zenon
  <2>2. /\ Len(stk) = k + 1 /\ stk[k + 1] = Frame(f.of, f, to)
        /\ \A i \in 1..k : stk[i] = stack[i]
    BY <1>12, <2>1, EntersStack
  <2>3. x \in Seq(Byte)
    <3>1. IsPart(SubSeq(data, from + 1, to), data, from, to)
      BY <1>3, <1>7, PartIs
    <3> QED
      BY <1>6, <1>7, <3>1 DEF IsPart
  <2>4. f.of \in DOMAIN Schema
    BY <1>2, <1>3, SchemaAssumption
  <2>5. k <= limits.max_nesting_depth
    BY <1>1, <1>10, <1>12
  <2>6. x = SubSeq(data, from + 1, to) /\ ReadsNext(b, k, got, n, x, to)
    BY <1>6, <1>7, Zenon
  <2>7. PICK of \in DOMAIN Schema : of = f.of /\ stk[k + 1] = Frame(of, f, to)
    BY ONLY <2>2, <2>4, Zenon
  <2>8. /\ Schema = EnvelopeSchema /\ k = Len(stack) /\ f = Schema[stack[k].type][n]
        /\ n \in DOMAIN Schema[stack[k].type]
    BY Zenon
  <2>9. \E c : GoodAt(stk, from, c)
    BY ONLY <1>1, <1>7, <2>2, <2>3, <2>5, <2>6, <2>7, <2>8, Entered, Zenon
  <2> QED
    BY ONLY <1>12, <2>1, <2>9, err = "none", Zenon DEF Outcome
<1> QED
  BY <1>6, <1>7, <1>9, <1>11, <1>12 DEF Enter, Enters

\* A field the message does not have: nothing is kept of it.
LEMMA SkippedGood ==
  ASSUME NEW k, k = Len(stack), NEW n, n \notin DOMAIN Schema[stack[k].type], NEW r, r.err = "none",
         Skipped(r), err = "none", NEW b, NEW got, ReadsNext(b, k, got, n, r.val, r.pos)
  PROVE  Outcome(err', stack', pos')
<1>1. PICK type, s, x, to : type = stack[k].type /\ s = PartOf(stack, b, k) /\ x = r.val /\ to = r.pos
  OBVIOUS
<1>2. /\ Bases(stack, b) /\ \A j \in 1..(k - 1) : Around(stack, b, j)
      /\ Held(stack[k], got, k) /\ Consumed(type, s, to - b[k], With(got, n, x))
  BY <1>1 DEF ReadsNext
<1>3. With(got, n, x) = got
  <2>1. got \in [DOMAIN Schema[type] -> Seq(Payloads)]
    BY <1>1, <1>2 DEF Held, Lists
  <2>2. \A m \in DOMAIN got : m # n
    BY <1>1, <2>1
  <2>3. With(got, n, x) = [m \in DOMAIN got |-> got[m]]
    BY <2>2 DEF With
  <2>4. got = [m \in DOMAIN got |-> got[m]]
    BY <2>1
  <2> QED
    BY <2>3, <2>4
<1>4. Taken(stack, to, b, k)
  BY <1>1, <1>2, <1>3 DEF Taken
<1>5. GoodAt(stack, to, b)
  BY <1>2, <1>4 DEF GoodAt
<1>6. pos' = to /\ UNCHANGED <<stack, err>>
  BY <1>1 DEF Skipped
<1> QED
  BY <1>5, <1>6 DEF Outcome

LEMMA FieldGood ==
  ASSUME Schema = EnvelopeSchema, Reading, Typed, Shaped, err = "none", NEW k, k = Len(stack),
         NEW tag, NEW at \in Nat, Field(tag, at), NEW r, r = Payload(stack[k].type, data, tag, at), r.err = "none",
         tag.number \in DOMAIN Schema[stack[k].type] => r.val \in Payloads,
         NEW b, NEW got, ReadsNext(b, k, got, tag.number, r.val, r.pos)
  PROVE  Outcome(err', stack', pos')
<1>1. PICK n, type : n = tag.number /\ type = stack[k].type
  OBVIOUS
<1>2. type \in DOMAIN Schema /\ Top = stack[k]
  BY <1>1, FrameIs DEF Top, Reading
<1>3. CASE n \in DOMAIN Schema[type] /\ ReadKnown(Schema[type][n], at)
  <2>1. PICK f : f = Schema[type][n]
    OBVIOUS
  <2>2. f.kind \in Kinds
    <3>1. PICK N, O : FieldType = [name : N, kind : Kinds, of : O]
      BY Zenon DEF FieldType
    <3>2. f \in FieldType
      BY <1>2, <1>3, <2>1, SchemaAssumption
    <3> QED
      BY <3>1, <3>2
  <2>3. r = PayloadAt(f, at) /\ r.val \in Payloads
    BY <1>1, <1>3, <2>1, Zenon DEF Payload, PayloadAt
  <2>4. ReadsNext(b, k, got, n, r.val, r.pos)
    BY <1>1
  <2>5. CASE ReadScalar(f, at)
    <3>1. f.kind \in Kinds \ Nestings
      BY <2>2, <2>5 DEF ReadScalar
    <3> QED
      BY <1>1, <1>3, <2>1, <2>3, <2>4, <2>5, <3>1, ScalarGood, Zenon
  <2>6. CASE EnterMessage(f, at)
    <3>1. f.kind \in Nestings
      BY <2>6 DEF EnterMessage
    <3> QED
      BY <1>1, <1>3, <2>1, <2>3, <2>4, <2>6, <3>1, EnterGood, Zenon
  <2> QED
    BY <1>3, <2>1, <2>5, <2>6 DEF ReadKnown
<1>4. CASE n \notin DOMAIN Schema[type] /\ Skipped(r)
  <2>1. ReadsNext(b, k, got, n, r.val, r.pos)
    BY <1>1
  <2> QED
    BY <1>1, <1>4, <2>1, SkippedGood
<1> QED
  BY <1>1, <1>2, <1>3, <1>4 DEF Field, Payload

-----------------------------------------------------------------------------
(***************************************************************************)
(* The steps.                                                              *)
(***************************************************************************)
\* A field is read of a message that is the start of its slice.
LEMMA TaggedGood ==
  ASSUME Schema = EnvelopeSchema, Reading, Typed, Shaped, err = "none", NEW b, GoodAt(stack, pos, b),
         pos < Top.end, NEW t, t = GetTag(data, pos), Tagged(t)
  PROVE  Outcome(err', stack', pos')
<1>1. PICK k \in Nat : k = Len(stack)
  BY DEF Reading
<1>2. k > 0 /\ k \in 1..Len(stack) /\ Top = stack[k]
  BY <1>1 DEF Reading, Top
<1>3. PICK type, u, e : type = stack[k].type /\ u = PartOf(stack, b, k) /\ e = stack[k].end
  OBVIOUS
<1>4. /\ type \in DOMAIN Schema /\ limits \in Limit /\ Level(type) = k /\ data \in Seq(Byte)
      /\ Len(data) < 2^Width
  BY <1>2, <1>3, FrameIs DEF Shaped
<1>5. Bases(stack, b) /\ Taken(stack, pos, b, k) /\ \A j \in 1..(k - 1) : Around(stack, b, j)
  BY <1>1 DEF GoodAt
<1>6. PICK base \in Nat : base = b[k] /\ IsPart(u, data, base, e) /\ u \in Seq(Byte) /\ Len(u) = e - base
  BY <1>2, <1>3, <1>5, PartIsOf
<1>7. PICK got : Held(stack[k], got, k) /\ Consumed(type, u, pos - base, got)
  BY <1>3, <1>5, <1>6 DEF Taken
<1>8. pos \in Nat /\ e \in Nat /\ pos < e
  BY <1>2, <1>3, <1>4, FrameIs DEF Typed, TypeOK
<1>9. PICK p \in Nat : p = pos - base /\ pos = base + p /\ p # Len(u)
  <2>1. pos - base \in 0..Len(u)
    BY <1>7 DEF Consumed
  <2>2. pos - base \in Nat /\ pos = base + (pos - base) /\ pos - base # e - base
    BY ONLY <1>6, <1>8, <2>1
  <2> QED
    BY <1>6, <2>2
<1>10. PICK piece : piece = PieceAt(type, u, p)
  OBVIOUS
<1>11. Consumed(type, u, p, got) /\ got \in Lists(type)
  BY <1>3, <1>7, <1>9 DEF Held
<1>12. /\ t.err # "none" => ~Whole(piece)
       /\ t.err = "none" => /\ ReadInPart(Payload(type, data, t.val, t.pos), piece.payload, base, e)
                            /\ Whole(piece) => Number(piece) = t.val.number
  <2>1. IsPart(u, data, base, e) /\ Len(data) < 2^Width /\ pos \in Nat /\ pos = base + p
    BY <1>4, <1>6, <1>8, <1>9
  <2>2. FieldInPart(type, t, piece, data, base, e)
    BY ONLY <1>10, <2>1, p \in Nat, t = GetTag(data, pos), PieceInPart, Zenon
  <2> QED
    BY <2>2 DEF FieldInPart
<1>13. ~Whole(piece) => Unacceptable
  <2> SUFFICES ASSUME ~Whole(piece) PROVE Unacceptable
    OBVIOUS
  <2>1. Cut(type, u).bad = TRUE
    BY <1>6, <1>9, <1>10, <1>11, ConsumedBad
  <2>2. ~MessageOf(type, u, limits).sound
    BY <1>4, <1>6, <2>1, BadSpoils
  <2> QED
    BY <1>2, <1>3, <1>5, <2>2, Spoils
<1>14. CASE t.err # "none" /\ Fail(t.err)
  <2>1. t.err \in Failures
    BY <1>14, ReadFailures
  <2> QED
    BY <1>12, <1>13, <1>14, <2>1, FailOutcome
<1>15. CASE t.err = "none" /\ Field(t.val, t.pos)
  <2>1. PICK tag, at, r : tag = t.val /\ at = t.pos /\ r = Payload(type, data, tag, at)
    OBVIOUS
  <2>2. at \in Nat /\ Field(tag, at)
    <3>1. t.pos \in (pos + 1)..Len(data)
      BY <1>4, <1>8, <1>15, TagForward
    <3>2. Len(data) \in Nat
      BY <1>4
    <3>3. t.pos \in Nat
      BY <1>8, <3>1, <3>2
    <3> QED
      BY <1>15, <2>1, <3>3
  <2>3. ReadInPart(r, piece.payload, base, e) /\ (Whole(piece) => Number(piece) = tag.number)
    BY <1>12, <1>15, <2>1
  <2>4. CASE ~Whole(piece)
    <3>1. r.err = "none" => ~(r.pos <= e)
      BY <2>3, <2>4 DEF ReadInPart, Whole
    <3>2. r.err = "none" => PastAt(stack, r.pos, Len(stack))
      <4>1. k \in 1..k
        BY <1>1, <1>2
      <4> QED
        BY <1>1, <1>3, <3>1, <4>1 DEF PastAt
    <3>3. Unacceptable /\ r = Payload(Top.type, data, tag, at)
      BY <1>2, <1>3, <1>13, <2>1, <2>4
    <3> QED
      BY <2>2, <3>2, <3>3, FieldFails
  <2>5. CASE Whole(piece)
    <3>1. r.err = "none" /\ Behind(piece) = r.pos - base /\ piece.payload.val = r.val
      BY <2>3, <2>5 DEF ReadInPart, Whole, Behind
    <3>2. PICK n, x : n = tag.number /\ x = r.val
      OBVIOUS
    <3>3. Number(piece) = n /\ piece.payload.val = x
      BY <2>3, <2>5, <3>1, <3>2
    <3>4. Consumed(type, u, r.pos - base, With(got, n, x))
      <4>1. Consumed(type, u, Behind(piece), With(got, Number(piece), piece.payload.val))
        BY <1>6, <1>9, <1>10, <1>11, <2>5, ConsumedNext
      <4> QED
        BY <3>1, <3>3, <4>1
    <3>5. n \in DOMAIN Schema[type] => x \in Payloads
      BY <1>6, <1>10, <2>5, <3>3, PieceForward
    <3>6. ReadsNext(b, k, got, tag.number, r.val, r.pos)
      BY <1>3, <1>5, <1>6, <1>7, <3>2, <3>4 DEF ReadsNext
    <3>7. tag.number \in DOMAIN Schema[stack[k].type] => r.val \in Payloads
      BY <1>3, <3>2, <3>5
    <3>8. r = Payload(stack[k].type, data, tag, at)
      BY <1>3, <2>1
    <3> QED
      BY <1>1, <2>2, <3>1, <3>6, <3>7, <3>8, FieldGood
  <2> QED
    BY <2>4, <2>5
<1> QED
  BY <1>14, <1>15 DEF Tagged

\* A field is read of a document that is not acceptable.
LEMMA TaggedDoomed ==
  ASSUME Reading, Typed, err = "none", DoomedAt(stack, pos), pos < Top.end, NEW t, t = GetTag(data, pos),
         Tagged(t)
  PROVE  Outcome(err', stack', pos')
<1>1. PICK k \in Nat : k = Len(stack)
  BY DEF Reading
<1>2. k > 0 /\ Top = stack[k] /\ Unacceptable
  BY <1>1 DEF Reading, Top, DoomedAt
<1>3. PICK i \in 1..k : ~(IF i = k THEN pos <= stack[i].end ELSE stack[i + 1].end <= stack[i].end)
  BY <1>1, DoomedIs DEF PastAt
<1>4. i # k
  <2>1. pos <= stack[k].end
    <3>1. k \in 1..Len(stack)
      BY <1>1, <1>2
    <3>2. PICK e \in Nat : e = stack[k].end
      BY <3>1, FrameFacts DEF Typed, FrameOK
    <3>3. pos \in Nat /\ pos < e
      BY <1>2, <3>2 DEF Typed, TypeOK
    <3> QED
      BY <3>2, <3>3
  <2> QED
    BY <1>3, <2>1
<1>5. \A at : PastAt(stack, at, Len(stack))
  BY <1>1, <1>3, <1>4 DEF PastAt
<1>6. CASE t.err # "none" /\ Fail(t.err)
  <2>1. t.err \in Failures
    BY <1>6, ReadFailures
  <2> QED
    BY <1>2, <1>6, <2>1, FailOutcome
<1>7. CASE t.err = "none" /\ Field(t.val, t.pos)
  <2>1. PICK tag, at, r : tag = t.val /\ at = t.pos /\ r = Payload(Top.type, data, tag, at)
    OBVIOUS
  <2>2. Field(tag, at) /\ PastAt(stack, r.pos, Len(stack))
    BY <1>5, <1>7, <2>1
  <2> QED
    BY <1>2, <2>1, <2>2, FieldFails
<1> QED
  BY <1>6, <1>7 DEF Tagged

\* The end of a message in another.
LEMMA LeaveGood ==
  ASSUME Schema = EnvelopeSchema, Reading, Typed, Shaped, LeaveMessage, NEW b, GoodAt(stack, pos, b)
  PROVE  Outcome(err', stack', pos')
<1>1. PICK m \in Nat : m = Len(stack)
  BY DEF Reading
<1>2. err = "none" /\ m > 1 /\ pos >= Top.end /\ Top = stack[m] /\ pos' = pos /\ m \in 1..Len(stack)
  BY <1>1 DEF LeaveMessage, Top
<1>3. PICK k \in Nat : k = m - 1 /\ m = k + 1 /\ k > 0 /\ k \in 1..Len(stack) /\ k \in 1..(m - 1)
  <2>1. m - 1 \in Nat /\ m = (m - 1) + 1 /\ m - 1 > 0 /\ m - 1 \in 1..m /\ m - 1 \in 1..(m - 1)
    BY <1>2
  <2> QED
    BY <1>1, <2>1
<1>4. PICK frame, x, e : frame = stack[m] /\ x = PartOf(stack, b, m) /\ e = frame.end
  OBVIOUS
<1>5. /\ IsFrame(frame) /\ Sane(frame) /\ frame.type \in DOMAIN Schema /\ Level(frame.type) = m
      /\ limits \in Limit /\ e \in Nat
  <2>1. e \in 0..Len(data) /\ Len(data) \in Nat
    BY <1>2, <1>4, FrameIs
  <2>2. e \in Nat
    BY <2>1
  <2> QED
    BY <1>2, <1>4, <2>2, FrameIs
<1>6. Bases(stack, b) /\ Taken(stack, pos, b, m) /\ \A j \in 1..(m - 1) : Around(stack, b, j)
  BY <1>1 DEF GoodAt
<1>7. PICK base \in Nat : base = b[m] /\ x \in Seq(Byte) /\ x \in Payloads /\ Len(x) = e - base
  BY <1>2, <1>4, <1>6, PartIsOf
<1>8. PICK whole : Held(frame, whole, m) /\ Consumed(frame.type, x, pos - base, whole)
  BY <1>4, <1>6, <1>7 DEF Taken
<1>9. pos = e /\ pos - base = Len(x)
  <2>1. pos - base \in 0..Len(x)
    BY <1>8 DEF Consumed
  <2>2. pos \in Nat /\ pos >= e
    BY <1>2, <1>4 DEF Typed, TypeOK
  <2>3. pos = e /\ pos - base = e - base
    BY ONLY <1>5, <1>7, <2>1, <2>2
  <2> QED
    BY <1>7, <2>3
<1>10. /\ MessageOf(frame.type, x, limits).sound
       /\ Like(frame.type, frame.value, MessageOf(frame.type, x, limits).value)
  BY <1>5, <1>7, <1>8, <1>9, WholeMessage
<1>11. PICK got, n : /\ n \in DOMAIN Schema[stack[k].type] /\ frame.field = Schema[stack[k].type][n]
                     /\ Held(stack[k], got, k) /\ k <= limits.max_nesting_depth
                     /\ Consumed(stack[k].type, PartOf(stack, b, k), pos - b[k], With(got, n, x))
  <2>1. Around(stack, b, k)
    BY <1>3, <1>6
  <2> QED
    BY <1>3, <1>4, <1>9, <2>1 DEF Around
<1>12. PICK f, new, at : f = frame.field /\ new = frame.value /\ at = pos
  OBVIOUS
<1>13. f.kind \in Nestings /\ f.of = frame.type
  <2>1. m \in 2..Len(stack)
    BY <1>1, <1>2
  <2> QED
    BY <1>4, <1>12, <2>1 DEF Typed, Nested, Shaped
<1>14. ReadFrom(f, x, new, limits) /\ Fitting(f, x, k)
  BY <1>10, <1>11, <1>12, <1>13 DEF ReadFrom, Fitting
<1>15. Merge(k, f, new)
  BY <1>1, <1>2, <1>3, <1>4, <1>9, <1>12 DEF LeaveMessage
<1>16. \A j \in 1..(k - 1) : Around(stack, b, j)
  <2>1. \A j \in 1..(k - 1) : j \in 1..(m - 1)
    BY <1>3
  <2> QED
    BY <1>6, <2>1
<1>17. /\ n \in DOMAIN Schema[stack[k].type] /\ f = Schema[stack[k].type][n] /\ Held(stack[k], got, k)
       /\ Consumed(stack[k].type, PartOf(stack, b, k), at - b[k], With(got, n, x))
  BY <1>11, <1>12
<1>18. Outcome(err', stack', at)
  BY <1>2, <1>3, <1>6, <1>7, <1>14, <1>15, <1>16, <1>17, MergeOutcome
<1> QED
  BY <1>2, <1>12, <1>18

LEMMA LeaveDoomed ==
  ASSUME Reading, Typed, LeaveMessage, DoomedAt(stack, pos)
  PROVE  Outcome(err', stack', pos')
<1>1. PICK m \in Nat : m = Len(stack)
  BY DEF Reading
<1>2. err = "none" /\ m > 1 /\ Top = stack[m] /\ pos' = pos /\ Unacceptable
  BY <1>1 DEF LeaveMessage, Top, DoomedAt
<1>3. PICK k \in Nat : k = m - 1 /\ m = k + 1 /\ k > 0 /\ k \in 1..Len(stack)
  <2>1. m - 1 \in Nat /\ m = (m - 1) + 1 /\ m - 1 > 0 /\ m - 1 \in 1..m
    BY <1>2
  <2> QED
    BY <1>1, <2>1
<1>4. CASE err' = "Overrun"
  BY <1>2, <1>4 DEF Outcome, Failures, Errors
<1>5. CASE pos = Top.end /\ Merge(k, Top.field, Top.value)
  <2>1. PICK i \in 1..m : ~(IF i = m THEN pos <= stack[i].end ELSE stack[i + 1].end <= stack[i].end)
    BY <1>1, DoomedIs DEF PastAt
  <2>2. i # m
    <3>1. pos = stack[m].end /\ pos \in Nat
      BY <1>2, <1>5 DEF Typed, TypeOK
    <3> QED
      BY <2>1, <3>1
  <2>3. i \in 1..k
    BY <1>3, <2>2
  <2>4. i = k => stack[i + 1].end = pos
    BY <1>2, <1>3, <1>5
  <2>5. PastAt(stack, pos, k)
    BY <2>1, <2>2, <2>3, <2>4 DEF PastAt
  <2>6. PICK f, new, at : f = Top.field /\ new = Top.value /\ at = pos
    OBVIOUS
  <2>7. Merge(k, f, new) /\ PastAt(stack, at, k)
    BY <1>5, <2>5, <2>6
  <2>8. Outcome(err', stack', at)
    BY <1>2, <1>3, <2>7, MergeDoomed
  <2> QED
    BY <1>2, <2>6, <2>8
<1> QED
  BY <1>1, <1>3, <1>4, <1>5 DEF LeaveMessage

LEMMA FinishGood ==
  ASSUME Schema = EnvelopeSchema, Reading, Typed, Shaped, Finish, NEW b, GoodAt(stack, pos, b)
  PROVE  SameAsSliced(EnvelopeOf(Cut("Envelope", data), limits))'
<1>1. err' = "done" /\ Len(stack) = 1 /\ pos >= stack[1].end /\ UNCHANGED <<data, limits, stack>>
  BY DEF Finish, Top
<1>2. 1 \in 1..Len(stack)
  BY <1>1
<1>3. PICK frame, type : frame = stack[1] /\ type = frame.type
  OBVIOUS
<1>4. /\ IsFrame(frame) /\ Sane(frame) /\ type \in DOMAIN Schema /\ Level(type) = 1
      /\ limits \in Limit /\ data \in Seq(Byte) /\ type = "Envelope" /\ frame.end = Len(data)
  BY <1>2, <1>3, FrameIs DEF Shaped
<1>5. Bases(stack, b) /\ Taken(stack, pos, b, 1)
  BY <1>1 DEF GoodAt
<1>6. PartOf(stack, b, 1) = data /\ b[1] = 0
  BY <1>5, RootIs DEF Bases
<1>7. pos \in Nat /\ pos - b[1] = Len(data)
  <2>1. pos \in Nat /\ pos <= Len(data) /\ pos >= Len(data) /\ Len(data) \in Nat
    BY <1>1, <1>3, <1>4 DEF Reading, Typed, TypeOK
  <2> QED
    BY <1>6, <2>1
<1>8. PICK got, p : Held(frame, got, 1) /\ Consumed(type, data, p, got) /\ p = Len(data)
  BY <1>3, <1>5, <1>6, <1>7 DEF Taken
<1>9. /\ MessageOf(type, data, limits).sound
      /\ Like(type, frame.value, MessageOf(type, data, limits).value)
  BY <1>3, <1>4, <1>8, WholeMessage
<1>10. PICK read : read = EnvelopeOf(Cut("Envelope", data), limits)
  OBVIOUS
<1>11. read.sound /\ Plain(stack[1].value) = read.value
  BY <1>3, <1>4, <1>9, <1>10 DEF MessageOf, Like
<1>12. PICK over : over = EnvelopeOf(Cut("Envelope", data), limits)'
  OBVIOUS
<1>13. over = read
  BY <1>1, <1>10, <1>12
<1>14. over.sound /\ Plain(stack'[1].value) = over.value
  BY <1>1, <1>11, <1>13
<1> QED
  BY <1>1, <1>12, <1>14 DEF SameAsSliced

\* A step that leaves the messages as they are keeps their shape.
LEMMA ShapedStays ==
  ASSUME Reading, Shaped, UNCHANGED <<data, limits, stack>>
  PROVE  Shaped'
<1>1. PICK k : k = Len(stack)
  OBVIOUS
<1>2. k \in 1..Len(stack) /\ Len(stack') = k /\ k <= k
  BY <1>1 DEF Reading
<1>3. Kept(k)
  BY <1>2 DEF Kept
<1> QED
  BY <1>2, <1>3, ShapedKept

LEMMA ReadFieldShape ==
  ASSUME Schema = EnvelopeSchema, Reading, Typed, Shaped, ReadField
  PROVE  Shaped' /\ UNCHANGED <<data, limits>>
<1>1. PICK t : t = GetTag(data, pos)
  OBVIOUS
<1>2. Tagged(t) /\ Admitted
  BY <1>1 DEF ReadField
<1>3. CASE \E e : Fail(e)
  BY <1>3, ShapedStays DEF Fail
<1>4. CASE Field(t.val, t.pos)
  <2>1. PICK n, type, at : n = t.val.number /\ type = Top.type /\ at = t.pos
    OBVIOUS
  <2>2. CASE n \in DOMAIN Schema[type] /\ ReadKnown(Schema[type][n], at)
    <3>1. PICK f \in FieldsOf(type) : f = Schema[type][n]
      BY <2>2 DEF FieldsOf
    <3>2. CASE ReadScalar(f, at)
      <4>1. PICK r, k : r = Scalar(f.kind, at) /\ k = Len(stack)
        OBVIOUS
      <4>2. ScalarRead(f, r)
        BY <3>2, <4>1 DEF ReadScalar
      <4>3. CASE Merge(k, f, Decoded(f.kind, r.val)) /\ UNCHANGED <<data, limits>>
        <5>1. PICK new : new = Decoded(f.kind, r.val)
          OBVIOUS
        <5>2. Merge(k, f, new) /\ k \in 1..Len(stack)
          BY <4>1, <4>3, <5>1 DEF Reading
        <5>3. stack' = stack \/ (Kept(k) /\ Len(stack') = k)
          BY <5>2, MergeKeeps
        <5> QED
          BY <4>3, <5>2, <5>3, ShapedStays, ShapedKept
      <4> QED
        BY <1>3, <4>1, <4>2, <4>3 DEF ScalarRead
    <3>3. CASE EnterMessage(f, at)
      <4>1. PICK end : end = GetLength(data, at, "NestedExceedsBuffer")
        OBVIOUS
      <4>2. f.kind \in Nestings /\ Enter(f, end)
        BY <3>3, <4>1 DEF EnterMessage
      <4>3. CASE Enters(f, end.val) /\ UNCHANGED <<data, limits>>
        <5>1. PICK to : to = end.val
          OBVIOUS
        <5>2. Enters(f, to) /\ f \in FieldsOf(Top.type)
          BY <2>1, <4>3, <5>1
        <5> QED
          BY <1>2, <4>2, <4>3, <5>2, ShapedEntered
      <4> QED
        BY <1>3, <4>2, <4>3 DEF Enter, Enters
    <3> QED
      BY <2>2, <3>1, <3>2, <3>3 DEF ReadKnown
  <2>3. CASE Skipped(GetSkip(data, at, t.val.type))
    BY <1>3, <2>3, ShapedStays DEF Skipped
  <2> QED
    BY <1>4, <2>1, <2>2, <2>3 DEF Field
<1> QED
  BY <1>2, <1>3, <1>4 DEF Tagged

LEMMA LeaveShape ==
  ASSUME Reading, Shaped, LeaveMessage
  PROVE  Shaped' /\ UNCHANGED <<data, limits>>
<1>1. PICK m \in Nat : m = Len(stack)
  BY DEF Reading
<1>2. m > 1 /\ UNCHANGED <<data, limits>>
  BY <1>1 DEF LeaveMessage
<1>3. PICK k \in Nat : k = m - 1 /\ k \in 1..Len(stack)
  BY <1>1, <1>2
<1>4. PICK f, new : f = Top.field /\ new = Top.value
  OBVIOUS
<1>5. CASE UNCHANGED stack
  BY <1>2, <1>5, ShapedStays
<1>6. CASE Merge(k, f, new)
  <2>1. stack' = stack \/ (Kept(k) /\ Len(stack') = k)
    BY <1>3, <1>6, MergeKeeps
  <2> QED
    BY <1>2, <1>3, <1>5, <2>1, ShapedKept
<1> QED
  BY <1>1, <1>3, <1>4, <1>5, <1>6, <1>2 DEF LeaveMessage

\* What is good after a step is so of the step's end.
LEMMA GoodAfter ==
  ASSUME UNCHANGED <<data, limits>>, NEW b, GoodAt(stack', pos', b)
  PROVE  GoodAt(stack, pos, b)'
<1>1. \A k : PartOf(stack', b, k) = PartOf(stack, b, k)'
  BY DEF PartOf
<1>2. \A frame, got, k : Held(frame, got, k) <=> Held(frame, got, k)'
  BY DEF Held
<1>3. ASSUME NEW k, Around(stack', b, k) PROVE Around(stack, b, k)'
  BY <1>1, <1>2, <1>3 DEF Around
<1>4. ASSUME NEW k, Taken(stack', pos', b, k) PROVE Taken(stack, pos, b, k)'
  BY <1>1, <1>2, <1>4 DEF Taken
<1>5. Bases(stack', b) => Bases(stack, b)'
  BY DEF Bases
<1> QED
  BY <1>3, <1>4, <1>5 DEF GoodAt

LEMMA OutcomeSlices ==
  ASSUME Shaped', UNCHANGED <<data, limits>>, Admitted, Outcome(err', stack', pos')
  PROVE  Slicing'
<1>1. CASE err' \in Failures /\ Unacceptable
  <2>1. PICK read : read = EnvelopeOf(Cut("Envelope", data), limits)
    OBVIOUS
  <2>2. ~read.sound
    BY <1>1, <2>1 DEF Unacceptable, MessageOf
  <2>3. PICK over : over = EnvelopeOf(Cut("Envelope", data), limits)'
    OBVIOUS
  <2>4. over = read
    BY <2>1, <2>3
  <2>5. err' \notin {"none", "done", "MessageTooLarge"}
    BY <1>1 DEF Failures, Errors
  <2>6. SameAsSliced(EnvelopeOf(Cut("Envelope", data), limits))'
    BY <2>2, <2>3, <2>4, <2>5 DEF SameAsSliced
  <2>7. Admitted'
    BY DEF Admitted
  <2>8. ReadsAsSliced'
    BY <2>5, <2>6, <2>7 DEF ReadsAsSliced
  <2> QED
    BY <2>5, <2>8 DEF Slicing
<1>2. CASE err' = "none" /\ \E b : GoodAt(stack', pos', b)
  BY <1>2, GoodAfter DEF Slicing
<1>3. CASE err' = "none" /\ DoomedAt(stack', pos')
  <2>1. Unacceptable' <=> Unacceptable
    BY DEF Unacceptable
  <2>2. DoomedAt(stack, pos)'
    BY <1>3, <2>1 DEF DoomedAt, Cursor
  <2> QED
    BY <1>3, <2>2 DEF Slicing
<1> QED
  BY <1>1, <1>2, <1>3 DEF Outcome

-----------------------------------------------------------------------------
LEMMA SlicingInit == Schema = EnvelopeSchema /\ Root = "Envelope" /\ Init => Slicing
<1> SUFFICES ASSUME Schema = EnvelopeSchema, Root = "Envelope", Init PROVE Slicing
  OBVIOUS
<1>1. Reading /\ Typed
  BY ReadingInit, TypedInit
<1>2. data \in Seq(Byte) /\ Len(data) < 2^Width /\ limits \in Limit /\ Len(data) \in Nat
  BY DecodesAssumption DEF Init
<1>3. err = "none" /\ pos = 0
  BY DEF Init
<1>4. PICK field, end : field = RootField /\ end = Len(data)
  OBVIOUS
<1>5. PICK frame : frame = Frame("Envelope", field, end)
  OBVIOUS
<1>6. Len(stack) = 1 /\ stack[1] = frame
  BY <1>4, <1>5 DEF Init
<1>7. frame.type = "Envelope" /\ frame.end = Len(data)
  BY <1>4, <1>5 DEF Frame
<1>8. "Envelope" \in DOMAIN Schema
  BY SchemaIs
<1>9. Shaped
  BY <1>2, <1>6, <1>7 DEF Shaped, Level
<1>10. PICK b : b = [k \in {1} |-> 0]
  OBVIOUS
<1>11. b[1] = 0
  BY <1>10
<1>12. Bases(stack, b)
  BY <1>2, <1>6, <1>7, <1>11 DEF Bases
<1>13. PartOf(stack, b, 1) = data
  BY <1>1, <1>9, <1>12, RootIs
<1>14. PICK none, type : type = "Envelope" /\ none = [n \in DOMAIN Schema[type] |-> <<>>]
  OBVIOUS
<1>15. Held(frame, none, 1)
  BY <1>5, <1>8, <1>14, HeldNone
<1>16. Consumed(type, data, 0, none)
  BY <1>2, <1>14, ConsumedNone
<1>17. pos - b[1] = 0
  BY <1>3, <1>11
<1>18. Taken(stack, pos, b, 1)
  BY <1>6, <1>7, <1>13, <1>14, <1>15, <1>16, <1>17 DEF Taken
<1>19. GoodAt(stack, pos, b)
  BY <1>6, <1>12, <1>18 DEF GoodAt
<1> QED
  BY <1>3, <1>9, <1>19 DEF Slicing

LEMMA SlicingStep ==
  Schema = EnvelopeSchema /\ Reading /\ Typed /\ Slicing /\ [Next]_vars => Slicing'
<1> SUFFICES ASSUME Schema = EnvelopeSchema, Reading, Typed, Slicing, [Next]_vars PROVE Slicing'
  OBVIOUS
<1>1. CASE UNCHANGED vars
  <2>1. UNCHANGED <<data, limits, pos, stack, err>>
    BY <1>1 DEF vars
  <2>2. Shaped'
    BY <2>1, ShapedStays DEF Slicing
  <2>3. (\E b : GoodAt(stack, pos, b)) => (\E b : GoodAt(stack, pos, b))'
    BY <2>1, GoodAfter
  <2>4. DoomedAt(stack, pos) => DoomedAt(stack, pos)'
    BY <2>1 DEF DoomedAt, Cursor, Unacceptable
  <2>5. ReadsAsSliced => ReadsAsSliced'
    BY <2>1 DEF ReadsAsSliced, SameAsSliced, Admitted
  <2> QED
    BY <2>1, <2>2, <2>3, <2>4, <2>5 DEF Slicing
<1>2. CASE TooLarge
  <2>1. UNCHANGED <<data, limits, stack>> /\ err' = "MessageTooLarge" /\ ~Admitted
    BY <1>2 DEF TooLarge, Fail
  <2>2. Shaped' /\ ~Admitted'
    BY <2>1, ShapedStays DEF Slicing, Admitted
  <2>3. ReadsAsSliced'
    BY <2>1, <2>2 DEF ReadsAsSliced
  <2> QED
    BY <2>1, <2>2, <2>3 DEF Slicing
<1>3. CASE ReadField
  <2>1. Shaped' /\ UNCHANGED <<data, limits>>
    BY <1>3, ReadFieldShape DEF Slicing
  <2>2. PICK t : t = GetTag(data, pos)
    OBVIOUS
  <2>3. err = "none" /\ Admitted /\ pos < Top.end /\ Tagged(t)
    BY <1>3, <2>2 DEF ReadField
  <2>4. Shaped /\ ((\E b : GoodAt(stack, pos, b)) \/ DoomedAt(stack, pos))
    BY <2>3 DEF Slicing
  <2>5. Outcome(err', stack', pos')
    BY <2>2, <2>3, <2>4, TaggedGood, TaggedDoomed
  <2> QED
    BY <2>1, <2>3, <2>5, OutcomeSlices
<1>4. CASE LeaveMessage
  <2>1. Shaped' /\ UNCHANGED <<data, limits>>
    BY <1>4, LeaveShape DEF Slicing
  <2>2. err = "none" /\ Len(stack) > 1
    BY <1>4 DEF LeaveMessage
  <2>3. Shaped /\ ((\E b : GoodAt(stack, pos, b)) \/ DoomedAt(stack, pos))
    BY <2>2 DEF Slicing
  <2>4. Outcome(err', stack', pos')
    BY <1>4, <2>3, LeaveGood, LeaveDoomed
  <2>5. Admitted
    BY <2>2, <2>3 DEF Shaped
  <2> QED
    BY <2>1, <2>4, <2>5, OutcomeSlices
<1>5. CASE Finish
  <2>1. err = "none" /\ Admitted /\ err' = "done" /\ UNCHANGED <<data, limits, stack, pos>> /\ Len(stack) = 1
    BY <1>5 DEF Finish
  <2>2. Shaped' /\ Admitted'
    BY <2>1, ShapedStays DEF Slicing, Admitted
  <2>3. Shaped /\ ((\E b : GoodAt(stack, pos, b)) \/ DoomedAt(stack, pos))
    BY <2>1 DEF Slicing
  <2>4. ~DoomedAt(stack, pos)
    <3>1. pos <= stack[1].end
      BY <2>1, <2>3 DEF Shaped, Reading
    <3> QED
      BY <2>1, <3>1 DEF DoomedAt, Cursor
  <2>5. SameAsSliced(EnvelopeOf(Cut("Envelope", data), limits))'
    BY <1>5, <2>3, <2>4, FinishGood
  <2>6. ReadsAsSliced'
    BY <2>1, <2>2, <2>5 DEF ReadsAsSliced
  <2> QED
    BY <2>1, <2>2, <2>6 DEF Slicing
<1> QED
  BY <1>1, <1>2, <1>3, <1>4, <1>5 DEF Next, Returned

LEMMA SlicingReads == Slicing => ReadsAsSliced
BY DEF Slicing, ReadsAsSliced

-----------------------------------------------------------------------------
\* Reading in place is reading slices: whatever bytes come in, the decoder accepts
\* them exactly when every message lies whole in its range and within the limits,
\* and what it returns is what the slices tell, though no read knows the range it
\* is in (read_message, unmarshal_with).
THEOREM EnvelopeReadsAsSliced ==
  ASSUME Schema = EnvelopeSchema, Root = "Envelope"
  PROVE  Spec => []ReadsAsSliced
<1>1. Init => Slicing
  BY SlicingInit
<1>2. Reading /\ Typed /\ Slicing /\ [Next]_vars => Slicing'
  BY SlicingStep
<1> QED
  BY <1>1, <1>2, SlicingReads, DecoderReads, DecoderTyped, PTL DEF Spec
=============================================================================
