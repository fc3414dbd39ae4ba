------------------------------ MODULE PbReader ------------------------------
(***************************************************************************)
(* Decoding a message (protowire-pb, codec.rs: unmarshal_with and          *)
(* read_message, with the Message impls as a table).  All messages are     *)
(* read in place from one buffer: a nested message is a range of it, and   *)
(* the reads of its fields are bounded by the buffer, not by the range.    *)
(* One step reads one field, enters a nested message, or leaves one.       *)
(***************************************************************************)
EXTENDS PbWire, FiniteSets

CONSTANTS
  Schema,     \* message type -> field number -> [name, kind, of]
  Root,       \* the type of the message decoded
  Decodes     \* the calls of unmarshal_with: records of data and limits

\* The kinds of field: one scalar, a list of strings, one message, a list of
\* messages, and a map whose entries are messages with a key and a value.  A
\* message field is a list of at most one.
Scalars  == {"int32", "string", "bytes"}
Nestings == {"message", "messages", "map"}
Kinds    == Scalars \cup {"strings"} \cup Nestings

FieldType == [name : STRING \cup {""}, kind : Kinds, of : DOMAIN Schema \cup {"none"}]

\* The message decoded, as if it were the value of a field without a name.
RootField == [name |-> "", kind |-> "message", of |-> Root]

ASSUME SchemaAssumption ==
  /\ Root \in DOMAIN Schema
  /\ \A type \in DOMAIN Schema : \A n \in DOMAIN Schema[type] :
       /\ n \in Nat
       /\ Schema[type][n] \in FieldType
       /\ Schema[type][n].kind \in Nestings => Schema[type][n].of \in DOMAIN Schema
       /\ \A m \in DOMAIN Schema[type] : Schema[type][m].name = Schema[type][n].name => m = n

Limit == [max_message_size : Nat, max_nesting_depth : Nat, max_repeated_count : Nat]

ASSUME DecodesAssumption ==
  \A d \in Decodes : d.data \in Seq(Byte) /\ Len(d.data) < 2^Width /\ d.limits \in Limit

VARIABLES
  data,     \* the buffer
  limits,   \* the limits of this decode
  pos,      \* the reader's position
  depth,    \* the reader's nesting depth
  stack,    \* the messages being read, the root first
  err       \* why the decode was refused; "none", or "done" once it succeeded

vars == <<data, limits, pos, depth, stack, err>>

FieldsOf(type) == {Schema[type][n] : n \in DOMAIN Schema[type]}

Empty(kind) == IF kind = "int32" THEN 0 ELSE <<>>

\* M::default(), a message as a function from field names to values.
Default(type) ==
  [name \in {f.name : f \in FieldsOf(type)} |->
     Empty((CHOOSE f \in FieldsOf(type) : f.name = name).kind)]

Frame(type, field, end) ==
  [type |-> type, field |-> field, end |-> end, value |-> Default(type)]

Top == stack[Len(stack)]

Init ==
  /\ \E d \in Decodes : data = d.data /\ limits = d.limits
  /\ pos = 0 /\ depth = 0
  /\ stack = <<Frame(Root, RootField, Len(data))>>
  /\ err = "none"

Fail(e) == err' = e /\ UNCHANGED <<data, limits, pos, depth, stack>>

\* The message size is checked before anything is read.
Admitted == Len(data) <= limits.max_message_size

TooLarge == err = "none" /\ ~Admitted /\ Fail("MessageTooLarge")

-----------------------------------------------------------------------------
\* Reader::push_element and check_repeated.
Full(list) == Len(list) >= limits.max_repeated_count

\* A map is a sequence of entries in the order in which its keys came first.
Keys(map) == {map[i].key : i \in DOMAIN map}

Insert(map, e) ==
  IF e.key \in Keys(map)
  THEN [i \in DOMAIN map |-> IF map[i].key = e.key THEN e ELSE map[i]]
  ELSE Append(map, e)

\* Mutant of Refused: the entries of a map are not counted.
RefusedListsOnly(field, old, new) == field.kind \in {"strings", "messages"} /\ Full(old)

\* One more element does not fit into the list or map.
Refused(field, old, new) ==
  \/ field.kind \in {"strings", "messages"} /\ Full(old)
  \/ field.kind = "map" /\ new.key \notin Keys(old) /\ Full(old)

\* What a field holds once the value `new` has been read for it.
Merged(field, old, new) ==
  CASE field.kind \in {"strings", "messages"} -> Append(old, new)
    [] field.kind = "map"                     -> Insert(old, new)
    [] field.kind = "message"                 -> <<new>>
    [] OTHER                                  -> new

\* merge_field: the value read for `field` enters the message in the frame at
\* index k of the stack, which becomes the top.
Merge(k, field, val) ==
  LET old == stack[k].value[field.name]
  IN  \/ /\ Refused(field, old, val)
         /\ err' = "RepeatedCountExceeded"
         /\ UNCHANGED stack
      \/ /\ ~Refused(field, old, val)
         /\ stack' = [SubSeq(stack, 1, k) EXCEPT
                        ![k].value[field.name] = Merged(field, old, val)]
         /\ UNCHANGED err

Scalar(kind, at) ==
  CASE kind = "int32" -> GetVarint(data, at)
    [] kind = "bytes" -> GetBytes(data, at)
    [] OTHER          -> GetString(data, at)

Decoded(kind, val) == IF kind = "int32" THEN AsInt32(val) ELSE val

\* The scalar r was read for the field.
ScalarRead(field, r) ==
  \/ r.err # "none" /\ Fail(r.err)
  \/ /\ r.err = "none"
     /\ pos' = r.pos
     /\ Merge(Len(stack), field, Decoded(field.kind, r.val))
     /\ UNCHANGED <<data, limits, depth>>

ReadScalar(field, at) ==
  field.kind \notin Nestings /\ ScalarRead(field, Scalar(field.kind, at))

\* Mutant of Enter: the depth is checked after the descent.
EnterUnchecked(field, end) ==
  \/ end.err # "none" /\ Fail(end.err)
  \/ end.err = "none" /\ depth > limits.max_nesting_depth /\ Fail("DepthExceeded")
  \/ /\ end.err = "none" /\ depth <= limits.max_nesting_depth
     /\ depth' = depth + 1
     /\ pos' = end.pos
     /\ stack' = Append(stack, Frame(field.of, field, end.val))
     /\ UNCHANGED <<data, limits, err>>

\* A nested message whose length was read, and ends at end.val.
Enter(field, end) ==
  \/ end.err # "none" /\ Fail(end.err)
  \/ end.err = "none" /\ depth >= limits.max_nesting_depth /\ Fail("DepthExceeded")
  \/ /\ end.err = "none" /\ depth < limits.max_nesting_depth
     /\ depth' = depth + 1
     /\ pos' = end.pos
     /\ stack' = Append(stack, Frame(field.of, field, end.val))
     /\ UNCHANGED <<data, limits, err>>

\* read_message up to its loop.
EnterMessage(field, at) ==
  field.kind \in Nestings /\ Enter(field, GetLength(data, at, "NestedExceedsBuffer"))

Skipped(r) ==
  \/ r.err # "none" /\ Fail(r.err)
  \/ r.err = "none" /\ pos' = r.pos /\ UNCHANGED <<data, limits, depth, stack, err>>

ReadKnown(field, at) == ReadScalar(field, at) \/ EnterMessage(field, at)

\* One turn of the loops of unmarshal_with and read_message: the field after
\* the tag `tag`, whose value starts at `at`.  A field's kind decides how it is
\* read, whatever the wire type in the tag; only a number the type does not
\* have is skipped by its wire type.
Field(tag, at) ==
  \/ /\ tag.number \in DOMAIN Schema[Top.type]
     /\ ReadKnown(Schema[Top.type][tag.number], at)
  \/ /\ tag.number \notin DOMAIN Schema[Top.type]
     /\ Skipped(GetSkip(data, at, tag.type))

Tagged(t) ==
  \/ t.err # "none" /\ Fail(t.err)
  \/ t.err = "none" /\ Field(t.val, t.pos)

ReadField == err = "none" /\ Admitted /\ pos < Top.end /\ Tagged(GetTag(data, pos))

\* Mutant of LeaveMessage: a message may end past its range.
LeaveOverrun ==
  /\ err = "none" /\ Len(stack) > 1 /\ pos >= Top.end
  /\ depth' = depth - 1
  /\ Merge(Len(stack) - 1, Top.field, Top.value)
  /\ UNCHANGED <<data, limits, pos>>

\* Mutant of LeaveMessage: after an overrun, reading goes on at the end.
LeaveBack ==
  /\ err = "none" /\ Len(stack) > 1 /\ pos >= Top.end
  /\ depth' = depth - 1
  /\ pos' = Top.end
  /\ Merge(Len(stack) - 1, Top.field, Top.value)
  /\ UNCHANGED <<data, limits>>

\* The end of read_message: the message read enters the one around it.
LeaveMessage ==
  /\ err = "none" /\ Len(stack) > 1 /\ pos >= Top.end
  /\ depth' = depth - 1
  /\ \/ pos # Top.end /\ err' = "Overrun" /\ UNCHANGED stack
     \/ pos = Top.end /\ Merge(Len(stack) - 1, Top.field, Top.value)
  /\ UNCHANGED <<data, limits, pos>>

\* The end of unmarshal_with.
Finish ==
  /\ err = "none" /\ Admitted /\ Len(stack) = 1 /\ pos >= Top.end
  /\ err' = "done"
  /\ UNCHANGED <<data, limits, pos, depth, stack>>

\* The decode has returned.
Returned == err # "none" /\ UNCHANGED vars

Next == TooLarge \/ ReadField \/ LeaveMessage \/ Finish \/ Returned

Spec == Init /\ [][Next]_vars

-----------------------------------------------------------------------------
Errors == {"TruncatedVarint", "VarintTooLong", "UnknownWireType", "InvalidTag",
           "TruncatedLengthDelim", "NestedExceedsBuffer", "InvalidUtf8",
           "TruncatedFixed32", "TruncatedFixed64", "GroupNotSupported",
           "MessageTooLarge", "DepthExceeded", "RepeatedCountExceeded", "Overrun"}

ValueOK(kind, v) ==
  CASE kind = "int32" -> v \in -(2^(Width32 - 1))..(2^(Width32 - 1) - 1)
    [] kind = "bytes" -> v \in Seq(Byte)
    [] kind = "string" -> v \in Seq(0..127)
    [] OTHER -> Len(v) \in Nat

\* Every message being read has a type of the schema, an end, and in each field
\* a value of its kind: a signed number, bytes, characters, or a list.
FrameOK(frame) ==
  /\ frame.type \in DOMAIN Schema /\ frame.end \in Nat
  /\ frame.field \in FieldType
  /\ \A f \in FieldsOf(frame.type) : ValueOK(f.kind, frame.value[f.name])

TypeOK ==
  /\ data \in Seq(Byte) /\ limits \in Limit
  /\ pos \in Nat /\ depth \in Nat
  /\ err \in Errors \cup {"none", "done"}
  /\ Len(stack) > 0
  /\ \A k \in 1..Len(stack) : FrameOK(stack[k])

\* No read reaches past the buffer, however large the lengths in it are: the
\* position and the end of every message being read stay inside.
InBuffer ==
  /\ pos <= Len(data)
  /\ \A k \in 1..Len(stack) : stack[k].end <= Len(data)

\* While a decode goes on, and when it has succeeded, the reader's depth is the
\* number of messages around the one being read, and within the limit; it is
\* back at 0 at the end.  (An error unwinds it, and nothing reads it after.)
DepthBounded ==
  err \in {"none", "done"} => depth = Len(stack) - 1 /\ depth <= limits.max_nesting_depth

\* No list or map holds more than the limit at any time, also while it is read.
CountBounded ==
  \A k \in 1..Len(stack) : \A f \in FieldsOf(stack[k].type) :
    f.kind \in {"strings", "messages", "map"}
      => Len(stack[k].value[f.name]) <= limits.max_repeated_count

\* Every step brings the decode nearer to its end, so it has one: it returns,
\* moves on in the buffer, or leaves a message without moving back.
Advances ==
  [][\/ err' # "none"
     \/ pos' \in (pos + 1)..Len(data)
     \/ pos' = pos /\ Len(stack') < Len(stack)]_vars
=============================================================================
