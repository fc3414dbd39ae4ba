---------------------------- MODULE EnvelopeCodec ----------------------------
(***************************************************************************)
(* The envelope (protowire-envelope, codec.rs) over the binary codec: its  *)
(* messages as a schema for the decoder, the encoder of each, and what the *)
(* two owe each other.                                                     *)
(*                                                                         *)
(* A string is the sequence of its bytes.  A HashMap is the sequence of    *)
(* its entries in the order it is iterated in, which is any.               *)
(***************************************************************************)
EXTENDS PbReader, SequencesExt

CONSTANT Sent  \* what is sent: records of an envelope and its bytes

FieldIs(name, kind, of) == [name |-> name, kind |-> kind, of |-> of]

EnvelopeSchema ==
  [Envelope      |-> <<FieldIs("status", "int32", "none"), FieldIs("transport_error", "string", "none"),
                       FieldIs("data", "bytes", "none"), FieldIs("error", "message", "AppError")>>,
   AppError      |-> <<FieldIs("code", "string", "none"), FieldIs("message", "string", "none"),
                       FieldIs("args", "strings", "none"), FieldIs("details", "messages", "FieldError"),
                       FieldIs("metadata", "map", "MetadataEntry")>>,
   FieldError    |-> <<FieldIs("field", "string", "none"), FieldIs("code", "string", "none"),
                       FieldIs("message", "string", "none"), FieldIs("args", "strings", "none")>>,
   MetadataEntry |-> <<FieldIs("key", "string", "none"), FieldIs("value", "string", "none")>>]

-----------------------------------------------------------------------------
(***************************************************************************)
(* Writing.  A writer at some depth has its bytes, and has refused a value *)
(* nested too deep or has not.                                             *)
(***************************************************************************)
Written(bytes) == [bytes |-> bytes, exceeded |-> FALSE]
Exceeded       == [bytes |-> <<>>, exceeded |-> TRUE]

\* What several writes leave in one writer.
Then(w, v) == [bytes |-> w.bytes \o v.bytes, exceeded |-> w.exceeded \/ v.exceeded]

Each(list, Put(_)) == FoldLeft(LAMBDA w, x : Then(w, Put(x)), Written(<<>>), list)

PutField(n, b) == Written(PutTag(n, LengthDelimited) \o PutBytes(b))

\* A proto3 scalar is written unless it is zero.
PutUnlessEmpty(n, b) == IF b = <<>> THEN Written(<<>>) ELSE PutField(n, b)

\* Mutant of PutNested: a message at the limit is left out in silence.
PutNestedSilently(n, inner, deep, max) ==
  IF deep >= max \/ inner.exceeded THEN Written(<<>>)
  ELSE PutField(n, inner.bytes)

\* write_message and write_map_entry on a writer at depth `deep`: nested and
\* finish_nested.
PutNested(n, inner, deep, max) ==
  IF deep >= max \/ inner.exceeded THEN Exceeded ELSE PutField(n, inner.bytes)

\* Mutant of PutArgs: an empty string is left out.
PutArgsSkipsEmpty(n, args) == Each(args, LAMBDA a : PutUnlessEmpty(n, a))

\* A repeated string, every element of it.
PutArgs(n, args) == Each(args, LAMBDA a : PutField(n, a))

PutFieldError(fe) ==
  Then(Then(PutUnlessEmpty(1, fe.field), PutUnlessEmpty(2, fe.code)),
       Then(PutUnlessEmpty(3, fe.message), PutArgs(4, fe.args)))

\* Both fields of an entry are written, zero-valued or not.
PutEntry(e) == Then(PutField(1, e.key), PutField(2, e.value))

PutAppError(ae, deep, max) ==
  Then(Then(Then(PutUnlessEmpty(1, ae.code), PutUnlessEmpty(2, ae.message)),
            Then(PutArgs(3, ae.args),
                 Each(ae.details, LAMBDA fe : PutNested(4, PutFieldError(fe), deep, max)))),
       Each(ae.metadata, LAMBDA e : PutNested(5, PutEntry(e), deep, max)))

PutStatus(status) ==
  Written(IF status = 0 THEN <<>> ELSE PutTag(1, Varint) \o PutInt32(status))

\* What marshal_with writes of an envelope: its bytes, or the refusal that
\* finish_checked reports.
Marshal(env, max) ==
  Then(Then(PutStatus(env.status), PutUnlessEmpty(2, env.transport_error)),
       Then(PutUnlessEmpty(3, env.data),
            Each(env.error, LAMBDA ae : PutNested(4, PutAppError(ae, 1, max), 0, max))))

-----------------------------------------------------------------------------
(***************************************************************************)
(* The same bytes read as a message whose nested messages are cut out      *)
(* first: a message is a sequence of fields, each whole inside its slice.  *)
(***************************************************************************)
FieldPayload(field, s, at) ==
  CASE field.kind = "int32"                 -> GetVarint(s, at)
    [] field.kind \in {"string", "strings"} -> GetString(s, at)
    [] OTHER                                -> GetBytes(s, at)

Payload(type, s, tag, at) ==
  IF tag.number \in DOMAIN Schema[type] THEN FieldPayload(Schema[type][tag.number], s, at)
                                        ELSE GetSkip(s, at, tag.type)

Piece(type, s, tag) ==
  [tag |-> tag, payload |-> IF tag.err = "none" THEN Payload(type, s, tag.val, tag.pos) ELSE tag]

\* No field yet of a message of a type: of each field its payloads, in order, and
\* whether something is not a whole field.
NoField(type, bad) == [all |-> [n \in DOMAIN Schema[type] |-> <<>>], bad |-> bad]

\* One more field, of number n, before the others; of an unknown one nothing is kept.
Before(n, val, cut) ==
  [cut EXCEPT !.all = [m \in DOMAIN @ |-> IF m = n THEN <<val>> \o @[m] ELSE @[m]]]

\* The fields of the slice s from each position on.
Cuts(type, s) ==
  LET cut[p \in 0..Len(s)] ==
        LET piece == Piece(type, s, GetTag(s, p))
        IN  CASE p = Len(s) -> NoField(type, FALSE)
              [] p # Len(s) /\ piece.payload.err # "none" -> NoField(type, TRUE)
              [] OTHER -> Before(piece.tag.val.number, piece.payload.val, cut[piece.payload.pos])
  IN  cut

Cut(type, s) == Cuts(type, s)[0]

\* The payloads of field n, in order.
All(c, n) == c.all[n]

LastOf(c, n, zero) == LET all == All(c, n) IN IF all = <<>> THEN zero ELSE Last(all)

\* A nested message, as the record of its value and whether it is acceptable.
FieldErrorOf(c, l) ==
  [value |-> [field |-> LastOf(c, 1, <<>>), code |-> LastOf(c, 2, <<>>),
              message |-> LastOf(c, 3, <<>>), args |-> All(c, 4)],
   sound |-> ~c.bad /\ Len(All(c, 4)) <= l.max_repeated_count]

EntryOf(c) ==
  [value |-> [key |-> LastOf(c, 1, <<>>), value |-> LastOf(c, 2, <<>>)], sound |-> ~c.bad]

Mapped(seq, f(_)) == [i \in DOMAIN seq |-> f(seq[i])]

Values(parts) == Mapped(parts, LAMBDA p : p.value)
AllSound(parts) == \A i \in DOMAIN parts : parts[i].sound

\* The map that a list of entries makes, as a set of entries.
MapOf(entries) ==
  {entries[i] : i \in {j \in DOMAIN entries :
                         \A k \in DOMAIN entries : k > j => entries[k].key # entries[j].key}}

AppErrorMade(c, details, entries, l) ==
  [value |-> [code |-> LastOf(c, 1, <<>>), message |-> LastOf(c, 2, <<>>), args |-> All(c, 3),
              details |-> Values(details), metadata |-> MapOf(Values(entries))],
   sound |-> /\ ~c.bad /\ AllSound(details) /\ AllSound(entries)
             /\ l.max_nesting_depth >= 2 \/ (details = <<>> /\ entries = <<>>)
             /\ Len(All(c, 3)) <= l.max_repeated_count
             /\ Len(details) <= l.max_repeated_count
             /\ Cardinality(MapOf(Values(entries))) <= l.max_repeated_count]

AppErrorOf(c, l) ==
  AppErrorMade(c, Mapped(All(c, 4), LAMBDA s : FieldErrorOf(Cut("FieldError", s), l)),
                  Mapped(All(c, 5), LAMBDA s : EntryOf(Cut("MetadataEntry", s))), l)

EnvelopeMade(c, errors, l) ==
  [value |-> [status |-> AsInt32(LastOf(c, 1, 0)), transport_error |-> LastOf(c, 2, <<>>),
              data |-> LastOf(c, 3, <<>>),
              error |-> IF errors = <<>> THEN <<>> ELSE <<Last(errors).value>>],
   sound |-> /\ ~c.bad /\ AllSound(errors)
             /\ errors = <<>> \/ l.max_nesting_depth >= 1]

EnvelopeOf(c, l) ==
  EnvelopeMade(c, Mapped(All(c, 4), LAMBDA s : AppErrorOf(Cut("AppError", s), l)), l)

\* An envelope with the metadata of its error as a set, for comparing.
Plain(env) == [env EXCEPT !.error = Mapped(@, LAMBDA ae : [ae EXCEPT !.metadata = Range(@)])]

-----------------------------------------------------------------------------
SameAsSliced(read) ==
  IF err = "done" THEN read.sound /\ Plain(stack[1].value) = read.value ELSE ~read.sound

\* Reading in place is reading slices: the decoder accepts a document exactly
\* when every message lies whole in its range, within the limits, and reads
\* the same message out of it (read_message, unmarshal_with).
ReadsAsSliced ==
  /\ err \notin {"none", "MessageTooLarge"} => SameAsSliced(EnvelopeOf(Cut("Envelope", data), limits))
  /\ err = "MessageTooLarge" <=> err # "none" /\ ~Admitted

\* The depth of the deepest message of an envelope.
Deepest == 2

\* What is sent: an envelope and its bytes.
Sending(e) == [env |-> e, bytes |-> Marshal(e, Deepest).bytes]

\* An envelope that was written is read back as it was, unless it is beyond a
\* limit of the decode.
RoundTrip ==
  err \notin {"none", "MessageTooLarge", "RepeatedCountExceeded", "DepthExceeded"} =>
    \A s \in Sent : s.bytes = data =>
      err = "done" /\ Plain(stack[1].value) = Plain(s.env)

\* The writer refuses an envelope for its depth exactly when the reader at the
\* same limit does ("a reader at the same limit refuses it", MarshalOptions).
DepthLimitsAgree ==
  err \in {"done", "DepthExceeded"} =>
    \A s \in Sent : s.bytes = data =>
      (err = "DepthExceeded" <=> Marshal(s.env, limits.max_nesting_depth).exceeded)
=============================================================================
