------------------------------ MODULE SbeCodec ------------------------------
(***************************************************************************)
(* Writing SBE (protowire-sbe, marshal.rs), and what the writer and the    *)
(* two readers owe each other: the buffers read are those written, as they *)
(* are, from a newer schema, or damaged.                                   *)
(***************************************************************************)
EXTENDS SbeReader, SequencesExt

CONSTANTS
  Sent,   \* the messages written: records of a type and a value
  Damage  \* how a buffer is damaged: records of a position, a number of
          \* bytes taken out there, and the bytes put in their place

\* The u16 of a number, and any number of n bytes.
Bytes(v, n) == [i \in 1..n |-> (v % Base^n) \div Base^(i - 1) % Base]

Zeros(n) == [i \in 1..n |-> 0]

\* The buffer with bytes written at an offset.
Paint(buf, off, bytes) ==
  [i \in DOMAIN buf |-> IF i \in (off + 1)..(off + Len(bytes)) THEN bytes[i - off] ELSE buf[i]]

\* Mutant of Cut: a text is cut at the byte.
CutAtByte(text, n) == IF Len(text) <= n THEN text ELSE SubSeq(text, 1, n)

\* cut_string: a text is cut before the character that passes the limit.
Cut(text, n) ==
  IF Len(text) <= n THEN text
  ELSE SubSeq(text, 1, IF text[n + 1] = Trail THEN n - 1 ELSE n)

AsNumber(kind, v) == IF kind = "bool" THEN (IF v THEN 1 ELSE 0) ELSE v

\* write_field, of a scalar.
Encoded(ft, v) ==
  CASE ft.fd.kind \in Integral -> Bytes(AsNumber(ft.fd.kind, v), ft.size)
    [] ft.fd.kind = "string"   -> Cut(v, ft.size)
    [] ft.fd.kind = "bytes"    -> SubSeq(v, 1, IF Len(v) < ft.size THEN Len(v) ELSE ft.size)
    [] OTHER                   -> v

\* The fields of a message written into buf from `base` on (write_field).
RECURSIVE WriteFields(_, _, _, _)
WriteFields(buf, base, fields, value) ==
  FoldLeft(LAMBDA b, ft :
             IF ft.composite # <<>>
             THEN WriteFields(b, base + ft.offset, ft.composite, value[ft.fd.name])
             ELSE Paint(b, base + ft.offset, Encoded(ft, value[ft.fd.name])),
           buf, fields)

\* A block of some fields, with `extra` bytes that a newer schema has after
\* them.
BlockOf(fields, length, value, extra) == WriteFields(Zeros(length), 0, fields, value) \o extra

Concat(parts) == FoldLeft(LAMBDA s, p : s \o p, <<>>, parts)

\* marshal_group.
GroupOf(gt, list, extra) ==
  Bytes(gt.block_length + Len(extra), 2) \o Bytes(Len(list), 2)
    \o Concat([i \in DOMAIN list |-> BlockOf(gt.fields, gt.block_length, list[i], extra)])

\* marshal_message; with `extra` bytes, of a newer schema.
Written(t, value, extra) ==
  Bytes(t.block_length + Len(extra), 2) \o Bytes(t.template_id, 2)
    \o Bytes(t.schema_id, 2) \o Bytes(t.version, 2)
    \o BlockOf(t.fields, t.block_length, value, extra)
    \o Concat([n \in DOMAIN t.groups |-> GroupOf(t.groups[n], value[t.groups[n].fd.name], extra)])

Marshal(t, value) == Written(t, value, <<>>)

Newer == <<3, 3>>

Spoils(s, d) ==
  d.at <= Len(s) /\ Receive(SubSeq(s, 1, d.at) \o d.put \o SubSeq(s, d.at + d.cut + 1, Len(s)))

Writable(m) == m.type \in DOMAIN byName

Arrives(m) ==
  \/ Receive(Marshal(byName[m.type], m.value))
  \/ Receive(Written(byName[m.type], m.value, Newer))
  \/ \E d \in Damage : Spoils(Marshal(byName[m.type], m.value), d)

CodecNext ==
  \/ Build /\ UNCHANGED readerVars
  \/ Ready /\ result = "idle" /\ \E m \in Sent : Writable(m) /\ Arrives(m)
  \/ Decode \/ Look \/ Rests

CodecSpec == Init /\ [][CodecNext]_vars

-----------------------------------------------------------------------------
\* The numbers of an encoding.
RangeOf(ft) ==
  IF ft.encoding \in {"int8", "int16", "int32", "int64"}
  THEN -(Base^ft.size \div 2)..((Base^ft.size \div 2) - 1)
  ELSE 0..(Base^ft.size - 1)

\* What is left of a text in n bytes: the most characters, and no NULs after
\* them.
Kept(text, n) ==
  LET whole == {k \in 0..Len(text) : k <= n /\ Utf8(SubSeq(text, 1, k))}
  IN  Trimmed(SubSeq(text, 1, CHOOSE k \in whole : \A j \in whole : j <= k))

Same(ft, v, w) ==
  CASE ft.fd.kind \in Integral -> AsNumber(ft.fd.kind, v) \in RangeOf(ft) => w = v
    [] ft.fd.kind = "string"   -> w = Kept(v, ft.size)
    [] ft.fd.kind = "bytes"    -> /\ Len(w) = ft.size
                                  /\ \A i \in 1..ft.size : w[i] = IF i <= Len(v) THEN v[i] ELSE 0
    [] OTHER                   -> w = v

\* A later member of a oneof is read over this one.
Lost(fields, i) == \E j \in (i + 1)..Len(fields) : fields[j].fd.name \in Rivals(fields, fields[i].fd)

\* What was written and what was read of it.
RECURSIVE SameFields(_, _, _)
SameFields(fields, v, w) ==
  \A i \in {j \in 1..Len(fields) : ~Lost(fields, j)} :
    LET name == fields[i].fd.name
    IN  IF fields[i].composite # <<>> THEN SameFields(fields[i].composite, v[name], w[name])
        ELSE Same(fields[i], v[name], w[name])

SameMessage(t, v, w) ==
  /\ SameFields(t.fields, v, w)
  /\ \A n \in 1..Len(t.groups) :
       LET name == t.groups[n].fd.name
       IN  /\ Len(w[name]) = Len(v[name])
           /\ \A i \in 1..Len(v[name]) : SameFields(t.groups[n].fields, v[name][i], w[name][i])

\* Every length, count and id of a message has room in the header, and no
\* entry is empty.
Representable(t, value) ==
  /\ t.template_id < Base^2 /\ t.block_length + Len(Newer) < Base^2
  /\ \A n \in 1..Len(t.groups) :
       /\ Len(value[t.groups[n].fd.name]) < Base^2
       /\ t.groups[n].block_length + Len(Newer) < Base^2 /\ t.groups[n].block_length > 0

Over(t, value) ==
  \/ Len(data) > limits.max_message_size
  \/ \E n \in 1..Len(t.groups) : Len(value[t.groups[n].fd.name]) > limits.max_repeated_count

Original(m) ==
  data \in {Marshal(byName[m.type], m.value), Written(byName[m.type], m.value, Newer)}

\* What was written is read back, also by the schema that a newer one was made
\* from: a text as the characters that had room, and numbers as they were if
\* their encoding has them.  It is refused exactly for a limit.  Of a oneof,
\* which only a group lets in, the last member is left.
RoundTrip ==
  Decoded =>
    \A m \in Sent :
      tmpl.desc = m.type /\ Original(m) /\ Representable(tmpl, m.value) =>
        IF Over(tmpl, m.value) THEN result \in {"BadMessage", "BadGroup"}
        ELSE result = "done" /\ SameMessage(tmpl, m.value, Message.value)
=============================================================================
