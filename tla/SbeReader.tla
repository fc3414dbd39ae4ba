----------------------------- MODULE SbeReader -----------------------------
(***************************************************************************)
(* Reading SBE (protowire-sbe, unmarshal.rs, view.rs, and the checks of    *)
(* codec.rs) with the templates of a codec.  A buffer is first decoded     *)
(* into a message; one step reads one field, or enters or leaves a         *)
(* composite or an entry of a group.  Then a client holds a view of the    *)
(* same buffer and goes from block to block with it.                       *)
(*                                                                         *)
(* A position is the number of bytes before it.  A byte is a number below  *)
(* Base; the bytes of a text are NUL, 1 for a character of one byte, and   *)
(* Lead and Trail for a character of two.                                  *)
(***************************************************************************)
EXTENDS SbeTemplate

CONSTANTS
  Base,      \* how many values a byte has: 256
  Documents  \* the buffers there are to read

ASSUME BaseAssumption == Base \in Nat /\ Base > 3

\* Arithmetic; the provers do not know what a power is.
ASSUME PowersAssumption == \A n \in {1, 2, 4, 8} : Base^n \in Nat \ {0}

Byte  == 0..(Base - 1)
Lead  == 2
Trail == 3

ASSUME DocumentsAssumption == Documents \subseteq Seq(Byte)

HeaderSize      == 8
GroupHeaderSize == 4

VARIABLES
  data,     \* the buffer
  tmpl,     \* the template it is decoded with
  pos,      \* where the next group starts
  frames,   \* the blocks being read, the message's first
  entries,  \* the entries read of the group being read
  group,    \* the header of that group
  nth,      \* the number of the next group
  result,   \* "idle", "reading", "done", or why the buffer was refused
  view,     \* the view in the client's hands
  walk,     \* where View::group is on its way to a group
  called    \* what the last call returned: "ok" or an error

readVars == <<data, tmpl, pos, frames, entries, group, nth, result>>
viewVars == <<view, walk, called>>
readerVars == <<readVars, viewVars>>
vars == <<templateVars, readerVars>>

NoGroup == [block_length |-> 0, count |-> 0, total |-> 0]
NoView  == [kind |-> "none"]
NoWalk  == [want |-> 0, next |-> 0, at |-> 0]

ReaderInit ==
  /\ data = <<>> /\ tmpl = <<>> /\ pos = 0 /\ frames = <<>>
  /\ entries = <<>> /\ group = NoGroup /\ nth = 1
  /\ result = "idle" /\ view = NoView /\ walk = NoWalk /\ called = "ok"

-----------------------------------------------------------------------------
\* Numbers are little-endian.
Unsigned(b) ==
  LET from[i \in 1..(Len(b) + 1)] == IF i > Len(b) THEN 0 ELSE b[i] + Base * from[i + 1]
  IN  from[1]

U16(at) == data[at + 1] + Base * data[at + 2]

\* The number u of n bytes as a signed one.
Signed(u, n) == IF 2 * u < Base^n THEN u ELSE u - Base^n

\* `as i32` and `as i64`.
Wrapped(v, n) == Signed(v % Base^n, n)

\* Mutant of Coerced: a number is taken as it stands on the wire.
AsOnTheWire(kind, v) == IF kind = "bool" THEN v # 0 ELSE v

\* int_to_value and uint_to_value.
Coerced(kind, v) ==
  CASE kind \in {"int32", "enum"} -> Wrapped(v, 4)
    [] kind = "int64"             -> Wrapped(v, 8)
    [] kind = "uint32"            -> v % Base^4
    [] kind = "uint64"            -> v % Base^8
    [] kind = "bool"              -> v # 0

\* A text without the NULs at its end.
Trimmed(b) ==
  LET kept == {n \in 0..Len(b) : \A i \in (n + 1)..Len(b) : b[i] = 0}
  IN  SubSeq(b, 1, CHOOSE n \in kept : \A m \in kept : n <= m)

Utf8(b) ==
  \A i \in 1..Len(b) :
    /\ b[i] = Lead => i < Len(b) /\ b[i + 1] = Trail
    /\ b[i] = Trail => i > 1 /\ b[i - 1] = Lead

Read(err, val) == [err |-> err, val |-> val]

\* What the bytes of a field say: an integer, a float as its bits, a text.
Value(ft, b) ==
  CASE ft.encoding \in {"int8", "int16", "int32", "int64"} ->
         Read("none", Coerced(ft.fd.kind, Signed(Unsigned(b), Len(b))))
    [] ft.encoding \in {"uint8", "uint16", "uint32", "uint64"} ->
         Read("none", Coerced(ft.fd.kind, Unsigned(b)))
    [] ft.encoding \in {"float", "double"} -> Read("none", b)
    [] ft.encoding = "char" /\ ft.fd.kind = "bytes" -> Read("none", b)
    [] OTHER -> IF Utf8(Trimmed(b)) THEN Read("none", Trimmed(b)) ELSE Read("InvalidUtf8", <<>>)

\* The field in the slice of s from `from` to `to`.  An index outside of the
\* buffer panics, and so does a field with neither composite nor encoding
\* (the `expect`).
ReadAt(ft, from, to) ==
  CASE ft.encoding = "none"                              -> Read("NoEncoding", <<>>)
    [] ft.encoding # "none" /\ from + ft.size > to       -> Read("OutOfBounds", <<>>)
    [] OTHER -> Value(ft, SubSeq(data, from + 1, from + ft.size))

-----------------------------------------------------------------------------
\* check_message_size, and the header of the message up to its template.
MessageSound == Len(data) <= limits.max_message_size /\ Len(data) >= HeaderSize

TemplateId == U16(2)
RootEnd    == HeaderSize + U16(0)

\* The root block has room for the template's fields; a newer one has more.
RootSound(t) == U16(0) >= t.block_length /\ RootEnd <= Len(data)

GroupAt(at) ==
  [block_length |-> U16(at), count |-> U16(at + 2),
   total |-> GroupHeaderSize + U16(at) * U16(at + 2)]

\* Mutant of GroupSound: an entry's block may be shorter than the template's.
GroupUnmeasured(g, at, least) ==
  /\ g.count > 0 => g.block_length > 0
  /\ g.count <= limits.max_repeated_count
  /\ at + g.total <= Len(data)

\* Mutant of GroupSound: the count is not checked against the limit.
GroupUncounted(g, at, least) ==
  /\ g.count > 0 => g.block_length > 0 /\ g.block_length >= least
  /\ at + g.total <= Len(data)

\* check_group_header, of a group whose entries need `least` bytes.
GroupSound(g, at, least) ==
  /\ g.count > 0 => g.block_length > 0 /\ g.block_length >= least
  /\ g.count <= limits.max_repeated_count
  /\ at + g.total <= Len(data)

GroupReadable(at, least) ==
  at + GroupHeaderSize <= Len(data) /\ GroupSound(GroupAt(at), at, least)

-----------------------------------------------------------------------------
(***************************************************************************)
(* Decoding: unmarshal_message, unmarshal_group and read_field.            *)
(***************************************************************************)
Block(role, fields, base, end) ==
  [role |-> role, fields |-> fields, at |-> 1, base |-> base, end |-> end, value |-> <<>>]

Inner   == frames[Len(frames)]
Rest    == SubSeq(frames, 1, Len(frames) - 1)
Filled  == Inner.at > Len(Inner.fields)
Field   == Inner.fields[Inner.at]
Reading == result = "reading"

Stop(why) ==
  /\ result' = why
  /\ UNCHANGED <<templateVars, data, tmpl, pos, frames, entries, group, nth, viewVars>>

Receive(bytes) ==
  /\ Ready /\ result = "idle"
  /\ data' = bytes
  /\ result' = "received"
  /\ UNCHANGED <<templateVars, tmpl, pos, frames, entries, group, nth, viewVars>>

Acceptable(t) == MessageSound /\ TemplateId = t.template_id /\ RootSound(t)

\* unmarshal, for a message of this type, up to the first field.
Unmarshal(type) ==
  /\ result = "received"
  /\ tmpl' = byName[type]
  /\ \/ ~Acceptable(byName[type]) /\ result' = "BadMessage" /\ UNCHANGED <<pos, frames>>
     \/ /\ Acceptable(byName[type])
        /\ frames' = <<Block("message", byName[type].fields, HeaderSize, RootEnd)>>
        /\ pos' = RootEnd
        /\ result' = "reading"
  /\ UNCHANGED <<templateVars, data, entries, group, nth, viewVars>>

\* The members of the oneof of a field, which set_field clears.
Rivals(fields, fd) ==
  {fields[i].fd.name : i \in {j \in 1..Len(fields) : fd.oneof # <<>> /\ fields[j].fd.oneof = fd.oneof}}

Without(f, names) == [x \in DOMAIN f \ names |-> f[x]]

\* The frame with a value for its next field.
With(frame, val) ==
  [frame EXCEPT !.at = @ + 1,
                !.value = Mapping(Without(@, Rivals(frame.fields, frame.fields[frame.at].fd)),
                                  frame.fields[frame.at].fd.name, val)]

Scalar(read) ==
  \/ read.err # "none" /\ Stop(read.err)
  \/ /\ read.err = "none"
     /\ frames' = Append(Rest, With(Inner, read.val))
     /\ UNCHANGED <<templateVars, data, tmpl, pos, entries, group, nth, result, viewVars>>

ReadScalar ==
  /\ Reading /\ ~Filled /\ Field.composite = <<>>
  /\ Scalar(ReadAt(Field, Inner.base + Field.offset, Len(data)))

EnterComposite ==
  /\ Reading /\ ~Filled /\ Field.composite # <<>>
  /\ frames' = Append(frames, Block("composite", Field.composite, Inner.base + Field.offset,
                                    Inner.base + Field.offset + Field.size))
  /\ UNCHANGED <<templateVars, data, tmpl, pos, entries, group, nth, result, viewVars>>

LeaveComposite ==
  /\ Reading /\ Filled /\ Inner.role = "composite"
  /\ frames' = Append(SubSeq(Rest, 1, Len(Rest) - 1), With(Rest[Len(Rest)], Inner.value))
  /\ UNCHANGED <<templateVars, data, tmpl, pos, entries, group, nth, result, viewVars>>

\* Groups come after the fields of the message, in order.
Message    == frames[1]
NextGroup  == tmpl.groups[nth]
GroupsLeft == nth <= Len(tmpl.groups)

AtGroups == Reading /\ Filled /\ Inner.role = "message"

Entry(g, i) ==
  Block("entry", NextGroup.fields, pos + GroupHeaderSize + i * g.block_length,
        pos + GroupHeaderSize + i * g.block_length + g.block_length)

\* The message with the list of entries of its next group.
Grouped(list) == <<[Message EXCEPT !.value = Mapping(@, NextGroup.fd.name, list)]>>

EnterGroup ==
  /\ AtGroups /\ GroupsLeft
  /\ \/ ~GroupReadable(pos, NextGroup.block_length) /\ Stop("BadGroup")
     \/ /\ GroupReadable(pos, NextGroup.block_length)
        /\ group' = GroupAt(pos)
        /\ entries' = <<>>
        /\ IF GroupAt(pos).count = 0
           THEN frames' = Grouped(<<>>) /\ pos' = pos + GroupAt(pos).total /\ nth' = nth + 1
           ELSE frames' = Append(frames, Entry(GroupAt(pos), 0)) /\ UNCHANGED <<pos, nth>>
        /\ UNCHANGED <<templateVars, data, tmpl, result, viewVars>>

\* The end of an entry, and after the last of one, of its group.
LeaveEntry ==
  /\ Reading /\ Filled /\ Inner.role = "entry"
  /\ entries' = Append(entries, Inner.value)
  /\ IF Len(entries) + 1 < group.count
     THEN frames' = Append(Rest, Entry(group, Len(entries) + 1)) /\ UNCHANGED <<pos, nth>>
     ELSE frames' = Grouped(entries') /\ pos' = pos + group.total /\ nth' = nth + 1
  /\ UNCHANGED <<templateVars, data, tmpl, group, result, viewVars>>

Finish == AtGroups /\ ~GroupsLeft /\ Stop("done")

Decode ==
  \/ \E type \in DOMAIN byName : Unmarshal(type)
  \/ ReadScalar \/ EnterComposite \/ LeaveComposite \/ EnterGroup \/ LeaveEntry \/ Finish

-----------------------------------------------------------------------------
(***************************************************************************)
(* Views.  `seen` is the part of the decoded message that the view stands  *)
(* on; no call looks at it.                                                *)
(***************************************************************************)
Decoded == result \notin {"idle", "received", "reading"}

ViewOf(fields, groups, start, end, seen) ==
  [kind |-> "view", fields |-> fields, groups |-> groups, start |-> start, end |-> end, seen |-> seen]

Part(value, name) == IF name \in DOMAIN value THEN value[name] ELSE <<>>

Returns(v) ==
  /\ view' = v /\ walk' = NoWalk /\ called' = "ok"
  /\ UNCHANGED <<templateVars, data, tmpl, pos, frames, entries, group, nth, result>>

Errs(why) ==
  /\ called' = why /\ walk' = NoWalk
  /\ UNCHANGED <<templateVars, data, tmpl, pos, frames, entries, group, nth, result, view>>

Viewable == MessageSound /\ TemplateId \in DOMAIN byId /\ RootSound(byId[TemplateId])

\* Codec::view.
OpenView ==
  /\ Decoded /\ view.kind = "none" /\ called = "ok"
  /\ \/ ~Viewable /\ Errs("BadMessage")
     \/ /\ Viewable
        /\ Returns(ViewOf(byId[TemplateId].fields, byId[TemplateId].groups, HeaderSize, RootEnd,
                          IF result = "done" THEN Message.value ELSE <<>>))

Idle(kind) == view.kind = kind /\ walk = NoWalk

\* View::composite.
ViewComposite(f) ==
  /\ Idle("view") /\ view.fields[f].composite # <<>>
  /\ Returns(ViewOf(view.fields[f].composite, <<>>, view.start + view.fields[f].offset,
                    view.start + view.fields[f].offset + view.fields[f].size,
                    Part(view.seen, view.fields[f].fd.name)))

\* View::group, called for group number n.  The groups come after the block.
ViewGroup(n) ==
  /\ Idle("view") /\ n \in 1..Len(view.groups)
  /\ walk' = [want |-> n, next |-> 1, at |-> view.end]
  /\ UNCHANGED <<templateVars, readVars, view, called>>

GroupView(n, g, at) ==
  [kind |-> "group", nth |-> n, fields |-> view.groups[n].fields, base |-> at,
   block_length |-> g.block_length, count |-> g.count, seen |-> Part(view.seen, view.groups[n].fd.name)]

\* Mutant of Walk: a group is walked past by the template's block length.
WalkByTemplate ==
  /\ walk # NoWalk
  /\ \/ ~GroupReadable(walk.at, view.groups[walk.next].block_length) /\ Errs("BadGroup")
     \/ /\ GroupReadable(walk.at, view.groups[walk.next].block_length)
        /\ walk.next = walk.want
        /\ Returns(GroupView(walk.next, GroupAt(walk.at), walk.at))
     \/ /\ GroupReadable(walk.at, view.groups[walk.next].block_length)
        /\ walk.next < walk.want
        /\ walk' = [walk EXCEPT !.next = @ + 1,
                                !.at = @ + GroupHeaderSize
                                         + GroupAt(@).count * view.groups[walk.next].block_length]
        /\ UNCHANGED <<templateVars, readVars, view, called>>

\* One turn of its loop.
Walk ==
  /\ walk # NoWalk
  /\ \/ ~GroupReadable(walk.at, view.groups[walk.next].block_length) /\ Errs("BadGroup")
     \/ /\ GroupReadable(walk.at, view.groups[walk.next].block_length)
        /\ walk.next = walk.want
        /\ Returns(GroupView(walk.next, GroupAt(walk.at), walk.at))
     \/ /\ GroupReadable(walk.at, view.groups[walk.next].block_length)
        /\ walk.next < walk.want
        /\ walk' = [walk EXCEPT !.next = @ + 1, !.at = @ + GroupAt(@).total]
        /\ UNCHANGED <<templateVars, readVars, view, called>>

\* GroupView::entry, of an index below its length.
ViewEntry(i) ==
  /\ Idle("group") /\ i \in 0..(view.count - 1)
  /\ Returns(ViewOf(view.fields, <<>>, view.base + GroupHeaderSize + i * view.block_length,
                    view.base + GroupHeaderSize + i * view.block_length + view.block_length,
                    Part(view.seen, i + 1)))

Look ==
  \/ OpenView \/ Walk
  \/ Idle("view") /\ \E f \in 1..Len(view.fields) : ViewComposite(f)
  \/ Idle("view") /\ \E n \in 1..Len(view.groups) : ViewGroup(n)
  \/ Idle("group") /\ \E i \in 0..(view.count - 1) : ViewEntry(i)

Init == TemplateInit /\ ReaderInit

\* The client may stop at any time.
Rests == (refused \/ Decoded) /\ UNCHANGED vars

Next ==
  \/ Build /\ UNCHANGED readerVars
  \/ \E bytes \in Documents : Receive(bytes)
  \/ Decode \/ Look \/ Rests

Spec == Init /\ [][Next]_vars

-----------------------------------------------------------------------------
\* A field of the view, as its accessor reads it in the view's block.
Viewed(f) == ReadAt(f, view.start + f.offset, view.end)

Results ==
  {"idle", "received", "reading", "done", "BadMessage", "BadGroup", "InvalidUtf8",
   "NoEncoding", "OutOfBounds"}

KindOK(kind, v) ==
  CASE kind \in {"int32", "enum"} -> 2 * v \in -(Base^4)..(Base^4 - 1)
    [] kind = "int64"             -> 2 * v \in -(Base^8)..(Base^8 - 1)
    [] kind = "uint32"            -> v \in 0..(Base^4 - 1)
    [] kind = "uint64"            -> v \in 0..(Base^8 - 1)
    [] kind = "bool"              -> v \in BOOLEAN
    [] kind \in {"string", "bytes", "float", "double"} -> v \in Seq(Byte)
    [] OTHER                      -> TRUE

\* The value of every field that has been read, and not been cleared for
\* another member of its oneof, is one that its kind can hold.
TypeOK ==
  /\ data \in Seq(Byte) /\ limits \in Limits
  /\ pos \in Nat /\ nth \in Nat
  /\ result \in Results /\ called \in {"ok", "BadMessage", "BadGroup"}
  /\ \A k \in 1..Len(frames) : \A i \in 1..(frames[k].at - 1) :
       frames[k].fields[i].fd.name \in DOMAIN frames[k].value =>
         KindOK(frames[k].fields[i].fd.kind, frames[k].value[frames[k].fields[i].fd.name])

\* No read leaves the buffer or the block it belongs to, whatever the headers
\* say: neither the decoder's nor that of any field of any view a client can
\* come to (unmarshal_message, check_group_header, View::block).
InBounds ==
  /\ result # "OutOfBounds"
  /\ \A k \in 1..Len(frames) : frames[k].end <= Len(data)
  /\ Reading /\ ~Filled => Inner.base + Field.offset + Field.size <= Inner.end
  /\ view.kind = "view" =>
       /\ view.end <= Len(data)
       /\ \A i \in 1..Len(view.fields) : Viewed(view.fields[i]).err # "OutOfBounds"

\* No more entries are read, or promised by a view, than the limit allows
\* (check_group_header).
EntriesBounded ==
  /\ Len(entries) <= limits.max_repeated_count
  /\ view.kind = "group" => view.count <= limits.max_repeated_count

\* What read_field takes for granted: "non-composite field has encoding".
HasEncoding == result # "NoEncoding"

\* The buffer names the template it was decoded with, and no other type has
\* its id.
SameTemplate ==
  Len(data) >= HeaderSize /\ TemplateId \in DOMAIN byId /\ byId[TemplateId] = tmpl

\* The decoder and the views of a buffer agree: a view can be had, and each of
\* its groups come to, exactly if the decoder reads the message and its groups
\* (or has stopped at a field before); every field is read alike, and lists are
\* as long (unmarshal_message, view).
ViewAgrees ==
  Decoded /\ SameTemplate =>
    /\ called = "BadMessage" => result = "BadMessage"
    /\ called = "BadGroup" => result \in {"BadGroup", "InvalidUtf8", "NoEncoding"}
    /\ result = "BadMessage" => view.kind = "none"
    /\ result = "BadGroup" => ~(view.kind = "group" /\ view.nth = Len(tmpl.groups))
    /\ result = "done" /\ view.kind = "group" => view.count = Len(view.seen)
    /\ result = "done" /\ view.kind = "view" =>
         \A i \in 1..Len(view.fields) :
           view.fields[i].composite = <<>> /\ view.fields[i].fd.name \in DOMAIN view.seen =>
             Viewed(view.fields[i]) = Read("none", view.seen[view.fields[i].fd.name])
=============================================================================
