------------------------------ MODULE PxfDecoder ------------------------------
(***************************************************************************)
(* Decoding a PXF document against a schema (protowire-pxf, decode.rs:     *)
(* unmarshal_full and Decoder).  A document comes as items: one directive, *)
(* one entry up to its value or the bracket that opens it, one list        *)
(* element, or one closing bracket.  The decoder's recursion is a stack of *)
(* frames, one per open bracket and one for the root.  The message it      *)
(* builds is kept flat, by path: a path is a sequence of steps, each a     *)
(* field with the map key and the element number of the value stepped into *)
(* ("" and 0 for a singular field).                                        *)
(***************************************************************************)
EXTENDS PxfSchema

CONSTANTS
  Urls,      \* the types the resolver knows: URL -> type
  Numeral,   \* texts that parse as an integer key -> the integer as shown
  Reserve,   \* the directive names that are reserved (is_future_reserved_directive)
  Calls      \* the calls explored

ASSUME UrlsAssumption == \A url \in DOMAIN Urls : Urls[url] \in Types

Step == STRING \X STRING \X Nat
Path == Seq(Step)

\* How an item is named: as it stands in a list (none), by a token, or by @type.
Naming  == {"none", "ident", "string", "int", "bool", "type"}
Scalars == {"string", "int", "bytes", "ident"}
Heads   == {"@type", "@directive", "@dataset", "@proto"}
Closers == {"end", "endlist", "eof"}

\* An entry "a = 1" is an item named "a" with "=" and the value, "a {" has no
\* separator, an element has no name.  A directive has its name, its columns and
\* the number of cells in each of its rows; "illegal" text is a token or a body
\* that does not read.  The brackets are "block" and "end", "list" and "endlist".  A
\* bytes literal has one field more, load, the message it is the encoding
\* of (Nothing when it is none).
IsItem(it) ==
  /\ it.as \in Naming /\ it.sep \in {"", "=", ":"}
  /\ it.val \in Scalars \cup Heads \cup Closers \cup {"null", "illegal", "block", "list"}

ASSUME CallsAssumption ==
  \A c \in Calls :
    /\ c.root \in Types /\ c.depth \in Nat /\ c.repeated \in Nat
    /\ \A it \in c.items : IsItem(it)
    /\ \A k \in DOMAIN c.text : IsItem(c.text[k])

VARIABLES
  call,      \* the call: [root, discard, depth, repeated] and the items offered
  phase,     \* "start", "header", "body", "done" or "error"
  header,    \* what the directives left: [type, dataset]
  input,     \* the items read
  frames,    \* the open bodies, lists, keyed blocks, maps and skipped values
  depth,     \* Decoder::depth
  prefix,    \* Decoder::path_prefix
  msg,       \* the message: [bodies, leaves, elems]
  present,   \* Presence::present
  nulls,     \* Presence::nulls
  mask       \* the paths of the root's _null

vars == <<call, phase, header, input, frames, depth, prefix, msg, present, nulls, mask>>

-----------------------------------------------------------------------------
\* The message: the bodies by path, each with its type and the type URLs of the
\* Anys it is packed in; the scalars and literals by path; and how many elements
\* a repeated or map field has.
Nothing == [bodies |-> << >>, leaves |-> << >>, elems |-> << >>]
Empty(type) == [bodies |-> [p \in {<<>>} |-> [type |-> type, urls |-> <<>>]],
                leaves |-> <<>>, elems |-> <<>>]

At(p, name)          == Append(p, <<name, "", 0>>)
IndexAt(p, name, n)  == Append(p, <<name, "", n + 1>>)
KeyAt(p, name, key)  == Append(p, <<name, key, 1>>)

Put(fn, p, value) == [q \in DOMAIN fn \cup {p} |-> IF q = p THEN value ELSE fn[q]]

Begins(p, q) == Len(p) <= Len(q) /\ SubSeq(q, 1, Len(p)) = p

\* Whether a path leads through one of some fields of the body at p.
Through(p, names, q) == Len(q) > Len(p) /\ Begins(p, q) /\ q[Len(p) + 1][1] \in names
Cut(fn, p, names)    == [q \in {r \in DOMAIN fn : ~Through(p, names, r)} |-> fn[q]]

\* Setting a member of a oneof clears the others (set_field).
Cleared(m, p, names) ==
  [bodies |-> Cut(m.bodies, p, names), leaves |-> Cut(m.leaves, p, names),
   elems |-> Cut(m.elems, p, names)]

\* How many elements a repeated or map field has (existing_list, take_field).
Count(m, p, name) == IF At(p, name) \in DOMAIN m.elems THEN m.elems[At(p, name)] ELSE 0

Leaf(text) == [text |-> text, load |-> Nothing]
Zero(kind) == IF kind = "int" THEN "0" ELSE ""

\* A singular field without presence that is set to its zero is not there.
Unsaid(f, leaf) == f.shape = "one" /\ ~f.presence /\ leaf = Leaf(Zero(f.kind))

SetLeaf(m, p, type, f, leaf) ==
  LET c == Cleared(m, p, Siblings(type, f))
  IN  IF Unsaid(f, leaf) THEN c ELSE [c EXCEPT !.leaves = Put(@, At(p, f.name), leaf)]

SetBody(m, p, type, f) ==
  LET c == Cleared(m, p, Siblings(type, f))
  IN  [c EXCEPT !.bodies = Put(@, At(p, f.name), [type |-> f.body, urls |-> <<>>])]

\* One element more for a repeated field or a map, at a path of its own.
AddLeaf(m, p, f, q, leaf) ==
  [m EXCEPT !.elems  = Put(@, At(p, f.name), Count(m, p, f.name) + 1),
            !.leaves = Put(@, q, leaf)]
AddBody(m, p, f, q) ==
  [m EXCEPT !.elems  = Put(@, At(p, f.name), Count(m, p, f.name) + 1),
            !.bodies = Put(@, q, [type |-> f.body, urls |-> <<>>])]

-----------------------------------------------------------------------------
\* The pass after a decode (post_decode), from the body at one path: the bodies
\* it comes to, through fields the plan visits that are present and not null.
OnTheWay(m, from, q) ==
  /\ Begins(from, q)
  /\ \A k \in Len(from)..(Len(q) - 1) :
       LET above == SubSeq(q, 1, k)
       IN  /\ q[k + 1][1] \in Plan[m.bodies[above].type]
           /\ At(above, q[k + 1][1]) \in present \ nulls

Visited(m, from) == {q \in DOMAIN m.bodies : OnTheWay(m, from, q)}

\* The root's _null is not user data.
Passed(p, f) == p = <<>> /\ f.name = "_null" /\ NullMask(call.root)

Absent(p, f) == At(p, f.name) \notin present

Missing(m, from) ==
  \E p \in Visited(m, from) : \E f \in FieldsOf(m.bodies[p].type) :
    f.required /\ Absent(p, f) /\ ~Passed(p, f)

\* Another member of the field's oneof is in the document, null or not.
\* Mutant of OneofAlreadyChosen: a member chosen as null is not seen.
ChosenInMessage(p, type, f) ==
  \E n \in Siblings(type, f) : At(p, n) \in DOMAIN msg.leaves \cup DOMAIN msg.bodies
OneofAlreadyChosen(p, type, f) == \E n \in Siblings(type, f) : At(p, n) \in present

\* The fields of one body a default is applied to, and what they displace.
Defaulted(p, type) ==
  {f \in FieldsOf(type) : /\ HasDefault(f) /\ Absent(p, f) /\ ~Passed(p, f)
                          /\ ~OneofAlreadyChosen(p, type, f)}
Displaced(p, type) == UNION {Siblings(type, f) : f \in Defaulted(p, type)}

\* Of two members of a oneof with defaults, which a schema with violations may have,
\* one is kept: the last, for which any of them stands here.
Kept(p, type) ==
  {f \in Defaulted(p, type) :
     f = CHOOSE g \in Defaulted(p, type) : g.name \in Siblings(type, f) \cup {f.name}}

\* A default of a field that no literal denotes, which such a schema may have too.
Undefaultable(m, from) ==
  \E p \in Visited(m, from) : \E f \in Defaulted(p, m.bodies[p].type) : ~Defaultable(f)

\* apply_default, to every body visited.
Completed(m, from) ==
  LET now  == Visited(m, from)
      said == {s \in now \X UNION {FieldsOf(m.bodies[p].type) : p \in now} :
                 /\ s[2] \in Kept(s[1], m.bodies[s[1]].type)
                 /\ ~Unsaid(s[2], Leaf(DefaultOf(s[2])))}
      new  == {At(s[1], s[2].name) : s \in said}
      stays(q) == \A p \in now : ~Through(p, Displaced(p, m.bodies[p].type), q)
      value(q) == LET s == CHOOSE t \in said : At(t[1], t[2].name) = q
                  IN  Leaf(DefaultOf(s[2]))
  IN  [bodies |-> [q \in {r \in DOMAIN m.bodies : stays(r)} |-> m.bodies[q]],
       elems  |-> [q \in {r \in DOMAIN m.elems : stays(r)} |-> m.elems[q]],
       leaves |-> [q \in {r \in DOMAIN m.leaves : stays(r)} \cup new |->
                     IF q \in new THEN value(q) ELSE m.leaves[q]]]

-----------------------------------------------------------------------------
\* KeyedElemState, and the context of a body that is no element of a keyed field.
Element(f, name, named) ==
  [key |-> KeyField(f), oneof |-> RealOneof(FieldOf(f.body, KeyField(f))),
   name |-> name, named |-> named]
NoElement == [key |-> "none", oneof |-> "none", name |-> "", named |-> FALSE]

\* An open bracket: what reads what follows it, the body it fills, the field it
\* holds the elements of, the prefix to put back, and what is bound in it so far.
Frame ==
  [kind : {"body", "list", "keyed", "map", "skip"}, close : Closers,
   type : STRING, field : STRING, path : Path, from : Path,
   bound : SUBSET STRING, oneofs : SUBSET STRING,
   element : [key : STRING, oneof : STRING, name : STRING, named : BOOLEAN],
   fresh : BOOLEAN]

Opening(kind, close, type, field, path, element) ==
  [kind |-> kind, close |-> close, type |-> type, field |-> field, path |-> path,
   from |-> prefix, bound |-> {}, oneofs |-> {}, element |-> element, fresh |-> TRUE]

\* Mutant of Body: the prefix of the body stays where the body ends.
BodyKeepingPrefix(type, path, element) ==
  [Opening("body", "end", type, "none", path, element) EXCEPT !.from = path]
Body(type, path, element) == Opening("body", "end", type, "none", path, element)

Top   == frames[Len(frames)]
Field == FieldOf(Top.type, Top.field)
\* Mutant of Overfull: the entries of a keyed block are not counted.
OverfullList ==
  Top.kind # "keyed" /\ Count(msg, Top.path, Top.field) >= call.repeated
TooDeep == depth >= call.depth
Overfull == Count(msg, Top.path, Top.field) >= call.repeated

-----------------------------------------------------------------------------
\* A literal the field's kind, or its literal type, is read from.
Literal(f, it) ==
  \/ f.kind # "message" /\ it.val = f.kind
  \/ f.kind = "message" /\ it.val \in Schema[f.body].literals

\* The value of a field, an element or a map entry is none it can have.
ValueRefused(f, it) ==
  ~Literal(f, it) /\ (f.kind # "message" \/ it.val # "block" \/ TooDeep)

\* The value after "=" (decode_field_value).
AssignedRefused(f, it) ==
  CASE f.shape = "map"  -> it.val # "block" \/ TooDeep
    [] f.shape = "list" -> TooDeep \/ ~(it.val = "list" \/ (it.val = "block" /\ KeyField(f) # "none"))
    [] OTHER            -> ValueRefused(f, it)

\* A second binding of a singular field, or of a member of its oneof, in one body.
CheckBound(frame, f) == f.shape = "one" /\ f.name \in frame.bound
CheckOneof(frame, f) == f.oneof # "none" /\ f.oneof \in frame.oneofs

\* In the body of a named entry, what would undo the name (check_binding), and an
\* assignment of the key that is empty or another key (check_explicit_key).
CheckBinding(element, f, it) ==
  /\ element.named
  /\ IF f.name = element.key THEN it.val = "null"
     ELSE element.oneof # "none" /\ RealOneof(f) = element.oneof
CheckExplicitKey(element, f, it) ==
  /\ f.name = element.key /\ it.val = "string"
  /\ it.text = "" \/ (element.named /\ it.text # element.name)

AssignmentRefused(frame, f, it) ==
  \/ CheckBinding(frame.element, f, it) \/ CheckBound(frame, f) \/ CheckOneof(frame, f)
  \/ IF it.val = "null" THEN ~Nullable(f)
     ELSE CheckExplicitKey(frame.element, f, it) \/ AssignedRefused(f, it)

\* "name {": a keyed field, whatever is bound, or a singular message.
BlockRefused(frame, f, it) ==
  \/ it.val # "block" \/ TooDeep
  \/ /\ KeyField(f) = "none"
     /\ \/ f.shape # "one" \/ f.kind # "message"
        \/ CheckBinding(frame.element, f, it) \/ CheckBound(frame, f) \/ CheckOneof(frame, f)

\* What the parser refuses as a value (read_value): it knows no fields.
ReadRefused(it) ==
  \/ it.val \notin Scalars \cup {"null", "list", "block"}
  \/ it.val \in {"list", "block"} /\ TooDeep

\* The type entry of an Any, which only opens a block bound to one.
TypeRefused(frame, it) ==
  \/ Schema[frame.type].role # "any" \/ frame.close # "end" \/ ~frame.fresh
  \/ it.sep # "=" \/ it.val # "string" \/ it.text \notin DOMAIN Urls

\* A name no field has is dropped or refused (decode_fields_inner), whatever
\* token it is.
UnknownRefused(it) == ~call.discard \/ ReadRefused(it) \/ (it.sep = "" /\ it.val # "block")

\* The root is checked at the end of the document, a body inside an Any when it
\* is packed (post_decode); any other body with the one it is in.
\* Mutant of PassedAtClose: only the root takes the pass.
PassedAtEof(frame) == frame.close = "eof"
PassedAtClose(frame) == frame.close = "eof" \/ msg.bodies[frame.path].urls # <<>>
CloseRefused(frame)  ==
  PassedAtClose(frame) /\ (Missing(msg, frame.path) \/ Undefaultable(msg, frame.path))

BodyRefuses(frame, it) ==
  \/ it.as = "none" /\ (it.val # frame.close \/ CloseRefused(frame))
  \/ it.as = "type" /\ TypeRefused(frame, it)
  \/ it.as \in {"string", "bool"} \/ it.sep = ":"
  \/ /\ it.as \in {"ident", "int"}
     /\ IF Knows(frame.type, it.name)
        THEN LET f == FieldOf(frame.type, it.name)
             IN  IF it.sep = "=" THEN AssignmentRefused(frame, f, it)
                 ELSE BlockRefused(frame, f, it)
        ELSE UnknownRefused(it)

ListRefuses(f, it) ==
  it.val # "endlist" /\ (it.as # "none" \/ Overfull \/ ValueRefused(f, it))

\* Mutant of KeyedRefuses: it leaves an entry that has no block where it is.
KeyedOverlooks(frame, it) ==
  it.val # "end" /\
    \/ it.as \notin {"ident", "string"} \/ it.name = "" \/ it.name \in frame.bound
    \/ it.sep = ":" \/ Overfull \/ TooDeep
KeyedRefuses(frame, it) ==
  it.val # "end" /\
    \/ it.as \notin {"ident", "string"} \/ it.name = "" \/ it.name \in frame.bound
    \/ it.sep = ":" \/ it.val # "block" \/ Overfull \/ TooDeep

\* decode_map_key: the key a token stands for, and the tokens that are none.
MapKey(f, it) ==
  CASE f.keys = "string" -> it.name
    [] f.keys = "int"    -> Numeral[it.name]
    [] OTHER             -> IF it.name \in {"true", "1"} THEN "true" ELSE "false"
MapKeyRefused(f, it) ==
  CASE f.keys = "string" -> it.as \notin {"ident", "string", "int"}
    [] f.keys = "int"    -> it.as = "bool" \/ it.name \notin DOMAIN Numeral
    [] OTHER             -> it.name \notin (IF it.as = "int" THEN {"0", "1"}
                                           ELSE IF it.as = "ident" THEN {} ELSE {"true", "false"})
\* Mutant of KeyTaken: it looks for bodies only.
KeyTakenByBody(frame, f, key) == KeyAt(frame.path, f.name, key) \in DOMAIN msg.bodies
KeyTaken(frame, f, key) ==
  KeyAt(frame.path, f.name, key) \in DOMAIN msg.leaves \cup DOMAIN msg.bodies

MapRefuses(frame, f, it) ==
  it.val # "end" /\
    \/ it.as \in {"none", "type"} \/ it.sep # ":" \/ Overfull
    \/ MapKeyRefused(f, it) \/ KeyTaken(frame, f, MapKey(f, it)) \/ ValueRefused(f, it)

\* The parser, over a value that is dropped: parse_list, parse_body, parse_entry.
SkipRefuses(frame, it) ==
  IF it.as = "none" THEN it.val # frame.close /\ (frame.close = "end" \/ ReadRefused(it))
  ELSE \/ frame.close = "endlist"
       \/ IF it.as = "type" THEN ~frame.fresh \/ it.sep # "=" \/ it.val # "string"
          ELSE \/ ReadRefused(it)
               \/ it.sep # ":" /\ it.as \notin {"ident", "string"}
               \/ it.sep = "" /\ it.val # "block"

\* Directives stand before the body; @type and @dataset exclude each other, and
\* an entry excludes @dataset (consume_directives).
HeadRefused(it) ==
  \/ phase = "body" \/ it.text = "illegal"
  \/ CASE it.val = "@type"      -> header.dataset \/ it.name = ""
       [] it.val = "@directive" -> it.name \in Reserve
       [] it.val = "@dataset"   -> \/ header.type \/ it.columns = <<>>
                                   \/ \E k \in DOMAIN it.rows : it.rows[k] # Len(it.columns)
       [] OTHER -> FALSE

Refuses(it) ==
  IF it.val \in Heads THEN HeadRefused(it)
  ELSE \/ header.dataset /\ it.val # "eof"
       \/ CASE Top.kind = "body"  -> BodyRefuses(Top, it)
            [] Top.kind = "list"  -> ListRefuses(Field, it)
            [] Top.kind = "keyed" -> KeyedRefuses(Top, it)
            [] Top.kind = "map"   -> MapRefuses(Top, Field, it)
            [] OTHER -> SkipRefuses(Top, it)

-----------------------------------------------------------------------------
EofItem == [as |-> "none", name |-> "", sep |-> "", val |-> "eof", text |-> "",
            load |-> Nothing, columns |-> <<>>, rows |-> <<>>]

\* What the document goes on with: the next item of a given text, or any of the
\* items offered until the document is of the bounded length.
Readable ==
  IF call.text # <<>> THEN {call.text[k] : k \in {Len(input) + 1} \cap DOMAIN call.text}
  ELSE {EofItem} \cup (IF Len(input) < call.length THEN call.items ELSE {})

Root == [kind |-> "body", close |-> "eof", type |-> call.root, field |-> "none",
         path |-> <<>>, from |-> <<>>, bound |-> {}, oneofs |-> {},
         element |-> NoElement, fresh |-> TRUE]

Init ==
  /\ call \in Calls
  /\ phase = "start" /\ header = [type |-> FALSE, dataset |-> FALSE]
  /\ input = <<>> /\ frames = <<Root>> /\ depth = 0 /\ prefix = <<>>
  /\ msg = Empty(call.root)
  /\ present = {} /\ nulls = {} /\ mask = {}

\* unmarshal_inner: the schema is checked before the text is read.
Start ==
  /\ phase = "start"
  /\ phase' = IF Valid[call.root] THEN "header" ELSE "error"
  /\ UNCHANGED <<call, header, input, frames, depth, prefix, msg, present, nulls, mask>>

Reading == phase \in {"header", "body"}

\* The call is over at the first error.
Refuse ==
  /\ phase' = "error"
  /\ UNCHANGED <<call, header, input, frames, depth, prefix, msg, present, nulls, mask>>

Directive(it) ==
  /\ it.val \in Heads
  /\ input' = Append(input, it)
  /\ header' = [type |-> header.type \/ it.val = "@type",
                dataset |-> header.dataset \/ it.val = "@dataset"]
  /\ UNCHANGED <<call, phase, frames, depth, prefix, msg, present, nulls, mask>>

Read(it) ==
  /\ it.val \notin Heads
  /\ phase' = "body" /\ input' = Append(input, it)
  /\ UNCHANGED <<call, header, mask>>

\* The frame a bracket closes goes, or stays with what an item has bound in it.
Becomes(frame) == [frames EXCEPT ![Len(frames)] = frame]

Bound(frame, f) ==
  [frame EXCEPT !.fresh = FALSE,
     !.bound  = IF f.shape = "one" THEN @ \cup {f.name} ELSE @,
     !.oneofs = IF f.oneof # "none" THEN @ \cup {f.oneof} ELSE @]

\* What a bracket opens: a frame over the one it stands in, one level deeper, with
\* the prefix of the body it opens.
\* Mutant of Opens: the body of a map value is read under the prefix of the map.
OpensUnkeyed(under, frame, at) ==
  /\ frames' = Append(Becomes(under), frame)
  /\ depth' = depth + 1
  /\ prefix' = IF Top.kind = "map" THEN prefix ELSE at
Opens(under, frame, at) ==
  /\ frames' = Append(Becomes(under), frame)
  /\ depth' = depth + 1
  /\ prefix' = at

Stays(under) == frames' = Becomes(under) /\ UNCHANGED <<depth, prefix>>

\* Mutant of MarkPresent: a field that tells its presence itself is not recorded.
MarkUntracked(f) ==
  present' = IF f.presence THEN present ELSE present \cup {At(prefix, f.name)}
MarkPresent(f) == present' = present \cup {At(prefix, f.name)}

InBody(it) == Read(it) /\ Top.kind = "body" /\ it.as \in {"ident", "int"}

\* "name = null" (mark_null).
Null(it) ==
  /\ InBody(it) /\ Knows(Top.type, it.name) /\ it.val = "null"
  /\ LET f == FieldOf(Top.type, it.name)
     IN  /\ MarkPresent(f)
         /\ nulls' = nulls \cup {At(prefix, f.name)}
         /\ Stays(Bound(Top, f))
  /\ UNCHANGED msg

\* "name = literal" (consume_scalar, consume_enum, try_decode_wkt).
Scalar(it) ==
  /\ InBody(it) /\ Knows(Top.type, it.name) /\ it.val \in Scalars
  /\ LET f == FieldOf(Top.type, it.name)
     IN  /\ MarkPresent(f)
         /\ msg' = SetLeaf(msg, Top.path, Top.type, f, [text |-> it.text, load |-> it.load])
         /\ Stays(Bound(Top, f))
  /\ UNCHANGED nulls

\* "name {" or "name = {" of a singular message (decode_fields).
Message(it) ==
  /\ InBody(it) /\ Knows(Top.type, it.name) /\ it.val = "block"
  /\ LET f == FieldOf(Top.type, it.name)
         q == At(Top.path, f.name)
     IN  /\ f.shape = "one"
         /\ MarkPresent(f)
         /\ msg' = SetBody(msg, Top.path, Top.type, f)
         /\ Opens(Bound(Top, f), Body(f.body, q, NoElement), At(prefix, f.name))
  /\ UNCHANGED nulls

\* "name = [", the keyed block and "name = {" of a map.  The block form of a keyed
\* field leaves no trace in what the body has bound, nor has it to.
Collection(it) ==
  /\ InBody(it) /\ Knows(Top.type, it.name) /\ it.val \in {"list", "block"}
  /\ LET f == FieldOf(Top.type, it.name)
         kind == IF f.shape = "map" THEN "map" ELSE IF it.val = "list" THEN "list" ELSE "keyed"
     IN  /\ f.shape # "one"
         /\ MarkPresent(f)
         /\ Opens(Bound(Top, f),
                  Opening(kind, IF kind = "list" THEN "endlist" ELSE "end", Top.type, f.name,
                          Top.path, NoElement),
                  prefix)
  /\ UNCHANGED <<msg, nulls>>

\* A name no field has, and the value the parser reads for it (skip_value).
Unknown(it) ==
  /\ InBody(it) /\ ~Knows(Top.type, it.name)
  /\ LET under == [Top EXCEPT !.fresh = FALSE]
     IN  IF it.val \in {"list", "block"}
         THEN Opens(under, Opening("skip", IF it.val = "list" THEN "endlist" ELSE "end", "none", "none",
                                   <<>>, NoElement), prefix)
         ELSE Stays(under)
  /\ UNCHANGED <<msg, present, nulls>>

Skipped(it) ==
  /\ Read(it) /\ Top.kind = "skip" /\ it.val # Top.close
  /\ LET under == [Top EXCEPT !.fresh = FALSE]
     IN  IF it.val \in {"list", "block"}
         THEN Opens(under, Opening("skip", IF it.val = "list" THEN "endlist" ELSE "end", "none", "none",
                                   <<>>, NoElement), prefix)
         ELSE Stays(under)
  /\ UNCHANGED <<msg, present, nulls>>

\* Mutant of Shared: the body inside an Any is read one level deeper.
SharedNot(d) == d

\* The depth at which a body inside an Any is read: it shares the Any's braces.
Shared(d) == d - 1

\* "@type = url": the rest of the block is a body of the type named, and what was
\* left for the Any's own body to check is there for this one (decode_any_body).
TypeEntry(it) ==
  /\ Read(it) /\ Top.kind = "body" /\ it.as = "type"
  /\ frames' = Becomes([Top EXCEPT !.type = Urls[it.text]])
  /\ depth' = Shared(depth) + 1
  /\ msg' = [msg EXCEPT !.bodies[Top.path] = [type |-> Urls[it.text], urls |-> Append(@.urls, it.text)],
                        !.leaves = Cut(@, Top.path, {"type_url"})]
  /\ UNCHANGED <<prefix, present, nulls>>

\* An element of a list: a literal, or a body under the element's index.
ListItem(it) ==
  /\ Read(it) /\ Top.kind = "list" /\ it.val # "endlist"
  /\ LET n == Count(msg, Top.path, Field.name)
         q == IndexAt(Top.path, Field.name, n)
         element == IF KeyField(Field) # "none" THEN Element(Field, "", FALSE) ELSE NoElement
     IN  IF it.val = "block"
         THEN /\ msg' = AddBody(msg, Top.path, Field, q)
              /\ Opens(Top, Body(Field.body, q, element), IndexAt(prefix, Field.name, n))
         ELSE /\ msg' = AddLeaf(msg, Top.path, Field, q, [text |-> it.text, load |-> it.load])
              /\ Stays(Top)
  /\ UNCHANGED <<present, nulls>>

\* A named entry: an element whose key field is the name, and present.
KeyedEntry(it) ==
  /\ Read(it) /\ Top.kind = "keyed" /\ it.val = "block"
  /\ LET n == Count(msg, Top.path, Field.name)
         q == IndexAt(Top.path, Field.name, n)
         at == IndexAt(prefix, Field.name, n)
         key == FieldOf(Field.body, KeyField(Field))
     IN  /\ msg' = SetLeaf(AddBody(msg, Top.path, Field, q), q, Field.body, key, Leaf(it.name))
         /\ present' = present \cup {At(at, key.name)}
         /\ Opens([Top EXCEPT !.bound = @ \cup {it.name}],
                  Body(Field.body, q, Element(Field, it.name, TRUE)), at)
  /\ UNCHANGED nulls

\* An entry of a map: a literal, or a body under the key.
MapEntry(it) ==
  /\ Read(it) /\ Top.kind = "map" /\ it.val # "end"
  /\ LET key == MapKey(Field, it)
         q == KeyAt(Top.path, Field.name, key)
     IN  IF it.val = "block"
         THEN /\ msg' = AddBody(msg, Top.path, Field, q)
              /\ Opens(Top, Body(Field.body, q, NoElement), KeyAt(prefix, Field.name, key))
         ELSE /\ msg' = AddLeaf(msg, Top.path, Field, q, [text |-> it.text, load |-> it.load])
              /\ Stays(Top)
  /\ UNCHANGED <<present, nulls>>

\* A closing bracket.  A body inside an Any takes the pass before it is packed.
Close(it) ==
  /\ Read(it) /\ it.val = Top.close /\ it.val # "eof"
  /\ frames' = SubSeq(frames, 1, Len(frames) - 1)
  /\ depth' = depth - 1
  /\ prefix' = Top.from
  /\ msg' = IF Top.kind = "body" /\ PassedAtClose(Top) THEN Completed(msg, Top.path) ELSE msg
  /\ UNCHANGED <<present, nulls>>

\* A FieldMask path names fields, not elements.
Masked(p) == \A k \in DOMAIN p : p[k][3] = 0

\* The end of the document: the pass over the root, and the root's _null.
Finish(it) ==
  /\ it.val = "eof"
  /\ phase' = "done" /\ input' = Append(input, it)
  /\ msg' = Completed(msg, <<>>)
  /\ mask' = IF NullMask(call.root) THEN {p \in nulls : Masked(p)} ELSE {}
  /\ UNCHANGED <<call, header, frames, depth, prefix, present, nulls>>

\* What the decoder does with an item: it is refused, or does one of the following.
Take(it) ==
  IF Refuses(it) THEN Refuse
  ELSE \/ Directive(it) \/ Null(it) \/ Scalar(it) \/ Message(it) \/ Collection(it)
       \/ Unknown(it) \/ Skipped(it) \/ TypeEntry(it) \/ ListItem(it) \/ KeyedEntry(it)
       \/ MapEntry(it) \/ Close(it) \/ Finish(it)

Next == Start \/ (Reading /\ \E it \in Readable : Take(it))
Spec == Init /\ [][Next]_vars

-----------------------------------------------------------------------------
Sound(frame) ==
  /\ frame.kind \in {"body", "list", "keyed", "map", "skip"} /\ frame.close \in Closers
  /\ frame.kind = "body" => frame.type \in Types /\ frame.path \in DOMAIN msg.bodies
  /\ frame.kind \in {"list", "keyed", "map"} =>
       /\ frame.type \in Types /\ Knows(frame.type, frame.field)
       /\ frame.path \in DOMAIN msg.bodies

\* The types of the variables: the frames stand on bodies of the message and on
\* fields of their types, and what is recorded of presence are paths.
TypeOK ==
  /\ phase \in {"start", "header", "body", "done", "error"}
  /\ header \in [type : BOOLEAN, dataset : BOOLEAN]
  /\ depth \in Nat
  /\ \A k \in DOMAIN frames : Sound(frames[k])
  /\ \A p \in DOMAIN msg.bodies : msg.bodies[p].type \in Types
  /\ mask \subseteq nulls /\ nulls \subseteq present

\* The depth the limit is put to is the number of brackets open in the text, also
\* where a body shares the braces of the Any it is packed in (decode_any_body).
Opened(items) == {k \in DOMAIN items : items[k].val \in {"block", "list"}}
Shut(items)   == {k \in DOMAIN items : items[k].val \in {"end", "endlist"}}
DepthIsOpenBrackets ==
  /\ depth = Cardinality(Opened(input)) - Cardinality(Shut(input))
  /\ depth <= call.depth

\* No repeated field and no map has more elements than one may have, however many
\* bindings they came in (existing_list, take_field).
CountsBounded == \A p \in DOMAIN msg.elems : msg.elems[p] \in 1..call.repeated

\* What is recorded of presence is recorded of the body being read: the prefix is
\* the path of the innermost body, so no mark made in an element or in a nested
\* body stands for a field of its parent (enter_index, enter_key, and the prefix
\* put back where a body ends); and every path recorded leads to a field of a body
\* the message has, of its type or of the Any the body is packed in.
Innermost ==
  CHOOSE k \in DOMAIN frames :
    frames[k].kind # "skip" /\ \A j \in DOMAIN frames : j > k => frames[j].kind = "skip"
HasField(body, name) == Knows(body.type, name) \/ (body.urls # <<>> /\ name = "type_url")
Lands(q) ==
  /\ q # <<>> /\ q[Len(q)][3] = 0
  /\ LET p == SubSeq(q, 1, Len(q) - 1)
     IN  p \in DOMAIN msg.bodies /\ HasField(msg.bodies[p], q[Len(q)][1])
MarksLand ==
  /\ prefix = frames[Innermost].path
  /\ \A q \in present : Lands(q)

\* Every body of an accepted document, at any depth, in an element, a map value or
\* an Any, has what its type requires, but for the root's _null (post_decode).
RequiredEverywhere ==
  phase = "done" =>
    \A p \in DOMAIN msg.bodies : \A f \in FieldsOf(msg.bodies[p].type) :
      f.required => At(p, f.name) \in present \/ Passed(p, f)

\* A null leaves nothing in the message, and of every real oneof at most one member
\* is there, whatever the text and the defaults say.
Has(p, name) == At(p, name) \in DOMAIN msg.leaves \cup DOMAIN msg.bodies
OneofsExclusive ==
  /\ \A q \in nulls : q \notin DOMAIN msg.leaves \cup DOMAIN msg.bodies
  /\ \A p \in DOMAIN msg.bodies :
       LET type == msg.bodies[p].type
       IN  \A f \in FieldsOf(type) : Has(p, f.name) => \A n \in Siblings(type, f) : ~Has(p, n)

\* In an accepted document a field with a default the text does not say has it,
\* unless the text says another member of its oneof; one it says, null or not, has
\* not.  (Of two members of a oneof with defaults, one at most has its own.)
DefaultHeld(p, type, f) ==
  IF (\E n \in Siblings(type, f) : At(p, n) \in present) \/ Unsaid(f, Leaf(DefaultOf(f)))
  THEN ~Has(p, f.name)
  ELSE Has(p, f.name) /\ msg.leaves[At(p, f.name)].text = DefaultOf(f)
DefaultsHeld ==
  phase = "done" =>
    \A p \in DOMAIN msg.bodies :
      LET type == msg.bodies[p].type
      IN  \A f \in FieldsOf(type) :
            (/\ HasDefault(f) /\ ~OneofOverfull(type, f)
             /\ At(p, f.name) \notin present /\ ~Passed(p, f)) => DefaultHeld(p, type, f)

\* Defaults stand where the text leaves room for them, and nowhere else
\* (post_decode, oneof_already_chosen, set_field).
DefaultsEverywhere == OneofsExclusive /\ DefaultsHeld
=============
