----------------------------- MODULE PxfDocument -----------------------------
(***************************************************************************)
(* A PXF document read, written again and read back (protowire-pxf).  The  *)
(* document the decoder has accepted is written by the encoder (encode.rs: *)
(* marshal, from the message and the nulls) or by the formatter (keyed.rs: *)
(* canonicalize_keyed, format.rs: format, from the parsed text), and the   *)
(* decoder reads what was written, under the same options.                 *)
(***************************************************************************)
EXTENDS PxfDecoder, SequencesExt

CONSTANT Bare    \* the names that are identifiers (ident_safe_entry_name)

VARIABLES
  route,   \* "given", then "marshal" or "format"
  first    \* what the given document was read as: [msg, present, nulls]

docVars == <<call, phase, header, input, frames, depth, prefix, msg, present, nulls, mask,
             route, first>>

-----------------------------------------------------------------------------
\* The parsed text (ast.rs): the items with what their brackets hold.
RECURSIVE Tree(_, _)
Tree(items, k) ==
  IF k > Len(items) \/ items[k].val \in Closers THEN [nodes |-> <<>>, next |-> k]
  ELSE LET it    == items[k]
           inner == IF it.val \in {"list", "block"} THEN Tree(items, k + 1)
                    ELSE [nodes |-> <<>>, next |-> k]
           after == Tree(items, inner.next + 1)
           node  == [as |-> it.as, name |-> it.name, sep |-> it.sep, val |-> it.val,
                     text |-> it.text, load |-> it.load, nodes |-> inner.nodes]
       IN  [nodes |-> <<node>> \o after.nodes, next |-> after.next]

Entries(items) == Tree(SelectSeq(items, LAMBDA it : it.val \notin Heads), 1).nodes

\* What the parser accepts (parse_entry, parse_value, parse_list, parse_body,
\* parse_type_entry), but for the depth.
RECURSIVE ParsesBody(_, _), ParsesList(_)
ParsesValue(n) ==
  CASE n.val = "list" -> ParsesList(n.nodes)
    [] n.val = "block" -> ParsesBody(n.nodes, TRUE)
    [] OTHER -> n.val \in Scalars \cup {"null"}
ParsesList(nodes) == \A k \in DOMAIN nodes : nodes[k].as = "none" /\ ParsesValue(nodes[k])
ParsesBody(nodes, inBlock) ==
  \A k \in DOMAIN nodes :
    LET n == nodes[k]
    IN  IF n.as = "type" THEN inBlock /\ k = 1 /\ n.sep = "=" /\ n.val = "string"
        ELSE /\ n.as # "none" /\ ParsesValue(n)
             /\ IF n.sep = ":" THEN inBlock ELSE n.as \in {"ident", "string"}
             /\ n.sep = "" => n.val = "block"
Parses(items) == ParsesBody(Entries(items), FALSE)

-----------------------------------------------------------------------------
\* What a document says, read off its text alone: the fields set and the nulls,
\* the bodies and the values, each at its path.  The elements of a repeated field
\* bound more than once are numbered through.
Said(what, p, value) == {<<what, p, value>>}

Earlier(nodes, k, name) ==
  FoldSeq(+, 0, [j \in 1..(k - 1) |-> IF nodes[j].name = name THEN Len(nodes[j].nodes) ELSE 0])

RECURSIVE SaysBody(_, _, _), SaysEntry(_, _, _, _)
Says(n, f, q) ==
  CASE n.val = "block" -> SaysBody(n.nodes, f.body, q)
    [] Unsaid(f, [text |-> n.text, load |-> n.load]) -> {}
    [] OTHER -> Said("leaf", q, n.text)

\* The name of an entry is its key, but for an Any, whose type URL it has.
SaysName(n, f, q) ==
  IF n.nodes # <<>> /\ n.nodes[1].as = "type" THEN {} ELSE Said("leaf", At(q, f.key), n.name)

SaysElement(n, f, q) ==
  IF n.as = "none" THEN Says(n, f, q)
  ELSE Says(n, f, q) \cup SaysName(n, f, q) \cup Said("present", At(q, f.key), "")

SaysEntry(nodes, k, type, p) ==
  LET n == nodes[k]
      f == FieldOf(type, n.name)
      q == At(p, n.name)
  IN  Said("present", q, "") \cup
      CASE n.val = "null" -> Said("null", q, "")
        [] f.shape = "list" ->
             UNION {SaysElement(n.nodes[j], f, IndexAt(p, f.name, Earlier(nodes, k, f.name) + j - 1)) :
                      j \in DOMAIN n.nodes}
        [] f.shape = "map" ->
             UNION {Says(n.nodes[j], f, KeyAt(p, f.name, MapKey(f, n.nodes[j]))) :
                      j \in DOMAIN n.nodes}
        [] OTHER -> Says(n, f, q)

SaysBody(nodes, type, p) ==
  IF nodes # <<>> /\ nodes[1].as = "type" THEN SaysBody(Tail(nodes), Urls[nodes[1].text], p)
  ELSE Said("body", p, type) \cup
       UNION {SaysEntry(nodes, k, type, p) : k \in {j \in DOMAIN nodes : Knows(type, nodes[j].name)}}

Document == SaysBody(Entries(input), call.root, <<>>)
SaidAt(document, what) == {s[2] : s \in {t \in document : t[1] = what}}

-----------------------------------------------------------------------------
\* The encoder.  An item for each thing it writes, TooDeepItem for a block it does
\* not (Fault::TooDeep).
It(as, name, sep, val) ==
  [EofItem EXCEPT !.as = as, !.name = name, !.sep = sep, !.val = val]
Named(name, sep, val) == It("ident", name, sep, val)
TooDeepItem == It("none", "", "", "illegal")
Brace   == It("none", "", "", "end")
Bracket == It("none", "", "", "endlist")

With(it, leaf) == [it EXCEPT !.text = leaf.text, !.load = leaf.load]
Kind(f) == IF f.kind = "message" THEN CHOOSE k \in Schema[f.body].literals : TRUE ELSE f.kind

\* A name or a map key as written: bare when it can be.
\* Mutant of Spelled: every name is written bare.
SpelledBare(name) == "ident"
Spelled(name) == IF name \in Bare THEN "ident" ELSE "string"
KeySpelled(f, key) ==
  CASE f.keys = "string" -> Spelled(key) [] f.keys = "int" -> "int" [] OTHER -> "bool"

\* The value under a path as a message of its own, and its bytes.
Under(fn, p) ==
  [q \in {SubSeq(r, Len(p) + 1, Len(r)) : r \in {s \in DOMAIN fn : Begins(p, s)}} |-> fn[p \o q]]
Sub(m, p) == [bodies |-> Under(m.bodies, p), leaves |-> Under(m.leaves, p),
              elems |-> Under(m.elems, p)]
Bytes(m) == [text |-> ToString(m), load |-> m]

\* The type of a body as the message that holds it has it.
Outer(body) ==
  IF body.urls = <<>> THEN body.type ELSE CHOOSE t \in Types : Schema[t].role = "any"

\* An Any whose bytes are a message of the type its URL names.
Url(m, p)   == IF At(p, "type_url") \in DOMAIN m.leaves THEN m.leaves[At(p, "type_url")].text ELSE ""
Value(m, p) == IF At(p, "value") \in DOMAIN m.leaves THEN m.leaves[At(p, "value")] ELSE Leaf("")
Packs(m, p) ==
  /\ Schema[m.bodies[p].type].role = "any"
  /\ Url(m, p) \in DOMAIN Urls
  /\ \/ Value(m, p) = Leaf("")
     \/ /\ Value(m, p).load # Nothing
        /\ Outer(Value(m, p).load.bodies[<<>>]) = Urls[Url(m, p)]

\* A message with every such Any opened, so that one written as its bytes and one
\* written as a body are the same.
Graft(fn, p, inner) ==
  [q \in DOMAIN fn \cup {p \o r : r \in DOMAIN inner} |->
     IF Begins(p, q) /\ SubSeq(q, Len(p) + 1, Len(q)) \in DOMAIN inner
     THEN inner[SubSeq(q, Len(p) + 1, Len(q))] ELSE fn[q]]
OpenAny(m, p) ==
  LET type  == Urls[Url(m, p)]
      inner == IF Value(m, p).load = Nothing THEN Empty(type) ELSE Value(m, p).load
      root  == [inner.bodies[<<>>] EXCEPT !.urls = m.bodies[p].urls \o <<Url(m, p)>> \o @]
      rest  == Cleared(m, p, {"type_url", "value"})
  IN  [bodies |-> Graft(rest.bodies, p, [inner.bodies EXCEPT ![<<>>] = root]),
       leaves |-> Graft(rest.leaves, p, inner.leaves),
       elems  |-> Graft(rest.elems, p, inner.elems)]
RECURSIVE Same(_)
Same(m) ==
  LET any == {p \in DOMAIN m.bodies : Packs(m, p)}
  IN  IF any = {} THEN m ELSE Same(OpenAny(m, CHOOSE p \in any : TRUE))

\* The message with one URL of an Any taken off the body it is wrapped around.
Unwrapped(m, p) == [m EXCEPT !.bodies[p].urls = Tail(@)]

\* The bodies the pass over the body at p comes to: none inside an Any.
Reached(m, p) ==
  {q \in DOMAIN m.bodies : Begins(p, q) /\
     \A k \in Len(p)..Len(q) :
       SubSeq(q, 1, k) \in DOMAIN m.bodies => m.bodies[SubSeq(q, 1, k)].urls = <<>>}

\* Whether a field of the body at q is written, its null included.
Writes(m, gone, q, name) ==
  At(q, name) \in gone \cup DOMAIN m.bodies \cup DOMAIN m.leaves \cup DOMAIN m.elems

\* Whether what is written of a body leaves the pass over it nothing to fill in
\* and nothing to miss, and its type is one that may be bound
\* (any_body_reads_back).
\* Mutant of ReadsBack: only what is required is looked for.
ReadsBackRequired(m, gone, p) ==
  \A q \in Reached(m, p) : \A f \in FieldsOf(m.bodies[q].type) :
    f.required => Writes(m, gone, q, f.name)
ReadsBack(m, gone, p) ==
  /\ Valid[Outer(m.bodies[p])]
  /\ \A q \in Reached(m, p) : \A f \in FieldsOf(m.bodies[q].type) :
       (f.required \/ HasDefault(f)) /\ ~Writes(m, gone, q, f.name) =>
         /\ ~f.required
         /\ \/ Unsaid(f, Leaf(DefaultOf(f)))
            \/ \E n \in Siblings(m.bodies[q].type, f) : Writes(m, gone, q, n)

\* The key of an element as its field holds it.
KeyOf(m, q, f) ==
  CASE m.bodies[q].urls # <<>> -> m.bodies[q].urls[1]
    [] At(q, f.key) \in DOMAIN m.leaves -> m.leaves[At(q, f.key)].text
    [] OTHER -> ""

\* keyed_form_eligible.
Eligible(m, p, f) ==
  LET n == Count(m, p, f.name)
      key(j) == KeyOf(m, IndexAt(p, f.name, j), f)
  IN  \A i, j \in 0..(n - 1) : key(i) # "" /\ (key(i) = key(j) => i = j)

\* A block or a list whose contents stand at a level, if that is not too deep
\* (check_depth).
Written(level, open, items, close) ==
  IF level > call.depth THEN <<TooDeepItem>> ELSE <<open>> \o items \o <<close>>

InSomeOrder(S) == FoldSet(LAMBDA x, seq : Append(seq, x), <<>>, S)

\* The keys of a map.
Keys(m, p, f) ==
  InSomeOrder({q[Len(q)][2] : q \in {r \in DOMAIN m.bodies \cup DOMAIN m.leaves :
                                     /\ Len(r) = Len(p) + 1 /\ Begins(p, r)
                                     /\ r[Len(r)][1] = f.name /\ r[Len(r)][3] = 1}})

RECURSIVE WriteBody(_, _, _, _, _)

\* An element or a map entry, whose own block stands at a level.
WriteElement(m, gone, q, f, level, open, skip) ==
  IF q \in DOMAIN m.leaves THEN <<With([open EXCEPT !.val = Kind(f)], m.leaves[q])>>
  ELSE <<open>> \o WriteBody(m, gone, q, level + 1, skip) \o <<Brace>>

\* encode_list_field, encode_keyed_list and encode_map_field.
WriteList(m, gone, p, f, level) ==
  LET n == Count(m, p, f.name)
      open(j) == LET key == KeyOf(m, IndexAt(p, f.name, j - 1), f)
                 IN  It(Spelled(key), key, "", "block")
  IN  IF KeyField(f) # "none" /\ Eligible(m, p, f)
      THEN Written(level + 1, Named(f.name, "", "block"),
             FlattenSeq([j \in 1..n |-> WriteElement(m, gone, IndexAt(p, f.name, j - 1), f,
                                                     level + 1, open(j), f.key)]), Brace)
      ELSE Written(level + 1, Named(f.name, "=", "list"),
             FlattenSeq([j \in 1..n |-> WriteElement(m, gone, IndexAt(p, f.name, j - 1), f,
                                          level + 1, It("none", "", "", "block"), "none")]), Bracket)
WriteMap(m, gone, p, f, level) ==
  LET keys == Keys(m, p, f)
  IN  Written(level + 1, Named(f.name, "=", "block"),
        FlattenSeq([j \in DOMAIN keys |->
          WriteElement(m, gone, KeyAt(p, f.name, keys[j]), f, level + 1,
                       It(KeySpelled(f, keys[j]), keys[j], ":", "block"), "none")]), Brace)

\* An Any with a type entry, when its body fits and reads back (try_encode_any).
AnyBody(m, gone, q, level) == WriteBody(Unwrapped(m, q), gone, q, level + 1, "none")
Sugared(m, gone, q, level) ==
  /\ m.bodies[q].urls # <<>> /\ level < call.depth
  /\ ~Contains(AnyBody(m, gone, q, level), TooDeepItem)
  /\ ReadsBack(Unwrapped(m, q), gone, q)
TypeItem(url) == [It("type", "", "=", "string") EXCEPT !.text = url]

\* encode_message_field.
WriteMessage(m, gone, q, f, level) ==
  <<Named(f.name, "", "block")>> \o
  (IF Sugared(m, gone, q, level)
   THEN <<TypeItem(m.bodies[q].urls[1])>> \o AnyBody(m, gone, q, level)
   ELSE WriteBody(m, gone, q, level + 1, "none")) \o <<Brace>>

WriteField(m, gone, p, f, level) ==
  LET q == At(p, f.name)
  IN  CASE q \in gone -> <<Named(f.name, "=", "null")>>
        [] Count(m, p, f.name) > 0 /\ f.shape = "list" -> WriteList(m, gone, p, f, level)
        [] Count(m, p, f.name) > 0 /\ f.shape = "map"  -> WriteMap(m, gone, p, f, level)
        [] f.shape = "one" /\ q \in DOMAIN m.leaves ->
             <<With(Named(f.name, "=", Kind(f)), m.leaves[q])>>
        [] f.shape = "one" /\ q \in DOMAIN m.bodies -> WriteMessage(m, gone, q, f, level)
        [] OTHER -> <<>>

\* An Any as its own fields, type_url and value.
WriteWrapped(m, p, skip) ==
  LET inner == Sub(Unwrapped(m, p), p)
      url   == With(Named("type_url", "=", "string"), Leaf(m.bodies[p].urls[1]))
      value == With(Named("value", "=", "bytes"), Bytes(inner))
  IN  (IF skip = "type_url" THEN <<>> ELSE <<url>>) \o
      (IF inner = Empty(inner.bodies[<<>>].type) THEN <<>> ELSE <<value>>)

\* encode_message: the fields but for the root's _null and the key a name says.
WriteBody(m, gone, p, level, skip) ==
  LET fields == InSomeOrder({f \in FieldsOf(m.bodies[p].type) : f.name # skip /\ ~Passed(p, f)})
  IN  CASE level > call.depth -> <<TooDeepItem>>
        [] m.bodies[p].urls # <<>> -> WriteWrapped(m, p, skip)
        [] OTHER -> FlattenSeq([k \in DOMAIN fields |-> WriteField(m, gone, p, fields[k], level)])

\* prime_null_set: the root's mask if it has one, or else every null.
NullSet == IF mask # {} THEN mask ELSE nulls

Marshal == WriteBody(Same(msg), NullSet, <<>>, 0, "none") \o <<EofItem>>

-----------------------------------------------------------------------------
\* The formatter: the parsed text in the canonical form of keyed fields.
DropKey(nodes, key, name) ==
  SelectSeq(nodes, LAMBDA n : ~(/\ n.as = "ident" /\ n.sep = "=" /\ n.name = key
                               /\ n.val = "string" /\ n.text = name))

\* explicit_key_of, "" for none.
ExplicitKey(nodes, key) ==
  LET said == SelectSeq(nodes, LAMBDA n : n.sep = "=" /\ n.name = key)
  IN  IF Len(said) = 1 /\ said[1].val = "string" /\ said[1].as = "ident" THEN said[1].text ELSE ""

RECURSIVE Canon(_, _)
CanonBlock(n, type) == IF n.val = "block" THEN [n EXCEPT !.nodes = Canon(@, type)] ELSE n

\* canon_keyed_entries, of one entry.
CanonEntry(n, f) ==
  [n EXCEPT !.sep = "", !.as = Spelled(n.name),
            !.nodes = Canon(DropKey(@, f.key, n.name), f.body)]

\* canon_anonymous_keyed: an eligible list becomes a keyed block.
CanonList(n, f) ==
  LET key(j) == ExplicitKey(n.nodes[j].nodes, f.key)
      eligible == \A i, j \in DOMAIN n.nodes :
                    n.nodes[i].val = "block" /\ key(i) # "" /\ (key(i) = key(j) => i = j)
  IN  IF eligible
      THEN [n EXCEPT !.sep = "", !.val = "block",
              !.nodes = [j \in DOMAIN @ |-> CanonEntry([@[j] EXCEPT !.name = key(j)], f)]]
      ELSE [n EXCEPT !.nodes = [j \in DOMAIN @ |-> CanonBlock(@[j], f.body)]]

\* canon_assignment, and the block form in canon_entries.
CanonField(n, f) ==
  CASE f.kind # "message" -> n
    [] f.shape = "one"  -> CanonBlock(n, f.body)
    [] f.shape = "map"  -> [n EXCEPT !.nodes = [j \in DOMAIN @ |-> CanonBlock(@[j], f.body)]]
    [] KeyField(f) = "none" -> [n EXCEPT !.nodes = [j \in DOMAIN @ |-> CanonBlock(@[j], f.body)]]
    [] n.val = "block" -> [n EXCEPT !.sep = "", !.nodes = [j \in DOMAIN @ |-> CanonEntry(@[j], f)]]
    [] n.val = "list" -> CanonList(n, f)
    [] OTHER -> n

Canon(nodes, type) ==
  [k \in DOMAIN nodes |->
     IF nodes[k].as = "ident" /\ Knows(type, nodes[k].name)
     THEN CanonField(nodes[k], FieldOf(type, nodes[k].name)) ELSE nodes[k]]

\* format_entries: a map key loses the quotes it can do without.
RECURSIVE Format(_)
FormatNode(n) ==
  LET as   == IF n.sep = ":" /\ n.as = "string" THEN Spelled(n.name) ELSE n.as
      item == With(It(as, n.name, n.sep, n.val), n)
  IN  CASE n.val = "block" -> <<item>> \o Format(n.nodes) \o <<Brace>>
        [] n.val = "list" -> <<item>> \o Format(n.nodes) \o <<Bracket>>
        [] OTHER -> <<item>>
Format(nodes) == FlattenSeq([k \in DOMAIN nodes |-> FormatNode(nodes[k])])

Formatted == Format(Canon(Entries(input), call.root)) \o <<EofItem>>

-----------------------------------------------------------------------------
DocInit == Init /\ route = "given" /\ first = [msg |-> Nothing, present |-> {}, nulls |-> {}]

Decode == Next /\ UNCHANGED <<route, first>>

\* The document is written again and what was written is read, by a new decoder
\* with the options of the first.
Rewrite(how, text) ==
  /\ phase = "done" /\ route = "given"
  /\ route' = how
  /\ first' = [msg |-> msg, present |-> present, nulls |-> nulls]
  /\ call' = [call EXCEPT !.text = text]
  /\ phase' = "start" /\ header' = [type |-> FALSE, dataset |-> FALSE]
  /\ input' = <<>> /\ frames' = <<Root>> /\ depth' = 0 /\ prefix' = <<>>
  /\ msg' = Empty(call.root) /\ present' = {} /\ nulls' = {} /\ mask' = {}

\* Only a document the parser accepts can be formatted.
Again == Rewrite("marshal", Marshal) \/ (Parses(input) /\ Rewrite("format", Formatted))

DocNext == Decode \/ Again

DocSpec == DocInit /\ [][DocNext]_docVars /\ WF_docVars(Decode)

-----------------------------------------------------------------------------
\* What is recorded of presence is what the text says: the fields it sets, at
\* their own paths, and its nulls (mark_present, mark_null).
PresenceIsDocument ==
  phase = "done" =>
    /\ present = SaidAt(Document, "present")
    /\ nulls = SaidAt(Document, "null")

\* Nothing of the text is lost and nothing added but defaults: every body and every
\* value it writes is in the message where it was written, elements of a field
\* bound twice included, and any other value is the default of a field not said.
Given(p) == SubSeq(p, 1, Len(p) - 1)
LastField(p) == FieldOf(msg.bodies[Given(p)].type, p[Len(p)][1])
NothingLost ==
  phase = "done" =>
    LET document == Document
        leaves   == {s \in document : s[1] = "leaf"}
    IN  /\ {<<"body", p, msg.bodies[p].type>> : p \in DOMAIN msg.bodies}
             = {s \in document : s[1] = "body"}
        /\ \A s \in leaves : s[2] \in DOMAIN msg.leaves /\ msg.leaves[s[2]].text = s[3]
        /\ \A q \in DOMAIN msg.leaves \ {s[2] : s \in leaves} :
             q \notin present /\ msg.leaves[q].text = DefaultOf(LastField(q))

-----------------------------------------------------------------------------
\* A field that is said to be zero, or empty, and has no presence is not in the
\* message; when it is required, or has a default, no text can say so.  And the
\* root's mask names no null inside an element.
Sayable ==
  /\ \A p \in DOMAIN first.msg.bodies : \A f \in FieldsOf(first.msg.bodies[p].type) :
       (f.required \/ HasDefault(f)) /\ At(p, f.name) \in first.present \ first.nulls =>
         At(p, f.name) \in DOMAIN first.msg.leaves \cup DOMAIN first.msg.bodies \cup DOMAIN first.msg.elems
  /\ NullMask(call.root) => \A p, q \in first.nulls : Masked(p) => Masked(q)

\* What the encoder writes of a message the decoder made, the decoder reads, within
\* the same limit of depth, and as the message it was: an Any as the same bytes,
\* whichever way it is written.
RoundTrip ==
  (route = "marshal" /\ Sayable) =>
    /\ phase # "error"
    /\ phase = "done" => Same(msg) = Same(first.msg)

\* What the decoder accepts the parser accepts, dropped fields and the blocks of
\* Anys included (skip_value: "dropping a field does not exempt it from the
\* grammar").
DecoderWithinGrammar == phase = "done" /\ route = "given" => Parses(input)

\* Formatting, with keyed fields in their canonical form, changes no message and
\* nothing of what was said.
FormatKeepsMeaning ==
  route = "format" =>
    /\ phase # "error"
    /\ phase = "done" => msg = first.msg /\ present = first.present /\ nulls = first.nulls

\* Every call of the decoder returns: with the message or with an error.
Finishes == phase = "start" ~> phase \in {"done", "error"}
=============================================================================
