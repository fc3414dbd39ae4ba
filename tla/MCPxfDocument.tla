---------------------------- MODULE MCPxfDocument ----------------------------
(* PXF documents over a schema with a field of every shape, and the items    *)
(* from which they are put together, for TLC.                                *)
EXTENDS RowBinding

F(name, kind) ==
  [name |-> name, shape |-> "one", kind |-> kind, body |-> "none", presence |-> FALSE,
   proto2 |-> FALSE, oneof |-> "none", synthetic |-> FALSE, bracket |-> "none",
   carrier |-> "none", required |-> FALSE, key |-> "none", keys |-> "string"]
B(name, body)      == [F(name, "message") EXCEPT !.body = body, !.presence = TRUE]
List(f)            == [f EXCEPT !.shape = "list", !.presence = FALSE]
MapOf(f, keys)     == [f EXCEPT !.shape = "map", !.keys = keys, !.presence = FALSE]
Keyed(name, body, key) == [List(B(name, body)) EXCEPT !.key = key]
Optional(f)        == [f EXCEPT !.presence = TRUE, !.oneof = "_" \o f.name, !.synthetic = TRUE]
Member(f, oneof)   == [f EXCEPT !.presence = TRUE, !.oneof = oneof]
Default(f, text)   == [f EXCEPT !.bracket = text]
Required(f)        == [f EXCEPT !.required = TRUE]

Message_(role, literals, file, fields) ==
  [file |-> file, role |-> role, literals |-> literals, fields |-> fields]
Plain(fields) == Message_("plain", {}, "main", fields)

\* A function constructor, which TLC evaluates once.
MCTypes == {"Pick", "Sub", "Item", "Case", "Reg", "Maps", "Wall", "Tree",
            "Any", "Hold", "Mask", "Null", "Two", "Uses"}
MCSchema ==
  [type \in MCTypes |->
     CASE type = "Pick" -> Plain({Required(F("name", "string")), Default(F("size", "int"), "5"),
              Optional(Default(F("opt", "string"), "x")),
              Default(Member(F("a", "string"), "pick"), "d"),
              Member(F("b", "int"), "pick"), Member(B("c", "Sub"), "pick")})
       [] type = "Sub" -> Plain({Required(F("req", "string")), Optional(Default(F("dflt", "int"), "7"))})
       [] type = "Item" -> Plain({F("k", "string"), Optional(Default(F("v", "int"), "7")), B("s", "Sub")})
       [] type = "Case" -> Plain({Member(F("k", "string"), "id"), Member(F("n", "int"), "id"),
              Keyed("cases", "Case", "k")})
       [] type = "Reg" -> Plain({Keyed("items", "Item", "k"), Keyed("cases", "Case", "k"), List(F("nums", "int"))})
       [] type = "Maps" -> Plain({MapOf(F("counts", "int"), "int"), MapOf(F("flags", "int"), "bool"),
              MapOf(B("subs", "Sub"), "string"), MapOf(B("walls", "Wall"), "string")})
       [] type = "Wall" -> Message_("literal", {"int"}, "main", {F("value", "int")})
       [] type = "Tree" -> Plain({B("kid", "Tree"), List(B("kids", "Tree")), B("sub", "Sub"), B("wall", "Wall")})
       [] type = "Any" -> Message_("any", {}, "main", {F("type_url", "string"), F("value", "bytes")})
       [] type = "Hold" -> Plain({B("any", "Any"), List(B("anys", "Any")), Keyed("notes", "Any", "type_url"),
              MapOf(B("held", "Any"), "string")})
       [] type = "Mask" -> Message_("mask", {}, "main", {List(F("paths", "string"))})
       [] type = "Null" -> Plain({B("_null", "Mask"), Optional(Default(F("opt", "string"), "x")),
              List(B("kids", "Item")), B("kid", "Item")})
       [] type = "Two" -> Message_("plain", {}, "bad", {Default(Member(F("a", "string"), "pick"), "d"),
              Default(Member(F("b", "string"), "pick"), "e")})
       [] type = "Uses" -> Message_("plain", {}, "uses", {B("two", "Two")})]

MCImports == [main |-> {}, bad |-> {}, uses |-> {"main", "mid"}, mid |-> {"bad"}]
MCUrls    == [u |-> "Sub", any |-> "Any", item |-> "Item", two |-> "Two"]
MCNumeral == [n \in {"1", "01", "2"} |-> IF n = "2" THEN "2" ELSE "1"]
MCReserve == {"table"}
MCBare    == {"a", "b", "k", "u", "any"}

\* The bytes of a Sub in which the default is left out, and of one that says all.
PackedSub(leaves) ==
  [bodies |-> [p \in {<<>>} |-> [type |-> "Sub", urls |-> <<>>]], elems |-> <<>>,
   leaves |-> [p \in {At(<<>>, n) : n \in leaves} |-> Leaf(IF p[1][1] = "req" THEN "q" ELSE "1")]]

I(as, name, sep, val, text) ==
  [as |-> as, name |-> name, sep |-> sep, val |-> val, text |-> text, load |-> Nothing,
   columns |-> <<>>, rows |-> <<>>]
Set(name, val, text) == I("ident", name, "=", val, text)
S(name, text)  == Set(name, "string", text)
N(name, text)  == Set(name, "int", text)
Nul(name)      == Set(name, "null", "")
Open(name)     == I("ident", name, "", "block", "")
OpenIs(name, val) == Set(name, val, "")
El(val, text)  == I("none", "", "", val, text)
Key(as, name, val, text) == I(as, name, ":", val, text)
Type(url)      == I("type", "", "=", "string", url)
BytesOf(leaves) == [Set("value", "bytes", "raw") EXCEPT !.load = PackedSub(leaves)]
Directive_(val, name) == I("none", name, "", val, "")
Table(columns, rows) == [Directive_("@dataset", "") EXCEPT !.columns = columns, !.rows = rows]
Ends == {El("end", ""), El("endlist", "")}

Offer(root, depth_, repeated, length, items) ==
  [root |-> root, discard |-> FALSE, depth |-> depth_, repeated |-> repeated,
   items |-> items, length |-> length, text |-> <<>>]
Text(root, depth_, items) == [Offer(root, depth_, 9, 0, {}) EXCEPT !.text = items \o <<EofItem>>]
Discarding(c) == [c EXCEPT !.discard = TRUE]

PickItems == {S("name", "x"), S("name", ""), N("size", "0"), Nul("opt"), S("opt", "y"), Nul("a"),
              N("b", "1"), Nul("b"), Open("c"), S("req", "q"), El("end", "")}
RegItems  == {Open("items"), OpenIs("items", "list"), OpenIs("items", "block"), Open("a"),
              I("string", "a", "=", "block", ""), I("string", "0", "", "block", ""), S("k", "a"), S("k", ""),
              Nul("v"), Open("s"), S("req", "q"), El("block", "")} \cup Ends
CaseItems == {Open("cases"), OpenIs("cases", "list"), Open("a"), S("k", "a"), S("k", "b"), Nul("k"),
              N("n", "1"), El("block", "")} \cup Ends
ListItems == {OpenIs("nums", "list"), El("int", "1"), El("int", "0"), El("null", ""), El("string", "1"), El("endlist", "")}
MapItems  == {OpenIs("counts", "block"), OpenIs("flags", "block"), OpenIs("subs", "block"), OpenIs("walls", "block"),
              Key("int", "01", "int", "1"), Key("string", "1", "int", "0"), Key("bool", "true", "int", "1"),
              Key("ident", "a", "block", ""), Key("string", "true", "int", "2"), S("req", "q"), El("end", "")}
TreeItems == {Open("kid"), OpenIs("kids", "list"), El("block", ""), OpenIs("sub", "block"), S("req", "q"),
              Nul("sub"), Nul("dflt"), N("wall", "0")} \cup Ends
AnyItems  == {Open("any"), Type("u"), Type("any"), S("req", "q"), N("dflt", "1"), Nul("dflt"),
              S("type_url", "u"), BytesOf({"req"}), BytesOf({"req", "dflt"}), El("end", "")}
NoteItems == {Open("notes"), OpenIs("anys", "list"), OpenIs("held", "block"), Key("ident", "a", "block", ""),
              Open("b"), El("block", ""), Type("u"), S("type_url", "u"), S("req", "q")} \cup Ends
SkipItems == {OpenIs("zz", "block"), OpenIs("zz", "list"), I("int", "5", "=", "int", "1"), El("int", "1"),
              El("illegal", ""), Key("bool", "true", "null", ""), Type("u"), Open("kid"), El("block", "")} \cup Ends
HeadItems == {Directive_("@type", "T"), Directive_("@type", ""), Directive_("@directive", "note"), Directive_("@directive", "table"),
              Directive_("@proto", ""), Table(<<"x", "y">>, <<2, 2>>), Table(<<"x">>, <<1, 2>>), S("opt", "y")}
NullItems == {Nul("opt"), OpenIs("kids", "list"), El("block", ""), Open("kid"), Nul("v"), S("k", "a")} \cup Ends

End == El("end", "")
Anys == <<OpenIs("held", "block"),
            Key("ident", "a", "block", ""), Type("any"), S("type_url", "u"), BytesOf({"req"}), End,
            Key("ident", "b", "block", ""), Type("item"), Open("s"), S("req", "q"), End, S("k", "k"), End, End,
          OpenIs("anys", "list"), El("block", ""), Type("u"), S("req", "q"), End,
            El("block", ""), S("type_url", "u"), BytesOf({"req", "dflt"}), End, El("endlist", ""),
          Open("notes"), Open("b"), Type("u"), S("req", "q"), N("dflt", "1"), End, End,
          Open("any"), Type("u"), Nul("dflt"), S("req", "x"), End>>
Keys_ == <<Open("items"), Open("a"), S("k", "a"), Open("s"), S("req", "q"), End, End, End,
           OpenIs("items", "list"), El("block", ""), S("k", "a"), Nul("v"), End, El("endlist", ""),
           Open("cases"), Open("a"), Open("cases"), Open("b"), End, End, End, End>>
Stray == <<Open("items"), N("a", "1"), End>>

MCCalls ==
  {Offer("Pick", 1, 9, 5, PickItems), Offer("Reg", 3, 2, 6, RegItems), Offer("Reg", 2, 9, 8, CaseItems),
   Offer("Reg", 1, 2, 6, ListItems), Offer("Maps", 2, 2, 7, MapItems), Offer("Tree", 2, 2, 6, TreeItems),
   Offer("Hold", 2, 9, 8, AnyItems), Offer("Hold", 3, 9, 9, NoteItems),
   Discarding(Offer("Tree", 3, 9, 5, SkipItems)), Offer("Null", 0, 9, 3, HeadItems),
   Offer("Null", 2, 9, 8, NullItems), Offer("Uses", 1, 1, 2, {Open("two"), End}),
   Text("Hold", 4, Anys), Text("Hold", 3, Anys), Text("Reg", 4, Keys_), Text("Reg", 4, Stray),
   Text("Hold", 1, <<Open("any"), Type("two"), End>>)}

AsNode(it, nodes) == [as |-> it.as, name |-> it.name, sep |-> it.sep, val |-> it.val,
                      text |-> it.text, load |-> it.load, nodes |-> nodes]
One(val, text) == AsNode(El(val, text), <<>>)
Row(root, depth_, columns, cells) ==
  [call |-> Offer(root, depth_, 9, 0, {}), columns |-> columns, cells |-> cells]

Three(set) == [1..3 -> set]
TreeColumns == {<<"kid", "sub", "req">>, <<"kid", "sub">>, <<"sub", "req">>, <<"kid", "wall">>,
                <<"wall", "value">>, <<"kids", "wall">>, <<"kid", "zz">>,
                <<"kid", "kid", "kid", "wall">>, <<"kids">>}
TreeCells == {Blank, One("int", "1"), One("string", "q"), One("null", ""),
              AsNode(El("block", ""), <<AsNode(S("req", "q"), <<>>)>>),
              AsNode(El("list", ""), <<One("block", "")>>)}
NestColumns == {<<"kid", "sub", "req">>, <<"kid", "sub", "dflt">>, <<"kid", "wall">>, <<"sub", "req">>}
NestCells   == {Blank, One("int", "1"), One("string", "q")}
PickColumns == {<<"a">>, <<"b">>, <<"c", "req">>, <<"c", "dflt">>, <<"name">>}
MCRows ==
  {Row("Tree", 2, <<<<"wall">>, <<"kids">>>>, <<One("int", "1")>>)} \cup
  {Row("Tree", 2, columns, cells) : columns \in [1..2 -> TreeColumns], cells \in [1..2 -> TreeCells]}
  \cup {Row("Tree", 2, columns, cells) : columns \in Three(NestColumns), cells \in Three(NestCells)}
  \cup {Row("Pick", 2, columns, cells) : columns \in Three(PickColumns), cells \in Three(NestCells)}
=============================================================================
