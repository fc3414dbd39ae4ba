----------------------------- MODULE MCSbeCodec -----------------------------
EXTENDS SbeCodec

F(name, kind) ==
  [name |-> name, kind |-> kind, label |-> "one", oneof |-> <<>>, of |-> "", length |-> <<>>, encoding |-> <<>>]

Text(name, kind, n) == [F(name, kind) EXCEPT !.length = <<n>>]
As(fd, encoding)    == [fd EXCEPT !.encoding = <<encoding>>]
In(name, type)      == [F(name, "message") EXCEPT !.of = type]
Labelled(fd, label) == [fd EXCEPT !.label = label]
Member(fd, oneof)   == [fd EXCEPT !.oneof = <<oneof>>]
Group(name, type)   == Labelled(In(name, type), "list")

Type(id, nested, fields) == [template_id |-> id, nested |-> nested, fields |-> fields]

\* Composites in a message, in a composite and in a group; texts of no, one and
\* more characters; narrowed numbers of each sign; two groups; ids and lengths
\* without room in the header; two types of one id; each unsupported field;
\* and a group with a oneof.
MCSchema ==
  [Order   |-> Type(<<1>>, <<"Fill">>,
                    <<F("active", "bool"), As(F("price", "int32"), "int8"), In("code", "Code"),
                      Group("fills", "Fill"), Text("name", "string", 3), Group("notes", "Note")>>),
   Code    |-> Type(<<>>, <<>>, <<Text("raw", "bytes", 1), In("inner", "Inner")>>),
   Inner   |-> Type(<<>>, <<>>, <<As(F("x", "uint32"), "uint8"), As(F("y", "int64"), "int16")>>),
   Fill    |-> Type(<<2>>, <<>>, <<F("side", "enum"), In("inner", "Inner")>>),
   Note    |-> Type(<<>>, <<>>, <<Member(F("urgent", "bool"), "n"), Member(Text("text", "string", 1), "n")>>),
   Numbers |-> Type(<<3>>, <<>>, <<F("f", "float"), As(F("u", "uint32"), "int8"), As(F("u2", "uint64"), "uint16")>>),
   Other   |-> Type(<<3>>, <<>>, <<As(F("delta", "int32"), "int16"), F("on", "bool")>>),
   Long    |-> Type(<<4>>, <<>>, <<F("a", "int64"), F("b", "double")>>),
   High    |-> Type(<<17>>, <<>>, <<F("on", "bool")>>),
   NoText  |-> Type(<<5>>, <<>>, <<In("bad", "BadText")>>),
   BadText |-> Type(<<>>, <<>>, <<F("text", "string")>>),
   BadName |-> Type(<<5>>, <<>>, <<As(F("n", "int32"), "int128")>>),
   BadMap  |-> Type(<<5>>, <<>>, <<Labelled(In("m", "Code"), "map")>>),
   BadList |-> Type(<<5>>, <<>>, <<Labelled(F("m", "int32"), "list")>>),
   Either  |-> Type(<<5>>, <<>>, <<Member(F("m", "bool"), "o")>>),
   Deep    |-> Type(<<5>>, <<>>, <<Group("g", "Order")>>)]

File(types) == [schema_id |-> <<7>>, version |-> 0, types |-> types]

MCFileLists ==
  {<<File(<<"Order", "Code">>), File(<<"Numbers">>)>>,
   <<File(<<"Numbers", "Other">>)>>, <<File(<<"Long", "High">>)>>,
   <<File(<<"Order">>), [File(<<"Numbers">>) EXCEPT !.schema_id = <<>>]>>}
  \cup {<<File(<<"Fill", bad>>)>> :
          bad \in {"NoText", "BadName", "BadMap", "BadList", "Either", "Deep"}}

MCLimits ==
  {[max_message_size |-> 99, max_repeated_count |-> n] : n \in {1, 2}}
  \cup {[max_message_size |-> 30, max_repeated_count |-> 2]}

-----------------------------------------------------------------------------
Texts3 == {<<>>, <<1, 0>>, <<1, 2, 3, 1>>, <<1, 1, 2, 3>>}

FillOf(side, x, y) == [side |-> side, inner |-> [x |-> x, y |-> y]]

OrderOf(price, raw, text, fills, notes) ==
  [active |-> TRUE, price |-> price, code |-> [raw |-> raw, inner |-> [x |-> 3, y |-> -8]],
   fills |-> fills, name |-> text, notes |-> [i \in DOMAIN notes |-> [urgent |-> TRUE, text |-> notes[i]]]]

Orders ==
  {OrderOf(-2, <<3, 1>>, text, <<>>, <<<<1>>>>) : text \in Texts3}
  \cup {OrderOf(1, <<>>, <<1>>, <<FillOf(3, 0, 7), FillOf(0, 1, -1)>>, notes) :
          notes \in {<<>>, <<<<2, 3>>, <<>>>>}}
  \cup {OrderOf(2, <<0>>, <<>>, [i \in 1..3 |-> FillOf(i, i, i)], <<>>),
        OrderOf(0, <<2>>, <<>>, <<>>, [i \in 1..16 |-> <<1>>])}

MCSent ==
  {[type |-> "Order", value |-> o] : o \in Orders}
  \cup {[type |-> "Numbers", value |-> [f |-> <<0, 3, 2, 1>>, u |-> u, u2 |-> 13]] : u \in {1, 255}}
  \cup {[type |-> "Other", value |-> [delta |-> -3, on |-> FALSE]],
        [type |-> "Long", value |-> [a |-> -1, b |-> [i \in 1..8 |-> 1]]],
        [type |-> "High", value |-> [on |-> TRUE]]}

\* A byte replaced, left out or put in, and the end cut off.
MCDamage ==
  [at : 0..33, cut : {1}, put : {<<0>>, <<1>>, <<3>>, <<>>}]
  \cup [at : 0..33, cut : {0}, put : {<<2>>}]
  \cup [at : 0..33, cut : {99}, put : {<<>>}]

-----------------------------------------------------------------------------
\* A message with a group whose type has a oneof.
MCGroupFiles == {<<File(<<"Order">>)>>}

\* A message with a message in it that has no fields.
MCEmptySchema ==
  [Ping    |-> Type(<<1>>, <<>>, <<F("on", "bool"), In("nothing", "Nothing")>>),
   Nothing |-> Type(<<>>, <<>>, <<>>)]

MCEmptyFiles == {<<File(<<"Ping">>)>>}

\* A Ping of another writer: the header, and one byte of block.
MCEmptyDocuments == {<<1, 0, 1, 0, 3, 1, 0, 0, 1>>}
=============================================================================
