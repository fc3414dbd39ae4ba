------------------------------ MODULE RowBinding ------------------------------
(***************************************************************************)
(* Binding a @dataset row to a message (protowire-pxf, dataset_reader.rs:  *)
(* bind_row; dataset_paths.rs).  The columns are checked, as paths of      *)
(* field names, among themselves and against the row type; the cells that  *)
(* are not empty are written as the body of a document, those that share a *)
(* prefix in one block; the decoder reads it; and an error of it is laid   *)
(* at a column by the line it is in.                                       *)
(***************************************************************************)
EXTENDS PxfDocument

\* The rows explored: [call, columns, cells], a column a sequence of segments, a
\* cell Blank or a value as the parser has it.
CONSTANT Rows

VARIABLES
  row,       \* the row given
  stage      \* "none" when the call is given a document, "given", "bound" or "refused"

rowVars == <<call, phase, header, input, frames, depth, prefix, msg, present, nulls, mask,
             route, first, row, stage>>

Blank == [as |-> "none", name |-> "", sep |-> "", val |-> "blank", text |-> "",
          load |-> Nothing, nodes |-> <<>>]

-----------------------------------------------------------------------------
\* column_path_error.  The trie of the columns before one: its nodes are the
\* prefixes of them, and the columns end in some.
Trie(columns, i) == UNION {Prefixes(columns[j]) : j \in 1..(i - 1)}
EndsOf(columns, i) == {columns[j] : j \in 1..(i - 1)}

\* A column goes through the end of another, ends where one ends, or makes no node
\* of its own.
\* Mutant of Overlaps: that another column goes on from its end is not seen.
OverlapsFromBelow(columns, i) ==
  \/ \E p \in Prefixes(columns[i]) \ {columns[i]} : p \in EndsOf(columns, i)
  \/ columns[i] \in EndsOf(columns, i)
Overlaps(columns, i) ==
  \/ \E p \in Prefixes(columns[i]) \ {columns[i]} : p \in EndsOf(columns, i)
  \/ columns[i] \in EndsOf(columns, i)
  \/ Prefixes(columns[i]) \subseteq Trie(columns, i)

HeaderRefused(columns) ==
  \E i \in DOMAIN columns : "" \in Range(columns[i]) \/ Overlaps(columns, i)

\* The type of the body a path leads to through singular message fields that are
\* not written as literals; "none" when a step is none.
TypeAt(type, path) ==
  FoldLeft(LAMBDA t, seg :
             IF /\ t # "none" /\ Knows(t, seg) /\ FieldOf(t, seg).shape = "one"
                /\ FieldOf(t, seg).kind = "message"
                /\ Schema[FieldOf(t, seg).body].role # "literal"
             THEN FieldOf(t, seg).body ELSE "none",
           type, path)

\* check_column_paths.
PathsRefused(c, columns) ==
  \/ HeaderRefused(columns)
  \/ \E i \in DOMAIN columns :
       LET type == TypeAt(c.root, Front(columns[i]))
       IN  type = "none" \/ ~Knows(type, Last(columns[i])) \/ Len(columns[i]) - 1 > c.depth

-----------------------------------------------------------------------------
\* write_row: the entries of the body, a cell with its column, or a block (column
\* 0) with the entries of the columns that go through it.
RECURSIVE Insert(_, _, _)
BlockNamed(nodes, name) == {k \in DOMAIN nodes : nodes[k].column = 0 /\ nodes[k].name = name}
Insert(nodes, path, i) ==
  CASE Len(path) = 1 -> Append(nodes, [name |-> path[1], column |-> i, nodes |-> <<>>])
    [] BlockNamed(nodes, path[1]) = {} ->
         Append(nodes, [name |-> path[1], column |-> 0, nodes |-> Insert(<<>>, Tail(path), i)])
    [] OTHER -> LET k == CHOOSE k \in BlockNamed(nodes, path[1]) : TRUE
                IN  [nodes EXCEPT ![k].nodes = Insert(@, Tail(path), i)]

BodyNodes(columns, cells) ==
  FoldLeft(LAMBDA nodes, i : IF cells[i] = Blank THEN nodes ELSE Insert(nodes, columns[i], i),
           <<>>, [i \in DOMAIN columns |-> i])

\* write_block and write_cell: an item is a line.
WriteCell(name, cell) == FormatNode([cell EXCEPT !.as = "ident", !.name = name, !.sep = "="])

RECURSIVE WriteBlock(_, _)
WriteBlock(nodes, cells) ==
  FlattenSeq([k \in DOMAIN nodes |->
    IF nodes[k].column # 0 THEN WriteCell(nodes[k].name, cells[nodes[k].column])
    ELSE <<Named(nodes[k].name, "", "block")>> \o WriteBlock(nodes[k].nodes, cells) \o <<Brace>>])

RECURSIVE FirstColumn(_)
FirstColumn(node) == IF node.column # 0 THEN node.column ELSE FirstColumn(node.nodes[1])

\* The lines of each cell, and after those of the cells in it the lines of each
\* block.
RECURSIVE Spans(_, _, _)
Spans(nodes, cells, from) ==
  FlattenSeq([k \in DOMAIN nodes |->
    LET line == from + Len(WriteBlock(SubSeq(nodes, 1, k - 1), cells))
        size == Len(WriteBlock(<<nodes[k]>>, cells))
        own  == <<[column |-> FirstColumn(nodes[k]), lines |-> line..(line + size - 1)]>>
    IN  IF nodes[k].column # 0 THEN own ELSE Spans(nodes[k].nodes, cells, line + 1) \o own])

BodyText(r)  == WriteBlock(BodyNodes(r.columns, r.cells), r.cells)
SpansOf(r) == Spans(BodyNodes(r.columns, r.cells), r.cells, 1)

-----------------------------------------------------------------------------
\* The rows that are refused, and the body every other row is written as.  (Both are
\* constant, so that TLC finds them once.)
RefusedRows ==
  {r \in Rows : Len(r.columns) # Len(r.cells) \/ PathsRefused(r.call, r.columns)}
Rendered    == [r \in Rows \ RefusedRows |-> BodyText(r) \o <<EofItem>>]

RowInit ==
  \/ DocInit /\ stage = "none" /\ row = [call |-> call, columns |-> <<>>, cells |-> <<>>]
  \/ /\ stage = "given" /\ row \in Rows /\ call = row.call
     /\ phase = "start" /\ header = [type |-> FALSE, dataset |-> FALSE]
     /\ input = <<>> /\ frames = <<Root>> /\ depth = 0 /\ prefix = <<>>
     /\ msg = Empty(call.root) /\ present = {} /\ nulls = {} /\ mask = {}
     /\ route = "given" /\ first = [msg |-> Nothing, present |-> {}, nulls |-> {}]

\* bind: the row is refused, or its body goes to the decoder.
BindRow ==
  /\ stage = "given"
  /\ IF row \in RefusedRows
     THEN stage' = "refused" /\ phase' = "error" /\ UNCHANGED call
     ELSE stage' = "bound" /\ call' = [call EXCEPT !.text = Rendered[row]] /\ UNCHANGED phase
  /\ UNCHANGED <<header, input, frames, depth, prefix, msg, present, nulls, mask, route, first, row>>

\* A document may be written again; a row is decoded and that is all.
DecodeBody == stage # "given" /\ Decode /\ UNCHANGED <<row, stage>>
DocumentAgain == stage = "none" /\ Again /\ UNCHANGED <<row, stage>>

RowNext == BindRow \/ DecodeBody \/ DocumentAgain
RowSpec == RowInit /\ [][RowNext]_rowVars /\ WF_rowVars(BindRow) /\ WF_rowVars(DecodeBody)

-----------------------------------------------------------------------------
\* at_row: the columns named for an error at the item the decoder has come to.  A
\* required field that is missing is reported at the body's first line, which is
\* no column's.
Here == call.text[Len(input) + 1]
ColumnNamed ==
  LET line  == Len(input) + 1
      named == SelectSeq(SpansOf(row), LAMBDA s : line \in s.lines)
  IN  IF named = <<>> \/ (Here.val = Top.close /\ CloseRefused(Top)) THEN 0 ELSE named[1].column

\* What a row says, read off its cells one by one: the value of each at its path,
\* and the messages its path goes through.
PathOf(segs) == [k \in DOMAIN segs |-> <<segs[k], "", 0>>]
CellSays(r, i) ==
  LET column == r.columns[i]
      owner  == Front(column)
      type   == TypeAt(r.call.root, owner)
      entry  == [r.cells[i] EXCEPT !.as = "ident", !.name = Last(column), !.sep = "="]
  IN  SaysEntry(<<entry>>, 1, type, PathOf(owner)) \cup
      UNION {Said("present", PathOf(p), "") \cup
             Said("body", PathOf(p), TypeAt(r.call.root, p)) : p \in Prefixes(owner) \ {<<>>}}
RowSays(r) ==
  Said("body", <<>>, r.call.root) \cup
  UNION {CellSays(r, i) : i \in {j \in DOMAIN r.columns : r.cells[j] # Blank}}

\* The reasons a row may be refused for before it is written: two columns of which
\* one is the start of the other, a column that is no path in the row type, or a
\* column without a cell.
HeaderAtFault(r) ==
  \/ DOMAIN r.columns # DOMAIN r.cells
  \/ \E i, j \in DOMAIN r.columns : i # j /\ IsPrefix(r.columns[i], r.columns[j])
  \/ \E i \in DOMAIN r.columns :
       LET owner == Front(r.columns[i])
       IN  \/ Len(owner) > r.call.depth
           \/ TypeAt(r.call.root, owner) = "none"
           \/ ~Knows(TypeAt(r.call.root, owner), Last(r.columns[i]))

\* A row that binds is its cells: each is where its column says, whatever the order
\* and however prefixes are shared, and nothing else is there but defaults.  One
\* that does not bind is refused for its header, or for a cell, and never because
\* two cells would bind one field or one message twice.  The column an error names
\* is the one whose cell is refused, or one inside the block that is (bind_row,
\* write_row, at_row, column_path_error).
RowIsItsCells ==
  LET says   == RowSays(row)
      leaves == {s \in says : s[1] = "leaf"}
  IN  /\ stage = "refused" => HeaderAtFault(row)
      /\ stage = "bound" => ~HeaderAtFault(row)
      /\ stage = "bound" /\ phase = "done" =>
           /\ present = SaidAt(says, "present") /\ nulls = SaidAt(says, "null")
           /\ {<<"body", p, msg.bodies[p].type>> : p \in DOMAIN msg.bodies}
                = {s \in says : s[1] = "body"}
           /\ \A s \in leaves : s[2] \in DOMAIN msg.leaves /\ msg.leaves[s[2]].text = s[3]
           /\ DOMAIN msg.leaves \cap present \subseteq {s[2] : s \in leaves}
      /\ stage = "bound" /\ phase = "error" /\ Valid[call.root] =>
           LET it == Here
               entry == Top.kind = "body" /\ it.as = "ident" /\ Knows(Top.type, it.name)
               names == [k \in DOMAIN Top.path |-> Top.path[k][1]]
           IN  /\ ~(entry /\ CheckBound(Top, FieldOf(Top.type, it.name)))
               /\ ColumnNamed # 0 =>
                    LET column == row.columns[ColumnNamed]
                        at == names \o (IF entry THEN <<it.name>> ELSE <<>>)
                    IN  row.cells[ColumnNamed] # Blank
                        /\ (IsPrefix(at, column) \/ IsPrefix(column, at))
               /\ ColumnNamed = 0 => it.val = Top.close
=============================================================================
