--------------------------- MODULE DatasetGrammar ---------------------------
(***************************************************************************)
(* The grammar of @dataset as the parser reads it (parser.rs): directives, *)
(* the @dataset header with its columns, and the rows.  The parser reads   *)
(* the whole document; the streaming reader calls it on the header and on  *)
(* each row it has cut out.  Column names are abstracted to their number.  *)
(***************************************************************************)
EXTENDS PxfText

\* The tokens a cell may be.
Values == {"Ident", "String", "Bytes"}

\* The index of the parenthesis that closes the list of t which opens at k
\* and holds items between commas, each of a kind in `items` or, if `empty`
\* allows it, left out; 0 when t has no such list there.
ListEnd(t, k, items, empty) ==
  LET end == FirstAt(t, k + 1, LAMBDA i : t[i].kind \notin items \cup {","}, 0)
      neighbours == {<<t[i].kind, t[i + 1].kind>> : i \in k..(end - 1)}
  IN  IF /\ t[k].kind = "(" /\ t[end].kind = ")"
         /\ \A p \in neighbours :
              /\ ~(p[1] \in items /\ p[2] \in items)
              /\ empty \/ p[1] \in items \/ p[2] \in items
      THEN end ELSE 0

Items(t, from, to) == 1 + Cardinality({i \in from..to : t[i].kind = ","})

RowEnd(t, k, arity) ==
  LET end == ListEnd(t, k, Values, TRUE)
  IN  IF end > 0 /\ Items(t, k, end) = arity THEN end ELSE 0

\* The rows from token k on, each as the positions of its parentheses, and
\* the index of the token that is not the start of another row.
RowsFrom(t, k, arity) ==
  LET rows[i \in k..Len(t)] ==
        LET end == IF t[i].kind = "(" THEN RowEnd(t, i, arity) ELSE 0
        IN  IF end = 0 THEN [spans |-> <<>>, next |-> i]
            ELSE [rows[end + 1] EXCEPT
                    !.spans = <<[from |-> t[i].from, to |-> t[end].from]>> \o @]
  IN  rows[k]

\* The first token that does not belong to the directives t opens with.
PreludeEnd(t) ==
  FirstAt(t, 1, LAMBDA i : /\ t[i].kind # "AtDirective"
                           /\ t[i].kind = "Ident" => i = 1, 0)

\* The header of the first dataset of t: the token after it and the number of
\* its columns, 0 when t has no such header.
Header(t) ==
  LET header(list, end) == [next    |-> end + 1,
                            columns |-> IF end = 0 THEN 0 ELSE Items(t, list, end)]
      columns(list) == header(list, ListEnd(t, list, {"Ident"}, FALSE))
      after(at)     == IF t[at].kind # "AtDataset"        THEN header(0, 0)
                       ELSE IF t[at + 1].kind = "Ident" THEN columns(at + 2)
                       ELSE columns(at + 1)
  IN  after(PreludeEnd(t))

ParseHeader(s) ==
  LET parse(t, h) == IF h.columns > 0 /\ t[h.next].kind = "Eof" THEN h.columns ELSE 0
      tokens(t)   == parse(t, Header(t))
  IN  tokens(Tokens(s))

ParseRow(s, arity) == RowEnd(Tokens(s), 1, arity) > 0

\* What the parser reads of the first dataset of s: its number of columns, 0
\* when it is refused, its rows, and what follows them.
Dataset(s) ==
  LET refused == [columns |-> 0, rows |-> <<>>, end |-> "error"]
      rows(t, h, r) ==
        [columns |-> h.columns,
         rows    |-> r.spans,
         end     |-> CASE t[r.next].kind = "Eof" -> "eof"
                       [] t[r.next].kind \in {"AtDirective", "AtDataset"} -> "directive"
                       [] OTHER -> "error"]
      header(t, h) == IF h.columns = 0 THEN refused
                      ELSE rows(t, h, RowsFrom(t, h.next, h.columns))
      tokens(t)    == header(t, Header(t))
  IN  tokens(Tokens(s))
=============================================================================
