----------------------------- MODULE RowScanner -----------------------------
(***************************************************************************)
(* The byte scanner of the streaming reader (dataset_reader.rs): it looks  *)
(* for the end of the @dataset header, and for the next row, in the bytes  *)
(* that have arrived so far.  It does not lex: it only steps over string   *)
(* and bytes literals and over comments, so that a parenthesis in one of   *)
(* them is not taken for the row's.                                        *)
(***************************************************************************)
EXTENDS PxfText

\* Mutant of Skip: a line comment is not stepped over.
SkipNoLineComment(s, i) ==
  CASE Word(s, i, Triple)              -> TripleQuoted(s, i + 3)
    [] At(s, i, "quote") /\ ~Word(s, i, Triple) -> Quoted(s, i + 1, ByteClass)
    [] Word(s, i, <<"b", "quote">>)    -> Quoted(s, i + 2, ByteClass)
    [] Word(s, i, <<"/", "*">>)        -> BlockComment(s, i + 2)
    [] OTHER                           -> i

\* Mutant of Skip: a literal the text ends in is read as other bytes.
SkipOnlyFinished(s, i) ==
  LET to == CASE Word(s, i, Triple)           -> TripleQuoted(s, i + 3)
              [] At(s, i, "quote") /\ ~Word(s, i, Triple) -> Quoted(s, i + 1, ByteClass)
              [] Word(s, i, <<"b", "quote">>) -> Quoted(s, i + 2, ByteClass)
              [] OTHER                        -> i
  IN  IF to = Incomplete THEN i ELSE to

\* The position after the literal or comment that opens at i; i itself when
\* none does.
Skip(s, i) ==
  CASE Word(s, i, Triple)              -> TripleQuoted(s, i + 3)
    [] At(s, i, "quote") /\ ~Word(s, i, Triple) -> Quoted(s, i + 1, ByteClass)
    [] Word(s, i, <<"b", "quote">>)    -> Quoted(s, i + 2, ByteClass)
    [] At(s, i, "#")                   -> LineComment(s, i + 1)
    [] Word(s, i, <<"/", "/">>)        -> LineComment(s, i + 2)
    [] Word(s, i, <<"/", "*">>)        -> BlockComment(s, i + 2)
    [] OTHER                           -> i

\* The positions outside literals and comments that a scan from `from` visits,
\* and whether it stops at a literal no further byte can mend or at the end of
\* s, inside a literal or not.
Walk(s, from) ==
  LET stop(malformed) == [at |-> {}, malformed |-> malformed]
      onTo(walk, i, j) ==
        CASE j = Incomplete -> stop(FALSE)
          [] j = Malformed  -> stop(TRUE)
          [] j = i          -> [walk[i + 1] EXCEPT !.at = @ \cup {i}]
          [] OTHER          -> walk[j]
      walk[i \in from..(Len(s) + 1)] ==
        IF i > Len(s) THEN stop(FALSE) ELSE onTo(walk, i, Skip(s, i))
  IN  walk[from]

\* The first position from `from` on that the walk w visits and where P holds;
\* Malformed or Incomplete when the walk stops before there is one.
SeekOn(w, s, from, P(_)) ==
  FirstAt(s, from, LAMBDA i : i \in w.at /\ P(i),
          IF w.malformed THEN Malformed ELSE Incomplete)

Seek(s, from, P(_)) == SeekOn(Walk(s, from), s, from, P)

\* How many more parentheses the visited positions up to i open than close.
Balance(s, at, i) ==
  Cardinality({k \in at : k <= i /\ s[k] = "("})
    - Cardinality({k \in at : k <= i /\ s[k] = ")"})

\* The first visited parenthesis that closes more than the walk w opened.
SeekUnopened(w, s, from) ==
  SeekOn(w, s, from, LAMBDA i : s[i] = ")" /\ Balance(s, w.at, i) = -1)

\* The parenthesis that closes the one at `open`.
FindMatchingParen(s, open) == SeekUnopened(Walk(s, open + 1), s, open + 1)

\* Mutant of FindAtTable: a literal or comment may hold the header.
FindAtTableAnywhere(s) ==
  FirstAt(s, 1, LAMBDA i : Word(s, i, <<"@", "d">>) /\ i + 2 <= Len(s), Incomplete)

FindAtTable(s) ==
  Seek(s, 1, LAMBDA i : /\ Word(s, i, <<"@", "d">>)
                        /\ i + 2 <= Len(s)
                        /\ ~IsIdentPart(s[i + 2]))

FindNextChar(s, from, c) == Seek(s, from, LAMBDA i : s[i] = c)

Lparen(s, at) == IF at > 0 THEN FindNextChar(s, at + 2, "(") ELSE at

Rparen(s, lparen) == IF lparen > 0 THEN FindMatchingParen(s, lparen) ELSE lparen

\* The closing parenthesis of the first @dataset header in s.
ScanHeaderEnd(s) == Rparen(s, Lparen(s, FindAtTable(s)))

FindRow(kind, from, to) == [kind |-> kind, from |-> from, to |-> to]

\* The row between the parentheses at `from` and `to`.
RowBetween(from, to) ==
  CASE to = Incomplete -> FindRow("inRow", 0, 0)
    [] to = Malformed  -> FindRow("error", 0, 0)
    [] OTHER           -> FindRow("found", from, to)

\* What stands at i, the first byte after blanks, literals and comments.
RowAt(s, i) ==
  CASE i = Incomplete       -> FindRow("needMore", 0, 0)
    [] i = Malformed        -> FindRow("error", 0, 0)
    [] i > 0 /\ s[i] = "@" -> FindRow("done", 0, 0)
    [] i > 0 /\ s[i] = "(" -> RowBetween(i, FindMatchingParen(s, i))
    [] OTHER                -> FindRow("error", 0, 0)

\* The next row of s: found, with its parentheses' positions; none because a
\* directive follows (done) or because s ends between rows (needMore) or in
\* one (inRow); or an error.
FindNextRow(s) == RowAt(s, Seek(s, 1, LAMBDA k : s[k] \notin {"sp", "nl"}))
=============================================================================
