----------------------------- MODULE RowArrival -----------------------------
(***************************************************************************)
(* Bytes arrive one at a time and the scanner looks for a row in what has  *)
(* arrived after each of them, as it does after each read of the stream.   *)
(* Every text of up to MaxLen bytes is reached.                            *)
(***************************************************************************)
EXTENDS RowScanner, DatasetGrammar

CONSTANTS Alphabet,  \* the byte classes that arrive
          MaxLen     \* bound: bytes in a text

ASSUME ArrivalAssumption == Alphabet \subseteq ByteClass /\ MaxLen \in Nat

VARIABLE text

Init == text = <<>>

Arrive == /\ Len(text) < MaxLen
          /\ \E c \in Alphabet : text' = Append(text, c)

Next == Arrive

Spec == Init /\ [][Next]_text

-----------------------------------------------------------------------------
\* The parser's rows of the whole text, of whatever arity its first one has.
ParserRows ==
  {RowsFrom(Tokens(text), 1, n).spans : n \in 1..MaxLen} \ {<<>>}

\* A row that the parser reads at the start of a document is the row the
\* scanner cuts out: no literal, comment or nested parenthesis misleads it.
ScannerFindsParsersRow ==
  \A rows \in ParserRows :
    FindNextRow(text) = FindRow("found", rows[1].from, rows[1].to)

\* What the scanner finds in a part of the stream does not depend on where the
\* read stopped: with more bytes it finds the same row, or the same directive.
FoundIsFinal ==
  [][FindNextRow(text).kind \in {"found", "done"}
       => FindNextRow(text') = FindNextRow(text)]_text
=============================================================================
