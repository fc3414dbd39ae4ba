-------------------------- MODULE RowArrivalProofs --------------------------
(***************************************************************************)
(* The row scanner on a stream that arrives a byte at a time: what it has  *)
(* found in the bytes so far is what it finds in every longer stream.      *)
(***************************************************************************)
EXTENDS RowArrival, ScannerProofs

TextInv == text \in Seq(ByteClass)

\* The stream so far is a sequence of bytes.
LEMMA TextIsBytes == Spec => []TextInv
<1>1. Init => TextInv
  BY DEF Init, TextInv
<1>2. TextInv /\ [Next]_text => TextInv'
  BY ArrivalAssumption DEF TextInv, Next, Arrive
<1> QED
  BY <1>1, <1>2, PTL DEF Spec

\* The scanner's answer does not depend on where a read of the stream stopped
\* (RowArrival.FoundIsFinal): dataset_reader.rs hands a row out as soon as
\* find_next_row finds it in the bytes read so far, and no byte that comes later
\* would have made it find another one.  For streams of any length, over any
\* alphabet of byte classes.
THEOREM FoundRowIsFinal == Spec => FoundIsFinal
<1>1. TextInv /\ [Next]_text
        => [FindNextRow(text).kind \in {"found", "done"}
              => FindNextRow(text') = FindNextRow(text)]_text
  <2> SUFFICES ASSUME TextInv, Next, FindNextRow(text).kind \in {"found", "done"}
               PROVE  FindNextRow(text') = FindNextRow(text)
    OBVIOUS
  <2>1. PICK c \in ByteClass : text' = Append(text, c)
    BY ArrivalAssumption DEF Next, Arrive
  <2>2. text \in Seq(ByteClass) /\ text' \in Seq(ByteClass)
    BY <2>1 DEF TextInv
  <2>3. Extends(text', text)
    BY <2>1, <2>2 DEF Extends
  <2> QED
    BY <2>2, <2>3, RowIsFinal
<1> QED
  BY <1>1, TextIsBytes, PTL DEF Spec, FoundIsFinal

\* Where the parser reads rows, the scanner finds the first of them
\* (RowArrival.ScannerFindsParsersRow): find_next_row, which does not lex, is
\* misled by no literal, comment or nested parenthesis in what parser.rs reads
\* as a row of any number of cells.  For texts of any length.
THEOREM ScannerAgreesWithParser == Spec => []ScannerFindsParsersRow
<1>1. TextInv => ScannerFindsParsersRow
  <2> SUFFICES ASSUME TextInv, NEW rows \in ParserRows
               PROVE  FindNextRow(text) = FindRow("found", rows[1].from, rows[1].to)
    BY DEF ScannerFindsParsersRow
  <2>1. PICK n \in 1..MaxLen : rows = RowsFrom(Tokens(text), 1, n).spans
    BY DEF ParserRows
  <2>2. rows # <<>>
    BY DEF ParserRows
  <2> QED
    BY <2>1, <2>2, ParsersRowFound DEF TextInv
<1> QED
  BY <1>1, TextIsBytes, PTL
=============================================================================
