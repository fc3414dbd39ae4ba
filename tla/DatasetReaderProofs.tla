------------------------ MODULE DatasetReaderProofs ------------------------
(***************************************************************************)
(* Proofs about DatasetReader, for every document, every limit and every   *)
(* way the source may split the stream into reads.                         *)
(***************************************************************************)
EXTENDS DatasetReader, ScannerProofs, TLAPS, SequenceTheorems

\* The least position of S, or a scan's stop code when S is empty.
LEMMA FirstInSet ==
  ASSUME NEW S \in SUBSET Int, NEW stop \in {Incomplete, Malformed},
         NEW r, r = (IF First(S) = {} THEN stop ELSE CHOOSE i \in First(S) : TRUE),
         r \notin {Incomplete, Malformed}
  PROVE  r \in S
<1>1. First(S) # {}
  OBVIOUS
<1>2. \E i \in First(S) : TRUE
  BY <1>1
<1>3. (CHOOSE i \in First(S) : TRUE) \in First(S)
  BY <1>2
<1>4. First(S) \subseteq S
  BY DEF First
<1> QED
  BY <1>1, <1>3, <1>4

\* A closing parenthesis that find_matching_paren_safe reports is one, and it
\* stands in the text after the opening one.
LEMMA MatchingParenInText ==
  ASSUME NEW s \in Seq(ByteClass), NEW open \in Nat,
         FindMatchingParen(s, open) \notin {Incomplete, Malformed}
  PROVE  /\ FindMatchingParen(s, open) \in (open + 1)..Len(s)
         /\ s[FindMatchingParen(s, open)] = ")"
<1> DEFINE w    == Walk(s, open + 1)
           S    == {i \in (open + 1)..Len(s) :
                      i \in w.at /\ (s[i] = ")" /\ Balance(s, w.at, i) = -1)}
           stop == IF w.malformed THEN Malformed ELSE Incomplete
<1>1. FindMatchingParen(s, open) =
        IF First(S) = {} THEN stop ELSE CHOOSE i \in First(S) : TRUE
  BY DEF FindMatchingParen, SeekUnopened, SeekOn, FirstAt, TheOne
<1>2. S \in SUBSET Int /\ stop \in {Incomplete, Malformed}
  OBVIOUS
<1>3. FindMatchingParen(s, open) \in S
  BY <1>1, <1>2, FirstInSet
<1> QED
  BY <1>3

\* @dataset is found in the text.
LEMMA AtTableInText ==
  ASSUME NEW s \in Seq(ByteClass), FindAtTable(s) > 0
  PROVE  FindAtTable(s) \in 1..Len(s)
<1> DEFINE w    == Walk(s, 1)
           S    == {i \in 1..Len(s) : i \in w.at /\ (/\ Word(s, i, <<"@", "d">>)
                                                    /\ i + 2 <= Len(s)
                                                    /\ ~IsIdentPart(s[i + 2]))}
           stop == IF w.malformed THEN Malformed ELSE Incomplete
<1>1. FindAtTable(s) = IF First(S) = {} THEN stop ELSE CHOOSE i \in First(S) : TRUE
  BY DEF FindAtTable, Seek, SeekOn, FirstAt, TheOne
<1>2. S \in SUBSET Int /\ stop \in {Incomplete, Malformed}
  OBVIOUS
<1>3. FindAtTable(s) \notin {Incomplete, Malformed}
  BY DEF Incomplete, Malformed
<1>4. FindAtTable(s) \in S
  BY <1>1, <1>2, <1>3, FirstInSet
<1> QED
  BY <1>4

\* A byte that is found is one of the text.
LEMMA NextCharInText ==
  ASSUME NEW s \in Seq(ByteClass), NEW from \in Nat \ {0}, NEW c,
         FindNextChar(s, from, c) > 0
  PROVE  FindNextChar(s, from, c) \in 1..Len(s)
<1> DEFINE w    == Walk(s, from)
           S    == {i \in from..Len(s) : i \in w.at /\ s[i] = c}
           stop == IF w.malformed THEN Malformed ELSE Incomplete
<1>1. FindNextChar(s, from, c) =
        IF First(S) = {} THEN stop ELSE CHOOSE i \in First(S) : TRUE
  BY DEF FindNextChar, Seek, SeekOn, FirstAt, TheOne
<1>2. S \in SUBSET Int /\ stop \in {Incomplete, Malformed}
  OBVIOUS
<1>3. FindNextChar(s, from, c) \notin {Incomplete, Malformed}
  BY DEF Incomplete, Malformed
<1>4. FindNextChar(s, from, c) \in S
  BY <1>1, <1>2, <1>3, FirstInSet
<1> QED
  BY <1>4

\* The end of the header that scan_header_end reports is a position of the
\* text: the drain that follows takes no more than the buffer holds.
LEMMA HeaderEndInText ==
  ASSUME NEW s \in Seq(ByteClass), ScanHeaderEnd(s) > 0
  PROVE  ScanHeaderEnd(s) \in 1..Len(s)
<1> DEFINE at     == FindAtTable(s)
           lparen == IF at > 0 THEN FindNextChar(s, at + 2, "(") ELSE at
<1>1. ScanHeaderEnd(s) = IF lparen > 0 THEN FindMatchingParen(s, lparen) ELSE lparen
  BY DEF ScanHeaderEnd, Lparen, Rparen
<1>2. lparen > 0
  BY <1>1
<1>3. at > 0
  BY <1>2
<1>4. at \in 1..Len(s)
  BY <1>3, AtTableInText
<1>5. lparen = FindNextChar(s, at + 2, "(") /\ at + 2 \in Nat \ {0}
  BY <1>3, <1>4
<1>6. lparen \in 1..Len(s)
  BY <1>2, <1>5, NextCharInText
<1>7. ScanHeaderEnd(s) = FindMatchingParen(s, lparen)
  BY <1>1, <1>2
<1>8. FindMatchingParen(s, lparen) \notin {Incomplete, Malformed}
  BY <1>7 DEF Incomplete, Malformed
<1>9. lparen \in Nat
  BY <1>6
<1>10. FindMatchingParen(s, lparen) \in (lparen + 1)..Len(s)
  BY <1>8, <1>9, MatchingParenInText
<1> HIDE DEF lparen
<1> QED
  BY <1>6, <1>7, <1>10

\* A row that find_next_row cuts out lies in the text and is enclosed in
\* parentheses.
LEMMA FoundRowInText ==
  ASSUME NEW s \in Seq(ByteClass), FindNextRow(s).kind = "found"
  PROVE  /\ FindNextRow(s).from \in 1..Len(s)
         /\ FindNextRow(s).to \in 1..Len(s)
         /\ FindNextRow(s).from < FindNextRow(s).to
         /\ s[FindNextRow(s).from] = "("
         /\ s[FindNextRow(s).to] = ")"
<1> DEFINE w    == Walk(s, 1)
           S    == {i \in 1..Len(s) : i \in w.at /\ s[i] \notin {"sp", "nl"}}
           stop == IF w.malformed THEN Malformed ELSE Incomplete
           i    == IF First(S) = {} THEN stop ELSE CHOOSE k \in First(S) : TRUE
           end  == FindMatchingParen(s, i)
<1>1. FindNextRow(s) = RowAt(s, i)
  BY DEF FindNextRow, Seek, SeekOn, FirstAt, TheOne
<1>2. /\ i \notin {Incomplete, Malformed} /\ s[i] = "("
      /\ end \notin {Incomplete, Malformed}
      /\ FindNextRow(s) = FindRow("found", i, end)
  <2> HIDE DEF i
  <2> QED BY <1>1 DEF RowAt, RowBetween, FindRow, Incomplete, Malformed
<1>3. i \in S
  BY <1>2 DEF First
<1>4. i \in 1..Len(s)
  BY <1>3
<1>5. end \in (i + 1)..Len(s) /\ s[end] = ")"
  <2> HIDE DEF i
  <2> QED BY <1>2, <1>4, MatchingParenInText DEF end
<1> HIDE DEF i
<1> QED
  BY <1>2, <1>4, <1>5 DEF FindRow

-----------------------------------------------------------------------------
\* Sequence facts about the buffer.

\* The buffer between two positions of the document.
LEMMA BufferedBytes ==
  ASSUME NEW d \in Seq(ByteClass), NEW lo \in Nat, NEW hi \in lo..Len(d)
  PROVE  LET p == SubSeq(d, lo + 1, hi)
         IN  /\ p \in Seq(ByteClass) /\ Len(p) = hi - lo
             /\ \A i \in 1..Len(p) : p[i] = d[lo + i]
  BY SubSeqProperties

\* Draining a prefix of the buffer leaves the bytes that follow it.
LEMMA DrainedBytes ==
  ASSUME NEW d \in Seq(ByteClass), NEW lo \in Nat, NEW hi \in lo..Len(d),
         NEW n \in 0..(hi - lo)
  PROVE  LET p == SubSeq(d, lo + 1, hi)
         IN  SubSeq(p, n + 1, Len(p)) = SubSeq(d, lo + n + 1, hi)
<1> DEFINE p == SubSeq(d, lo + 1, hi)
           l == SubSeq(p, n + 1, Len(p))
           r == SubSeq(d, lo + n + 1, hi)
<1>1. p \in Seq(ByteClass) /\ Len(p) = hi - lo /\ \A i \in 1..Len(p) : p[i] = d[lo + i]
  BY BufferedBytes
<1>2. r \in Seq(ByteClass) /\ Len(r) = hi - lo - n
      /\ \A i \in 1..Len(r) : r[i] = d[lo + n + i]
  BY SubSeqProperties
<1> HIDE DEF p
<1>3. l \in Seq(ByteClass) /\ Len(l) = hi - lo - n
      /\ \A i \in 1..Len(l) : l[i] = p[n + i]
  BY <1>1, SubSeqProperties
<1> HIDE DEF l, r
<1>4. l = r
  BY <1>1, <1>2, <1>3, SeqEqual
<1> QED
  BY <1>4 DEF p, l, r

\* A read appends the bytes that follow those in the buffer.
LEMMA PulledBytes ==
  ASSUME NEW d \in Seq(ByteClass), NEW lo \in Nat, NEW hi \in lo..Len(d),
         NEW n \in Nat, hi + n <= Len(d)
  PROVE  SubSeq(d, lo + 1, hi) \o SubSeq(d, hi + 1, hi + n) = SubSeq(d, lo + 1, hi + n)
<1> DEFINE p == SubSeq(d, lo + 1, hi)
           q == SubSeq(d, hi + 1, hi + n)
           r == SubSeq(d, lo + 1, hi + n)
<1>1. p \in Seq(ByteClass) /\ Len(p) = hi - lo /\ \A i \in 1..Len(p) : p[i] = d[lo + i]
  BY SubSeqProperties
<1>2. q \in Seq(ByteClass) /\ Len(q) = n /\ \A i \in 1..Len(q) : q[i] = d[hi + i]
  BY SubSeqProperties
<1>3. r \in Seq(ByteClass) /\ Len(r) = hi + n - lo /\ \A i \in 1..Len(r) : r[i] = d[lo + i]
  BY SubSeqProperties
<1> HIDE DEF p, q, r
<1>4. /\ p \o q \in Seq(ByteClass) /\ Len(p \o q) = Len(p) + Len(q)
      /\ \A i \in 1..(Len(p) + Len(q)) :
           (p \o q)[i] = IF i <= Len(p) THEN p[i] ELSE q[i - Len(p)]
  BY <1>1, <1>2, ConcatProperties
<1>5. \A i \in 1..Len(r) : (p \o q)[i] = r[i]
  <2> TAKE i \in 1..Len(r)
  <2>1. i \in 1..(Len(p) + Len(q)) /\ r[i] = d[lo + i]
    BY <1>1, <1>2, <1>3
  <2>2. CASE i <= Len(p)
    BY <2>1, <2>2, <1>1, <1>4
  <2>3. CASE i > Len(p)
    <3>1. i - Len(p) \in 1..Len(q) /\ hi + (i - Len(p)) = lo + i
      BY <2>1, <2>3, <1>1, <1>2
    <3>2. (p \o q)[i] = q[i - Len(p)]
      BY <2>1, <2>3, <1>1, <1>4
    <3>3. q[i - Len(p)] = d[hi + (i - Len(p))]
      BY <3>1, <1>2
    <3> QED
      BY <3>1, <3>2, <3>3, <2>1
  <2>4. i <= Len(p) \/ i > Len(p)
    BY <1>1
  <2> QED
    BY <2>2, <2>3, <2>4
<1>6. p \o q = r
  <2> DEFINE c == p \o q
  <2>1. c \in Seq(ByteClass) /\ Len(c) = Len(r) /\ \A i \in 1..Len(c) : c[i] = r[i]
    BY <1>1, <1>2, <1>3, <1>4, <1>5
  <2> HIDE DEF c
  <2>2. c = r
    BY <2>1, <1>3, SeqEqual
  <2> QED
    BY <2>2 DEF c
<1> QED
  BY <1>6 DEF p, q, r

-----------------------------------------------------------------------------
(***************************************************************************)
(* Types, conservation of bytes and the bound of the buffer.  The type     *)
(* invariant needs conservation: that used bytes never outrun read ones    *)
(* follows from the buffer holding exactly what lies between them.         *)
(***************************************************************************)
Conserving == TypeOK /\ BytesConserved /\ BufferBounded

\* A position that is drained lies in the buffer.
LEMMA DrainConserves ==
  ASSUME Conserving, NEW end \in 1..Len(pending), Drain(end), UNCHANGED <<doc, got>>
  PROVE  /\ base' \in (base + 1)..got /\ base' = base + end
         /\ pending' \in Seq(ByteClass)
         /\ BytesConserved' /\ BufferBounded'
<1>1. doc \in Seq(ByteClass)
  BY DocsAssumption DEF Conserving, TypeOK
<1>2. /\ base \in Nat /\ got \in base..Len(doc) /\ pending = SubSeq(doc, base + 1, got)
  BY <1>1 DEF Conserving, TypeOK, BytesConserved
<1>3. Len(pending) = got - base
  BY <1>1, <1>2, BufferedBytes
<1>4. end \in 0..(got - base)
  BY <1>2, <1>3
<1>5. pending' = SubSeq(doc, base + end + 1, got)
  BY <1>1, <1>2, <1>4, DrainedBytes DEF Drain
<1>6. base' = base + end /\ doc' = doc /\ got' = got
  BY DEF Drain
<1>7. BytesConserved'
  BY <1>5, <1>6 DEF BytesConserved
<1>8. base + end \in Nat /\ got \in (base + end)..Len(doc)
  BY <1>2, <1>4
<1>9. pending' \in Seq(ByteClass) /\ Len(pending') = got - (base + end)
  BY <1>1, <1>5, <1>8, BufferedBytes
<1>10. BufferBounded'
  BY <1>2, <1>3, <1>4, <1>9, LimitsAssumption DEF Conserving, BufferBounded
<1> QED
  BY <1>2, <1>3, <1>6, <1>7, <1>9, <1>10

\* A reader that has read nothing has lost nothing.
LEMMA ConservingInit == Init => Conserving
<1> SUFFICES ASSUME Init PROVE Conserving
  OBVIOUS
<1>1. doc \in Seq(ByteClass) /\ Len(doc) \in Nat
  BY DocsAssumption DEF Init
<1>2. pending \in Seq(ByteClass) /\ out \in Seq([from : Nat, to : Nat])
  BY EmptySeq DEF Init
<1>3. TypeOK
  <2>1. got \in 0..Len(doc) /\ base \in 0..got /\ origin \in 0..base
    BY <1>1 DEF Init
  <2>2. srcEof \in BOOLEAN /\ finished \in BOOLEAN
    BY DEF Init
  <2>3. pathsChecked \in SUBSET Types
    BY DEF Init
  <2> QED
    BY <1>2, <2>1, <2>2, <2>3 DEF Init, TypeOK
<1>4. SubSeq(doc, 1, 0) = <<>>
  BY <1>1, SubSeqEmpty
<1>5. BytesConserved
  BY <1>4 DEF Init, BytesConserved
<1>6. BufferBounded
  BY LimitsAssumption DEF Init, BufferBounded
<1> QED
  BY <1>3, <1>5, <1>6 DEF Conserving

\* A read that brings bytes puts all of them at the end of the buffer.
LEMMA PullConserves ==
  ASSUME Conserving, PullBytes,
         Len(pending) < HeaderMax \/ Len(pending) < MaxMessageSize
  PROVE  Conserving'
<1>1. PICK n \in 1..PullSize :
        /\ got + n <= Len(doc) /\ got' = got + n
        /\ pending' = pending \o SubSeq(doc, got + 1, got + n)
  BY DEF PullBytes
<1>2. doc \in Seq(ByteClass)
  BY DocsAssumption DEF Conserving, TypeOK
<1>3. /\ n \in Nat /\ base \in Nat /\ got \in base..Len(doc) /\ got \in Nat
      /\ pending = SubSeq(doc, base + 1, got)
  BY <1>2, LimitsAssumption DEF Conserving, TypeOK, BytesConserved
<1>4. pending' = SubSeq(doc, base + 1, got + n)
  BY <1>1, <1>2, <1>3, PulledBytes
<1>5. BytesConserved'
  BY <1>1, <1>4 DEF BytesConserved, PullBytes
<1>6. Len(pending) = got - base
  BY <1>2, <1>3, BufferedBytes
<1>7. got + n \in base..Len(doc)
  BY <1>1, <1>2, <1>3
<1>8. pending' \in Seq(ByteClass) /\ Len(pending') = got + n - base
  BY <1>2, <1>3, <1>4, <1>7, BufferedBytes
<1>9. BufferBounded'
  BY <1>1, <1>3, <1>6, <1>8, LimitsAssumption DEF BufferBounded
<1>10. TypeOK'
  BY <1>1, <1>2, <1>3, <1>7, <1>8 DEF Conserving, TypeOK, PullBytes, made
<1> QED
  BY <1>5, <1>9, <1>10 DEF Conserving

\* The drain behind the header uses up what it cuts off.
LEMMA HeaderConserves == Conserving /\ call = New /\ HeaderFound(ScanHeaderEnd(pending)) => Conserving'
<1> SUFFICES ASSUME Conserving, call = New, HeaderFound(ScanHeaderEnd(pending)) PROVE Conserving'
  OBVIOUS
<1> DEFINE end == ScanHeaderEnd(pending)
<1>1. pending \in Seq(ByteClass)
  BY DEF Conserving, TypeOK
<1>2. end \in 1..Len(pending) /\ Drain(end) /\ UNCHANGED <<doc, got>>
  BY <1>1, HeaderEndInText DEF HeaderFound, source
<1>3. /\ base' \in (base + 1)..got /\ pending' \in Seq(ByteClass)
      /\ BytesConserved' /\ BufferBounded'
  BY <1>2, DrainConserves
<1>4. TypeOK'
  BY <1>3 DEF HeaderFound, Conserving, TypeOK, Return, source, made
<1> QED
  BY <1>3, <1>4 DEF Conserving

\* So does the drain behind a row.
LEMMA TakeRowConserves ==
  ASSUME Conserving, call \in Calls,
         FindNextRow(pending).kind = "found",
         TakeRow(FindNextRow(pending)) \/ RefuseRow(FindNextRow(pending))
  PROVE  Conserving'
<1> DEFINE found == FindNextRow(pending)
<1>1. pending \in Seq(ByteClass)
  BY DEF Conserving, TypeOK
<1>2. found.from \in 1..Len(pending) /\ found.to \in 1..Len(pending)
  BY <1>1, FoundRowInText
<1>3. Drain(found.to) /\ UNCHANGED <<doc, got>>
  BY DEF TakeRow, RefuseRow, source
<1>4. /\ base' \in (base + 1)..got /\ pending' \in Seq(ByteClass)
      /\ BytesConserved' /\ BufferBounded'
  BY <1>2, <1>3, DrainConserves
<1>5. [from |-> base + found.from, to |-> base + found.to] \in [from : Nat, to : Nat]
  BY <1>2 DEF Conserving, TypeOK
<1>6. out' \in Seq([from : Nat, to : Nat])
  <2>1. out \in Seq([from : Nat, to : Nat])
    BY DEF Conserving, TypeOK
  <2>2. Append(out, [from |-> base + found.from, to |-> base + found.to])
          \in Seq([from : Nat, to : Nat])
    BY <1>5, <2>1, AppendProperties
  <2> QED
    BY <2>1, <2>2 DEF TakeRow, RefuseRow
<1>7. pathsChecked' \in SUBSET Types
  BY DEF TakeRow, RefuseRow, Bind, Conserving, TypeOK
<1>8. call' = NoCall /\ ret' \in {"row", "message", "error"}
  BY DEF TakeRow, RefuseRow, Bind, Return
<1>9. err' \in Errors \cup {"none"}
  BY DEF TakeRow, RefuseRow, Conserving, TypeOK, Errors
<1>10. TypeOK'
  BY <1>4, <1>6, <1>7, <1>8, <1>9 DEF TakeRow, RefuseRow, Conserving, TypeOK, source, made
<1> QED
  BY <1>4, <1>10 DEF Conserving

\* A failure leaves the buffer alone.
LEMMA FailConserves ==
  ASSUME Conserving, NEW e \in Errors, Fail(e)
  PROVE  Conserving'
<1>1. TypeOK'
  BY DEF Conserving, TypeOK, Fail, Return, source, made
<1>2. BytesConserved' /\ BufferBounded'
  BY DEF Conserving, BytesConserved, BufferBounded, Fail, source
<1> QED
  BY <1>1, <1>2 DEF Conserving

\* tail's reader begins where the rest of the first one's bytes begins.
LEMMA ReopenConserves == Conserving /\ ReopenTail => Conserving'
<1> SUFFICES ASSUME Conserving, ReopenTail PROVE Conserving'
  OBVIOUS
<1>1. doc \in Seq(ByteClass) /\ base \in 0..Len(doc)
  BY DocsAssumption DEF Conserving, TypeOK
<1>2. pending' = <<>> /\ got' = base /\ base' = base /\ doc' = doc
  BY DEF ReopenTail
<1>3. SubSeq(doc, base + 1, base) = <<>>
  BY <1>1, SubSeqEmpty
<1>4. BytesConserved'
  BY <1>2, <1>3 DEF BytesConserved
<1>5. BufferBounded'
  BY <1>2, LimitsAssumption DEF BufferBounded
<1>6. pending' \in Seq(ByteClass) /\ out' \in Seq([from : Nat, to : Nat])
  BY EmptySeq DEF ReopenTail
<1>7. TypeOK'
  <2>1. got' \in 0..Len(doc') /\ base' \in 0..got' /\ origin' \in 0..base'
    BY <1>1, <1>2 DEF ReopenTail
  <2>2. srcEof' \in BOOLEAN /\ finished' \in BOOLEAN
    BY DEF ReopenTail
  <2>3. pathsChecked' \in SUBSET Types /\ doc' \in Docs
    BY DEF Conserving, TypeOK, ReopenTail
  <2> QED
    BY <1>6, <2>1, <2>2, <2>3 DEF TypeOK, ReopenTail
<1> QED
  BY <1>4, <1>5, <1>7 DEF Conserving

\* A turn that ends in a read, whatever the read does.
LEMMA PullTurnConserves ==
  ASSUME Conserving, Pull,
         Len(pending) < HeaderMax \/ Len(pending) < MaxMessageSize
  PROVE  Conserving'
<1>1. CASE PullBytes
  BY <1>1, PullConserves
<1>2. CASE PullEof
  <2>1. srcEof' \in BOOLEAN
    BY <1>2 DEF PullEof
  <2>2. TypeOK'
    BY <1>2, <2>1 DEF PullEof, Conserving, TypeOK, reader, made
  <2>3. BytesConserved' /\ BufferBounded'
    BY <1>2 DEF PullEof, Conserving, BytesConserved, BufferBounded, reader
  <2> QED
    BY <2>2, <2>3 DEF Conserving
<1>3. CASE PullFails
  BY <1>3, FailConserves DEF PullFails, Errors
<1> QED
  BY <1>1, <1>2, <1>3 DEF Pull

\* Every step of the reader keeps Conserving.
LEMMA ConservingStep == Conserving /\ [Next]_vars => Conserving'
<1> SUFFICES ASSUME Conserving, [Next]_vars PROVE Conserving'
  OBVIOUS
<1>1. CASE ReadHeader
  <2>1. CASE HeaderFound(ScanHeaderEnd(pending))
    BY <1>1, <2>1, HeaderConserves DEF ReadHeader, HeaderScanned
  <2>2. CASE HeaderRefused(ScanHeaderEnd(pending))
    <3>1. \E e \in Errors : Fail(e)
      BY <2>2 DEF HeaderRefused, Errors
    <3> QED
      BY <3>1, FailConserves
  <2>3. CASE HeaderMore(ScanHeaderEnd(pending))
    BY <2>3, PullTurnConserves DEF HeaderMore
  <2> QED
    BY <1>1, <2>1, <2>2, <2>3 DEF ReadHeader, HeaderScanned
<1>2. CASE NextRow
  <2>1. CASE Again
    <3>1. TypeOK'
      BY <2>1 DEF Again, Return, Conserving, TypeOK, source, reader, made
    <3>2. BytesConserved' /\ BufferBounded'
      BY <2>1 DEF Again, Conserving, BytesConserved, BufferBounded, source, reader
    <3> QED
      BY <3>1, <3>2 DEF Conserving
  <2>2. CASE Row(FindNextRow(pending))
    BY <1>2, <2>2, TakeRowConserves DEF NextRow, RowScanned, Row
  <2>3. CASE NoRow(FindNextRow(pending).kind)
    <3>1. CASE Finish
      <4>1. finished' \in BOOLEAN
        BY <3>1 DEF Finish
      <4>2. TypeOK'
        BY <3>1, <4>1 DEF Finish, Return, Conserving, TypeOK, source, made
      <4>3. BytesConserved' /\ BufferBounded'
        BY <3>1 DEF Finish, Conserving, BytesConserved, BufferBounded, source
      <4> QED
        BY <4>2, <4>3 DEF Conserving
    <3>2. CASE \E e \in Errors : Fail(e)
      BY <3>2, FailConserves
    <3> QED
      BY <2>3, <3>1, <3>2 DEF NoRow, Errors
  <2>4. CASE RowMore(FindNextRow(pending).kind)
    BY <2>4, PullTurnConserves DEF RowMore
  <2> QED
    BY <1>2, <2>1, <2>2, <2>3, <2>4 DEF NextRow, RowScanned
<1>3. CASE Call
  <2>1. TypeOK'
    BY <1>3 DEF Call, Conserving, TypeOK, source, reader, made
  <2>2. BytesConserved' /\ BufferBounded'
    BY <1>3 DEF Call, Conserving, BytesConserved, BufferBounded, source, reader
  <2> QED
    BY <2>1, <2>2 DEF Conserving
<1>4. CASE ReopenTail
  BY <1>4, ReopenConserves
<1>5. CASE Refused \/ UNCHANGED vars
  BY <1>5 DEF Refused, vars, Conserving, TypeOK, BytesConserved, BufferBounded
<1> QED
  BY <1>1, <1>2, <1>3, <1>4, <1>5 DEF Next, Turn

\* In every state of a reader, the buffer holds exactly the bytes of the
\* stream that were read and are not used up, and fewer than the larger limit
\* and one read, however the source splits the stream.
THEOREM ReaderConserves == Spec => []Conserving
<1> QED
  BY ConservingInit, ConservingStep, PTL DEF Spec

\* The types of the reader's state.
THEOREM TypeCorrect == Spec => []TypeOK
<1>1. Conserving => TypeOK
  BY DEF Conserving
<1> QED
  BY <1>1, ReaderConserves, PTL

\* No byte is lost, repeated or reordered between source, buffer and rows.
THEOREM NoByteLost == Spec => []BytesConserved
<1>1. Conserving => BytesConserved
  BY DEF Conserving
<1> QED
  BY <1>1, ReaderConserves, PTL

\* The buffer is bounded by the limits, whatever the stream carries.
THEOREM BufferStaysBounded == Spec => []BufferBounded
<1>1. Conserving => BufferBounded
  BY DEF Conserving
<1> QED
  BY <1>1, ReaderConserves, PTL

-----------------------------------------------------------------------------
(***************************************************************************)
(* The rows.  Only TakeRow hands one out; every other step leaves them, or *)
(* starts a new reader.  That the row it hands out lies after the last one *)
(* rests on conservation: the buffer begins where the used bytes end.      *)
(***************************************************************************)
LEMMA RowSteps ==
  ASSUME Conserving, [Next]_vars
  PROVE  \/ ReopenTail
         \/ /\ FindNextRow(pending).kind = "found"
            /\ TakeRow(FindNextRow(pending))
         \/ UNCHANGED <<doc, origin, out>> /\ base' \in base..got
<1>0. base \in base..got
  BY DocsAssumption DEF Conserving, TypeOK
<1>1. CASE ReadHeader
  <2>1. CASE HeaderFound(ScanHeaderEnd(pending))
    <3>1. pending \in Seq(ByteClass)
      BY DEF Conserving, TypeOK
    <3>2. ScanHeaderEnd(pending) \in 1..Len(pending)
      BY <2>1, <3>1, HeaderEndInText DEF HeaderFound
    <3>3. Drain(ScanHeaderEnd(pending)) /\ UNCHANGED <<doc, got, origin, out>>
      BY <2>1 DEF HeaderFound, source, made
    <3>4. base' \in (base + 1)..got
      BY <3>2, <3>3, DrainConserves
    <3> QED
      BY <1>0, <3>3, <3>4 DEF Conserving, TypeOK
  <2>2. CASE HeaderRefused(ScanHeaderEnd(pending)) \/ HeaderMore(ScanHeaderEnd(pending))
    BY <1>0, <2>2 DEF HeaderRefused, HeaderMore, Pull, PullBytes, PullEof, PullFails,
                      Fail, source, made
  <2> QED
    BY <1>1, <2>1, <2>2 DEF ReadHeader, HeaderScanned
<1>2. CASE NextRow
  <2>1. CASE Row(FindNextRow(pending))
    <3> DEFINE found == FindNextRow(pending)
    <3>1. CASE RefuseRow(found)
      <4>1. pending \in Seq(ByteClass)
        BY DEF Conserving, TypeOK
      <4>2. found.to \in 1..Len(pending)
        BY <2>1, <4>1, FoundRowInText DEF Row
      <4>3. Drain(found.to) /\ UNCHANGED <<doc, got, origin, out>>
        BY <3>1 DEF RefuseRow, source, made
      <4>4. base' \in (base + 1)..got
        BY <4>2, <4>3, DrainConserves
      <4> QED
        BY <1>0, <4>3, <4>4 DEF Conserving, TypeOK
    <3> QED
      BY <2>1, <3>1 DEF Row
  <2>2. CASE Again \/ NoRow(FindNextRow(pending).kind) \/ RowMore(FindNextRow(pending).kind)
    BY <1>0, <2>2 DEF Again, NoRow, RowMore, Pull, PullBytes, PullEof, PullFails,
                      Finish, Fail, source, made
  <2> QED
    BY <1>2, <2>1, <2>2 DEF NextRow, RowScanned
<1>3. CASE Call \/ Refused \/ UNCHANGED vars
  BY <1>0, <1>3 DEF Call, Refused, vars, source, made
<1> QED
  BY <1>1, <1>2, <1>3 DEF Next, Turn

\* Every step keeps the rows apart and in order.
LEMMA RowsApartStep ==
  ASSUME Conserving, RowsApart, [Next]_vars
  PROVE  RowsApart'
<1>1. /\ base \in Nat /\ got \in base..Len(doc) /\ origin \in 0..base
      /\ out \in Seq([from : Nat, to : Nat]) /\ doc \in Seq(ByteClass)
  BY DocsAssumption DEF Conserving, TypeOK
<1>2. \A i \in 1..Len(out) : out[i].from \in Nat /\ out[i].to \in Nat
  <2> TAKE i \in 1..Len(out)
  <2>1. out[i] \in [from : Nat, to : Nat]
    BY <1>1, ElementOfSeq
  <2> QED
    BY <2>1
<1>3. CASE ReopenTail
  BY <1>3 DEF ReopenTail, RowsApart
<1>4. CASE UNCHANGED <<doc, origin, out>> /\ base' \in base..got
  <2> SUFFICES ASSUME NEW i \in 1..Len(out)
               PROVE  /\ doc[out[i].from] = "(" /\ doc[out[i].to] = ")"
                      /\ out[i].from <= out[i].to /\ out[i].to <= base'
                      /\ out[i].from > (IF i = 1 THEN origin ELSE out[i - 1].to)
    BY <1>4 DEF RowsApart
  <2>1. /\ doc[out[i].from] = "(" /\ doc[out[i].to] = ")"
        /\ out[i].from <= out[i].to /\ out[i].to <= base
        /\ out[i].from > (IF i = 1 THEN origin ELSE out[i - 1].to)
    BY DEF RowsApart
  <2> QED
    BY <1>1, <1>4, <1>2, <2>1
<1>5. CASE /\ FindNextRow(pending).kind = "found"
           /\ TakeRow(FindNextRow(pending))
  <2> DEFINE found == FindNextRow(pending)
             row   == [from |-> base + found.from, to |-> base + found.to]
  <2>1. pending \in Seq(ByteClass) /\ pending = SubSeq(doc, base + 1, got)
    BY DEF Conserving, TypeOK, BytesConserved
  <2>2. /\ found.from \in 1..Len(pending) /\ found.to \in 1..Len(pending)
        /\ found.from < found.to
        /\ pending[found.from] = "(" /\ pending[found.to] = ")"
    BY <1>5, <2>1, FoundRowInText
  <2>3. doc[row.from] = "(" /\ doc[row.to] = ")"
    BY <1>1, <2>1, <2>2, BufferedBytes
  <2>4. /\ out' = Append(out, row) /\ base' = base + found.to
        /\ UNCHANGED <<doc, origin>>
    BY <1>5 DEF TakeRow, Drain, source, made
  <2>5. base < row.from /\ row.from < row.to /\ row.to = base'
    BY <1>1, <2>2, <2>4
  <2>6. row.from \in Nat /\ row.to \in Nat
    BY <1>1, <2>2
  <2> HIDE DEF row, found
  <2>7. /\ Len(out') = Len(out) + 1 /\ out'[Len(out) + 1] = row
        /\ \A i \in 1..Len(out) : out'[i] = out[i]
    BY <1>1, <2>4
  <2> SUFFICES ASSUME NEW i \in 1..Len(out')
               PROVE  /\ doc[out'[i].from] = "(" /\ doc[out'[i].to] = ")"
                      /\ out'[i].from <= out'[i].to /\ out'[i].to <= base'
                      /\ out'[i].from > (IF i = 1 THEN origin ELSE out'[i - 1].to)
    BY <2>4 DEF RowsApart
  <2>8. CASE i = Len(out) + 1
    <3>1. out'[i] = row
      BY <2>7, <2>8
    <3>2. (IF i = 1 THEN origin ELSE out'[i - 1].to) <= base
      <4>1. CASE Len(out) = 0
        BY <1>1, <2>8, <4>1
      <4>2. CASE Len(out) # 0
        <5>1. Len(out) \in 1..Len(out) /\ i - 1 = Len(out) /\ i # 1
          BY <1>1, <2>8, <4>2
        <5>2. out[Len(out)].to <= base
          BY <5>1 DEF RowsApart
        <5> QED
          BY <2>7, <5>1, <5>2
      <4> QED
        BY <4>1, <4>2
    <3>3. (IF i = 1 THEN origin ELSE out'[i - 1].to) \in Nat
      <4>1. CASE Len(out) = 0
        BY <1>1, <2>8, <4>1
      <4>2. CASE Len(out) # 0
        <5>1. Len(out) \in 1..Len(out) /\ i - 1 = Len(out) /\ i # 1
          BY <1>1, <2>8, <4>2
        <5> QED
          BY <1>2, <2>7, <5>1
      <4> QED
        BY <4>1, <4>2
    <3> QED
      BY <1>1, <2>6, <2>3, <2>5, <3>1, <3>2, <3>3
  <2>9. CASE i \in 1..Len(out)
    <3>1. /\ doc[out[i].from] = "(" /\ doc[out[i].to] = ")"
          /\ out[i].from <= out[i].to /\ out[i].to <= base
          /\ out[i].from > (IF i = 1 THEN origin ELSE out[i - 1].to)
      BY <2>9 DEF RowsApart
    <3>2. i # 1 => i - 1 \in 1..Len(out)
      BY <1>1, <2>9
    <3>3. out'[i] = out[i] /\ (i # 1 => out'[i - 1] = out[i - 1])
      BY <2>7, <2>9, <3>2
    <3>4. out[i].to \in Nat
      BY <1>2, <2>9
    <3>5. base' \in Nat /\ base <= base'
      BY <1>1, <2>6, <2>5
    <3>6. out[i].to <= base'
      BY <1>1, <3>1, <3>4, <3>5
    <3> QED
      BY <3>1, <3>3, <3>6
  <2> QED
    BY <1>1, <2>7, <2>8, <2>9
<1> QED
  BY <1>3, <1>4, <1>5, RowSteps

-----------------------------------------------------------------------------
(***************************************************************************)
(* Bound rows.  The types whose paths are known to fit fit the columns of  *)
(* this reader, because a new reader knows none and a reader's columns     *)
(* never change once its header is read.                                   *)
(***************************************************************************)
PathsFit ==
  /\ \A t \in pathsChecked : <<t, columns>> \in Fits
  /\ call = New => pathsChecked = {}
  /\ call # NoCall => ret = "none"

\* The calls are different values.
LEMMA CallsDiffer == NoCall # New /\ \A t \in Types : NoCall # Scan(t) /\ New # Scan(t)
  BY DEF NoCall, New, Scan

\* Every step keeps to types the columns fit.
LEMMA PathsFitStep ==
  ASSUME PathsFit, [Next]_vars
  PROVE  PathsFit'
<1>1. CASE ReadHeader
  BY <1>1 DEF ReadHeader, HeaderScanned, HeaderFound, HeaderRefused, HeaderMore, Pull, PullBytes,
              PullEof, PullFails, Fail, Return, reader, PathsFit
<1>2. CASE NextRow
  <2>1. CASE Row(FindNextRow(pending))
    <3>1. call' = NoCall /\ columns' = columns
      BY <2>1 DEF Row, TakeRow, RefuseRow, Bind, Return
    <3>2. \A t \in pathsChecked' : <<t, columns>> \in Fits
      BY <2>1 DEF Row, TakeRow, RefuseRow, Bind, Checked, PathsFit
    <3> QED
      BY <3>1, <3>2, CallsDiffer DEF PathsFit
  <2>2. CASE Again \/ NoRow(FindNextRow(pending).kind) \/ RowMore(FindNextRow(pending).kind)
    BY <2>2, CallsDiffer DEF Again, NoRow, RowMore, Pull, PullBytes, PullEof, PullFails,
                             Finish, Fail, Return, reader, PathsFit
  <2> QED
    BY <1>2, <2>1, <2>2 DEF NextRow, RowScanned
<1>3. CASE Call
  BY <1>3 DEF Call, Calls, NextOp, Scan, New, reader, PathsFit
<1>4. CASE ReopenTail
  BY <1>4 DEF ReopenTail, PathsFit
<1>5. CASE Refused \/ UNCHANGED vars
  BY <1>5 DEF Refused, vars, PathsFit
<1> QED
  BY <1>1, <1>2, <1>3, <1>4, <1>5 DEF Next, Turn

\* A row that is bound is bound to a type the columns fit.
LEMMA MessageFits ==
  ASSUME PathsFit, [Next]_vars
  PROVE  [ret' = "message" => \E t \in Types : call = Scan(t) /\ <<t, columns>> \in Fits]_vars
<1> SUFFICES ASSUME Next, ret' = "message", ~UNCHANGED vars
             PROVE  \E t \in Types : call = Scan(t) /\ <<t, columns>> \in Fits
  OBVIOUS
<1>1. CASE Row(FindNextRow(pending))
  BY <1>1 DEF Row, TakeRow, RefuseRow, Bind, Checked, Return, PathsFit
<1>2. CASE Turn /\ ~Row(FindNextRow(pending))
  BY <1>2, CallsDiffer DEF Turn, ReadHeader, HeaderScanned, HeaderFound, HeaderRefused, HeaderMore, NextRow, RowScanned, Calls, NextOp,
         Scan, NoCall, New, Again, NoRow, RowMore, Pull, PullBytes, PullEof, PullFails,
         Finish, Fail, Return, PathsFit
<1>3. CASE Call \/ ReopenTail \/ Refused
  BY <1>3 DEF Call, ReopenTail, Refused
<1> QED
  BY <1>1, <1>2, <1>3 DEF Next

\* A row is bound only to a type that the header's columns are paths of,
\* though the paths are not checked again while the type stays the same.
THEOREM BoundTypesFit == Spec => BoundTypeFits
<1>1. Init => PathsFit
  BY DEF Init, PathsFit, New, NoCall
<1>2. PathsFit /\ [Next]_vars => PathsFit'
  BY PathsFitStep
<1>3. PathsFit /\ [Next]_vars
        => [ret' = "message" => \E t \in Types : call = Scan(t) /\ <<t, columns>> \in Fits]_vars
  BY MessageFits
<1> QED
  BY <1>1, <1>2, <1>3, PTL DEF Spec, BoundTypeFits

-----------------------------------------------------------------------------
(***************************************************************************)
(* Failure.  A failed reader is not at its end, so no reader is made of    *)
(* its tail, and it is not reading its header, so it reads nothing.        *)
(***************************************************************************)
Failed ==
  /\ err # "none" => ~finished /\ call # New
  /\ call = New => ~finished

\* Every step of a failed reader leaves it failed.
LEMMA FailedStep ==
  ASSUME Failed, [Next]_vars
  PROVE  Failed'
<1>1. CASE ReadHeader
  BY <1>1, CallsDiffer DEF ReadHeader, HeaderScanned, HeaderFound, HeaderRefused, HeaderMore, Pull, PullBytes, PullEof,
              PullFails, Fail, Return, reader, Failed
<1>2. CASE NextRow
  BY <1>2, CallsDiffer DEF NextRow, RowScanned, Row, TakeRow, RefuseRow, Bind, Again, NoRow, RowMore,
              Pull, PullBytes, PullEof, PullFails, Finish, Fail, Return, reader, Failed
<1>3. CASE Call
  BY <1>3 DEF Call, Calls, NextOp, Scan, New, reader, Failed
<1>4. CASE ReopenTail
  BY <1>4 DEF ReopenTail, Failed
<1>5. CASE Refused \/ UNCHANGED vars
  BY <1>5 DEF Refused, vars, Failed
<1> QED
  BY <1>1, <1>2, <1>3, <1>4, <1>5 DEF Next, Turn

\* A reader that has failed hands out no row and reads nothing, ever.
THEOREM FailureStays == Spec => FailureIsFinal
<1>1. Init => Failed
  BY DEF Init, Failed
<1>2. Failed /\ [Next]_vars => Failed'
  BY FailedStep
<1>3. Failed /\ [Next]_vars
        => [err # "none" => UNCHANGED <<source, reader, base, out, made>>]_vars
  BY DEF Failed, Next, Turn, ReadHeader, HeaderScanned, NextRow, RowScanned, Again, Call, ReopenTail, Refused
<1> QED
  BY <1>1, <1>2, <1>3, PTL DEF Spec, FailureIsFinal
-----------------------------------------------------------------------------
(***************************************************************************)
(* The header.  A reader that is still without one has used up nothing, so *)
(* its buffer is the start of what the parser reads; whether the rest has  *)
(* arrived decides no more than when the header is found.                  *)
(***************************************************************************)

\* What the parser reads from position n of the document on.
Rest(n) == SubSeq(doc, n + 1, Len(doc))

HeaderRead ==
  /\ HeaderAgrees
  /\ call = New => columns = 0
  /\ call \in Calls => Opened
  /\ ~Opened => base = origin
  /\ srcEof => got = Len(doc)
  /\ parsed.columns = Dataset(Rest(origin)).columns

\* The columns of ParsedFrom are those the parser reads in the bytes that are left.
LEMMA ParsedColumns ==
  ASSUME NEW n
  PROVE  ParsedFrom(n).columns = Dataset(Rest(n)).columns
<1>1. PICK d : d = Dataset(Rest(n))
  OBVIOUS
<1>2. {"columns", "rows"} \subseteq DOMAIN d
  <2>1. PICK t, h : t = Tokens(Rest(n)) /\ h = Header(t)
    OBVIOUS
  <2>2. PICK r, e : /\ r = RowsFrom(t, h.next, h.columns)
                    /\ e = (CASE t[r.next].kind = "Eof" -> "eof"
                              [] t[r.next].kind \in {"AtDirective", "AtDataset"} -> "directive"
                              [] OTHER -> "error")
    OBVIOUS
  <2>3. d = IF h.columns = 0 THEN [columns |-> 0, rows |-> <<>>, end |-> "error"]
            ELSE [columns |-> h.columns, rows |-> r.spans, end |-> e]
    BY <1>1, <2>1, <2>2 DEF Dataset
  <2> QED
    BY <2>3
<1>3. PICK rows : ParsedFrom(n) = [d EXCEPT !.rows = rows]
  BY <1>1 DEF ParsedFrom, Rest
<1> QED
  BY <1>1, <1>2, <1>3

\* The buffer is the start of what is not used up, and all of it once the source
\* is at its end.
LEMMA BufferIsStart ==
  ASSUME Conserving
  PROVE  /\ pending \in Seq(ByteClass) /\ Rest(base) \in Seq(ByteClass)
         /\ Extends(Rest(base), pending)
         /\ got = Len(doc) => pending = Rest(base)
<1>1. doc \in Seq(ByteClass) /\ base \in Nat /\ got \in base..Len(doc) /\ Len(doc) \in Nat
  BY DocsAssumption DEF Conserving, TypeOK
<1>2. pending = SubSeq(doc, base + 1, got)
  BY DEF Conserving, BytesConserved
<1>3. pending \in Seq(ByteClass) /\ Len(pending) = got - base
      /\ \A i \in 1..Len(pending) : pending[i] = doc[base + i]
  BY <1>1, <1>2, BufferedBytes
<1>4. PICK u : u = Rest(base)
  OBVIOUS
<1>5. u = SubSeq(doc, base + 1, Len(doc))
  BY <1>4 DEF Rest
<1>6. Len(doc) \in base..Len(doc)
  BY <1>1
<1>7. u \in Seq(ByteClass) /\ Len(u) = Len(doc) - base
      /\ \A i \in 1..Len(u) : u[i] = doc[base + i]
  BY <1>1, <1>5, <1>6, BufferedBytes
<1>8. Len(pending) <= Len(u)
  BY <1>1, <1>3, <1>7
<1>9. \A i \in 1..Len(pending) : u[i] = pending[i]
  BY <1>3, <1>7, <1>8
<1>10. Extends(u, pending)
  BY <1>8, <1>9 DEF Extends
<1> QED
  BY <1>2, <1>3, <1>4, <1>5, <1>7, <1>10

\* A text that extends another extends every start of it.
LEMMA StartExtends ==
  ASSUME NEW s \in Seq(ByteClass), NEW u \in Seq(ByteClass), Extends(u, s), NEW end \in 1..Len(s)
  PROVE  SubSeq(s, 1, end) \in Seq(ByteClass) /\ Extends(u, SubSeq(s, 1, end))
<1>1. PICK p : p = SubSeq(s, 1, end)
  OBVIOUS
<1>2. p \in Seq(ByteClass) /\ Len(p) = end /\ \A i \in 1..end : p[i] = s[i]
  BY <1>1, SubSeqProperties
<1>3. Len(s) <= Len(u) /\ \A i \in 1..Len(s) : u[i] = s[i]
  BY DEF Extends
<1>4. end <= Len(u) /\ \A i \in 1..end : u[i] = p[i]
  BY <1>2, <1>3
<1>5. Extends(u, p)
  BY <1>2, <1>4 DEF Extends
<1> QED
  BY <1>1, <1>2, <1>5

\* The header a reader opens with is the one the parser finds.
LEMMA FoundColumns ==
  ASSUME Conserving, HeaderRead, call = New, HeaderFound(ScanHeaderEnd(pending))
  PROVE  columns' > 0 /\ columns' = parsed.columns
<1>1. PICK end, u : end = ScanHeaderEnd(pending) /\ u = Rest(origin)
  OBVIOUS
<1>2. ~Opened
  BY DEF HeaderRead, Opened
<1>3. base = origin
  BY <1>2 DEF HeaderRead
<1>4. pending \in Seq(ByteClass) /\ u \in Seq(ByteClass) /\ Extends(u, pending)
  BY <1>1, <1>3, BufferIsStart
<1>5. end \in 1..Len(pending)
  BY <1>1, <1>4, HeaderEndInText DEF HeaderFound
<1>6. SubSeq(pending, 1, end) \in Seq(ByteClass) /\ Extends(u, SubSeq(pending, 1, end))
  BY <1>4, <1>5, StartExtends
<1>7. ParseHeader(SubSeq(pending, 1, end)) > 0 /\ columns' = ParseHeader(SubSeq(pending, 1, end))
  BY <1>1 DEF HeaderFound
<1>8. Dataset(u).columns = ParseHeader(SubSeq(pending, 1, end))
  BY <1>4, <1>6, <1>7, HeaderOfSlice
<1>9. parsed.columns = Dataset(u).columns
  BY <1>1 DEF HeaderRead
<1> QED
  BY <1>7, <1>8, <1>9

\* A reader that refuses a document has read far enough to know that the parser
\* finds no header in it, unless it is a limit that stopped it.
LEMMA RefusedColumns ==
  ASSUME Conserving, HeaderRead, call = New, HeaderRefused(ScanHeaderEnd(pending)),
         err' \in {"literal", "row", "inRow"}
  PROVE  parsed.columns = 0
<1> SUFFICES ASSUME parsed.columns # 0 PROVE FALSE
  OBVIOUS
<1>1. PICK end, u : end = ScanHeaderEnd(pending) /\ u = Rest(origin)
  OBVIOUS
<1>2. ~Opened
  BY DEF HeaderRead, Opened
<1>3. base = origin
  BY <1>2 DEF HeaderRead
<1>4. /\ pending \in Seq(ByteClass) /\ u \in Seq(ByteClass) /\ Extends(u, pending)
      /\ got = Len(doc) => pending = u
  BY <1>1, <1>3, BufferIsStart
<1>5. Dataset(u).columns # 0
  BY <1>1 DEF HeaderRead
<1>6. \/ end = Incomplete
      \/ /\ end \in 1..Len(pending)
         /\ ParseHeader(SubSeq(pending, 1, end)) = Dataset(u).columns
  BY <1>1, <1>4, <1>5, HeaderCut
<1>7. CASE end = Malformed
  BY <1>6, <1>7 DEF Malformed, Incomplete
<1>8. CASE end > 0 /\ ParseHeader(SubSeq(pending, 1, end)) = 0
  BY <1>5, <1>6, <1>8 DEF Incomplete
<1>9. CASE end = Incomplete /\ srcEof
  <2>1. pending = u
    BY <1>4, <1>9 DEF HeaderRead
  <2>2. ScanHeaderEnd(u) \in 1..Len(u)
    BY <1>4, <1>5, HeaderComplete
  <2>3. end \in 1..Len(u) /\ Len(u) \in Nat
    BY <1>1, <1>4, <2>1, <2>2
  <2> QED
    BY <1>9, <2>3 DEF Incomplete
<1>10. \/ end = Malformed
       \/ end > 0 /\ ParseHeader(SubSeq(pending, 1, end)) = 0
       \/ end = Incomplete /\ srcEof
  BY <1>1 DEF HeaderRefused, Fail
<1> QED
  BY <1>7, <1>8, <1>9, <1>10

\* A step that keeps the reader's header, or keeps it without one.
Keeps == /\ UNCHANGED <<doc, columns, made>>
         /\ ~Opened => base' = base
         /\ call' # call => call' = NoCall \/ (call' \in Calls /\ Opened)
         /\ ~Opened /\ err' # err => err' \notin {"literal", "row", "inRow"}
         /\ srcEof' => got' = Len(doc)

\* The kinds of calls are different.
LEMMA CallKinds == NoCall \notin Calls /\ New \notin Calls /\ New # NoCall
  BY DEF NoCall, New, Calls, NextOp, Scan

\* A step that leaves the columns alone keeps what HeaderRead says of them.
LEMMA KeepsHeader ==
  ASSUME HeaderRead, Keeps
  PROVE  HeaderRead'
<1>1. Opened' <=> Opened
  BY DEF Keeps, Opened
<1>2. HeaderAgrees'
  BY <1>1 DEF HeaderRead, HeaderAgrees, Keeps, made
<1>3. call' = New => columns' = 0
  <2>1. call' = New => call = New
    BY CallKinds DEF Keeps
  <2> QED
    BY <2>1 DEF HeaderRead, Keeps
<1>4. call' \in Calls => Opened'
  BY <1>1, CallKinds DEF HeaderRead, Keeps
<1>5. ~Opened' => base' = origin'
  BY <1>1 DEF HeaderRead, Keeps, made
<1>6. srcEof' => got' = Len(doc')
  BY DEF Keeps
<1>7. parsed'.columns = Dataset(Rest(origin)').columns
  BY DEF HeaderRead, Keeps, made, Rest
<1> QED
  BY <1>2, <1>3, <1>4, <1>5, <1>6, <1>7 DEF HeaderRead

\* A read keeps HeaderRead.
LEMMA PullKeeps ==
  ASSUME HeaderRead, Pull
  PROVE  Keeps
<1>1. CASE PullBytes
  BY <1>1 DEF PullBytes, Keeps, made
<1>2. CASE PullEof
  BY <1>2 DEF PullEof, Keeps, reader, made
<1>3. CASE PullFails
  BY <1>3 DEF PullFails, Fail, Return, Keeps, source, made, HeaderRead
<1> QED
  BY <1>1, <1>2, <1>3 DEF Pull

\* Before the header is read nothing is said about it.
LEMMA HeaderReadInit == Init => HeaderRead
<1> SUFFICES ASSUME Init PROVE HeaderRead
  OBVIOUS
<1>1. ~Opened
  BY DEF Init, Opened
<1>2. err \notin {"literal", "row", "inRow"}
  BY DEF Init
<1>3. HeaderAgrees
  BY <1>1, <1>2 DEF HeaderAgrees
<1>4. call \notin Calls
  BY CallKinds DEF Init
<1>5. parsed.columns = Dataset(Rest(origin)).columns
  BY ParsedColumns DEF Init
<1> QED
  BY <1>3, <1>4, <1>5 DEF Init, HeaderRead

\* Every step keeps HeaderRead.
LEMMA HeaderReadStep ==
  ASSUME Conserving, HeaderRead, [Next]_vars
  PROVE  HeaderRead'
<1>1. CASE ReadHeader
  <2>0. call = New
    BY <1>1 DEF ReadHeader
  <2>1. CASE HeaderFound(ScanHeaderEnd(pending))
    <3>1. columns' > 0 /\ columns' = parsed.columns
      BY <2>0, <2>1, FoundColumns
    <3>2. /\ UNCHANGED <<doc, got, srcEof, origin, parsed>> /\ call' = NoCall
      BY <2>1 DEF HeaderFound, Return, source, made
    <3>3. Opened' /\ HeaderAgrees'
      BY <3>1, <3>2 DEF Opened, HeaderAgrees
    <3>4. call' # New
      BY <3>2, CallKinds
    <3>5. parsed'.columns = Dataset(Rest(origin)').columns
      BY <3>2 DEF HeaderRead, Rest
    <3> QED
      BY <3>2, <3>3, <3>4, <3>5 DEF HeaderRead
  <2>2. CASE HeaderRefused(ScanHeaderEnd(pending))
    <3>1. /\ UNCHANGED <<doc, got, srcEof, columns, base, origin, parsed>> /\ call' = NoCall
      BY <2>2 DEF HeaderRefused, Fail, Return, source, made
    <3>2. ~Opened /\ ~Opened'
      BY <2>0, <3>1 DEF HeaderRead, Opened
    <3>3. err' \in {"literal", "row", "inRow"} => parsed.columns = 0
      BY <2>0, <2>2, RefusedColumns
    <3>4. HeaderAgrees'
      BY <3>1, <3>2, <3>3 DEF HeaderAgrees
    <3>5. call' # New /\ call' \notin Calls
      BY <3>1, CallKinds
    <3>6. parsed'.columns = Dataset(Rest(origin)').columns
      BY <3>1 DEF HeaderRead, Rest
    <3>7. base' = origin' /\ (srcEof' => got' = Len(doc'))
      BY <3>1, <3>2 DEF HeaderRead
    <3> QED
      BY <3>4, <3>5, <3>6, <3>7 DEF HeaderRead
  <2>3. CASE HeaderMore(ScanHeaderEnd(pending))
    BY <2>3, PullKeeps, KeepsHeader DEF HeaderMore
  <2> QED
    BY <1>1, <2>1, <2>2, <2>3 DEF ReadHeader, HeaderScanned
<1>2. CASE NextRow
  <2>0. Opened /\ (srcEof => got = Len(doc))
    BY <1>2 DEF NextRow, HeaderRead
  <2>1. CASE Row(FindNextRow(pending))
    <3>1. UNCHANGED <<source, columns, made>> /\ call' = NoCall
      BY <2>1 DEF Row, TakeRow, RefuseRow, Bind, Return
    <3>2. Keeps
      BY <2>0, <3>1 DEF Keeps, source
    <3> QED
      BY <3>2, KeepsHeader
  <2>2. CASE Again \/ NoRow(FindNextRow(pending).kind)
    <3>1. UNCHANGED <<source, columns, made>> /\ call' = NoCall
      BY <2>2 DEF Again, NoRow, Finish, Fail, Return, reader
    <3>2. Keeps
      BY <2>0, <3>1 DEF Keeps, source
    <3> QED
      BY <3>2, KeepsHeader
  <2>3. CASE RowMore(FindNextRow(pending).kind)
    BY <2>3, PullKeeps, KeepsHeader DEF RowMore
  <2> QED
    BY <1>2, <2>1, <2>2, <2>3 DEF NextRow, RowScanned
<1>3. CASE Call
  <2>1. Keeps
    BY <1>3 DEF Call, Keeps, source, reader, made, HeaderRead
  <2> QED
    BY <2>1, KeepsHeader
<1>4. CASE ReopenTail
  <2>1. /\ doc' = doc /\ columns' = 0 /\ err' = "none" /\ call' = New /\ srcEof' = FALSE
        /\ base' = base /\ origin' = base /\ parsed' = ParsedFrom(base)
    BY <1>4 DEF ReopenTail
  <2>2. ~Opened' /\ HeaderAgrees'
    BY <2>1 DEF Opened, HeaderAgrees
  <2>3. call' \notin Calls
    BY <2>1, CallKinds
  <2>4. parsed'.columns = Dataset(Rest(base)).columns
    BY <2>1, ParsedColumns
  <2>5. Rest(origin)' = Rest(base)
    BY <2>1 DEF Rest
  <2> QED
    BY <2>1, <2>2, <2>3, <2>4, <2>5 DEF HeaderRead
<1>5. CASE Refused \/ UNCHANGED vars
  <2>1. Keeps
    BY <1>5 DEF Refused, vars, Keeps, made, HeaderRead
  <2> QED
    BY <2>1, KeepsHeader
<1> QED
  BY <1>1, <1>2, <1>3, <1>4, <1>5 DEF Next, Turn

\* A reader opens with the columns of the header the parser reads, and refuses
\* only documents in which the parser finds none (DatasetReader.HeaderAgrees):
\* read_header (dataset_reader.rs) looks for the header in a prefix of the
\* stream, with a scan that does not lex, and hands the parser only the piece
\* it cuts off, while parser.rs lexes the whole document.  For every document,
\* every split into reads, every limit, and every reader made of a tail.
THEOREM HeadersAgree == Spec => []HeaderAgrees
<1>1. HeaderRead => HeaderAgrees
  BY DEF HeaderRead
<1>2. Conserving /\ HeaderRead /\ [Next]_vars => HeaderRead'
  BY HeaderReadStep
<1> QED
  BY <1>1, <1>2, HeaderReadInit, ReaderConserves, PTL DEF Spec

-----------------------------------------------------------------------------
(***************************************************************************)
(* The rows are the parser's.  What the parser still has to read when the  *)
(* reader has used up `base` bytes is what it would read there in the text *)
(* that is left: a row is one wherever it stands (FirstRow), and the bytes *)
(* that have not arrived yet do not change it (RowIsFinal).                *)
(***************************************************************************)
RowsLeftAt == RowsFrom(Tokens(Rest(base)), 1, columns).spans

RowsLeft ==
  Opened /\ err = "none" /\ Len(out) <= Len(parsed.rows)
    => Follows(parsed.rows, Len(out), RowsLeftAt, base)

RowsRead ==
  /\ RowsAreParsers
  /\ RowsLeft
  /\ call = New => out = <<>> /\ err = "none" /\ ~finished
  /\ MovedSpans(Dataset(Rest(origin)).rows, parsed.rows, origin)

\* The rows of ParsedFrom are those the parser reads in the bytes that are left.
LEMMA ParsedRows ==
  ASSUME NEW n, Rest(n) \in Seq(ByteClass)
  PROVE  MovedSpans(Dataset(Rest(n)).rows, ParsedFrom(n).rows, n)
<1>1. PICK d : d = Dataset(Rest(n))
  OBVIOUS
<1>2. {"columns", "rows"} \subseteq DOMAIN d
  <2>1. PICK t, h : t = Tokens(Rest(n)) /\ h = Header(t)
    OBVIOUS
  <2>2. PICK r, e : /\ r = RowsFrom(t, h.next, h.columns)
                    /\ e = (CASE t[r.next].kind = "Eof" -> "eof"
                              [] t[r.next].kind \in {"AtDirective", "AtDataset"} -> "directive"
                              [] OTHER -> "error")
    OBVIOUS
  <2>3. d = IF h.columns = 0 THEN [columns |-> 0, rows |-> <<>>, end |-> "error"]
            ELSE [columns |-> h.columns, rows |-> r.spans, end |-> e]
    BY <1>1, <2>1, <2>2 DEF Dataset
  <2> QED
    BY <2>3
<1>3. PICK rows : rows = [i \in DOMAIN d.rows |-> [from |-> n + d.rows[i].from, to |-> n + d.rows[i].to]]
  OBVIOUS
<1>4. ParsedFrom(n) = [d EXCEPT !.rows = rows]
  BY <1>1, <1>3 DEF ParsedFrom, Rest
<1>5. ParsedFrom(n).rows = rows
  BY <1>2, <1>4
<1>6. PICK S : d.rows \in Seq(S)
  BY <1>1, RowsOfDataset
<1>7. PICK l \in Nat : l = Len(d.rows) /\ DOMAIN d.rows = 1..l
  BY <1>6
<1>8. /\ rows = [i \in 1..l |-> [from |-> n + d.rows[i].from, to |-> n + d.rows[i].to]]
  BY <1>3, <1>7
<1>9. Len(rows) = l
  BY <1>7, <1>8
<1>10. ASSUME NEW i \in 1..l PROVE rows[i] = MovedSpan(d.rows[i], n)
  BY <1>8 DEF MovedSpan
<1> QED
  BY <1>1, <1>5, <1>7, <1>9, <1>10 DEF MovedSpans

\* The text that is left after y more bytes is the rest of the text that is left.
LEMMA RestAfter ==
  ASSUME doc \in Seq(ByteClass), NEW n \in Nat, NEW y \in Nat, NEW m \in Nat, m = n + y,
         m <= Len(doc)
  PROVE  /\ Rest(n) \in Seq(ByteClass) /\ Rest(m) \in Seq(ByteClass)
         /\ RestOf(Rest(m), Rest(n), y)
<1>1. PICK l \in Nat : l = Len(doc)
  OBVIOUS
<1>2. PICK u, w : u = Rest(n) /\ w = Rest(m)
  OBVIOUS
<1>3. n \in Nat /\ l \in n..Len(doc) /\ m \in Nat /\ l \in m..Len(doc)
  BY <1>1
<1>4. u \in Seq(ByteClass) /\ Len(u) = l - n /\ \A i \in 1..Len(u) : u[i] = doc[n + i]
  BY <1>1, <1>2, <1>3, BufferedBytes DEF Rest
<1>5. w \in Seq(ByteClass) /\ Len(w) = l - m /\ \A i \in 1..Len(w) : w[i] = doc[m + i]
  BY <1>1, <1>2, <1>3, BufferedBytes DEF Rest
<1>6. Len(u) = y + Len(w)
  BY <1>1, <1>4, <1>5
<1>7. ASSUME NEW k \in 1..Len(w) PROVE u[k + y] = w[k]
  <2>1. k + y \in 1..Len(u) /\ n + (k + y) = m + k
    BY <1>1, <1>4, <1>5
  <2> QED
    BY <1>4, <1>5, <2>1
<1> QED
  BY <1>2, <1>4, <1>5, <1>6, <1>7 DEF RestOf

\* After the header the parser reads the rows of the text that is left.
LEMMA HeaderRows ==
  ASSUME Conserving, HeaderRead, RowsRead, call = New, HeaderFound(ScanHeaderEnd(pending))
  PROVE  RowsLeft'
<1>1. PICK end, u : end = ScanHeaderEnd(pending) /\ u = Rest(origin)
  OBVIOUS
<1>2. base = origin
  BY DEF HeaderRead, Opened
<1>3. pending \in Seq(ByteClass) /\ u \in Seq(ByteClass) /\ Extends(u, pending)
  BY <1>1, <1>2, BufferIsStart
<1>4. end \in 1..Len(pending)
  BY <1>1, <1>3, HeaderEndInText DEF HeaderFound
<1>5. end # Incomplete
  BY <1>3, <1>4 DEF Incomplete
<1>6. end = ScanHeaderEnd(u)
  BY <1>1, <1>3, <1>5, HeaderEndIsFinal
<1>7. columns' > 0 /\ columns' = parsed.columns /\ columns' = Dataset(u).columns
  <2>1. columns' > 0 /\ columns' = parsed.columns
    BY FoundColumns
  <2> QED
    BY <1>1, <2>1 DEF HeaderRead
<1>8. /\ Drain(end) /\ UNCHANGED <<doc, got, out, parsed>>
  BY <1>1 DEF HeaderFound, source, made
<1>9. base' = base + end /\ base' \in 0..got /\ got <= Len(doc) /\ base \in Nat /\ doc \in Seq(ByteClass)
      /\ got \in Nat /\ Len(doc) \in Nat
  <2>1. base' \in (base + 1)..got /\ base' = base + end
    BY <1>4, <1>8, DrainConserves
  <2> QED
    BY <2>1, DocsAssumption DEF Conserving, TypeOK
<1>10. PICK m \in Nat : m = base + end /\ m = base' /\ m <= Len(doc)
  BY <1>9
<1>11. PICK w : w = Rest(m)
  OBVIOUS
<1>12. w \in Seq(ByteClass) /\ RestOf(w, u, end)
  <2>1. end \in Nat
    BY <1>3, <1>4
  <2> QED
    BY <1>1, <1>2, <1>9, <1>10, <1>11, <2>1, RestAfter
<1>13. PICK after, left : after = RowsFrom(Tokens(w), 1, Dataset(u).columns).spans /\ left = Dataset(u).rows
  OBVIOUS
<1>14. MovedSpans(after, left, end)
  <2>1. Dataset(u).columns # 0
    BY <1>7
  <2> QED
    BY <1>3, <1>6, <1>12, <1>13, <2>1, RowsAfterHeader
<1>15. Len(after) \in Nat /\ \A j \in 1..Len(after) : after[j].from \in Int /\ after[j].to \in Int
  <2>1. 1 \in 1..Len(Tokens(w))
    BY <1>12, TokensAre
  <2> QED
    BY <1>12, <1>13, <2>1, SpansOfText
<1>16. MovedSpans(left, parsed.rows, base)
  BY <1>1, <1>2, <1>13 DEF RowsRead
<1>17. Follows(parsed.rows, 0, after, m)
  <2>1. base \in Int /\ end \in Int /\ m \in Int /\ m = base + end
    BY <1>3, <1>4, <1>9, <1>10
  <2> QED
    BY <1>14, <1>15, <1>16, <2>1, MovedTwice
<1>18. RowsLeftAt' = after
  <2>1. RowsLeftAt' = RowsFrom(Tokens(Rest(base')), 1, columns').spans
    BY <1>8 DEF RowsLeftAt, Rest
  <2> QED
    BY <1>7, <1>10, <1>11, <1>13, <2>1
<1>19. Len(out') = 0 /\ parsed' = parsed
  BY <1>8 DEF RowsRead
<1>20. Follows(parsed'.rows, Len(out'), RowsLeftAt', base')
  BY <1>10, <1>17, <1>18, <1>19
<1> QED
  BY <1>20 DEF RowsLeft

\* The parser reads a list of rows.
LEMMA ParsedLength ==
  ASSUME Conserving, RowsRead
  PROVE  Len(parsed.rows) \in Nat /\ Len(out) \in Nat
<1>1. doc \in Seq(ByteClass) /\ origin \in Nat /\ Len(doc) \in Nat /\ Len(doc) \in origin..Len(doc)
  BY DocsAssumption DEF Conserving, TypeOK
<1>2. Rest(origin) \in Seq(ByteClass)
  BY <1>1, BufferedBytes DEF Rest
<1>3. PICK S : Dataset(Rest(origin)).rows \in Seq(S)
  BY <1>2, RowsOfDataset
<1>4. MovedSpans(Dataset(Rest(origin)).rows, parsed.rows, origin)
  BY DEF RowsRead
<1>5. Len(parsed.rows) = Len(Dataset(Rest(origin)).rows) /\ Len(Dataset(Rest(origin)).rows) \in Nat
  BY <1>3, <1>4 DEF MovedSpans
<1>6. out \in Seq([from : Nat, to : Nat])
  BY DEF Conserving, TypeOK
<1> QED
  BY <1>5, <1>6

\* While the parser has rows left, the next one is what find_next_row finds in the
\* text that is left.
LEMMA LeftRow ==
  ASSUME Conserving, RowsLeft, Opened, err = "none", Len(out) < Len(parsed.rows)
  PROVE  \E x, y : /\ FirstRowAt(Rest(base), columns, RowsLeftAt, x, y)
                   /\ FindNextRow(Rest(base)) = FindRow("found", x, y)
<1>1. PICK u, left : u = Rest(base) /\ left = RowsLeftAt
  OBVIOUS
<1>2. u \in Seq(ByteClass)
  BY <1>1, BufferIsStart
<1>3. left = RowsFrom(Tokens(u), 1, columns).spans
  BY <1>1 DEF RowsLeftAt
<1>4. PICK n \in Nat : n = Len(out)
  <2>1. out \in Seq([from : Nat, to : Nat])
    BY DEF Conserving, TypeOK
  <2> QED
    BY <2>1
<1>5. Follows(parsed.rows, n, left, base)
  <2>1. Len(parsed.rows) \in Int \/ Len(parsed.rows) \notin Int
    OBVIOUS
  <2>2. Len(out) <= Len(parsed.rows)
    BY DEF RowsLeft
  <2> QED
    BY <1>1, <1>4, <2>2 DEF RowsLeft
<1>6. left # <<>>
  <2>1. Len(left) \in Nat /\ Len(parsed.rows) = n + Len(left)
    BY <1>5 DEF Follows
  <2>2. Len(left) # 0
    BY <1>4, <2>1
  <2> QED
    BY <2>2
<1>7. PICK x, y : FirstRowAt(u, columns, left, x, y)
  BY <1>2, <1>3, <1>6, FirstRow
<1>8. FindNextRow(u) = FindRow("found", left[1].from, left[1].to)
  BY <1>2, <1>3, <1>6, ParsersRowFound
<1>9. left[1].from = x /\ left[1].to = y
  BY <1>7 DEF FirstRowAt
<1> QED
  BY <1>1, <1>7, <1>8, <1>9

\* So it is the one the reader cuts out, and the parser accepts it.
LEMMA CutRow ==
  ASSUME Conserving, RowsLeft, Opened, err = "none", Len(out) < Len(parsed.rows),
         NEW found, found = FindNextRow(pending), found.kind = "found"
  PROVE  /\ found.to \in 1..Len(pending)
         /\ FirstRowAt(Rest(base), columns, RowsLeftAt, found.from, found.to)
         /\ ParseRow(SubSeq(pending, found.from, found.to), columns)
<1>1. PICK u : u = Rest(base)
  OBVIOUS
<1>2. pending \in Seq(ByteClass) /\ u \in Seq(ByteClass) /\ Extends(u, pending)
  BY <1>1, BufferIsStart
<1>3. FindNextRow(u) = found
  BY <1>2, RowIsFinal
<1>4. PICK x, y : FirstRowAt(u, columns, RowsLeftAt, x, y) /\ found = FindRow("found", x, y)
  BY <1>1, <1>3, LeftRow
<1>5. found.from = x /\ found.to = y
  BY <1>4 DEF FindRow
<1>6. /\ found.from \in 1..Len(pending) /\ found.to \in 1..Len(pending)
      /\ found.from < found.to
  BY <1>2, FoundRowInText
<1>7. SubSeq(pending, x, y) = SubSeq(u, x, y)
  <2>1. PICK lp \in Nat, lu \in Nat : lp = Len(pending) /\ lu = Len(u)
    BY <1>2
  <2>2. x \in 1..lp /\ y \in x..lp /\ lp <= lu /\ \A k \in 1..lp : u[k] = pending[k]
    BY <1>2, <1>5, <1>6, <2>1 DEF Extends
  <2>3. PICK n \in Nat : n = y - x + 1
    BY <2>2
  <2>4. PICK p, q : p = SubSeq(pending, x, y) /\ q = SubSeq(u, x, y)
    OBVIOUS
  <2>5. p \in Seq(ByteClass) /\ Len(p) = n /\ \A k \in 1..n : p[k] = pending[x + k - 1]
    <3>1. x \in 1..Len(pending) /\ y \in x..Len(pending)
      BY <2>1, <2>2
    <3> QED
      BY <1>2, <2>3, <2>4, <3>1, PartIs
  <2>6. q \in Seq(ByteClass) /\ Len(q) = n /\ \A k \in 1..n : q[k] = u[x + k - 1]
    <3>1. x \in 1..Len(u) /\ y \in x..Len(u)
      BY <2>1, <2>2
    <3> QED
      BY <1>2, <2>3, <2>4, <3>1, PartIs
  <2>7. ASSUME NEW k \in 1..n PROVE p[k] = q[k]
    <3>1. x + k - 1 \in 1..lp
      BY <2>2, <2>3
    <3> QED
      BY <2>2, <2>5, <2>6, <3>1
  <2>8. p = q
    BY <2>5, <2>6, <2>7, SeqEqual
  <2> QED
    BY <2>4, <2>8
<1>8. ParseRow(SubSeq(u, x, y), columns)
  BY <1>4 DEF FirstRowAt
<1> QED
  BY <1>1, <1>4, <1>5, <1>6, <1>7, <1>8

\* A row that is handed out is the parser's next one, if it has one left.
LEMMA TakenRow ==
  ASSUME Conserving, HeaderRead, RowsRead, Opened, err = "none", ~finished,
         NEW found, found = FindNextRow(pending), found.kind = "found", TakeRow(found)
  PROVE  RowsAreParsers' /\ RowsLeft'
<1>1. /\ Drain(found.to) /\ UNCHANGED <<doc, got, finished, err, columns, parsed>>
      /\ out' = Append(out, [from |-> base + found.from, to |-> base + found.to])
  BY DEF TakeRow, source, made
<1>2. PICK row : row = [from |-> base + found.from, to |-> base + found.to]
  OBVIOUS
<1>3. out \in Seq([from : Nat, to : Nat]) /\ pending \in Seq(ByteClass)
      /\ doc \in Seq(ByteClass) /\ base \in Nat /\ got \in base..Len(doc) /\ Len(doc) \in Nat
  BY DocsAssumption DEF Conserving, TypeOK
<1>4. found.from \in 1..Len(pending) /\ found.to \in 1..Len(pending)
  BY <1>3, FoundRowInText
<1>5. row \in [from : Nat, to : Nat]
  <2>1. PICK x \in Nat, y \in Nat : x = found.from /\ y = found.to
    BY <1>3, <1>4
  <2>2. base \in Nat
    BY <1>3
  <2>3. base + x \in Nat /\ base + y \in Nat
    BY ONLY <2>2, x \in Nat, y \in Nat
  <2> QED
    BY <1>2, <2>1, <2>3
<1>6. PICK n \in Nat : n = Len(out)
  BY <1>3
<1>7. /\ Len(out') = n + 1 /\ out'[n + 1] = row
      /\ \A i \in 1..n : out'[i] = out[i]
  BY <1>1, <1>2, <1>3, <1>5, <1>6
<1>8. parsed' = parsed /\ \A i \in 1..n : i <= Len(parsed.rows) => out'[i] = parsed.rows[i]
  BY <1>1, <1>6, <1>7 DEF RowsRead, RowsAreParsers
<1>9. ~(Opened' /\ (finished' \/ err' \in {"row", "inRow"}))
  BY <1>1
<1>10. PICK lr \in Nat : lr = Len(parsed.rows)
  BY ParsedLength
<1>11. CASE n >= lr
  <2>1. ~(Len(out') <= Len(parsed'.rows))
    BY <1>7, <1>8, <1>10, <1>11
  <2>2. RowsLeft'
    BY <2>1 DEF RowsLeft
  <2>3. ASSUME NEW i \in 1..Len(out'), i <= lr PROVE out'[i] = parsed.rows[i]
    <3>1. i \in 1..n
      BY <1>7, <1>11, <2>3
    <3> QED
      BY <1>8, <1>10, <2>3, <3>1
  <2> QED
    BY <1>8, <1>9, <1>10, <2>2, <2>3 DEF RowsAreParsers
<1>12. CASE n < lr
  <2>1. RowsLeft /\ Len(out) < Len(parsed.rows)
    BY <1>6, <1>10, <1>12 DEF RowsRead
  <2>2. FirstRowAt(Rest(base), columns, RowsLeftAt, found.from, found.to)
    BY <2>1, CutRow
  <2>3. Follows(parsed.rows, n, RowsLeftAt, base)
    BY <1>6, <1>10, <1>12 DEF RowsRead, RowsLeft
  <2>4. PICK left : left = RowsLeftAt
    OBVIOUS
  <2>5. PICK x \in Nat, y \in Nat : x = found.from /\ y = found.to /\ y \in 1..Len(pending)
    BY <1>3, <1>4
  <2>6. PICK m \in Nat : m = base + y /\ m = base' /\ m <= Len(doc)
    <3>1. base' \in (base + 1)..got /\ base' = base + found.to
      BY <1>1, <1>4, DrainConserves
    <3>2. PICK l \in Nat : l = Len(doc)
      BY <1>3
    <3>3. base' = base + y
      BY <2>5, <3>1
    <3>4. base' \in Nat /\ base' <= l
      BY <1>3, <3>1, <3>2
    <3> QED
      BY <3>2, <3>3, <3>4
  <2>7. PICK w, after : w = Rest(m) /\ after = RowsFrom(Tokens(w), 1, columns).spans
    OBVIOUS
  <2>8. w \in Seq(ByteClass) /\ RestOf(w, Rest(base), y)
    BY <1>3, <2>6, <2>7, RestAfter
  <2>9. left[1] = [from |-> x, to |-> y] /\ Follows(left, 1, after, y)
    BY <2>2, <2>4, <2>5, <2>7, <2>8 DEF FirstRowAt
  <2>10. Len(after) \in Nat /\ \A j \in 1..Len(after) : after[j].from \in Int /\ after[j].to \in Int
    <3>1. 1 \in 1..Len(Tokens(w))
      BY <2>8, TokensAre
    <3> QED
      BY <2>7, <2>8, <3>1, SpansOfText
  <2>11. PICK k \in Nat : k = n + 1
    OBVIOUS
  <2>12. Follows(parsed.rows, k, after, m)
    <3>1. n \in Nat /\ base \in Int /\ y \in Int /\ m \in Int /\ m = base + y
      BY <1>3, <2>6
    <3> QED
      BY <2>3, <2>4, <2>9, <2>10, <2>11, <3>1, FollowsOn
  <2>13. RowsLeftAt' = after
    <3>1. RowsLeftAt' = RowsFrom(Tokens(Rest(base')), 1, columns').spans
      BY <1>1 DEF RowsLeftAt, Rest
    <3> QED
      BY <1>1, <2>6, <2>7, <3>1
  <2>14. Len(out') = k
    BY <1>7, <2>11
  <2>15. RowsLeft'
    BY <1>8, <2>6, <2>12, <2>13, <2>14 DEF RowsLeft
  <2>16. parsed.rows[n + 1] = row
    <3>1. 1 \in 1..Len(left)
      BY <2>9, <2>10 DEF Follows
    <3>2. parsed.rows[n + 1] = MovedSpan(left[1], base)
      BY <2>3, <2>4, <3>1 DEF Follows
    <3> QED
      BY <1>2, <2>5, <2>9, <3>2 DEF MovedSpan
  <2>17. ASSUME NEW i \in 1..Len(out'), i <= lr PROVE out'[i] = parsed.rows[i]
    <3>1. CASE i \in 1..n
      BY <1>8, <1>10, <2>17, <3>1
    <3>2. CASE i = n + 1
      BY <1>7, <2>16, <3>2
    <3> QED
      BY <1>7, <3>1, <3>2
  <2> QED
    BY <1>8, <1>9, <1>10, <2>15, <2>17 DEF RowsAreParsers
<1> QED
  BY <1>6, <1>10, <1>11, <1>12

\* Where the reader finds no row, however much more arrives, the parser reads none.
LEMMA NoRowLeft ==
  ASSUME Conserving, HeaderRead, RowsRead, Opened, err = "none",
         LET kind == FindNextRow(pending).kind
         IN  kind = "done" \/ (kind \in {"needMore", "inRow"} /\ srcEof)
  PROVE  Len(out) >= Len(parsed.rows)
<1> SUFFICES ASSUME ~(Len(out) >= Len(parsed.rows)) PROVE FALSE
  OBVIOUS
<1>1. Len(out) < Len(parsed.rows)
  BY ParsedLength
<1>2. PICK u, x, y : u = Rest(base) /\ FindNextRow(u) = FindRow("found", x, y)
  BY <1>1, LeftRow DEF RowsRead
<1>3. FindNextRow(u).kind = "found"
  BY <1>2 DEF FindRow
<1>4. /\ pending \in Seq(ByteClass) /\ u \in Seq(ByteClass) /\ Extends(u, pending)
      /\ got = Len(doc) => pending = u
  BY <1>2, BufferIsStart
<1>5. CASE FindNextRow(pending).kind = "done"
  <2>1. FindNextRow(u) = FindNextRow(pending)
    BY <1>4, <1>5, RowIsFinal
  <2> QED
    BY <1>3, <1>5, <2>1
<1>6. CASE FindNextRow(pending).kind \in {"needMore", "inRow"} /\ srcEof
  <2>1. pending = u
    BY <1>4, <1>6 DEF HeaderRead
  <2> QED
    BY <1>3, <1>6, <2>1
<1> QED
  BY <1>5, <1>6

\* A step that keeps the rows and ends them only when the parser does.
KeepsRows ==
  /\ UNCHANGED <<doc, columns, made, out, base>>
  /\ call' = New => call = New /\ err' = err /\ finished' = finished
  /\ err' = "none" => err = "none"
  /\ Opened /\ (finished' \/ err' \in {"row", "inRow"}) => Len(out) >= Len(parsed.rows)

\* Such a step keeps RowsRead.
LEMMA KeepsRowsRead ==
  ASSUME RowsRead, KeepsRows
  PROVE  RowsRead'
<1>1. Opened' = Opened
  BY DEF KeepsRows, Opened
<1>2. RowsAreParsers'
  BY <1>1 DEF RowsRead, RowsAreParsers, KeepsRows, made
<1>3. RowsLeftAt' = RowsLeftAt
  BY DEF KeepsRows, RowsLeftAt, Rest
<1>4. RowsLeft'
  BY <1>1, <1>3 DEF RowsRead, RowsLeft, KeepsRows, made
<1>5. call' = New => out' = <<>> /\ err' = "none" /\ ~finished'
  BY DEF RowsRead, KeepsRows
<1>6. MovedSpans(Dataset(Rest(origin)).rows, parsed.rows, origin)'
  BY DEF RowsRead, KeepsRows, made, Rest
<1> QED
  BY <1>2, <1>4, <1>5, <1>6 DEF RowsRead

\* A read does.
LEMMA PullKeepsRows ==
  ASSUME RowsRead, Pull
  PROVE  KeepsRows
<1>0. Opened /\ (finished \/ err \in {"row", "inRow"}) => Len(out) >= Len(parsed.rows)
  BY DEF RowsRead, RowsAreParsers
<1>1. CASE PullBytes
  BY <1>0, <1>1 DEF PullBytes, KeepsRows, made
<1>2. CASE PullEof
  BY <1>0, <1>2 DEF PullEof, KeepsRows, reader, made
<1>3. CASE PullFails
  BY <1>0, <1>3, CallKinds DEF PullFails, Fail, Return, KeepsRows, source, made
<1> QED
  BY <1>1, <1>2, <1>3 DEF Pull

\* Before the header is read there are no rows.
LEMMA RowsReadInit == Init => RowsRead
<1> SUFFICES ASSUME Init PROVE RowsRead
  OBVIOUS
<1>1. ~Opened /\ out = <<>> /\ err = "none" /\ ~finished /\ origin = 0 /\ parsed = ParsedFrom(0)
  BY DEF Init, Opened
<1>2. RowsAreParsers /\ RowsLeft
  BY <1>1 DEF RowsAreParsers, RowsLeft
<1>3. doc \in Seq(ByteClass) /\ Len(doc) \in Nat /\ 0 \in Nat /\ Len(doc) \in 0..Len(doc)
  BY DocsAssumption DEF Init
<1>4. Rest(0) \in Seq(ByteClass)
  BY <1>3, BufferedBytes DEF Rest
<1>5. MovedSpans(Dataset(Rest(0)).rows, ParsedFrom(0).rows, 0)
  BY <1>4, ParsedRows
<1> QED
  BY <1>1, <1>2, <1>5 DEF RowsRead

\* Every step keeps RowsRead.
LEMMA RowsReadStep ==
  ASSUME Conserving, HeaderRead, RowsRead, [Next]_vars
  PROVE  RowsRead'
<1>0. Opened /\ (finished \/ err \in {"row", "inRow"}) => Len(out) >= Len(parsed.rows)
  BY DEF RowsRead, RowsAreParsers
<1>1. CASE ReadHeader
  <2>0. call = New /\ ~Opened /\ out = <<>> /\ err = "none" /\ ~finished
    BY <1>1 DEF ReadHeader, HeaderRead, RowsRead, Opened
  <2>1. CASE HeaderFound(ScanHeaderEnd(pending))
    <3>1. RowsLeft'
      BY <2>0, <2>1, HeaderRows
    <3>2. UNCHANGED <<doc, out, finished, err, origin, parsed>> /\ call' = NoCall
      BY <2>1 DEF HeaderFound, Return, source, made
    <3>3. RowsAreParsers'
      BY <2>0, <3>2 DEF RowsAreParsers
    <3>4. MovedSpans(Dataset(Rest(origin)).rows, parsed.rows, origin)'
      BY <3>2 DEF RowsRead, Rest
    <3> QED
      BY <3>1, <3>2, <3>3, <3>4, CallKinds DEF RowsRead
  <2>2. CASE HeaderRefused(ScanHeaderEnd(pending))
    <3>1. KeepsRows
      BY <2>0, <2>2, CallKinds DEF HeaderRefused, Fail, Return, KeepsRows, source, made
    <3> QED
      BY <3>1, KeepsRowsRead
  <2>3. CASE HeaderMore(ScanHeaderEnd(pending))
    BY <2>3, PullKeepsRows, KeepsRowsRead DEF HeaderMore
  <2> QED
    BY <1>1, <2>1, <2>2, <2>3 DEF ReadHeader, HeaderScanned
<1>2. CASE NextRow
  <2>0. Opened
    BY <1>2 DEF NextRow, HeaderRead
  <2>1. CASE Again
    <3>1. KeepsRows
      BY <1>0, <2>1, CallKinds DEF Again, Return, KeepsRows, source, reader, made
    <3> QED
      BY <3>1, KeepsRowsRead
  <2>2. CASE err = "none" /\ ~finished /\ Row(FindNextRow(pending))
    <3>1. PICK found : found = FindNextRow(pending)
      OBVIOUS
    <3>2. found.kind = "found" /\ UNCHANGED <<doc, origin, parsed>> /\ call' = NoCall
      BY <2>2, <3>1 DEF Row, TakeRow, RefuseRow, Bind, Return, source, made
    <3>3. MovedSpans(Dataset(Rest(origin)).rows, parsed.rows, origin)'
      BY <3>2 DEF RowsRead, Rest
    <3>4. CASE TakeRow(found)
      <4>1. RowsAreParsers' /\ RowsLeft'
        BY <2>0, <2>2, <3>1, <3>2, <3>4, TakenRow
      <4> QED
        BY <3>2, <3>3, <4>1, CallKinds DEF RowsRead
    <3>5. CASE ~RowParses(found) /\ RefuseRow(found)
      <4>1. /\ UNCHANGED <<out, finished, columns>>
            /\ err' = IF RowFits(found) THEN "row" ELSE "tooLong"
        BY <3>5 DEF RefuseRow
      <4>2. err' # "none" /\ ~finished'
        BY <2>2, <4>1
      <4>3. RowsLeft'
        BY <4>2 DEF RowsLeft
      <4>4. ASSUME RowFits(found) PROVE Len(out) >= Len(parsed.rows)
        <5> SUFFICES ASSUME ~(Len(out) >= Len(parsed.rows)) PROVE FALSE
          OBVIOUS
        <5>1. Len(out) < Len(parsed.rows)
          BY ParsedLength
        <5>2. ParseRow(SubSeq(pending, found.from, found.to), columns)
          BY <2>0, <2>2, <3>1, <3>2, <5>1, CutRow DEF RowsRead
        <5> QED
          BY <3>5, <4>4, <5>2 DEF RowParses
      <4>5. err' \in {"row", "inRow"} => Len(out) >= Len(parsed.rows)
        BY <4>1, <4>4
      <4>6. RowsAreParsers'
        BY <3>2, <4>1, <4>2, <4>5 DEF RowsRead, RowsAreParsers
      <4> QED
        BY <3>2, <3>3, <4>3, <4>6, CallKinds DEF RowsRead
    <3> QED
      BY <2>2, <3>1, <3>4, <3>5 DEF Row
  <2>3. CASE err = "none" /\ ~finished /\ NoRow(FindNextRow(pending).kind)
    <3>1. PICK kind : kind = FindNextRow(pending).kind
      OBVIOUS
    <3>2. kind = "done" \/ (kind \in {"needMore", "inRow"} /\ srcEof) => Len(out) >= Len(parsed.rows)
      BY <2>0, <2>3, <3>1, NoRowLeft
    <3>3. CASE Finish /\ (kind = "done" \/ (kind = "needMore" /\ srcEof))
      <4>1. KeepsRows
        BY <2>3, <3>2, <3>3, CallKinds DEF Finish, Return, KeepsRows, source, made
      <4> QED
        BY <4>1, KeepsRowsRead
    <3>4. CASE kind = "inRow" /\ srcEof /\ Fail("inRow")
      <4>1. KeepsRows
        BY <2>3, <3>2, <3>4, CallKinds DEF Fail, Return, KeepsRows, source, made
      <4> QED
        BY <4>1, KeepsRowsRead
    <3>5. CASE Fail("literal") \/ Fail("tooLong")
      <4>1. KeepsRows
        BY <2>3, <3>5, CallKinds DEF Fail, Return, KeepsRows, source, made
      <4> QED
        BY <4>1, KeepsRowsRead
    <3> QED
      BY <2>3, <3>1, <3>3, <3>4, <3>5 DEF NoRow
  <2>4. CASE RowMore(FindNextRow(pending).kind)
    BY <2>4, PullKeepsRows, KeepsRowsRead DEF RowMore
  <2> QED
    BY <1>2, <2>1, <2>2, <2>3, <2>4 DEF NextRow, RowScanned
<1>3. CASE Call
  <2>1. KeepsRows
    BY <1>0, <1>3, CallKinds DEF Call, KeepsRows, source, reader, made
  <2> QED
    BY <2>1, KeepsRowsRead
<1>4. CASE ReopenTail
  <2>1. /\ doc' = doc /\ columns' = 0 /\ err' = "none" /\ ~finished' /\ out' = <<>>
        /\ origin' = base /\ parsed' = ParsedFrom(base)
    BY <1>4 DEF ReopenTail
  <2>2. ~Opened'
    BY <2>1 DEF Opened
  <2>3. RowsAreParsers' /\ RowsLeft'
    BY <2>1, <2>2 DEF RowsAreParsers, RowsLeft
  <2>4. Rest(base) \in Seq(ByteClass)
    BY BufferIsStart
  <2>5. MovedSpans(Dataset(Rest(base)).rows, ParsedFrom(base).rows, base)
    BY <2>4, ParsedRows
  <2>6. Rest(origin)' = Rest(base)
    BY <2>1 DEF Rest
  <2> QED
    BY <2>1, <2>3, <2>5, <2>6 DEF RowsRead
<1>5. CASE Refused \/ UNCHANGED vars
  <2>1. KeepsRows
    BY <1>0, <1>5 DEF Refused, vars, KeepsRows, made
  <2> QED
    BY <2>1, KeepsRowsRead
<1> QED
  BY <1>1, <1>2, <1>3, <1>4, <1>5 DEF Next, Turn

\* The rows handed out are disjoint pieces of the document in source order, from
\* an opening to a closing parenthesis, and they are the rows the parser reads
\* (DatasetReader.RowsInOrder): next_row and scan_one (dataset_reader.rs) cut
\* them out of a buffer that holds a part of the stream, with a scan that does
\* not lex, and hand the parser one at a time, while parser.rs lexes and parses
\* the whole document.  A reader that says there are no more, or that a row is
\* none or is cut short, has handed out all the parser reads.  For every
\* document, every split into reads, every limit, and every reader of a tail.
THEOREM RowsComeInOrder == Spec => []RowsInOrder
<1>1. Init => RowsApart
  BY DEF Init, RowsApart
<1>2. Conserving /\ RowsApart /\ [Next]_vars => RowsApart'
  BY RowsApartStep
<1>3. Conserving /\ HeaderRead /\ [Next]_vars => HeaderRead'
  BY HeaderReadStep
<1>4. Conserving /\ HeaderRead /\ RowsRead /\ [Next]_vars => RowsRead'
  BY RowsReadStep
<1>5. RowsApart /\ RowsRead => RowsInOrder
  BY DEF RowsRead, RowsInOrder
<1> QED
  BY <1>1, <1>2, <1>3, <1>4, <1>5, HeaderReadInit, RowsReadInit, ReaderConserves, PTL DEF Spec
=============================================================================
