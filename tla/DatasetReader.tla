--------------------------- MODULE DatasetReader ---------------------------
(***************************************************************************)
(* DatasetReader (dataset_reader.rs): reads the @dataset of a stream a row *)
(* at a time.  The reader pulls chunks into `pending`, scans them for the  *)
(* header and then for rows, and drains what it has used.  A caller asks   *)
(* for rows (next_row), or for rows bound to a message type (scan_one),    *)
(* and after the last row may open another reader on the rest (tail).      *)
(*                                                                         *)
(* One step is one turn of the loop of read_header or next_row.  A read    *)
(* that is Interrupted is retried at once and is no step.                  *)
(***************************************************************************)
EXTENDS RowScanner, DatasetGrammar

CONSTANTS
  Docs,            \* the documents a stream may carry
  PullSize,        \* the most bytes one read asks for (STREAM_PULL_SIZE)
  HeaderMax,       \* DEFAULT_HEADER_MAX_BYTES
  MaxMessageSize,  \* Limits::max_message_size
  Types,           \* the message types rows are bound to
  Fits             \* the pairs <<t, n>> where the n columns are paths of t

ASSUME DocsAssumption   == \A doc \in Docs : doc \in Seq(ByteClass)
ASSUME LimitsAssumption == /\ PullSize \in Nat \ {0}
                           /\ HeaderMax \in Nat
                           /\ MaxMessageSize \in Nat

VARIABLES
  doc,           \* the bytes of the stream
  got,           \* how many of them the source has handed over
  srcEof,        \* a read has reported the end of the source
  pending,       \* bytes read and not yet used
  finished,      \* the row sequence is exhausted
  err,           \* the sticky error; "none" when there is none
  columns,       \* the number of columns in the header
  pathsChecked,  \* the types whose column paths are known to fit
  call,          \* the call in progress
  ret,           \* what the last call returned
  base,          \* history: how many bytes of doc are used up
  origin,        \* history: base when this reader was made
  out,           \* history: the rows taken from the stream, as spans of doc
  parsed,        \* history: what the parser makes of doc from origin on
  tick           \* flips with every turn, so that a turn which does nothing
                 \* else is a step all the same

source == <<doc, got, srcEof>>
reader == <<pending, finished, err, columns, pathsChecked>>
made   == <<origin, parsed>>
vars   == <<doc, got, srcEof, pending, finished, err, columns, pathsChecked,
            call, ret, base, out, origin, parsed, tick>>

New     == [op |-> "new"]
NextOp  == [op |-> "next_row"]
Scan(t) == [op |-> "scan_one", type |-> t]
NoCall  == [op |-> "none"]

Calls  == {NextOp} \cup {Scan(t) : t \in Types}
Errors == {"literal", "row", "inRow", "tooLong", "io"}

\* A reader exists once its construction has returned without an error.
Opened == columns > 0

\* What the parser makes of the first dataset after position n of the document.
ParsedFrom(n) ==
  LET shift(row)  == [from |-> n + row.from, to |-> n + row.to]
      shifted(d)  == [d EXCEPT !.rows = [i \in DOMAIN @ |-> shift(@[i])]]
  IN  shifted(Dataset(SubSeq(doc, n + 1, Len(doc))))

-----------------------------------------------------------------------------
Init ==
  /\ doc \in Docs
  /\ got = 0 /\ srcEof = FALSE
  /\ pending = <<>> /\ finished = FALSE /\ err = "none"
  /\ columns = 0 /\ pathsChecked = {}
  /\ call = New /\ ret = "none"
  /\ base = 0 /\ out = <<>>
  /\ origin = 0 /\ parsed = ParsedFrom(0)
  /\ tick = FALSE

Return(r) == call' = NoCall /\ ret' = r

\* Mutant of Drain: one byte too many.
DrainOneMore(end) ==
  /\ pending' = SubSeq(pending, end + 2, Len(pending))
  /\ base' = base + end + 1

\* The used bytes leave the buffer: all up to and including position end.
Drain(end) ==
  /\ pending' = SubSeq(pending, end + 1, Len(pending))
  /\ base' = base + end

\* An error the reader keeps.
Fail(e) ==
  /\ err' = e
  /\ Return("error")
  /\ UNCHANGED <<source, pending, finished, columns, pathsChecked, base, out, made>>

(***************************************************************************)
(* pull: the source hands over some of what it has left, or reports its    *)
(* end, or fails.  Nothing is read again after the end was reported.       *)
(***************************************************************************)
PullBytes ==
  /\ ~srcEof
  /\ \E n \in 1..PullSize :
       /\ got + n <= Len(doc)
       /\ got' = got + n
       /\ pending' = pending \o SubSeq(doc, got + 1, got + n)
  /\ UNCHANGED <<doc, srcEof, finished, err, columns, pathsChecked,
                 call, ret, base, out, made>>

\* Mutant of PullEof: the end of the source is not remembered.
PullEofForgotten ==
  /\ ~srcEof
  /\ got = Len(doc)
  /\ UNCHANGED <<doc, got, srcEof, reader, call, ret, base, out, made>>

PullEof ==
  /\ ~srcEof
  /\ got = Len(doc)
  /\ srcEof' = TRUE
  /\ UNCHANGED <<doc, got, reader, call, ret, base, out, made>>

PullFails == ~srcEof /\ Fail("io")

Pull == PullBytes \/ PullEof \/ PullFails

(***************************************************************************)
(* read_header: a reader that fails here is never handed to the caller.    *)
(***************************************************************************)
HeaderFound(end) ==
  /\ end > 0 /\ end <= MaxMessageSize
  /\ ParseHeader(SubSeq(pending, 1, end)) > 0
  /\ columns' = ParseHeader(SubSeq(pending, 1, end))
  /\ Drain(end)
  /\ Return("reader")
  /\ UNCHANGED <<source, finished, err, pathsChecked, out, made>>

HeaderRefused(end) ==
  \/ end = Malformed /\ Fail("literal")
  \/ end > 0 /\ end > MaxMessageSize /\ Fail("tooLong")
  \/ /\ end > 0 /\ end <= MaxMessageSize
     /\ ParseHeader(SubSeq(pending, 1, end)) = 0
     /\ Fail("row")
  \/ end = Incomplete /\ srcEof /\ Fail("inRow")
  \/ end = Incomplete /\ ~srcEof /\ Len(pending) >= HeaderMax /\ Fail("tooLong")

HeaderMore(end) ==
  /\ end = Incomplete
  /\ ~srcEof
  /\ Len(pending) < HeaderMax
  /\ Pull

HeaderScanned(end) == HeaderFound(end) \/ HeaderRefused(end) \/ HeaderMore(end)

ReadHeader == call = New /\ HeaderScanned(ScanHeaderEnd(pending))

(***************************************************************************)
(* The calls of a caller that holds a reader.                              *)
(***************************************************************************)
Call ==
  /\ Opened /\ call = NoCall
  /\ call' \in Calls
  /\ ret' = "none"
  /\ UNCHANGED <<source, reader, base, out, made, tick>>

\* Mutant of ReopenTail: the tail is the source alone, without the buffer.
TailDropsBuffer ==
  /\ Opened /\ call = NoCall
  /\ finished
  /\ got' = got /\ srcEof' = FALSE
  /\ pending' = <<>> /\ finished' = FALSE /\ err' = "none"
  /\ columns' = 0 /\ pathsChecked' = {}
  /\ call' = New /\ ret' = "none"
  /\ out' = <<>>
  /\ origin' = base /\ parsed' = ParsedFrom(base)
  /\ UNCHANGED <<doc, base, tick>>

\* tail, and a reader made from it: what this reader buffered comes before
\* what its source has left.
ReopenTail ==
  /\ Opened /\ call = NoCall
  /\ finished
  /\ got' = base /\ srcEof' = FALSE
  /\ pending' = <<>> /\ finished' = FALSE /\ err' = "none"
  /\ columns' = 0 /\ pathsChecked' = {}
  /\ call' = New /\ ret' = "none"
  /\ out' = <<>>
  /\ origin' = base /\ parsed' = ParsedFrom(base)
  /\ UNCHANGED <<doc, base, tick>>

\* A reader that has failed, or has reached the end, says so again.
Again ==
  /\ \/ err # "none" /\ Return("error")
     \/ err = "none" /\ finished /\ Return("end")
  /\ UNCHANGED <<source, reader, base, out, made>>

\* The row sequence ends.
Finish ==
  /\ finished' = TRUE
  /\ Return("end")
  /\ UNCHANGED <<source, pending, err, columns, pathsChecked, base, out, made>>

\* Mutant of Checked: any type's check will do.
AnyTypeChecked(t) == pathsChecked # {}

(***************************************************************************)
(* A row was cut out and parsed.  next_row returns it; scan_one binds it   *)
(* to its type, after checking the columns against the type unless it was  *)
(* the one checked last.  A row that does not bind is used up all the same *)
(* and leaves no error behind.                                             *)
(***************************************************************************)
Checked(t) == t \in pathsChecked

Bind(t) ==
  \/ /\ Checked(t) \/ <<t, columns>> \in Fits
     /\ Return("message")
     /\ pathsChecked' = {t}
  \/ /\ Return("error")   \* the columns do not fit, or a cell does not bind
     /\ UNCHANGED pathsChecked

\* Mutant of TakeRow: the row stays in the buffer.
TakeRowUndrained(found) ==
  /\ UNCHANGED <<pending, base>>
  /\ out' = Append(out, [from |-> base + found.from, to |-> base + found.to])
  /\ \/ call = NextOp /\ Return("row") /\ UNCHANGED pathsChecked
     \/ \E t \in Types : call = Scan(t) /\ Bind(t)
  /\ UNCHANGED <<source, finished, err, columns, made>>

TakeRow(found) ==
  /\ Drain(found.to)
  /\ out' = Append(out, [from |-> base + found.from, to |-> base + found.to])
  /\ \/ call = NextOp /\ Return("row") /\ UNCHANGED pathsChecked
     \/ \E t \in Types : call = Scan(t) /\ Bind(t)
  /\ UNCHANGED <<source, finished, err, columns, made>>

RowFits(found) == found.to - found.from + 1 <= MaxMessageSize

\* The bytes of a row that does not parse are used up too.
RefuseRow(found) ==
  /\ Drain(found.to)
  /\ err' = IF RowFits(found) THEN "row" ELSE "tooLong"
  /\ Return("error")
  /\ UNCHANGED <<source, finished, columns, pathsChecked, out, made>>

RowParses(found) ==
  /\ RowFits(found)
  /\ ParseRow(SubSeq(pending, found.from, found.to), columns)

Row(found) ==
  /\ found.kind = "found"
  /\ IF RowParses(found) THEN TakeRow(found) ELSE RefuseRow(found)

\* Mutant of NoRow: a row without its parenthesis is the end of the rows.
NoRowEndsInRow(kind) ==
  \/ kind = "error" /\ Fail("literal")
  \/ kind = "done" /\ Finish
  \/ kind \in {"needMore", "inRow"} /\ srcEof /\ Finish
  \/ /\ kind \in {"needMore", "inRow"} /\ ~srcEof
     /\ Len(pending) >= MaxMessageSize
     /\ Fail("tooLong")

\* Input ran out between rows or in one.
NoRow(kind) ==
  \/ kind = "error" /\ Fail("literal")
  \/ kind = "done" /\ Finish
  \/ kind = "needMore" /\ srcEof /\ Finish
  \/ kind = "inRow" /\ srcEof /\ Fail("inRow")
  \/ /\ kind \in {"needMore", "inRow"} /\ ~srcEof
     /\ Len(pending) >= MaxMessageSize
     /\ Fail("tooLong")

\* Mutant of RowMore: no limit on what is held for a row.
RowMoreUnbounded(kind) ==
  kind \in {"needMore", "inRow"} /\ ~srcEof /\ Pull

RowMore(kind) ==
  /\ kind \in {"needMore", "inRow"}
  /\ ~srcEof
  /\ Len(pending) < MaxMessageSize
  /\ Pull

RowScanned(found) == Row(found) \/ NoRow(found.kind) \/ RowMore(found.kind)

\* Mutant of NextRow: a reader that has failed may try again.
NextRowRetries ==
  /\ call \in Calls
  /\ \/ Again
     \/ ~finished /\ RowScanned(FindNextRow(pending))

NextRow ==
  /\ call \in Calls
  /\ \/ Again
     \/ err = "none" /\ ~finished /\ RowScanned(FindNextRow(pending))

-----------------------------------------------------------------------------
\* A turn of the loop of the call in progress.
Turn == (ReadHeader \/ NextRow) /\ tick' = ~tick

\* A reader that could not be made: there is nothing to call.
Refused == ~Opened /\ call = NoCall /\ UNCHANGED vars

Next == Turn \/ Call \/ ReopenTail \/ Refused

Spec == Init /\ [][Next]_vars

\* A call in progress keeps turning: the reader is sequential code, and a read
\* of the source returns.  This is WF_vars(Turn) with its ENABLED spelled out:
\* a turn is enabled exactly during a call, for no state of a call deadlocks.
Fairness == []<>(call = NoCall) \/ []<><<Turn>>_vars

FairSpec == Spec /\ Fairness

-----------------------------------------------------------------------------
TypeOK ==
  /\ doc \in Docs
  /\ got \in 0..Len(doc) /\ base \in 0..got /\ origin \in 0..base
  /\ srcEof \in BOOLEAN /\ finished \in BOOLEAN
  /\ pending \in Seq(ByteClass)
  /\ err \in Errors \cup {"none"}
  /\ pathsChecked \in SUBSET Types
  /\ call \in Calls \cup {New, NoCall}
  /\ ret \in {"none", "reader", "row", "message", "end", "error"}
  /\ out \in Seq([from : Nat, to : Nat])

\* No byte of the stream is lost, repeated or reordered between the source,
\* the buffer and the rows: the buffer holds exactly what was read and is not
\* used up (pull, the drains of read_header and next_row, tail).
BytesConserved == pending = SubSeq(doc, base + 1, got)

\* A stream that never ends its header or a row cannot make the buffer grow:
\* it holds less than the larger limit and one read (with_limits).
BufferBounded ==
  Len(pending) < PullSize + (IF HeaderMax > MaxMessageSize THEN HeaderMax
                                                           ELSE MaxMessageSize)

\* The rows handed out are disjoint pieces of the document in source order,
\* each from an opening to a closing parenthesis, all of them used up.
RowsApart ==
  \A i \in 1..Len(out) :
    /\ doc[out[i].from] = "(" /\ doc[out[i].to] = ")"
    /\ out[i].from <= out[i].to /\ out[i].to <= base
    /\ out[i].from > (IF i = 1 THEN origin ELSE out[i - 1].to)

\* They are the parser's rows, as many as it reads; a reader that says there are
\* no more, or that a row is no row or is cut short, has handed all of them out.
RowsAreParsers ==
  /\ \A i \in 1..Len(out) : i <= Len(parsed.rows) => out[i] = parsed.rows[i]
  /\ Opened /\ (finished \/ err \in {"row", "inRow"}) => Len(out) >= Len(parsed.rows)

\* next_row hands out the rows the parser reads in the whole document, each once
\* and in its order, although it sees only what is buffered and never lexes.
RowsInOrder == RowsApart /\ RowsAreParsers

-----------------------------------------------------------------------------
\* A reader that opens has read the header the parser reads; one that refuses
\* the document for another reason than a limit or a failed read refuses what
\* the parser refuses.
HeaderAgrees ==
  /\ Opened => columns = parsed.columns
  /\ ~Opened /\ err \in {"literal", "row", "inRow"} => parsed.columns = 0

\* A reader that gives up on a row gives up where the parser does: it has
\* handed out every row before, and the parser refuses the document there.
RefusesWhatParserRefuses ==
  Opened /\ err \in {"literal", "row", "inRow"}
    => parsed.end = "error" /\ Len(out) = Len(parsed.rows)

\* A reader that has failed stays as it is ("Any error makes the reader
\* sticky"): it reads nothing and hands out no row, and no reader can be made of
\* its tail.
FailureIsFinal ==
  [][err # "none" => UNCHANGED <<source, reader, base, out, made>>]_vars

\* A row bound to a message was bound to a type that the header's columns are
\* paths of, though the columns are checked only when the type changes.
BoundTypeFits ==
  [][ret' = "message" => \E t \in Types : call = Scan(t) /\ <<t, columns>> \in Fits]_vars

\* What the documentation of next_row says of a reader that has failed: "after
\* a sticky error, also returns `None`".
AfterErrorNone ==
  [][err # "none" /\ call # NoCall => ret' = "end"]_vars

\* What the documentation of the reader says of every error, that of a row which
\* does not bind included: "Any error makes the reader sticky".
ErrorsStick == [][ret' = "error" => err' # "none"]_vars

\* Every call returns, however short the reads: no turn of a loop waits for
\* bytes that do not come.
CallsReturn == call # NoCall ~> call = NoCall

-----------------------------------------------------------------------------
\* The reader hands out the parser's rows, in order, and says they are at
\* their end only when they are.
Status == IF ~Opened THEN "closed"
          ELSE IF err # "none" THEN "broken"
          ELSE IF finished THEN "ended" ELSE "open"

Stream == INSTANCE RowStream
            WITH rows   <- IF Opened THEN parsed.rows ELSE <<>>,
                 sound  <- Opened /\ parsed.end # "error",
                 given  <- out,
                 status <- Status

StreamsRows == Stream!Spec
=============================================================================
