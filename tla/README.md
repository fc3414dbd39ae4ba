# Verification of protowire-rust

TLA+ models of the codecs of this repository, the TLC runs that check them on
small instances, and theorems about them that TLAPS checks for every instance.
The code is a set of libraries: nothing runs by itself, there are no threads and
nothing is persisted. What is hard in it is the agreement of several readers
and writers of one language, streams that arrive in parts, objects that are
called again after an error, and limits that must hold against any input.

## The system

| Component (under `src/crates`) | State it keeps | Operations | Hard part |
|---|---|---|---|
| Streaming dataset reader, `protowire-pxf/src/dataset_reader.rs` | the source, the buffer `pending`, `finished`, the sticky `err`, the header, the type checked last | `with_limits`, `next_row`, `scan_one`, `tail` | reads end anywhere; a byte scanner must agree with the parser; errors and the end must stay |
| PXF lexer and parser, `lexer.rs`, `parser.rs`, `token.rs`, `ast.rs` | position, lookahead, depth | `parse`, `parse_row`, `next_token` | nesting limit, the order of directives, comments |
| PXF decoder, `decode.rs`, `annotations.rs`, `limits.rs`, `result.rs`, `errors.rs` | the message being filled, presence paths, seen fields and oneofs, depth | `unmarshal`, `unmarshal_full` | presence against null, duplicates over blocks and entries, depth on every recursive path, required fields and defaults after it |
| Keyed blocks, `keyed.rs` | the keys seen in a block | conversion between keyed blocks and lists | duplicate keys, order |
| Post-decode plan, `post_decode_plan.rs` | a cache of the types that need the walk | `plan` | recursive types |
| Dataset columns, `dataset_paths.rs` | none | column path checks, the body of a row | a prefix of a path used twice |
| Schema checks, `schema.rs` | the set of types visited | `validate` | closure of recursive types |
| PXF encoder and formatter, `encode.rs`, `format.rs` | depth, output | `marshal`, `format_document` | what it writes must be read back |
| Numbers, `bignum.rs`, `bigfloat.rs`, `carrier.rs` | none | decimal, big integer and float conversions | rounding, overflow, signs |
| Wire format, `protowire-pb/src/wire.rs` | `Writer`: bytes, open depth, an error kept; `Reader`: position, depth, limits | varints, tags, bytes, skip, nested messages | lengths that wrap, depth across nested readers |
| Binary messages, `protowire-pb/src/codec.rs` | none | `marshal_with`, `unmarshal_with`, `read_message`, maps, repeated fields | a nested message is a range of one buffer, reads are bounded by the buffer |
| Envelope, `protowire-envelope` | the fields of an envelope | `marshal`, `unmarshal`, constructors | merging of repeated singular fields, zero values of map entries |
| SBE codec, `protowire-sbe/src/{codec,template,marshal,unmarshal,view}.rs` | templates by type and by id | `marshal`, `unmarshal`, `View` | fixed offsets, group headers of 16 bits, two readers of one layout |
| SBE XML conversion, `xmlschema.rs`, `xmltoproto.rs`, `prototoxml.rs`, `saxlite.rs` | none | text to text | names and layout only |
| Harnesses, `check-decode`, `dump-envelope`, `bench-*` | none | run the codecs on files | pure I/O |

The components meet by calls. The dataset reader hands the header and each row
it has cut out to the parser, and a bound row to the decoder. The decoder uses
the lexer, the annotations and the post-decode plan. The envelope is messages of
`protowire-pb`. SBE shares only the descriptors with the rest.

What makes each part correct:

- *Dataset reader*: whatever the reads, the caller gets the rows the parser sees,
  in order, once; the end is reported only if the document ends there; an error
  stays; the buffer is bounded; the rest of the stream is whole after the end.
- *Lexer and parser*: every document is accepted or refused within the depth
  limit; a document that is formatted and parsed again is the same.
- *Decoder*: a field is present, null or absent, exactly one of them; a repeated
  singular field and a second member of a oneof are refused wherever they stand;
  depth is bounded on every recursive path.
- *Wire format and messages*: no read leaves the buffer; what is accepted is a
  tree of messages that each fill their range; limits hold while reading; what was
  written is read back, and writer and reader agree about depth.
- *SBE*: what `marshal` writes, `unmarshal` and `View` read alike; a buffer either
  of them accepts is laid out as the template says.

## Modules

| Module | Models | Extends |
|---|---|---|
| `PxfText` | bytes as classes, literals and comments, the lexer's tokens (`lexer.rs`) | |
| `RowScanner` | the byte scanner: `skip_string_or_comment`, `find_next_row`, `scan_header_end` (`dataset_reader.rs`) | `PxfText` |
| `DatasetGrammar` | directives, the `@dataset` header and rows as the parser reads them (`parser.rs`) | `PxfText` |
| `RowArrival` | the scanner on every text, a byte at a time | `RowScanner`, `DatasetGrammar` |
| `RowStream` | the abstract promise: rows in order, then the end or a failure (no map: it is a specification, not code) | |
| `DatasetReader` | the reader: `pull`, `read_header`, `next_row`, `scan_one`, `tail` | `RowScanner`, `DatasetGrammar`, instance of `RowStream` |
| `ScannerProofs` | what scanner and lexer make of a text and of its parts, for every text (no code) | `RowScanner`, `DatasetGrammar`, `Induction` |
| `RowArrivalProofs` | theorems about the scanner | `RowArrival`, `ScannerProofs` |
| `DatasetReaderProofs` | theorems about the reader | `DatasetReader`, `ScannerProofs` |
| `PbWire` | varints, tags, lengths, strings, `skip` (`wire.rs`) | |
| `PbReader` | `unmarshal_with` and `read_message` over any schema (`codec.rs`) | `PbWire` |
| `Induction` | induction and recursion over numbers, in a form the provers can use (no code) | library modules |
| `PbReaderProofs` | theorems about the decoder, and the envelope's | `EnvelopeCodec`, `Induction` |
| `EnvelopeCodec` | the envelope's schema and encoders, decoding slice by slice as the reference | `PbReader` |
| `SbeTemplate` | `from_files`, `build_template` and what it calls (`codec.rs`, `template.rs`) | |
| `SbeReader` | `unmarshal`, `View` and `GroupView`, with the checks of headers (`unmarshal.rs`, `view.rs`, `codec.rs`) | `SbeTemplate` |
| `SbeReaderProofs` | theorems about templates, decoder and views | `SbeReader`, `Induction` |
| `SbeCodec` | `marshal`, and what writer, decoder and views owe each other (`marshal.rs`) | `SbeReader` |
| `PxfSchema` | message types with their annotations, the checks of a schema, the plan of the pass after a decode (`annotations.rs`, `keyed.rs`, `schema.rs`, `post_decode_plan.rs`) | |
| `PxfDecoder` | `unmarshal_full` and the decoder, item by item (`decode.rs`) | `PxfSchema` |
| `PxfDecoderProofs` | theorems about the decoder | `PxfDecoder`, `TLAPS` |
| `PxfPassProofs` | theorems about the plan, the pass after a decode, defaults and oneofs | `PxfDecoderProofs`, `Induction` |
| `PxfDocument` | the encoder, the formatter and the conversion of keyed lists (`encode.rs`, `format.rs`, `keyed.rs`), and what they owe the decoder | `PxfDecoder` |
| `RowBinding` | `bind_row` and the checks of column paths (`dataset_reader.rs`, `dataset_paths.rs`) | `PxfDocument` |
| `BigNat` | integers of any size in limbs (`bigfloat.rs`, `bignum.rs`) | |
| `BigFloat` | binary floating point at any precision, and its decimal literals (`bigfloat.rs`) | `BigNat` |
| `Literals` | the literals of `BigInt`, `Decimal`, `BigFloat`, `Timestamp` and `Duration`, read and written (`bignum.rs`, `decode.rs`, `encode.rs`) | `BigFloat` |

`MCRowArrival`, `MCDatasetReader`, `MCEnvelopeCodec`, `MCSbeCodec`, `MCPxfDocument` and
`MCLiterals` give the constants their values.

### The dataset reader

State. `pending`, `finished`, `err`, `pathsChecked` are the fields of
`DatasetReader` of the same names; `columns` is the number of the header's
columns (0 until the header has been read); `doc`, `got` and `srcEof` are the source
behind `src`; `call` and `ret` are the call in progress and what the last one
returned. `base`, `origin`, `out` and `parsed` are history: how much of the stream
is used up, where this reader began, the rows taken, and what the parser
makes of the same bytes. No guard of the code's actions reads them.

Actions. One step is one turn of the loop in `read_header` (`ReadHeader`) or
`next_row` (`NextRow`): scan `pending`, then either take what was found, or end,
or refuse, or `Pull`. `Pull` is a read: it brings one to `PullSize` bytes, or the
end, or fails. A read that is `Interrupted` is retried at once inside `pull` and is
no step. `Call` starts `next_row` or `scan_one` with a type; `ReopenTail` is `tail`
and `with_limits` on its result, after the end of the rows only: the doc of
`tail` demands that of the caller (dataset_reader.rs:227). `Refused` is a constructor that
returned an error: the caller has no reader, so nothing more happens.

Abstractions.

- A byte is a class of bytes that both the lexer and the scanner treat alike
  (the list is in `PxfText`). The word `dataset` is one class and arrives at
  once, so a read does not end inside it; a header whose keyword is split is
  `Incomplete` in the code as it is in the model one byte before.
- Cells are scalars. Lists and blocks nest, and are in `RowBinding`;
  a nested parenthesis is not a cell and is in the runs as one.
- A header's columns are their number. Whether they are paths of a type is the
  constant `Fits`; whether a cell then binds is a choice (`Bind`). `RowBinding` models
  both for themselves.
- A row the parser refuses is used up before the error is returned
  (`RefuseRow`), as in the code (dataset_reader.rs:155 drains whether the row
  parsed or not).

Fairness. The reader is sequential code: during a call its loop keeps turning, and
a read returns. `Fairness` says this as weak fairness of `Turn` with its `ENABLED`
written out, which is sound because the run checks that no call deadlocks. A
turn that changes nothing would be a stuttering step and hide a loop that never
ends; `tick` flips with every turn so that it is a step.

### Binary messages and the envelope

State. `pos`, `depth` and `limits` are the fields of `Reader`; `data` is its
buffer. `stack` is the Rust call stack of `read_message`: for each message being
read its type, its `end`, the struct filled so far, and the field of the message
around it that waits for it. `err` is the result.

Actions. One step is one turn of the loop in `unmarshal_with` or `read_message`
(`ReadField`): a tag, then what `merge_field` does with its number, which is a
scalar read and stored, a nested message entered, or a field skipped.
`LeaveMessage` is the end of `read_message` and the rest of the `merge_field` that
called it; `TooLarge` and `Finish` are the ends of `unmarshal_with`. The `Message`
impls are a table, `Schema`; how a field is read depends on its number there and
never on the wire type of the tag, as in the code. The encoders are functions from
a message to bytes and a refusal: a `Writer` has no other state.

Abstractions. The code's widths of 64 and 32 bits and ten varint bytes are the
constants `Width`, `Width32`, `MaxVarintBytes`, 22, 11 and 4 in the run, so that a
length can wrap, a varint can be too long and a negative `int32` takes the longest
varint with bits to spare. A character is one byte below 128. A message is a
function from field names to values, an optional message a list of at most one, a
`HashMap` a list of entries in the order of insertion. Zigzag numbers, values of
fixed width and packed fields are left out; the envelope has none.

`ReadsAsSliced` compares the decoder with a reference that never shares a buffer:
`Cut` takes a slice apart into whole fields, and a nested message is decoded from
a slice of its own.

Nothing is assumed fair. That a decode ends is the action property `Advances`: a
step returns, moves on in the buffer, or leaves a message in place, and neither
can go on forever.

### SBE

State. `byName`, `byId` and `limits` are the fields of `Codec`; `file` and `pending`
are the loop of `from_files` and the recursion of `register_message`, `stack` that of
`build_template` into groups and composites. In the reader, `frames` is the Rust
call stack of `read_field`: the message's block, above it at most one group entry
or composite, then composites in it. `pos`, `nth`, `group` and `entries` are the
locals of `unmarshal_message` and `unmarshal_group`; `view` is the `View` or
`GroupView` in the client's hands, `walk` the loop in `View::group`, and `called` what
the last call returned. `seen` in a view is history: the part of the decoded
message it stands on.

Actions. `Build` takes one step per field, and one to end a message, composite or
group. Then one buffer is decoded (`Decode`): a step reads a scalar, enters or leaves a
composite or an entry, or checks a group's header. Then (`Look`) the client opens a
view of the same buffer and goes from block to block as it likes, to any
composite, group and entry; a view's scalars need no step, `ViewAgrees` and
`InBounds` ask about all of them. In `SbeCodec` the buffer is what `Marshal` writes, the
same from a writer whose blocks are two bytes longer, or a damaged one.

Abstractions.

- A byte has `Base` values, 4 in the runs: a `u16` is 0 to 15, so that lengths and
  counts come to its limit; an `int8` is -2 to 1. The bytes of a text are NUL, one
  for a character of one byte, and `Lead` and `Trail` for one of two. A float is its bits.
- An annotation is a sequence of at most one value; fields come in the order of
  their numbers. A type does not contain itself as a composite: the code would
  build its template forever.
- The refusals of a message's header are one error, `BadMessage`, and those of a
  group's header another. A panic is an error too: `OutOfBounds` for an index outside
  of the buffer, `NoEncoding` for the `expect`.
- `set_field` clears the other members of a oneof (`With`), which only a group's type
  can have.
- `Unmarshal` is called for types with a template, on an empty message.
  An encoding is named only on integers (`SchemaAssumption`).

### The PXF decoder

State. `depth`, `prefix` and `msg` are `Decoder::depth`, `Decoder::path_prefix` and the
message being filled; `present` and `nulls` are `Presence`; `mask` is the root's `_null`.
`frames` is the Rust call stack: a frame for each open bracket and one for
the root, with what the function that reads it has in its locals (the fields and
oneofs bound in a body, the names of a keyed block, the checks left for
the key of an element, the prefix to put back). `input` is the items read so far, `call`
the call: type, options, limits and what the document may consist of.

A document is a sequence of items: an entry up to its value or to the bracket
that opens it, an element of a list, a closing bracket, a directive. `Start` is the
check of the schema; then each step takes the next item, and either `Refuse`s it or
does one of `Directive`, `Null`, `Scalar`, `Message`, `Collection`, `Unknown`, `Skipped`,
`TypeEntry`, `ListItem`, `KeyedEntry`, `MapEntry`, `Close`, `Finish`. Whether an item is refused
is `Refuses`, one operator for each function that reads items. A message is kept flat,
by path: a path is a sequence of field, map key and element number, so that
nested bodies are looked up and not walked, and the module needs no recursive
operator. The paths of the code's `Presence` are the same ones as texts.

`PxfSchema` has the types: fields with their shape, kind, presence, oneof, defaults in
both spellings, required and key. `Violates` is what `walk_message` reports, `Valid` the walk
over imports, `Visit` and `Plan` the plan of the post-decode pass, `Completed` and `Missing`
(in `PxfDecoder`) the pass itself.

Abstractions.

- A scalar is of one of three kinds, a string, an integer or bytes, and its text.
  Booleans, floats and enums take the same paths through the decoder.
- A message that is written as a literal (wrappers, `Timestamp`, `BigInt`, ...) has the role
  `literal` and lists the tokens it takes; what the literal means is in `Literals`. Its
  block form is the form of any message and is not offered.
- The bytes of an Any given raw are the message they are the encoding of (`load`); a body
  under `@type` stays unpacked and carries the URLs it was packed under.
- Of two members of a oneof that both have a default (a schema with violations, which an Any may
  name) the code applies both in order and the last stays. `Kept` is one of them, no matter which;
  the type `Two` of the run has such a oneof.
- Texts that are one integer as a map key ("01" and "1") are the constant `Numeral`.
- What is in a directive's block, or a `@proto`, is legal or illegal and nothing else.
- An `@dataset` header stands with the numbers of the cells of its rows.
- A text that ends inside a bracket ends in the token `eof` there, which no frame but the
  root's takes.

### Documents written and read again

`PxfDocument` adds `route` and `first`: a document that has been read is written again, by
`marshal` or by `format`, and a new decode with the same options reads what was written.
`Marshal` and `Formatted` are the items the encoder and the formatter write: which
fields, in which form (keyed block or list, Any as a body or raw), under which
names. `Marshal` tries an Any body as `any_body_reads_back` does, with the depth that is left at
that place. `Parses` is the parser's grammar over the same items, `Document` what a text says,
read off its tree without the decoder: the reference of `PresenceIsDocument` and `NothingLost`.

### Rows bound to a type

`RowBinding` starts some calls from a row: `BindRow` is `column_path_error`, the check of the
columns against the type, and `write_row`; the text it writes is then decoded as any
other. Each item stands on a line of its own, so that `at_row` can lay an error at a
column: `ColumnNamed`. `RowSays` is the reference: each cell at the path of its column.

### Literals

`Literals` reads a text into the fields of a message, or writes a message and reads what
was written; each is one step, as each is one call of a function without state. The
arithmetic under it is that of the code: `BigNat` has limbs, chunks of digits and the
long division with its estimate and correction; `BigFloat` has `round_into` with its sticky
bit, `mul`, `quo` with two spare bits, powers of five from a table and by squaring, and the
way to and from digits. `RoundedOnce` compares the two operations, and `LiteralsKeepValues` the
whole way, with exact arithmetic on TLC's integers.

The code's widths are constants: limbs of 32 bits are 8 in the run, bytes of 8 bits are 4,
nine digits at a time are 2, an `i32` exponent reaches 45, the precision of a
literal without a suffix is 5, literals have up to 5 digits, a second 1000 nanoseconds,
minutes, hours and days 2 of the next smaller unit each, a duration reaches 8192, and an
`i128` 67108863. A text is its sign, digits, exponent, segments or date, not its characters:
malformed spellings are refused by the lexer before.

## Runs

| Run | What it asks | Bounds, and why they are enough |
|---|---|---|
| `row_arrival` | over every text, is the row the scanner cuts out the row the parser reads, and does it stay when more bytes arrive | all texts of up to 6 bytes over 8 classes: a quote, an escape, a comment of either kind and a parenthesis inside and outside of it all fit |
| `dataset_reader` | the reader against the parser on a few hundred documents, under every split into reads of 1 to 3 bytes, with reads that fail, limits of 11 bytes, two types, and readers chained on `tail` | headers and rows are put together so that each literal and comment hides a parenthesis, stands before another row, and is cut at each byte; some rows and headers are longer than the limit |
| `split_comment` | finding: a read that ends between the two bytes that open a comment between rows | two documents |
| `after_error` | finding: `None` after a sticky error | as `dataset_reader` |
| `sticky_errors` | finding: an error that does not stick | as `dataset_reader` |
| `envelope_codec` | the decoder on envelopes as written, cut short, with a byte left out, put in or replaced, and concatenated, under limits on size, depth and count | seven envelopes that have every field absent, empty and filled, lists and maps of up to two; 15 bytes that stand for the tags of each message, unknown fields of every wire type and both ends of a varint; depths 0 to 3 around the envelope's own depth of 2; counts 0 to 2 |
| `sbe_codec` | templates from sound and refused schemas; messages as written, by a newer writer, and damaged, decoded and then viewed along every path | ten lists of files with a composite in a composite and in a group, narrowed numbers of both signs, two groups, two types of one id, an id without room in 16 bits, each unsupported field; thirteen messages with lists of 0 to 3 and of 16 entries and texts that end in a NUL or must be cut in a character; every byte up to the 34th replaced, left out or followed by another, and the end cut off at each; counts limited to 1 and 2, sizes to 30 |
| `empty_composite` | finding: a field whose type has no fields | one message, one buffer |
| `group_oneof` | finding: a oneof in a group's type | one file |
| `pxf_document` | documents decoded, written by encoder and formatter, and read back; rows bound | sixteen calls over fourteen types in four files. Twelve are offered every document of up to 2 to 9 items from 2 to 15 that exercise one part: presence and oneofs, keyed blocks and lists of one field, keys in oneofs, plain lists, maps of three kinds of key, recursive types, Anys in Anys, Anys in lists, maps and keyed blocks, dropped fields, directives, nulls and the mask, an invalid schema two imports away. Four are given texts of up to 37 items: all kinds of Any in one document at a limit that holds them and at one below, a keyed field bound as a block and as a list, and an entry that is no block. Depths 0 to 4 and counts 1, 2 and 9 lie around what the items can reach. About 8000 rows of two or three columns that share prefixes, in every order, with each kind of cell |
| `within_grammar` | finding: the decoder against the parser's grammar | as `pxf_document` |
| `literals` | each literal read, each message written and read again, and the float operations | the widths above; texts and values around each limit: carries over limbs, mantissas between two bounds of precision, ties, exponents at and past the limit, more digits than a literal may have, durations at the ends of their range with mixed units and signs, leap years, centuries, zones that change the day |

In `row_arrival` the text simply stops at the bound, so deadlock is not checked
there. The documents of `dataset_reader` leave out the comments of
`split_comment`, which would refute `RefusesWhatParserRefuses` at once, and keep
comments after `#` between rows and all comments inside rows and headers.

What the passing runs show: `ScannerFindsParsersRow` and `FoundIsFinal` (the scanner
alone), `BytesConserved`, `BufferBounded`, `RowsInOrder` (the buffer, the drains, and that
the rows cut out are the parser's), `HeaderAgrees`, `RefusesWhatParserRefuses` and `StreamsRows` (agreement with
the parser, `StreamsRows` as refinement of `RowStream`), `FailureIsFinal`,
`BoundTypeFits` (state kept over calls), and `CallsReturn` (liveness). In
`envelope_codec`: `InBuffer`, `DepthBounded`, `CountBounded` (limits, at every step),
`ReadsAsSliced` (what is accepted and what is read), `RoundTrip`, `DepthLimitsAgree`
(writer against reader), `Advances` (every decode ends). In `sbe_codec`: `LaidOut`
(templates without overlaps), `InBounds`, `EntriesBounded` (what headers may do),
`RoundTrip` (what was written is read, also from a newer writer, and refused only
for a limit) and `ViewAgrees` (the decoder against the views). In `pxf_document`:
`DepthIsOpenBrackets`, `CountsBounded` (limits, at every item), `MarksLand` (the prefix and the
paths recorded), `PresenceIsDocument`, `NothingLost` (what is decoded is what the text
says), `RequiredEverywhere`, `DefaultsEverywhere` (the pass after the decode, in Anys, recursive
types and oneofs), `RoundTrip` (encoder against decoder), `FormatKeepsMeaning` (formatter and
keyed conversion), `RowIsItsCells` (rows) and `Finishes` (every call returns). In `literals`:
`RoundedOnce` and `LiteralsKeepValues`.

`RoundTrip` asks nothing of a message no text can say (`Sayable`): a field without presence
that is set to zero, and has a default or is required, is not in the message, and what is
written of it reads back with the default or not at all; and the root's `_null` names no null
inside an element. `LiteralsKeepValues` asks nothing of four kinds of text that are written but
not read (`Promised`, see the findings).

Fairness of `pxf_document`: weak fairness of the decoder's steps and of `BindRow`. A call runs on
one thread to its return and waits for nothing; the text is given when it starts. Whether
and how a document is written again is the client's choice, and not fair. `Finishes` can fail
because every loop of the decoder runs until it sees the bracket that ends it: an item that
is neither taken nor refused would leave it there. Deadlock is not checked in that run and in
`literals`, since a call that has returned is the end.

## Findings

- *A comment split between reads is refused* (`split_comment`). Between rows a lone
  `/` at the end of the buffer is taken for a byte that no row starts with; whether
  a document can be read depends on where the reads of 4096 bytes fall.
- *After an error, the error again* (`after_error`). The doc of `next_row` says
  `None`; the code returns the error on each call.
- *A bind error does not stick* (`sticky_errors`). The doc of the reader says any
  error does; after a row that does not bind, the next call goes on with the next
  row.
- *The decoder accepts what the parser refuses* (`within_grammar`). With `discard_unknown`,
  `5 = 1` decodes: the name of an entry may be an integer, which only an entry of a map may be
  in the grammar, and of an unknown field only the value is read with the parser. The
  comment at decode.rs:1592 says that dropping a field does not exempt it from the
  grammar. A body of an Any in an Any may also open with two `@type` entries.
- *A message field whose type has no fields panics* (`empty_composite`). Its template
  has neither composite fields nor an encoding, and both `unmarshal` and `marshal` run
  into the `expect`.
- *A oneof in a group is not refused* (`group_oneof`). The doc of `build_template`
  counts oneofs among the errors; in a group all members get bytes, and the reader
  keeps the last one.

Met while modelling, shown by no run: `marshal` cuts block lengths, counts and
template ids to 16 bits; a second template with an id takes the first one's place
in `by_id`; a group whose type has no fields is written and then refused by the
reader of the same codec, for its block length of 0. Between rows the scanner steps over strings,
which the parser refuses there; a block comment that is never closed after the
last row ends the rows cleanly although the lexer calls it Illegal
(lexer.rs:302); `merge_field` of the envelope ignores the wire type of a tag; a
field number is cut to 32 bits.

Of the decoder and encoder: `emit_defaults` writes every member of a oneof.
An optional key with the default "" is written `k = ""`, which the decoder refuses. An
explicit `_null` in a document makes `marshal` write the fields it names as null; without one the
mask lacks the nulls inside elements. Types named by an Any are not checked
as `unmarshal` checks the root's. In a keyed field of Anys the `@type` of an entry replaces the
entry's name as `type_url`; and an anonymous list of Anys keyed by `type_url` is
turned into a block under the `type_url` of a packed type that has a field of that name.
A null in a packed type and in an Any's own field of the same name have one path when
the Any is written raw. format.rs:6-8 names two things that are lost; directives, datasets and
protos are lost too, and so are the comments of a key assignment that is dropped.
ast.rs says that cells are scalars; the reader of cells takes any value.

Of literals: a `Decimal` with more digits than a literal may have, leading zeros counted, is
written and refused on reading (the writer does not count leading zeros), and so are a `BigFloat`
written as plain digits, one whose mantissa is wider than its precision and rounds up
past the largest exponent, and a year outside 0 to 9999. Nanos outside of a second make a wrong
`Timestamp`. A part of a duration whose digits times its unit leave `i128` is refused as out of
range, though its value may be small. Fractions are cut per part, so `0.5ns0.5ns` is 0.

## Proofs

`DatasetReaderProofs` proves, from `DocsAssumption` and `LimitsAssumption` (documents
are sequences of byte classes, limits are numbers, a read asks for at least one
byte), for every set of documents, every limit, read size and set of types:

- `TypeCorrect`, `NoByteLost`, `BufferStaysBounded`. The invariant `Conserving` is
  inductive: the three hold only together. A drain keeps `pending` a piece of `doc`
  only if the position it drains to lies in `pending`, which is a fact about the
  scanner (`HeaderEndInText`, `FoundRowInText`), and `base` stays below `got` only
  because of `BytesConserved`.
- `RowsComeInOrder` (the run's `RowsInOrder`). `RowsApart` follows from `Conserving`: a row found
  starts in the buffer, so after `base`, and every row before it was used up. `RowsAreParsers`
  says that the i-th row handed out is the i-th the parser reads, as far as it reads any, and that no
  row is missing when the reader says there are no more. The reader never sees the text the parser
  reads, only a buffer of it that starts anew behind each row, so the invariant `RowsRead` follows the parser
  along: what it would read from `base` on are those of its rows that are not handed out
  (`RowsLeft`). That holds behind the header (`RowsAfterHeader`), and a row taken is the first
  of those left (`FirstRow`, `RowsAfter`), since what the scanner finds in the buffer is what it finds
  in the whole rest (`RowIsFinal`), which is what the parser reads there (`ParsersRowFound`).
  Where the parser stops, nothing is claimed of what the reader still hands out: between rows it is more
  lenient.
- `BoundTypesFit`. `PathsFit` strengthens it: every type in `pathsChecked` fits the
  columns, which no step changes but `ReopenTail`, which also empties the set.
- `FailureStays`. `Failed` says that a failed reader is not finished and in no
  state from which `ReopenTail` or a header is possible.
- `HeadersAgree` (the run's `HeaderAgrees`). `HeaderRead` strengthens it: a reader without a
  header has used up nothing, so its buffer is the start of what the parser reads, and all of it
  once the source is at its end. What it takes, or refuses, is then settled by what `ScannerProofs` shows
  of a header cut out of a text (`HeaderOfSlice`, `HeaderCut`, `HeaderComplete`).

`ScannerProofs` has what these proofs and those of `RowArrivalProofs` need of the scanner and
the lexer, for texts of any length and any bytes. Both are recursive functions from a position to
the end of the text, and each step goes on at a later position (`ChainRecursion` gives their values,
`BackwardInductive` the induction).

- *Texts with a part in common* (`Matches`). Every scan of a literal or comment that ends
  within the common part, or in whose texts that part is the end of both, ends alike in both (`QuotedMatches` to
  `SkipMatches`), so the walk over the visited bytes is the same up to any byte that is settled
  (`WalkSettled`), and so are the searches, which are each the first of a set of visited bytes
  (`NonBlanksAlike`, `ClosersAlike`, `CharsAlike`, `AtTablesAlike`). A slash, a quote or a `b` that
  ends the part settles nothing: what it begins depends on the next byte. That is where the
  reader must read on, and where the finding `split_comment` is.
- *Scanner and lexer together* (`Reaches`). The scanner knows strings and comments, the lexer every
  token; the first visits each byte between a token's place and its end, or skips it whole, so that from one token's
  place the walk reaches the next and visits no bracket but the parser's (`TokenReaches`,
  `TokenGaps`). A string starts with the same byte for both, an Illegal token ends the
  lexer's part. A list of values the parser accepts therefore ends where `find_matching_paren` finds
  it (`ParsersRowFound`).
- *The rest of a text* (`RestOf`) has the tokens of the text from there on, moved, if it starts behind
  a parenthesis or other punctuation (`TailOf`, `RowsTail`); so a parser started behind a row reads the rows that follow, and one
  started on a row cut out of the text reads that row and all of it (`RowAlone`).
- *A part of a text has the tokens of the text* (`TokensAgree`), up to the parenthesis that ends the
  part; so the header cut out by the scanner is the parser's, with as many columns
  (`SliceOfHeader`), and conversely, what the parser reads as a header is found by the scanner, which must not
  take a directive's name or a comment for `@dataset` (`HeaderIsScanned`). `scan_header_end` wants two
  bytes for the word, and what ends it may not have arrived: `AtTablesWithin` has the places the text so far
  is sure of.

`RowArrivalProofs` proves, from `ArrivalAssumption` (the bytes that arrive are byte classes),
`FoundRowIsFinal` (the run's `FoundIsFinal`): what `find_next_row` has found stays what it finds whatever
comes after; and `ScannerAgreesWithParser` (`ScannerFindsParsersRow`): where the parser
reads rows, the scanner finds the first of them.

`PbReaderProofs` proves, from `WireAssumption`, `SchemaAssumption` and
`DecodesAssumption` (positive widths; the names of a type's fields are distinct and
nested types exist; documents are bytes, and their length is a number of the width, as a slice's is), for every schema, document, width and
limit: `ReadsStayInBuffer`, `DepthStaysBounded` and `CountsStayBounded`. All three follow
from the inductive invariant `Reading`. It adds to them that every open message has a
value with the fields of its type, and is the value of a nested field of the
message below it on the stack, because `LeaveMessage` stores it there; that the stack
is never empty; and that the depth is the stack's height, which ties the check in
`Enter` to the limit. For these a varint's value is used only through `EndOf`, which compares it.

`TypeCorrect` and `DecodeAdvances` go further. With `PowersAssumption` (the powers of two that a
varint's width is cut to are numbers) a varint is a number, by induction on its groups
(`GroupsNat`), and a read that succeeds ends behind where it began and returns bytes, a text or an
`int32` in its range (`VarintRead` to `ScalarRead`). So what is stored has its field's kind
(`Typed`), `TypeOK` follows, and each step moves on in the buffer or leaves a message
(`Advances`): no input makes the decoder loop.

`EnvelopeReadsAsSliced` (`ReadsAsSliced`) is about the envelope's schema, for every document, width and
limits. The decoder reads all messages from one buffer, and no read knows where its message ends;
the reference cuts each message out first. The inductive invariant `Slicing` says what holds in
between. For each message being read there is a start (`Bases`), so that it is the reading of a
slice up to a position: the payloads read so far and those `Cuts` still finds make what `Cut` finds
(`Consumed`), each field holds what its payloads tell (`Faithful`), the messages in them are acceptable,
and the message above it is the next payload (`Around`). Or a length reached past the end of its message. Then
the document is `Unacceptable`, and a position is and stays past an end (`DoomedAt`), so that
`LeaveMessage` must meet the overrun, unless another error comes first. The lemmas below it say
that what is read in the buffer is read in the part that holds it, if it ends there, and that nothing is read in the
part if it does not (`VarintInPart` to `SkipInPart`); that a slice that fails makes the slice around it fail
(`AroundSpoils`, `Spoils`); and that a map made by insertion is the one that its entries make in their
order, with as many keys (`MapTells`, `RefusedFails`). A limit counts while it reads, the reference when
all is read; they agree because a list only grows.

The library's induction theorems take an operator as parameter. `Induction` states them for sets
and functions instead: a set that has 0 and with each number the next has all numbers
(`NatInductive`), a set of numbers that has what follows from all larger ones has all of them
(`BackwardInductive`), a recursion given as a function of steps has a solution on an interval
(`IntervalRecursion`), and so has one whose value is made of a later one's (`ChainRecursion`: the
rows of a text, the slices of `Cuts`). They rest on the library's theorem that the strict subset ordering on finite
sets is well founded. They reach recursive functions over an interval of numbers, and no `RECURSIVE`
operator.

`SbeReaderProofs` proves, from `SchemaAssumption`, `FilesAssumption`,
`LimitsAssumption`, `BaseAssumption` and `DocumentsAssumption` (fields have known kinds,
message fields a type, and no two fields of a type one name; lengths are numbers; annotations
narrow integers to integers; a byte has more than three values; buffers are bytes), for every
schema, list of files, buffer and limit: `LayoutsStayApart`, `ReadsStayInBounds`,
`EntriesStayBounded`, `ViewsAgree` and `TypeCorrect`. They are about `Spec`, which
receives any buffer of `Documents`; the buffers of `sbe_codec` are an instance. The
difficulty is that templates nest to any depth and no recursive definition can be
reasoned about. The invariant `Sound` does without: there is a set `S` of pairs of a
field list and a size, each of which `Fits`, such that every composite field of a list in
`S` has its own list and size in `S` (`Closed`). Everything on the stack, in `byName` and in
`byId` is in `S`, and a step of `Build` enlarges `S` by one pair (`Layouts`). Every block being
read or viewed lies in the buffer and is as long as the size of its list
(`RoomFor`), so its fields lie in it (`FieldIn`), and so do its composites
(`CompositeRoom`) and, by the check of the header, entries (`EntryRoom`). While templates are
built nothing is read, so `S` may grow freely.

`ViewsAgree` relates two codes that meet nowhere but in the buffer, so its invariant `Alike` keeps
what one has read until the other comes to it. `R` is a set of blocks that have been read: their
fields, where they start and what was read there. What a block in `R` says, the bytes of the buffer
say (`Says`), and a composite or an entry in it is in `R` too (`Known`, `Listed`). The decoder adds a
block to `R` when it leaves it, and its message says the same of its own fields (`Faith`). That a
later field or list of the message does not replace an earlier one needs names that differ, which is
why the layouts carry `Apart` and `Strangers`. `p` is where each group starts, as far as the decoder came
(`Tracing`). A view then stands on a block of `R` wherever the client goes, and a walk that has come
to group `n` is at `p[n]` (`Seen`), so it is refused where the decoder was, and nowhere else.

`TypeCorrect` (the run's `TypeOK`) rests on the same invariant: a block that is being read holds what
the bytes say (`Told`), the layouts say how each field is encoded (`Encodes`), and what is read in
that encoding is a value of the field's kind (`ReadKind`): a number is what its bytes add up to, by
induction on them (`UnsignedNatural`), cut to the width of its kind (`SignedRange`, which needs
`PowersAssumption`: the powers of `Base` up to the eighth are positive numbers).

`PxfDecoderProofs` proves, from `SchemaAssumption`, `ImportsAssumption`, `CallsAssumption` and
`UrlsAssumption` (the names of a type's fields are distinct, types that are named exist, limits
are numbers), for every schema, text and limit: `DepthIsOpen`, `CountsStayInLimit`,
`MarksAlwaysLand` and `TypeCorrect`. The invariant has four parts.

- `Stack`: the frames are one for each open bracket and stand on fields of their types. It is
  inductive alone, and gives `DepthIsOpen`: an Any body gives one level back (`Shared`) and
  takes it again, so no case is left in which depth and brackets part.
- `Counted`: every count is one that `Overfull` has let pass.
- `Built`: frames, message, presence and prefix fit each other (`Fits`). `MarksLand` is seldom
  threatened by what is added and always by what is taken away: setting a member of a oneof, and
  a default, clear the other members with everything under them. So the invariant says why
  nothing that was recorded is ever cleared. Within a body, what has been built lies under a
  field or a oneof that is bound in its frame (`Accounted`), and a second member of a bound oneof
  is refused. For defaults, a field is displaced only if no member of its oneof is recorded,
  and every body under a field was recorded with it (`Numbered`). `Numbered` also says that an
  element's number is at most the count, so that the path of a new element is that of no body yet; and
  of a fresh Any only its key is recorded, so that its body may change its type.
  `Prefixed` says of every frame what the prefix will be when it closes.
- `Recorded`: nulls are recorded among what is present.

`BuiltStep` takes the items one by one; a step that opens a bracket is a change of the top
frame, a growth of the message and a new frame, and each part of `Fits` has a lemma for each of the
three.

`PxfPassProofs` proves, from `TypesAssumption` and `WellKnownAssumption` (a schema has finitely many
types; the types the search stops at are the well-known ones, which are not annotated and hold no
message), `PlanLeavesNothingOut`: a body under a field that the plan does not visit has a type
without a required field or a default, and all its own fields are left out too. The search
`Entered` is a recursive function of rounds. Each round adds a type or is the last
(`SearchEnds`), so that there are no more rounds to make than types; what it comes to from a type
is then closed, and includes what it comes to from any field of that type.

It proves `RequiredHolds`, for every schema, text and limit. The pass is not made body by
body as they close: it comes to a body from the root, or from the Any it is packed in, much
later, along fields that are present and not null. So the invariant `Passing` says of every body what
will still become of it (`Covered`): there is nothing to check in it or under it; or a body
that is still open, and takes the pass when it closes, leads to it through fields the plan visits
(`Guarded`); or it is closed and has all it needs. Three things could break a way that is there: a
field of it said to be null after all (`NullsSpent`, with `Accounted`: what is null was bound when
nothing was under it, and is not bound again), a body of it taken away (`NothingDisplaced`, from
`Built`), and a body of it that changes its type (`CoveredRetypes`: that is a fresh Any, which has
nothing under it). That a way can be extended to each new body is what the plan
owes (`PlanLeavesNothingOut`).

And it proves `DefaultsHold` (the run's `DefaultsEverywhere`), for every schema, text and
limit. `Covered` is used once more, now of the bodies in which every default that applies stands
(`SettledOnes`), but a default is easier to lose than what is required: a later binding in
the body may clear it, and one that it should have given way to may come after it. That neither
happens is what the invariant `Filling` adds.

- `LeavesSaid`: before its pass a body holds only what the text says. So a field a default applies to
  is empty when the pass comes, and a member of a oneof that stands in the message was said.
- `LeavesBound`: a leaf of an open body is of a field bound in its frame, or is the key a named
  entry was given. Hence a second member of a oneof that is read displaces nothing: it is refused, or
  what it would displace is not there. For a keyed entry the key is set from outside the body, and
  the name must not be undone by a sibling (`check_binding`).
- `Exclusive`, `NullsGone`: of every oneof one member at most is there, and nothing that is null; both
  hold at every step, not only at the end.

Each item but a closing bracket writes in one body and opens at most an empty one (`Writes`); every
other body is `Unmoved`. `FillingWrites` derives the invariant from that, and there is one lemma for
each kind of item to show that it does so. The pass itself writes in all bodies it comes to: what it
puts in is in none of them twice (`FillsOnce`), of each oneof at most one member is kept (`KeptOnce`),
and a body it does not come to keeps what it has, even below one it does (`PassCompletes`). A second
pass over the same body, as over an Any inside an Any, finds it settled and leaves it so
(`UnsaidHas`).

Not proved, and why:

- Liveness (`CallsReturn`, `Finishes`): fairness and `ENABLED` are out of the prover's reach.
- `StreamsRows` and `RefusesWhatParserRefuses`: they do not hold for every document, but for those
  of the run. A slash that ends a read can be taken for a byte no row starts with
  (`split_comment`), and between rows the scanner steps over a string that the parser refuses
  there (dataset_reader.rs:558-566), as in `@dataset T (x)(x)"s"(x)`. What is left of both for every
  document is proved as `HeaderAgrees` and `RowsInOrder`.
- `RoundTrip` and `DepthLimitsAgree` of the envelope: the encoders fold an operator over lists.
- `RoundTrip` of SBE, `PresenceIsDocument`, `NothingLost`, `RoundTrip`, `FormatKeepsMeaning` and `RowIsItsCells` of
  documents: they compare with `RECURSIVE` operators over nested data, for which the provers have no
  induction. `RoundedOnce` and `LiteralsKeepValues` are about recursive arithmetic.

All of them are model-checked only.

## Not modelled

- *SBE XML conversion*: text to text, without state; a property of it would be about
  names and layout.
- *Harnesses and the umbrella crate*: file input and output around the codecs, re-exports.
- *Lexer*: how a number, a timestamp, an escape or a bytes literal is put together from
  characters. Its tokens are the items of `PxfDecoder` and the texts of `Literals`.
- *Decoder*: `skip_validate`, the `type_url` option, the limit on the size of a text, digit limits
  lowered by a call, a `_null` written in the document, the block form of types that are written as literals.
- *Encoder and formatter*: `emit_defaults`, comments, layout, a precision suffix on fields that are no
  `BigFloat`, a message that cannot be written for a literal in it.
- *Numbers*: the fixed-point estimate of how many digits 2^p has (taken as that number), and
  the walk of `carrier.rs` over the bytes of options.
- *protowire-pb*: zigzag numbers, values of fixed width and packed fields; the envelope has none.
- *Envelope*: the constructors of `lib.rs`, which set fields.
- *SBE*: types without a template, encodings named on floats and texts, float encodings named on integers, accessors of a view
  called for a field of another kind.

## Running

From this directory, `tlc -config DatasetReader.cfg MCDatasetReader` checks a run (`PROJECT.json`
lists the module of each `.cfg`), `tlapm PxfDecoderProofs.tla` the proofs of a module. The longest
run is `pxf_document`.
