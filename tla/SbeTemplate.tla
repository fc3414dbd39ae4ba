---------------------------- MODULE SbeTemplate ----------------------------
(***************************************************************************)
(* The layout of SBE messages (protowire-sbe, template.rs, and the         *)
(* registration in codec.rs): Codec::from_files walks the messages of its  *)
(* files and builds a template for each that has an id.  One step looks at *)
(* one field, or ends a message, a composite or a group.                   *)
(*                                                                         *)
(* An annotation is a sequence of at most one value.                       *)
(***************************************************************************)
EXTENDS Integers, Sequences, FiniteSets

CONSTANTS
  Schema,     \* message type -> its template_id, nested types and fields
  FileLists,  \* what a codec may be made from: lists of files, each with a
              \* schema_id, a version and its message types
  Limits      \* the limits it may be given

\* The bytes of each encoding that an annotation can name.
Widths ==
  [int8 |-> 1, uint8 |-> 1, int16 |-> 2, uint16 |-> 2, int32 |-> 4, uint32 |-> 4,
   float |-> 4, int64 |-> 8, uint64 |-> 8, double |-> 8]

\* The encoding of a kind of field without an annotation.
Natural ==
  [bool |-> "uint8", enum |-> "uint8", int32 |-> "int32", int64 |-> "int64",
   uint32 |-> "uint32", uint64 |-> "uint64", float |-> "float", double |-> "double"]

Texts    == {"string", "bytes"}
Integral == {"bool", "enum", "int32", "int64", "uint32", "uint64"}
Kinds    == DOMAIN Natural \cup Texts \cup {"message"}
Labels   == {"one", "list", "map"}

\* A field's descriptor; of a member of a oneof, `oneof` names it (of an
\* optional field too).  An encoding is asked for to narrow an integer, to
\* another integer.
FieldOK(fd) ==
  /\ fd.kind \in Kinds /\ fd.label \in Labels
  /\ fd.kind = "message" => fd.of \in DOMAIN Schema
  /\ fd.length # <<>> => fd.length[1] \in Nat
  /\ fd.encoding # <<>> => fd.kind \in Integral /\ fd.encoding[1] \notin {"float", "double"}

\* The fields of a type come in the order of their numbers (sorted_fields), and
\* no two have one name.
ASSUME SchemaAssumption ==
  \A type \in DOMAIN Schema :
    /\ Schema[type].nested \in Seq(DOMAIN Schema)
    /\ Len(Schema[type].fields) \in Nat
    /\ \A n \in 1..Len(Schema[type].fields) :
         /\ FieldOK(Schema[type].fields[n])
         /\ \A m \in 1..(n - 1) : Schema[type].fields[m].name # Schema[type].fields[n].name

ASSUME FilesAssumption ==
  \A files \in FileLists :
    /\ Len(files) \in Nat
    /\ \A n \in 1..Len(files) : files[n].types \in Seq(DOMAIN Schema)

ASSUME LimitsAssumption ==
  Limits \subseteq [max_message_size : Nat, max_repeated_count : Nat]

VARIABLES
  files,    \* the files the codec is made from
  limits,   \* its limits
  file,     \* how many files have been opened
  pending,  \* the messages of the last one still to be registered, in order
  byName,   \* type -> template
  byId,     \* template id -> template
  stack,    \* what is being built: a message, and what is inside of it
  refused   \* from_files has returned an error

templateVars == <<files, limits, file, pending, byName, byId, stack, refused>>

-----------------------------------------------------------------------------
\* A message, composite or group of which the fields before number `at` have
\* been laid out, in `offset` bytes.
Frame(role, type) ==
  [role |-> role, type |-> type, at |-> 1, offset |-> 0, fields |-> <<>>, groups |-> <<>>]

Top     == stack[Len(stack)]
Outside == SubSeq(stack, 1, Len(stack) - 1)
Below   == stack[Len(stack) - 1]

Descriptors(frame) == Schema[frame.type].fields
FieldAt(frame)     == Descriptors(frame)[frame.at]
Complete(frame)    == frame.at > Len(Descriptors(frame))

\* f with x mapped to y.
Mapping(f, x, y) == [z \in DOMAIN f \cup {x} |-> IF z = x THEN y ELSE f[z]]

TemplateInit ==
  /\ files \in FileLists /\ limits \in Limits
  /\ file = 0 /\ pending = <<>>
  /\ byName = <<>> /\ byId = <<>>
  /\ stack = <<>>
  /\ refused = FALSE

Ready == ~refused /\ file = Len(files) /\ pending = <<>>

Refuse == refused' = TRUE /\ UNCHANGED <<files, limits, file, pending, byName, byId, stack>>

\* The next file, which must have a schema id.
OpenFile ==
  /\ ~refused /\ pending = <<>> /\ file < Len(files)
  /\ \/ files[file + 1].schema_id = <<>> /\ Refuse
     \/ /\ files[file + 1].schema_id # <<>>
        /\ file' = file + 1
        /\ pending' = files[file + 1].types
        /\ UNCHANGED <<files, limits, byName, byId, stack, refused>>

\* Once a message is registered, so are those nested in it.
After == Schema[Head(pending)].nested \o Tail(pending)

\* register_message: only a message with a template id has a template.
Register ==
  /\ ~refused /\ pending # <<>> /\ stack = <<>>
  /\ \/ /\ Schema[Head(pending)].template_id = <<>>
        /\ pending' = After
        /\ UNCHANGED stack
     \/ /\ Schema[Head(pending)].template_id # <<>>
        /\ stack' = <<Frame("message", Head(pending))>>
        /\ UNCHANGED pending
  /\ UNCHANGED <<files, limits, file, byName, byId, refused>>

-----------------------------------------------------------------------------
\* Maps, lists of scalars and members of oneofs have no layout, and lists none
\* but at the top of a message.  In a group a oneof is not looked for.
Unsupported(role, fd) ==
  \/ fd.label = "map"
  \/ fd.oneof # <<>> /\ role # "group"
  \/ fd.label = "list" /\ (role # "message" \/ fd.kind # "message")

\* field_encoding_size.
Encodable(fd) ==
  IF fd.encoding # <<>> THEN fd.encoding[1] \in DOMAIN Widths
  ELSE fd.kind \in Texts => fd.length # <<>>

EncodingOf(fd) ==
  CASE fd.encoding # <<>>                        -> fd.encoding[1]
    [] fd.encoding = <<>> /\ fd.kind \in Texts   -> "char"
    [] OTHER                                     -> Natural[fd.kind]

SizeOf(fd) ==
  IF EncodingOf(fd) = "char" THEN fd.length[1] ELSE Widths[EncodingOf(fd)]

Laid(frame, encoding, size, composite) ==
  [frame EXCEPT !.at = @ + 1, !.offset = @ + size,
                !.fields = Append(@, [fd |-> FieldAt(frame), offset |-> frame.offset, size |-> size,
                                      encoding |-> encoding, composite |-> composite])]

Building == ~refused /\ stack # <<>>

RefuseField ==
  /\ Building /\ ~Complete(Top)
  /\ \/ Unsupported(Top.role, FieldAt(Top))
     \/ FieldAt(Top).kind # "message" /\ ~Encodable(FieldAt(Top))
  /\ Refuse

LayScalar ==
  /\ Building /\ ~Complete(Top)
  /\ ~Unsupported(Top.role, FieldAt(Top))
  /\ FieldAt(Top).kind # "message" /\ Encodable(FieldAt(Top))
  /\ stack' = Append(Outside, Laid(Top, EncodingOf(FieldAt(Top)), SizeOf(FieldAt(Top)), <<>>))
  /\ UNCHANGED <<files, limits, file, pending, byName, byId, refused>>

\* build_group_template and build_composite_fields, up to their loops.
EnterMessage ==
  /\ Building /\ ~Complete(Top)
  /\ ~Unsupported(Top.role, FieldAt(Top))
  /\ FieldAt(Top).kind = "message"
  /\ stack' = Append(stack, Frame(IF FieldAt(Top).label = "list" THEN "group" ELSE "composite",
                                  FieldAt(Top).of))
  /\ UNCHANGED <<files, limits, file, pending, byName, byId, refused>>

\* Mutant of LayComposite: a composite takes no room in what it is part of.
LayCompositeNowhere ==
  /\ Building /\ Complete(Top) /\ Top.role = "composite"
  /\ stack' = [Outside EXCEPT ![Len(stack) - 1] = [Laid(Below, "none", Top.offset, Top.fields)
                                                     EXCEPT !.offset = Below.offset]]
  /\ UNCHANGED <<files, limits, file, pending, byName, byId, refused>>

LayComposite ==
  /\ Building /\ Complete(Top) /\ Top.role = "composite"
  /\ stack' = [Outside EXCEPT ![Len(stack) - 1] = Laid(Below, "none", Top.offset, Top.fields)]
  /\ UNCHANGED <<files, limits, file, pending, byName, byId, refused>>

GroupTemplate(frame, fd) == [fd |-> fd, block_length |-> frame.offset, fields |-> frame.fields]

LayGroup ==
  /\ Building /\ Complete(Top) /\ Top.role = "group"
  /\ stack' = [Outside EXCEPT ![Len(stack) - 1] =
                 [Below EXCEPT !.at = @ + 1,
                               !.groups = Append(@, GroupTemplate(Top, FieldAt(Below)))]]
  /\ UNCHANGED <<files, limits, file, pending, byName, byId, refused>>

MessageTemplate(frame) ==
  [desc |-> frame.type, template_id |-> Schema[frame.type].template_id[1],
   schema_id |-> files[file].schema_id[1], version |-> files[file].version,
   block_length |-> frame.offset, fields |-> frame.fields, groups |-> frame.groups]

\* The end of build_template and of its registration.
LayMessage ==
  /\ Building /\ Complete(Top) /\ Top.role = "message"
  /\ byName' = Mapping(byName, Top.type, MessageTemplate(Top))
  /\ byId' = Mapping(byId, MessageTemplate(Top).template_id, MessageTemplate(Top))
  /\ stack' = <<>>
  /\ pending' = After
  /\ UNCHANGED <<files, limits, file, refused>>

Build ==
  \/ OpenFile \/ Register \/ RefuseField \/ LayScalar \/ EnterMessage
  \/ LayComposite \/ LayGroup \/ LayMessage

-----------------------------------------------------------------------------
\* No two fields share a byte, and none leaves the block.
Fits(fields, size) ==
  \A i \in 1..Len(fields) :
    /\ fields[i].offset + fields[i].size <= size
    /\ \A j \in (i + 1)..Len(fields) : fields[i].offset + fields[i].size <= fields[j].offset

\* Whatever is being built, and every template and its groups, is laid out
\* without overlaps (build_template, build_group_template,
\* build_composite_fields).
LaidOut ==
  /\ \A k \in 1..Len(stack) : Fits(stack[k].fields, stack[k].offset)
  /\ \A type \in DOMAIN byName :
       /\ Fits(byName[type].fields, byName[type].block_length)
       /\ \A g \in 1..Len(byName[type].groups) :
            Fits(byName[type].groups[g].fields, byName[type].groups[g].block_length)

\* No template has a member of a oneof: "Errors if the message [...] contains
\* unsupported features (oneofs, ...)" (build_template).
OneofsRefused ==
  \A type \in DOMAIN byName : \A g \in 1..Len(byName[type].groups) :
    \A i \in 1..Len(byName[type].groups[g].fields) :
      byName[type].groups[g].fields[i].fd.oneof = <<>>
=============================================================================
