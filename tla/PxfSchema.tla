------------------------------ MODULE PxfSchema ------------------------------
(***************************************************************************)
(* The message types a PXF document is bound to (protowire-pxf,            *)
(* annotations.rs, keyed.rs, schema.rs, post_decode_plan.rs): the fields   *)
(* and their annotations, what a binding may be, the checks made before a  *)
(* decode, and which types the pass after a decode has to visit.           *)
(***************************************************************************)
EXTENDS Integers, Sequences, FiniteSets

CONSTANTS
  Schema,    \* type -> [file, role, literals, fields]
  Imports    \* file -> the files it imports

\* A literal type is written as one literal of the kinds listed, for its field
\* "value" (a wrapper, a Timestamp, a BigInt); an any is google.protobuf.Any;
\* a mask is google.protobuf.FieldMask.
Roles  == {"plain", "literal", "any", "mask"}
Kinds  == {"string", "int", "bytes", "message"}
Shapes == {"one", "list", "map"}

FieldType ==
  [name : STRING, shape : Shapes, kind : Kinds, body : STRING,
   presence : BOOLEAN,     \* supports_presence
   proto2 : BOOLEAN,       \* the cardinality is Required
   oneof : STRING, synthetic : BOOLEAN,
   bracket : STRING,       \* the literal of (pxf.default), "none" without one
   carrier : STRING,       \* the literal of @default, "none" without one
   required : BOOLEAN,     \* (pxf.required) or @required
   key : STRING,           \* (pxf.key), "none" without one
   keys : {"string", "int", "bool"}]   \* the kind of a map's keys

Types == DOMAIN Schema
FieldsOf(type) == Schema[type].fields

ASSUME SchemaAssumption ==
  \A type \in Types :
    /\ Schema[type].role \in Roles
    /\ Schema[type].file \in DOMAIN Imports
    /\ Schema[type].literals \subseteq {"string", "int", "bytes", "ident"}
    /\ FieldsOf(type) \subseteq FieldType
    /\ \A f \in FieldsOf(type) :
         /\ f.kind = "message" => f.body \in Types
         /\ \A g \in FieldsOf(type) : f.name = g.name => f = g
         /\ Schema[type].role = "any" /\ f.kind = "string" => f.name = "type_url"

ASSUME TypesAssumption == IsFiniteSet(Types)

ASSUME ImportsAssumption ==
  \A file \in DOMAIN Imports : Imports[file] \subseteq DOMAIN Imports

\* MessageDescriptor::get_field_by_name.
Knows(type, name) == \E f \in FieldsOf(type) : f.name = name
FieldOf(type, name) == CHOOSE f \in FieldsOf(type) : f.name = name

-----------------------------------------------------------------------------
\* The default both spellings give: the bracket's, or else the carrier's.
DefaultOf(f) == IF f.bracket # "none" THEN f.bracket ELSE f.carrier
HasDefault(f) == DefaultOf(f) # "none"

\* Two spellings that disagree are not reconciled.
Disagree(f) == "none" \notin {f.bracket, f.carrier} /\ f.bracket # f.carrier

\* A field's oneof, unless it is the synthetic one of a proto3 optional.
RealOneof(f) == IF f.synthetic THEN "none" ELSE f.oneof

\* The other members of a field's oneof, which setting the field clears.
Siblings(type, f) ==
  {g.name : g \in {h \in FieldsOf(type) : /\ h.name # f.name
                                          /\ RealOneof(h) = RealOneof(f)
                                          /\ RealOneof(f) # "none"}}

\* The key field of a keyed repeated field, "none" for any other field.
KeyField(f) ==
  IF /\ f.shape = "list" /\ f.kind = "message" /\ f.key # "none"
     /\ Knows(f.body, f.key)
     /\ FieldOf(f.body, f.key).shape = "one" /\ FieldOf(f.body, f.key).kind = "string"
  THEN f.key ELSE "none"

\* Whether null may bind to a field.
Nullable(f) == f.presence /\ f.shape = "one" /\ ~f.proto2

NullMask(type) ==
  \E f \in FieldsOf(type) :
    f.name = "_null" /\ f.kind = "message" /\ Schema[f.body].role = "mask"

-----------------------------------------------------------------------------
\* Types whose bodies the pass after the decode does not enter.
SkipsPass(type) == Schema[type].role \in {"any", "literal"}

\* Whether the bodies a field holds are of a type.
BodyIs(f, type) == f.kind = "message" /\ f.body = type

Annotated(type) ==
  \E f \in FieldsOf(type) : f.required \/ HasDefault(f)

\* These are the types of google.protobuf and pxf that are read from a literal, and
\* Any: they are not annotated and hold no message.
ASSUME WellKnownAssumption ==
  \A type \in Types : SkipsPass(type) =>
    ~Annotated(type) /\ \A f \in FieldsOf(type) : f.kind # "message"

\* The types a search from one type comes to before it stops at a skipped one.
Entered(type) ==
  LET come[n \in 0..Cardinality(Types)] ==
        IF n = 0 THEN {type} \ {t \in Types : SkipsPass(t)}
        ELSE LET before == come[n - 1]
             IN  before \cup {t \in Types :
                   ~SkipsPass(t) /\ \E from \in before : \E f \in FieldsOf(from) : BodyIs(f, t)}
  IN  come[Cardinality(Types)]

HasDefaultOrRequired(type) == \E t \in Entered(type) : Annotated(t)

\* PlanField::visit: the field holds bodies in which something is annotated.
Visit(f) == f.kind = "message" /\ HasDefaultOrRequired(f.body)

\* The plan of every type, made once and kept.
Plan == [type \in Types |-> {f.name : f \in {g \in FieldsOf(type) : Visit(g)}}]

-----------------------------------------------------------------------------
Reserved(name) == name \in {"null", "true", "false"}

\* A default stands on a field one literal can denote.
Defaultable(f) ==
  f.shape = "one" /\ (f.kind = "message" => Schema[f.body].role = "literal")

\* A key stands on a list of messages and names a singular string of theirs.
KeyMisplaced(f) == f.key # "none" /\ KeyField(f) = "none"

DefaultMisplaced(f) == Disagree(f) \/ (HasDefault(f) /\ ~Defaultable(f))

RequiredMisplaced(f) == f.required /\ (HasDefault(f) \/ RealOneof(f) # "none")

\* At most one member of a oneof has a default.
OneofOverfull(type, f) ==
  HasDefault(f) /\ \E n \in Siblings(type, f) : HasDefault(FieldOf(type, n))

\* What walk_message reports of one field of a type.
Violates(type, f) ==
  \/ Reserved(f.name) \/ Reserved(RealOneof(f))
  \/ KeyMisplaced(f) \/ DefaultMisplaced(f) \/ RequiredMisplaced(f)
  \/ OneofOverfull(type, f)

\* A file none of whose types has a violation.
Conforms(file) ==
  \A type \in Types : Schema[type].file = file =>
    \A f \in FieldsOf(type) : ~Violates(type, f)

\* The files the walk from one file comes to, each once.
Closure(file) ==
  LET come[n \in 0..Cardinality(DOMAIN Imports)] ==
        IF n = 0 THEN {file}
        ELSE come[n - 1] \cup UNION {Imports[g] : g \in come[n - 1]}
  IN  come[Cardinality(DOMAIN Imports)]

\* validate_descriptor reports nothing for a type: its file conforms, and every
\* file that one imports.
Valid == [type \in Types |-> \A file \in Closure(Schema[type].file) : Conforms(file)]
=============================================================================
