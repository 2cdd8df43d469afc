------------------------------ MODULE WireForms ------------------------------
(***************************************************************************)
(* The rows of elicitation.hpp: the request in its two modes, the answer,  *)
(* and the restricted JSON schemas a form is made of.                      *)
(***************************************************************************)
EXTENDS WireSession

\* Known to the decoder in either mode; the ones of the other mode are dropped.
ElicitationKeys ==
  {"message", "mode", "elicitationId", "url", "requestedSchema", "requested_schema",
   "requestState", "task", "_meta"}

ElicitationFields ==
  <<Str("message"), OptAny("requestState"), OptNested("task", TRUE), OptObj("_meta")>>

\* "word" is the text of the mode. Form is the default mode; the schema is
\* also read under its snake case name.
FormElicitation ==
  Knows(Row(ElicitationFields \o
            <<Field("mode", {"word"}, {}, {"word"}, "word"),
              [Nested("requestedSchema", FALSE) EXCEPT !.alias = "requested_schema"]>>),
        ElicitationKeys)

UrlElicitation ==
  LET Wanted(key) == Field(key, {"none", "empty", "str"}, {"none"}, Strings, "refuse")
  IN Knows(Row(ElicitationFields \o
               <<Enum("mode"), Wanted("elicitationId"), Wanted("url")>>),
           ElicitationKeys)

CreateElicitationResult == Row(<<Enum("action"), OptAny("content"), OptObj("_meta")>>)

ElicitationCompleteParams == Row(<<Str("elicitationId"), ReflectedMeta("_meta")>>)

\* A schema without properties is written and read back; Builder::build refuses it.
ElicitationSchema ==
  Row(<<Enum("type"), OptStr("title"), OptStr("description"),
        Field("properties", {"obj0", "obj"}, {}, {"obj0", "obj"}, "refuse"),
        DefArr("required")>>)

Named == <<Enum("type"), OptStr("title"), OptStr("description")>>
NatLimit(key) == Field(key, {"none"} \cup Ints, {"none"}, {"int", "huge"}, "none")

StringSchema ==
  Refuses(Row(Named \o <<Field("format", {"none", "str", "word"}, {"none"}, {"word"}, "none"),
                         NatLimit("minLength"), NatLimit("maxLength"), OptStr("default")>>),
          {Ordered("minLength", "maxLength")})

\* minimum and maximum are not compared with each other.
NumberSchema ==
  Row(Named \o <<OptNumber("minimum"), OptNumber("maximum"), OptNumber("default")>>)

IntegerSchema == Row(Named \o <<OptInt("minimum"), OptInt("maximum"), OptInt("default")>>)

BooleanSchema == Row(Named \o <<OptBool("default")>>)

\* `items` is rebuilt from the values and their titles.
MultiSelectSchema ==
  Refuses(Row(Named \o <<Forgetful(Nested("items", FALSE)), NatLimit("minItems"),
                         NatLimit("maxItems"), DefArr("default")>>),
          {Ordered("minItems", "maxItems")})

\* A default is one of the values; "word" is. Without choices the encoder
\* falls back to the untitled form.
TitledEnumSchema ==
  Refuses(Row(Named \o <<[Arr("oneOf") EXCEPT !.emptyKey = "enum"],
                         Field("default", {"none", "str", "word"}, {"none"}, {"word"}, "none")>>),
          {[oneOf |-> "arr0", default |-> "word"]})

\* enumNames, when given, is as long as enum.
EnumSchema ==
  Refuses(Row(Named \o <<Arr("enum"), DefArr("enumNames"),
                         Field("default", {"none", "str", "word"}, {"none"}, {"word"}, "none")>>),
          {[enum |-> "arr0", default |-> "word"], [enum |-> "arr0", enumNames |-> "arr"],
           [enum |-> "arr", enumNames |-> "arr0"]})

FormTypes ==
  [FormElicitation |-> FormElicitation, UrlElicitation |-> UrlElicitation,
   ElicitationResult |-> CreateElicitationResult,
   ElicitationComplete |-> ElicitationCompleteParams,
   ElicitationSchema |-> ElicitationSchema, StringSchema |-> StringSchema,
   NumberSchema |-> NumberSchema, IntegerSchema |-> IntegerSchema,
   BooleanSchema |-> BooleanSchema, MultiSelect |-> MultiSelectSchema,
   TitledEnum |-> TitledEnumSchema, PlainEnum |-> EnumSchema]

\* primitive_schema_from_json picks the schema by the keys it finds: oneOf
\* before enum before plain strings.
PrimitiveSchema(ty, w) ==
  IF ty \notin {"TitledEnum", "PlainEnum", "StringSchema"} THEN ty
  ELSE IF "oneOf" \in DOMAIN w THEN "TitledEnum"
  ELSE IF "enum" \in DOMAIN w THEN "PlainEnum"
  ELSE "StringSchema"
=============================================================================
