-------------------------------- MODULE Wire --------------------------------
(***************************************************************************)
(* How the protocol headers turn a C++ value into a JSON object and back.  *)
(* Every MCP type has a hand written pair x_to_json / x_from_json, or a    *)
(* Reflect<X> table the engine of reflect.hpp walks.  Both follow the same *)
(* few idioms member by member, so a type is a row: its members in the     *)
(* order the decoder looks at them, and what the type does with the keys   *)
(* it does not know.                                                       *)
(*                                                                         *)
(* A JSON value is its kind, with the cases a decoder can tell apart: the  *)
(* empty string, array and object, a legal enumerator ("word"), an array   *)
(* or object whose content the nested decoder refuses ("arrBad",           *)
(* "objBad"), an object with a key its own type does not know ("objMore"), *)
(* a number that is negative, fractional or beyond 32 bits.  What happens  *)
(* inside an object or an array of another protocol type is that type's    *)
(* row.  A member that tells more cases apart names them where it is       *)
(* defined; to all others they are cases of the kinds above.  "none" is an *)
(* unset std::optional.                                                    *)
(***************************************************************************)
EXTENDS Naturals, Sequences, FiniteSets

Bools == {"true", "false"}
Ints == {"int", "neg", "huge"}
Numbers == Ints \cup {"num"}
Strings == {"empty", "str", "word"}
Arrays == {"arr0", "arr", "arrBad"}
Objects == {"obj0", "obj", "objBad", "objMore"}
JsonTokens == {"null"} \cup Bools \cup Numbers \cup Strings \cup Arrays \cup Objects

(***************************************************************************)
(* A member: its name, the JSON key, the values the C++ member can hold,   *)
(* the ones to_json leaves out, the ones from_json accepts, what an absent *)
(* key gives ("refuse" is an error), what a value of another kind does,    *)
(* whether from_json looks at the key at all, what the C++ type makes of   *)
(* an accepted value, a second key read when the first is absent, and the  *)
(* key an empty array is written under.                                    *)
(***************************************************************************)
Field(key, holds, omit, ok, absent) ==
  [name |-> key, key |-> key, holds |-> holds, omit |-> omit, ok |-> ok, absent |-> absent,
   wrong |-> "error", read |-> TRUE, as |-> [t \in {} |-> t],
   alias |-> key, emptyKey |-> key]

\* Json::empty() is true of null, [] and {} and of nothing else.
EmptyJson == {"null", "arr0", "obj0"}

Str(key) == Field(key, {"empty", "str"}, {}, Strings, "refuse")
DefStr(key) == Field(key, {"empty", "str"}, {"empty"}, Strings, "empty")
OptStr(key) == Field(key, {"none", "empty", "str"}, {"none"}, Strings, "none")
Enum(key) == Field(key, {"word"}, {}, {"word"}, "refuse")
OptEnum(key) == Field(key, {"none", "word"}, {"none"}, {"word"}, "none")
OptBool(key) == Field(key, {"none"} \cup Bools, {"none"}, Bools, "none")
OptInt(key) == Field(key, {"none"} \cup Ints, {"none"}, Ints, "none")
\* get<double>(): an integer comes back as a floating point number.
AsDouble == [t \in Ints |-> "num"]
OptNumber(key) ==
  [Field(key, {"none", "num"}, {"none"}, Numbers, "none") EXCEPT !.as = AsDouble]
Id(key) == Field(key, {"int", "empty", "str"}, {}, Ints \cup Strings, "refuse")
Arr(key) == Field(key, {"arr0", "arr"}, {}, {"arr0", "arr"}, "refuse")
DefArr(key) == Field(key, {"arr0", "arr"}, {"arr0"}, {"arr0", "arr"}, "arr0")
Obj(key) == Field(key, JsonTokens, {}, Objects, "refuse")
DefObj(key) == Field(key, JsonTokens, EmptyJson, Objects, "obj0")
OptObj(key) == Field(key, {"none"} \cup JsonTokens, {"none"}, Objects, "none")
Any(key) == Field(key, JsonTokens, {}, JsonTokens, "refuse")
OptAny(key) == Field(key, {"none"} \cup JsonTokens, {"none"}, JsonTokens, "none")

\* A member of another protocol type; bare says that type accepts {}.
Good(bare) == {"obj", "objMore"} \cup (IF bare THEN {"obj0"} ELSE {})
Nested(key, bare) == Field(key, Good(bare), {}, Good(bare), "refuse")
OptNested(key, bare) ==
  Field(key, {"none"} \cup Good(bare), {"none"}, Good(bare), "none")

\* The type of the member has no extensions: a key it does not know is gone.
Forgetful(f) == [f EXCEPT !.as = [t \in {"objMore"} |-> "obj"],
                          !.holds = @ \ {"objMore"}]
\* One of two C++ members on one key: both are read from it, and the first
\* of them that is set is written.
Member(name, f) == [f EXCEPT !.name = name]
\* A key from_json refuses to see.
Forbidden(key) == Field(key, {"none"}, {"none"}, {}, "none")

\* get<std::string>() without an is_string() before it.
Unchecked(f) == [f EXCEPT !.wrong = "throws"]
\* A member the encoder writes and the decoder never reads.
WriteOnly(f) == [f EXCEPT !.read = FALSE]

(***************************************************************************)
(* A type: its members, the keys its decoder knows without reading them    *)
(* into this variant, whether it keeps unknown keys in `extensions`, the   *)
(* keys of which from_json wants at least one before anything else, the    *)
(* combinations of values its cross checks refuse, and whether the type    *)
(* keeps the whole object it was read from and writes its members over it. *)
(***************************************************************************)
Row(fields) ==
  [fields |-> fields, known |-> {}, ext |-> TRUE, anyOf |-> {}, clash |-> {},
   raw |-> FALSE]
Closed(row) == [row EXCEPT !.ext = FALSE]
Knows(row, keys) == [row EXCEPT !.known = keys]
NeedsOne(row, keys) == [row EXCEPT !.anyOf = keys]
Raw(row) == [row EXCEPT !.raw = TRUE]
Refuses(row, clashes) == [row EXCEPT !.clash = clashes]
\* minimum <= maximum, over the integers: only "huge" is above "int".
Ordered(low, high) == [k \in {low, high} |-> IF k = low THEN "huge" ELSE "int"]

FieldSet(row) == {row.fields[i] : i \in DOMAIN row.fields}
Keys(row) == {f.key : f \in FieldSet(row)}
KnownKeys(row) == row.known \cup {f.key : f \in {g \in FieldSet(row) : g.read}}
Members(row) == {f.name : f \in FieldSet(row)}
FieldOf(row, name) == CHOOSE f \in FieldSet(row) : f.name = name

\* What the decoder does with one member of a JSON object w.
WireKey(f, w) == IF f.key \in DOMAIN w THEN f.key ELSE f.alias

Reads(f, w) ==
  LET k == WireKey(f, w)
  IN IF ~f.read THEN "ok"
     ELSE IF k \notin DOMAIN w
          THEN IF f.absent = "refuse" THEN "error" ELSE "ok"
          ELSE IF w[k] \in f.ok THEN "ok" ELSE f.wrong

Understood(f, t) == IF t \in DOMAIN f.as THEN f.as[t] ELSE t

Taken(f, w) ==
  LET k == WireKey(f, w)
  IN IF ~f.read \/ k \notin DOMAIN w THEN f.absent ELSE Understood(f, w[k])

Clashes(row, w) ==
  \E c \in row.clash : \A k \in DOMAIN c : k \in DOMAIN w /\ w[k] = c[k]

\* x_from_json: the first member that does not fit decides the outcome.
FromJson(row, w) ==
  LET bad == {i \in DOMAIN row.fields : Reads(row.fields[i], w) # "ok"}
      first == CHOOSE i \in bad : \A j \in bad : i <= j
      unknown == {k \in DOMAIN w : row.raw \/ (row.ext /\ k \notin KnownKeys(row))}
  IN IF row.anyOf # {} /\ row.anyOf \cap DOMAIN w = {}
     THEN [status |-> "error"]
     ELSE IF bad # {} THEN [status |-> Reads(row.fields[first], w)]
     ELSE IF Clashes(row, w) THEN [status |-> "error"]
     ELSE [status |-> "ok",
           value |-> [member |-> [m \in Members(row) |-> Taken(FieldOf(row, m), w)],
                      extensions |-> [k \in unknown |-> w[k]]]]

\* A capability flag that is on keeps the object it was read from, if any.
Written(f, v) ==
  IF v.member[f.name] # "on" THEN v.member[f.name]
  ELSE IF f.key \in DOMAIN v.extensions /\ v.extensions[f.key] \in Objects
       THEN v.extensions[f.key] ELSE "obj0"

\* The members that are written: set, and the first of those on their key.
Writers(row, v) ==
  LET Set(i) == v.member[row.fields[i].name] \notin row.fields[i].omit
  IN {row.fields[i] : i \in {j \in DOMAIN row.fields :
        Set(j) /\ ~\E h \in 1..(j - 1) : Set(h) /\ row.fields[h].key = row.fields[j].key}}

\* append_json_extensions never overwrites a typed member.
ToJson(row, v) ==
  LET written == Writers(row, v)
      At(f) == IF v.member[f.name] = "arr0" THEN f.emptyKey ELSE f.key
      typed == {At(f) : f \in written}
  IN [k \in typed \cup DOMAIN v.extensions |->
        IF k \in typed THEN Written(CHOOSE f \in written : At(f) = k, v)
        ELSE v.extensions[k]]

(***************************************************************************)
(* The values and objects a model looks at: the smallest one, the one with *)
(* every member filled, and each of them with one member changed; objects  *)
(* one member away from a combination the decoder refuses as well.         *)
(***************************************************************************)
Filled(f) ==
  LET full == (f.holds \cap (f.ok \cup {"on"})) \ {"none", "empty", "arr0", "obj0", "null"}
  IN IF full = {} THEN f.absent ELSE CHOOSE t \in full : TRUE
Smallest(row) ==
  [m \in Members(row) |-> LET f == FieldOf(row, m)
                          IN IF f.absent = "refuse" THEN Filled(f) ELSE f.absent]
Largest(row) == [m \in Members(row) |-> Filled(FieldOf(row, m))]

NoExtensions == [k \in {} |-> "null"]
Vendor == [vendor |-> "str"]

Values(row) ==
  LET members == UNION {{[base EXCEPT ![m] = t] : t \in FieldOf(row, m).holds} :
                          base \in {Smallest(row), Largest(row)}, m \in Members(row)}
  IN [member : members,
      extensions : {NoExtensions} \cup (IF row.ext THEN {Vendor} ELSE {})]

Without(w, key) == [k \in DOMAIN w \ {key} |-> w[k]]
Over(c, w) == [k \in DOMAIN c \cup DOMAIN w |-> IF k \in DOMAIN c THEN c[k] ELSE w[k]]

JsonObjects(row) ==
  LET plain == {ToJson(row, [member |-> m, extensions |-> NoExtensions]) :
                  m \in {Smallest(row), Largest(row)}}
      base == plain \cup {Over(c, w) : c \in row.clash, w \in plain}
      keys == Keys(row) \cup row.known \cup {"vendor"}
              \cup {f.alias : f \in FieldSet(row)}
      Tokens(k) == JsonTokens \cup UNION {f.ok : f \in {g \in FieldSet(row) : g.key = k}}
  IN base \cup UNION {{Without(w, k)} \cup {Over([x \in {k} |-> t], w) : t \in Tokens(k)} :
                        w \in base, k \in keys}
=============================================================================
