-------------------------------- MODULE Codec --------------------------------
(***************************************************************************)
(* A value on its way through the SDK.  An application builds a value of   *)
(* some protocol type, or a peer's JSON arrives; from then on the value is *)
(* encoded and decoded by turns, as when a proxy passes a message on, and  *)
(* once on the way an application may set one member of a decoded value.   *)
(***************************************************************************)
EXTENDS Envelope

CONSTANT MaxHops   \* decodings of one value

Types ==
  LET groups == <<ToolTypes, SessionTypes, FormTypes, CapabilityTypes>>
      group(ty) == CHOOSE i \in DOMAIN groups : ty \in DOMAIN groups[i]
  IN [ty \in UNION {DOMAIN groups[i] : i \in DOMAIN groups} |-> groups[group(ty)][ty]]

TypeNames == DOMAIN Types \cup DOMAIN MessageTypes
IsMessage(ty) == ty \in DOMAIN MessageTypes
RowFor(ty) == IF IsMessage(ty) THEN MessageTypes[ty] ELSE Types[ty]

Read(ty, w) ==
  IF IsMessage(ty) THEN ParseMessage(w)
  ELSE FromJson(Types[PrimitiveSchema(ty, w)], w)

Write(ty, v) ==
  IF IsMessage(ty) THEN SerializeMessage(v)
  ELSE [status |-> "ok", wire |-> ToJson(Types[ty], v)]

VARIABLES
  ty,      \* the type of the value
  stage,   \* new, wire, value, or how a conversion failed
  wire,    \* the JSON object last sent or received
  value,   \* the C++ value last decoded, built or edited
  maker,   \* whose words it carries: peer, app, or relay
  hops     \* decodings so far

vars == <<ty, stage, wire, value, maker, hops>>

Init ==
  /\ ty \in TypeNames
  /\ stage = "new" /\ wire = NoExtensions /\ value = <<>> /\ maker = "peer" /\ hops = 0

Receive ==
  /\ stage = "new"
  /\ wire' \in JsonObjects(RowFor(ty))
  /\ stage' = "wire" /\ maker' = "peer"
  /\ UNCHANGED <<ty, value, hops>>

Built ==
  CASE IsMessage(ty) -> Messages(ty)
    [] ty = "ClientCapabilities" -> ClientCapabilitiesBuilder(Types[ty])
    [] ty = "ServerCapabilities" -> ServerCapabilitiesBuilder(Types[ty])
    [] OTHER -> Values(Types[ty])

Build ==
  /\ stage = "new"
  /\ value' \in Built
  /\ stage' = "value" /\ maker' = "app"
  /\ UNCHANGED <<ty, wire, hops>>

\* The decoder may find a value of a sibling type (a message, a primitive schema).
Decode ==
  /\ stage = "wire" /\ hops < MaxHops
  /\ LET r == Read(ty, wire)
     IN /\ stage' = IF r.status = "ok" THEN "value" ELSE r.status
        /\ value' = IF r.status = "ok" THEN r.value ELSE value
        /\ ty' = IF r.status # "ok" THEN ty
                 ELSE IF IsMessage(ty) THEN r.value.kind ELSE PrimitiveSchema(ty, wire)
  /\ hops' = hops + 1
  /\ UNCHANGED <<wire, maker>>

Encode ==
  /\ stage = "value"
  /\ LET r == Write(ty, value)
     IN /\ stage' = IF r.status = "ok" THEN "wire" ELSE r.status
        /\ wire' = IF r.status = "ok" THEN r.wire ELSE wire
  /\ maker' = IF maker = "peer" THEN "relay" ELSE maker
  /\ UNCHANGED <<ty, value, hops>>

\* An application sets one member of a value it received.
Edit ==
  /\ stage = "value" /\ maker = "peer"
  /\ \/ \E m \in Members(RowFor(ty)) :
          \E t \in FieldOf(RowFor(ty), m).holds \ {value.member[m]} :
            value' = [value EXCEPT !.member[m] = t]
     \/ /\ ty \in {"Request", "Notification"}
        /\ \E t \in {"none", "obj"} \ {value.meta} : value' = [value EXCEPT !.meta = t]
  /\ maker' = "app"
  /\ UNCHANGED <<ty, stage, wire, hops>>

Next == Receive \/ Build \/ Decode \/ Encode \/ Edit

Spec == Init /\ [][Next]_vars

-----------------------------------------------------------------------------
(***************************************************************************)
(* What the protocol headers promise of these conversions, and the places  *)
(* where the code keeps less than the promise.                             *)
(***************************************************************************)
Sections ==
  {"Roots", "Sampling", "Elicitation", "ElicitationForm", "Resources", "Tasks"}
BlockTypes == {"TextContent", "MediaContent", "EmbeddedResource", "ResourceLink"}
Lists == {"ResourcesList", "TemplatesList", "ReadResult", "ToolsList", "PromptsList"}

\* A value whose members its own decoder would accept.
Legal(v) ==
  LET row == RowFor(ty)
  IN /\ \A f \in Writers(row, v) : \A g \in FieldSet(row) :
          g.key = f.key => Written(f, v) \in g.ok
     /\ ~Clashes(row, ToJson(row, v))

\* A left-out member reads as its default. Of two members on one key the
\* written one comes back; whatever the other was set to, it becomes what the
\* written one says.
Canonical(v) ==
  LET row == RowFor(ty)
      At(f) == {g \in Writers(row, v) : g.key = f.key}
      Back(f) == IF At(f) = {} THEN f.absent
                 ELSE IF f \in At(f) THEN v.member[f.name]
                 ELSE Understood(f, Written(CHOOSE g \in At(f) : TRUE, v))
  IN [m \in Members(row) |-> Back(FieldOf(row, m))]

\* Written by to_json, taken for an unknown key by from_json.
Unread ==
  CASE ty \in Lists -> {"ttlMs", "cacheScope"}
    [] ty = "TextContent" -> {"data", "mimeType"}
    [] ty = "MediaContent" -> {"text"}
    [] OTHER -> {}

\* Left out by to_json when empty, demanded by from_json.
Demanded ==
  CASE ty = "MediaContent" -> {"data", "mimeType"}
    [] ty = "EmbeddedResource" -> {"resource"}
    [] ty = "UrlElicitation" -> {"elicitationId", "url"}
    [] ty = "PromptReference" -> {"name"}
    [] OTHER -> {}

\* The values that do not come back as they were.
KnownGap(v) ==
  LET row == RowFor(ty)
      Left(k) == v.member[k] \in FieldOf(row, k).omit
  IN \/ \E k \in Unread : ~Left(k)
     \/ \E k \in Demanded : Left(k)
     \/ /\ ty \in {"ToolResult", "PromptsGetResult", "ResourceContents"}
        /\ row.anyOf \cap DOMAIN ToJson(row, v) = {}
     \/ ty \in Sections /\ \E k \in Keys(row) \cap DOMAIN v.extensions : Left(k)
     \/ ty = "TitledEnum" /\ v.member["oneOf"] = "arr0"
     \/ ty = "CompleteParams" /\ v.member["typed_context"] = "obj0"
     \/ ty \in BlockTypes /\ v.member["annotations"] = "objFrac"
     \/ ty = "Response" /\ ~Left("error") /\ ~Left("result")
     \/ ty \in {"Request", "Notification"} /\ (v.meta # "none") # (v.member["params"] = "objMore")

(***************************************************************************)
(* Every legal value to_json wrote, built or decoded and then edited, is   *)
(* read back by from_json with the same members; the exceptions are the    *)
(* known gaps and no others.  Where two members share a key, setting the   *)
(* one that is not written changes nothing, and it comes back changed.     *)
(***************************************************************************)
WrittenIsRead ==
  [][(stage = "wire" /\ maker # "peer" /\ hops' # hops /\ Legal(value) /\ ~KnownGap(value))
       => (stage' = "value" /\ value'.member = Canonical(value))]_vars

\* Keys a decoder knows but has no place for in this variant, and unknown
\* keys of the types without extensions.
Homeless(k) ==
  \/ k \notin Keys(RowFor(ty)) /\ k \in RowFor(ty).known
  \/ /\ k \notin Keys(RowFor(ty))
     /\ ty \in {"Icon", "Cancelled", "Progress", "ToolExecution", "CompletionContext",
               "ClientCapabilities", "ServerCapabilities", "Request", "Notification", "Response"}
  \/ ty = "TextContent" /\ k \in {"data", "mimeType"}
  \/ ty = "MediaContent" /\ k = "text"

\* The values a C++ type changes on the way through.
Reshaped ==
  {<<"ToolDefinition", "execution", "objMore">>, <<"InitializeParams", "capabilities", "objMore">>,
   <<"InitializeResult", "capabilities", "objMore">>, <<"CompleteParams", "context", "objMore">>,
   <<"MultiSelect", "items", "objMore">>, <<"Response", "error", "objMore">>,
   <<"CreateMessageParams", "maxTokens", "huge">>, <<"TitledEnum", "oneOf", "arr0">>,
   <<"Annotations", "priority", "frac">>}
    \cup {"SamplingMessage", "CreateMessageResult"} \X {"content"} \X {"arr0", "arr1"}
    \cup BlockTypes \X {"annotations"} \X {"objFrac"}

(***************************************************************************)
(* A message passed on unedited still carries every key it arrived with,   *)
(* unknown members included, unless the key stood for the default, has no  *)
(* home in the type, or is one of the values the type reshapes.  An        *)
(* integer may come out as a floating point number, a task capability      *)
(* `true` as {}.                                                           *)
(***************************************************************************)
RelayKeepsMembers ==
  [][(maker = "peer" /\ maker' = "relay") =>
       \A k \in DOMAIN wire :
         \/ k \in DOMAIN wire' /\ wire'[k] = wire[k]
         \/ k \in Keys(RowFor(ty)) /\ wire[k] \in FieldOf(RowFor(ty), k).omit
         \/ Homeless(k) \/ <<ty, k, wire[k]>> \in Reshaped
         \/ k \in DOMAIN wire' /\ wire[k] \in Ints /\ wire'[k] = "num"
         \/ k \in DOMAIN wire' /\ ty = "Tasks" /\ wire[k] = "true" /\ wire'[k] = "obj0"]_vars
=============================================================================
