------------------------------ MODULE WireTools ------------------------------
(***************************************************************************)
(* The rows of tool.hpp, resource.hpp, prompt.hpp, annotations.hpp and     *)
(* types_reflect.hpp: what a server offers and what calling it returns.    *)
(***************************************************************************)
EXTENDS Wire

\* Reflect<T> members of type std::optional<Json>: any kind is read, null is not written.
ReflectedMeta(key) ==
  Field(key, {"none"} \cup JsonTokens, {"none", "null"}, JsonTokens, "none")

\* resource_size_from_json: an integer that fits 32 bits; the encoder does not look.
Size(key) == Field(key, {"none"} \cup Ints, {"none"}, {"int"}, "none")

\* Icon has no extensions; mimeType and sizes default when absent.
Icon == Closed(Row(<<Str("src"), Field("mimeType", {"empty", "str"}, {}, Strings, "empty"),
                     DefArr("sizes"), OptEnum("theme")>>))

CancelledNotificationParams == Closed(Row(<<Id("requestId"), OptStr("reason")>>))

ProgressNotificationParams ==
  Closed(Row(<<Id("progressToken"),
               [OptNumber("progress") EXCEPT !.holds = {"num"}, !.absent = "refuse"],
               OptNumber("total"), OptStr("message")>>))

PaginatedRequestParams == Row(<<OptStr("cursor"), OptObj("_meta")>>)

ToolAnnotations ==
  Row(<<OptStr("title"), OptStr("descriptionHint"), OptBool("destructiveHint"),
        OptBool("readOnlyHint"), OptBool("openWorldHint"), OptBool("idempotentHint")>>)

\* priority is a float in [0, 1]: the fractions are, "int" is a number above one.
\* "num" is a fraction a float holds, "frac" one that it changes.
Annotations ==
  Row(<<Field("audience", {"none", "arr0", "arr"}, {"none"}, {"arr0", "arr"}, "none"),
        [Field("priority", {"none", "num"}, {"none"}, {"num", "frac"}, "none")
           EXCEPT !.as = [t \in {"frac"} |-> "num"]],
        OptStr("lastModified")>>)

ResourceFields(uri) ==
  <<DefStr("title"), Str(uri), Str("name"), DefStr("description"), DefStr("mimeType"),
    Size("size"), DefArr("icons"), DefObj("annotations"), OptObj("_meta")>>

Resource == Row(ResourceFields("uri"))

ResourceTemplate == Row(ResourceFields("uriTemplate"))

\* ttlMs and cacheScope are written and never read: they come back as extensions.
ListResult(items) ==
  Row(<<Arr(items), OptStr("nextCursor"), OptObj("_meta"),
        WriteOnly(OptInt("ttlMs")), WriteOnly(OptStr("cacheScope"))>>)

ResourcesListResult == ListResult("resources")

ResourceTemplatesListResult == ListResult("resourceTemplates")

ResourcesReadParams == Row(<<Str("uri"), OptObj("_meta")>>)

ResourcesSubscribeParams == Row(<<Str("uri"), OptObj("_meta")>>)

\* Built contents may lack both text and blob; the decoder wants one of them.
ResourceContents ==
  NeedsOne(Row(<<Str("uri"), Str("mimeType"), OptStr("text"), OptStr("blob"),
                 ReflectedMeta("_meta")>>), {"text", "blob"})

ResourcesReadResult ==
  Row(<<Arr("contents"), OptObj("_meta"),
        WriteOnly(OptInt("ttlMs")), WriteOnly(OptStr("cacheScope"))>>)

ResourceUpdatedNotificationParams == Row(<<Str("uri")>>)

ToolExecution == Closed(Row(<<OptEnum("taskSupport")>>))

\* content_block_from_json keeps what annotations_to_json makes of the parsed
\* Annotations; "objFrac" has a priority that a float changes.
BlockAnnotations ==
  [Field("annotations", JsonTokens \cup {"objFrac"}, EmptyJson,
         {"obj0", "obj", "objMore", "objFrac"}, "obj0")
     EXCEPT !.as = [t \in {"objFrac"} |-> "obj"]]

BlockKeys ==
  {"type", "text", "data", "mimeType", "resource", "uri", "name", "title",
   "description", "size", "icons", "annotations", "_meta"}

\* The four kinds of content block. "word" is the type that selects the kind,
\* and a base64 text in `data`.
TextContent ==
  Knows(Row(<<Enum("type"), Str("text"), BlockAnnotations, OptObj("_meta"),
              WriteOnly(DefObj("data")), WriteOnly(DefStr("mimeType"))>>), BlockKeys)

MediaContent ==
  Knows(Row(<<Enum("type"),
              Field("data", JsonTokens, EmptyJson, {"empty", "word"}, "refuse"),
              Field("mimeType", {"empty", "str"}, {"empty"}, Strings, "refuse"),
              BlockAnnotations, OptObj("_meta"), WriteOnly(DefStr("text"))>>), BlockKeys)

EmbeddedResource ==
  Knows(Row(<<Enum("type"),
              Field("resource", {"none", "obj"}, {"none"}, {"obj"}, "refuse"),
              BlockAnnotations, OptObj("_meta")>>), BlockKeys)

\* resource_from_json reads the whole block, so the link keeps the keys the
\* block itself would drop. Block and link each have annotations and a _meta.
ResourceLink ==
  Row(<<Enum("type"), DefStr("title"), Str("uri"), Str("name"), DefStr("description"),
        DefStr("mimeType"), Size("size"), DefArr("icons"), BlockAnnotations,
        [Member("link_annotations", DefObj("annotations"))
           EXCEPT !.holds = @ \cup {"objFrac"}, !.ok = @ \cup {"objFrac"}],
        OptObj("_meta"), Member("link_meta", OptObj("_meta"))>>)

\* output_schema_present makes an empty schema survive. The annotations are
\* kept as JSON and, when readable, parsed; the parsed ones are written.
ToolDefinition ==
  Row(<<DefStr("title"), Str("name"), DefStr("description"), Obj("inputSchema"),
        Field("outputSchema", {"none"} \cup JsonTokens, {"none"}, Objects, "none"),
        Field("streaming", Bools, {"false"}, Bools, "false"),
        DefArr("icons"), Forgetful(OptNested("execution", TRUE)),
        [Member("tool_annotations", Field("annotations", {"none"} \cup Good(TRUE), {"none"},
                                          Objects, "none"))
           EXCEPT !.as = [t \in {"objBad"} |-> "none"]],
        DefObj("annotations"), OptObj("_meta")>>)

ToolsListResult == ListResult("tools")

ToolCall_NoExtensions ==
  Closed(Row(<<Str("name"), DefObj("arguments"), OptNested("task", TRUE), OptObj("_meta"),
               Unchecked(OptStr("requestState")), OptAny("inputResponses")>>))
ToolCall ==
  Row(<<Str("name"), DefObj("arguments"), OptNested("task", TRUE), OptObj("_meta"),
        Unchecked(OptStr("requestState")), OptAny("inputResponses")>>)

ToolResult ==
  NeedsOne(Row(<<Unchecked(OptStr("resultType")), DefArr("content"),
                 OptAny("structuredContent"), OptBool("isError"), OptObj("_meta"),
                 OptAny("inputRequests"), Unchecked(OptStr("requestState"))>>),
           {"content", "structuredContent", "isError", "_meta", "resultType",
            "inputRequests", "requestState"})

PromptArgument ==
  Row(<<DefStr("title"), Str("name"), DefStr("description"),
        Field("required", {"none"} \cup Bools, {"none"}, Bools, "none"),
        DefObj("annotations"), OptObj("_meta")>>)

Prompt ==
  Row(<<DefStr("title"), Str("name"), DefStr("description"), DefArr("arguments"),
        DefArr("icons"), DefObj("annotations"), OptObj("_meta")>>)

PromptsListResult == ListResult("prompts")

PromptsGetParams == Row(<<Str("name"), DefObj("arguments"), OptObj("_meta")>>)

PromptMessage == Row(<<Str("role"), Nested("content", FALSE), OptObj("_meta")>>)

PromptsGetResult ==
  NeedsOne(Row(<<Unchecked(OptStr("resultType")), DefStr("description"),
                 DefArr("messages"), OptObj("_meta"), OptAny("inputRequests"),
                 Unchecked(OptStr("requestState"))>>),
           {"messages", "resultType", "inputRequests"})

ToolTypes ==
  [Icon |-> Icon, Cancelled |-> CancelledNotificationParams,
   Progress |-> ProgressNotificationParams, Paginated |-> PaginatedRequestParams,
   ToolAnnotations |-> ToolAnnotations, Annotations |-> Annotations,
   Resource |-> Resource, ResourceTemplate |-> ResourceTemplate,
   ResourcesList |-> ResourcesListResult, TemplatesList |-> ResourceTemplatesListResult,
   ReadParams |-> ResourcesReadParams, SubscribeParams |-> ResourcesSubscribeParams,
   ResourceContents |-> ResourceContents, ReadResult |-> ResourcesReadResult,
   ResourceUpdated |-> ResourceUpdatedNotificationParams,
   ToolExecution |-> ToolExecution, TextContent |-> TextContent,
   MediaContent |-> MediaContent, EmbeddedResource |-> EmbeddedResource,
   ResourceLink |-> ResourceLink, ToolDefinition |-> ToolDefinition,
   ToolsList |-> ToolsListResult, ToolCall |-> ToolCall, ToolResult |-> ToolResult,
   PromptArgument |-> PromptArgument, Prompt |-> Prompt,
   PromptsList |-> PromptsListResult, PromptsGetParams |-> PromptsGetParams,
   PromptMessage |-> PromptMessage, PromptsGetResult |-> PromptsGetResult]
=============================================================================
