----------------------------- MODULE WireSession -----------------------------
(***************************************************************************)
(* The rows of initialize.hpp, sampling.hpp, elicitation.hpp, task.hpp,    *)
(* completion.hpp, logging.hpp and roots.hpp: the session handshake and    *)
(* the requests that travel towards the client.                            *)
(***************************************************************************)
EXTENDS WireTools

ImplementationInfo ==
  Row(<<Str("name"), Str("version"), OptStr("title"), OptStr("description"),
        DefArr("icons"), OptStr("websiteUrl"), OptObj("_meta")>>)

\* Capabilities have no extensions: an unknown top-level key is dropped.
InitializeParams ==
  Row(<<Str("protocolVersion"), Forgetful(Nested("capabilities", TRUE)),
        Nested("clientInfo", FALSE), OptObj("_meta")>>)

InitializeResult ==
  Row(<<Str("protocolVersion"), Forgetful(Nested("capabilities", TRUE)),
        Nested("serverInfo", FALSE), OptStr("instructions")>>)

ToolChoice == Row(<<OptEnum("mode")>>)

ToolUseContent ==
  Row(<<Enum("type"), Str("id"), Str("name"), Obj("input"), OptObj("_meta")>>)

ToolResultContent ==
  Row(<<Enum("type"), Str("toolUseId"), DefArr("content"), OptObj("structuredContent"),
        OptBool("isError"), OptObj("_meta")>>)

\* `content` is a block or an array of blocks: "use" is a tool_use, "result" a
\* tool_result, "arr1" an array of one block; of the longer ones "arrUse" begins
\* with a tool_use, "arrResult" has tool_results only, and one that mixes them
\* with other blocks is an "arrBad". All of it is in `contents`, where one block
\* and an array of one are the same and are written bare; `content` is the
\* first block, or the default one, and is written when `contents` is empty.
BlockForms ==
  {"obj", "objMore", "use", "result", "arr0", "arr1", "arr", "arrUse", "arrResult"}
Blocks ==
  LET first == [t \in BlockForms \ {"obj", "objMore"} |->
                  IF t \in {"use", "result", "arrUse", "arrResult"} THEN "objBad" ELSE "obj"]
  IN <<[Member("contents", Field("content", BlockForms \ {"arr1"}, {"arr0"}, BlockForms, "refuse"))
          EXCEPT !.as = [t \in {"arr1"} |-> "obj"]],
       [Field("content", {"obj", "objMore", "objBad"}, {}, BlockForms, "refuse")
          EXCEPT !.as = first]>>

\* The role is a free string until from_json checks it.
Role(legal) == Field("role", {"user", "assistant", "str"}, {}, legal, "refuse")

\* validate_sampling_message_content_roles
RoleClashes ==
  [role : {"user"}, content : {"use", "arrUse"}]
    \cup [role : {"assistant"}, content : {"result", "arrResult"}]

SamplingMessage ==
  Refuses(Row(<<Role({"user", "assistant"})>> \o Blocks \o <<OptObj("_meta")>>), RoleClashes)

ModelHint == Row(<<Str("name")>>)

ModelPreferences ==
  Row(<<DefArr("hints"), OptNumber("costPriority"), OptNumber("speedPriority"),
        OptNumber("intelligencePriority")>>)

\* maxTokens is an int: a larger JSON integer is narrowed, here to a negative one.
\* includeContext is a free string until from_json checks it. Messages with a
\* tool_use and no tool_result for it, or the reverse, are an "arrBad"; they can
\* be built and written.
CreateMessageParams ==
  Row(<<[Arr("messages") EXCEPT !.holds = Arrays],
        [Field("maxTokens", {"int", "neg"}, {}, Ints, "refuse")
           EXCEPT !.as = [t \in {"huge"} |-> "neg"]],
        OptNested("modelPreferences", TRUE), OptStr("systemPrompt"),
        Field("includeContext", {"none", "str", "word"}, {"none"}, {"word"}, "none"),
        OptNumber("temperature"), DefArr("stopSequences"), DefObj("metadata"),
        OptNested("task", TRUE), OptObj("_meta"), DefArr("tools"),
        OptNested("toolChoice", TRUE)>>)

CreateMessageResult ==
  Refuses(Row(<<Role({"assistant"})>> \o Blocks \o
              <<Str("model"), DefStr("stopReason"), OptObj("_meta")>>), RoleClashes)

TaskRequestParameters == Row(<<OptInt("ttl"), ReflectedMeta("_meta")>>)

TaskFields_OmitsNull ==
  <<Str("taskId"), Enum("status"), OptStr("statusMessage"), Str("createdAt"),
    Field("ttl", {"null"} \cup Ints, {"null"}, {"null"} \cup Ints, "refuse"),
    OptInt("pollInterval"), Str("lastUpdatedAt")>>
\* ttl is null or an integer and always written; an absent one reads as null.
TaskFields ==
  <<Str("taskId"), Enum("status"), OptStr("statusMessage"), Str("createdAt"),
    Field("ttl", {"null"} \cup Ints, {}, {"null"} \cup Ints, "null"),
    OptInt("pollInterval"), Str("lastUpdatedAt")>>

Task == Row(TaskFields)

TaskListParams == Row(<<OptStr("cursor"), ReflectedMeta("_meta")>>)

TaskGetParams == Row(<<Str("taskId"), ReflectedMeta("_meta")>>)

TaskCancelParams == Row(<<Str("taskId"), ReflectedMeta("_meta")>>)

\* tasks/get and tasks/cancel answer with the task itself.
TaskOperationResult == Row(Append(TaskFields, OptObj("_meta")))

TaskListResult ==
  Row(<<Arr("tasks"), OptStr("nextCursor"),
        Field("total", {"none"} \cup Ints, {"none"}, {"int", "huge"}, "none"),
        OptObj("_meta")>>)

\* The payload is every key but _meta.
TaskGetPayloadResult == Row(<<OptObj("_meta")>>)

CreateTaskResult == Row(<<Nested("task", FALSE), OptObj("_meta")>>)

PromptReference ==
  Row(<<Enum("type"), Field("name", {"empty", "str"}, {"empty"}, Strings, "refuse"),
        Forbidden("uri"), DefStr("title")>>)

ResourceReference ==
  Row(<<Enum("type"), Str("uri"), Forbidden("name"),
        Field("title", {"empty", "str"}, {"empty"}, {}, "empty")>>)

CompletionArgument == Row(<<Str("name"), Str("value")>>)

\* An optional map: when it is empty the encoder writes nothing.
CompletionContext ==
  Closed(Row(<<Field("arguments", {"none", "obj0", "obj"}, {"none", "obj0"},
                     {"obj0", "obj"}, "none")>>))

\* A context is kept as JSON and, with readable arguments ("obj", "objMore"),
\* as those arguments only; these are written.
CompleteParams ==
  Row(<<Nested("ref", FALSE), Nested("argument", FALSE),
        [Member("typed_context", Field("context", {"none", "obj0", "obj"}, {"none"},
                                       Objects, "none"))
           EXCEPT !.as = [t \in Objects \ {"obj"} |-> IF t = "objMore" THEN "obj" ELSE "none"]],
        DefObj("context"), OptObj("_meta")>>)

\* At most a hundred values, and a total that fits an int.
CompletionResult ==
  Row(<<Field("values", {"arr0", "arr", "arrBad"}, {}, {"arr0", "arr"}, "refuse"),
        Field("total", {"none", "int", "neg"}, {"none"}, {"int"}, "none"),
        OptBool("hasMore")>>)

CompleteResult == Row(<<Nested("completion", FALSE), OptObj("_meta")>>)

LoggingSetLevelParams == Row(<<Enum("level"), OptObj("_meta")>>)

LoggingMessageParams ==
  Row(<<Enum("level"), OptStr("logger"), Any("data"), OptObj("_meta")>>)

Root == Row(<<Str("uri"), OptStr("name"), ReflectedMeta("_meta")>>)

RootsListResult == Row(<<Arr("roots"), OptObj("_meta")>>)

SessionTypes ==
  [ImplementationInfo |-> ImplementationInfo, InitializeParams |-> InitializeParams,
   InitializeResult |-> InitializeResult, ToolChoice |-> ToolChoice,
   ToolUse |-> ToolUseContent, ToolResultContent |-> ToolResultContent,
   SamplingMessage |-> SamplingMessage, ModelHint |-> ModelHint,
   ModelPreferences |-> ModelPreferences, CreateMessageParams |-> CreateMessageParams,
   CreateMessageResult |-> CreateMessageResult,
   TaskRequestParameters |-> TaskRequestParameters, Task |-> Task,
   TaskListParams |-> TaskListParams, TaskGetParams |-> TaskGetParams,
   TaskCancelParams |-> TaskCancelParams, TaskOperationResult |-> TaskOperationResult,
   TaskListResult |-> TaskListResult, TaskPayload |-> TaskGetPayloadResult,
   CreateTaskResult |-> CreateTaskResult, PromptReference |-> PromptReference,
   ResourceReference |-> ResourceReference, CompletionArgument |-> CompletionArgument,
   CompletionContext |-> CompletionContext, CompleteParams |-> CompleteParams,
   CompletionResult |-> CompletionResult, CompleteResult |-> CompleteResult,
   SetLevel |-> LoggingSetLevelParams, LoggingMessage |-> LoggingMessageParams,
   Root |-> Root, RootsList |-> RootsListResult]
=============================================================================
