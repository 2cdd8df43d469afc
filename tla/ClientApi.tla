----------------------------- MODULE ClientApi -----------------------------
(***************************************************************************)
(* The client's side of a session: the typed calls of Client and of the    *)
(* client peer with their capability gates, the handlers a client installs *)
(* for what the server sends, and the dispatch of server requests and      *)
(* notifications to them.  The calls a server makes to its client          *)
(* (server::ClientPeer) are at the end.                                    *)
(*                                                                         *)
(* A typed call is [method, gate]: the method it sends and the server      *)
(* capability it asks for first ("" for none).  It is refused locally with *)
(* MethodNotFound when the recorded capabilities lack the gate; before an  *)
(* initialize result is recorded every gate is open.                       *)
(***************************************************************************)
EXTENDS ServerDispatch

Typed(m, g) == [method |-> m, gate |-> g]

---------------------------------------------------------------------------
(* client::Client                                                          *)
ping == Typed("ping", "")
list_prompts == Typed("prompts/list", "")
get_prompt == Typed("prompts/get", "")
list_resources == Typed("resources/list", "")
read_resource == Typed("resources/read", "")
list_resource_templates == Typed("resources/templates/list", "")
list_tools == Typed("tools/list", "")
call_tool == Typed("tools/call", "")
call_tool_task == Typed("tools/call", "tasks.call")
complete == Typed("completion/complete", "completions")
complete_prompt_argument == complete
complete_resource_argument == complete
complete_simple == complete
create_message == Typed("sampling/createMessage", "")
create_elicitation == Typed("elicitation/create", "")
list_tasks == Typed("tasks/list", "tasks.list")
get_task == Typed("tasks/get", "tasks")
cancel_task == Typed("tasks/cancel", "tasks.cancel")
task_result == Typed("tasks/result", "tasks")
set_level == Typed("logging/setLevel", "logging")
subscribe == Typed("resources/subscribe", "subscribe")
unsubscribe == Typed("resources/unsubscribe", "subscribe")

ClientCalls ==
  {ping, list_prompts, get_prompt, list_resources, read_resource,
   list_resource_templates, list_tools, call_tool, call_tool_task, complete,
   complete_prompt_argument, complete_resource_argument, complete_simple,
   create_message, create_elicitation, list_tasks, get_task, cancel_task,
   task_result, set_level, subscribe, unsubscribe}

(* its asynchronous forms, which answer a refused call with a ready handle *)
async_listings == {Typed(m, "") : m \in ListMethods}
async_calls == {Typed(m, "") : m \in {"tools/call", "prompts/get", "resources/read"}}
async_tool_task == Typed("tools/call", "tasks.call")
async_complete == Typed("completion/complete", "completions")
async_reverse == {Typed(m, "") : m \in {"sampling/createMessage", "elicitation/create"}}
async_tasks == {Typed("tasks/list", "tasks.list"), Typed("tasks/get", "tasks"),
                Typed("tasks/cancel", "tasks.cancel"), Typed("tasks/result", "tasks")}

ClientAsyncCalls == async_listings \cup async_calls \cup {async_tool_task, async_complete}
                      \cup async_reverse \cup async_tasks

---------------------------------------------------------------------------
(* Peer<RoleClient>, over a native transport, has its own copy of them.    *)
peer_ping == Typed("ping", "")
peer_list_tools == Typed("tools/list", "")
peer_call_tool == Typed("tools/call", "")
peer_call_tool_task == Typed("tools/call", "tasks.call")
peer_list_prompts == Typed("prompts/list", "")
peer_get_prompt == Typed("prompts/get", "")
peer_list_resources == Typed("resources/list", "")
peer_list_resource_templates == Typed("resources/templates/list", "")
peer_read_resource == Typed("resources/read", "")
peer_complete == Typed("completion/complete", "completions")
peer_complete_arguments == peer_complete
peer_reverse == {Typed("sampling/createMessage", ""), Typed("elicitation/create", "")}
peer_list_tasks == Typed("tasks/list", "tasks.list")
peer_tasks == {Typed("tasks/get", "tasks"), Typed("tasks/cancel", "tasks.cancel"),
               Typed("tasks/result", "tasks")}
peer_set_level == Typed("logging/setLevel", "logging")
peer_subscribe == {Typed("resources/subscribe", "subscribe"),
                   Typed("resources/unsubscribe", "subscribe")}

PeerCalls ==
  {peer_ping, peer_list_tools, peer_call_tool, peer_call_tool_task, peer_list_prompts,
   peer_get_prompt, peer_list_resources, peer_list_resource_templates,
   peer_read_resource, peer_complete, peer_complete_arguments, peer_list_tasks,
   peer_set_level} \cup peer_reverse \cup peer_tasks \cup peer_subscribe

peer_async_listings == {Typed(m, "") : m \in ListMethods}
peer_async_calls == {Typed("tools/call", ""), Typed("tools/call", "tasks.call"),
                     Typed("prompts/get", ""), Typed("resources/read", "")}
peer_async_complete == Typed("completion/complete", "completions")
peer_async_reverse == {Typed("sampling/createMessage", ""), Typed("elicitation/create", "")}
peer_async_tasks == {Typed("tasks/list", "tasks.list"), Typed("tasks/get", "tasks"),
                     Typed("tasks/cancel", "tasks.cancel"), Typed("tasks/result", "tasks")}

PeerAsyncCalls == peer_async_listings \cup peer_async_calls \cup {peer_async_complete}
                    \cup peer_async_reverse \cup peer_async_tasks

TypedCalls == ClientCalls \cup ClientAsyncCalls \cup PeerCalls \cup PeerAsyncCalls

---------------------------------------------------------------------------
(* The gate.  known is "unknown" or the set of capabilities recorded from  *)
(* the last initialize result.                                             *)
Unknown == {"unknown"}
GateOpen(known, call) == call.gate = "" \/ known = Unknown \/ call.gate \in known
PeerGateOpen(known, call) == call.gate = "" \/ known = Unknown \/ call.gate \in known

\* record_server_capabilities: a result without a version records nothing
RecordCapabilities(known, caps, versioned) == IF versioned THEN caps ELSE known

---------------------------------------------------------------------------
(* Handlers of a client.  A request kind has a plain and a cancellation-   *)
(* aware slot; the aware one is preferred whichever was set last.          *)
Asked == {"roots/list", "sampling/createMessage", "elicitation/create", "custom"}
ClientNotes == {"initialized", "cancelled", "message", "tools/list_changed",
                "prompts/list_changed", "resources/list_changed",
                "resources/updated", "progress", "elicitation/complete",
                "tasks/status", "roots/list_changed", "rawNote"}
Hooks == (Asked \X {"plain", "aware"}) \cup (ClientNotes \X {"plain"})
NoHooks == [k \in Hooks |-> NoHandler]

DefaultCaps == {"roots", "sampling", "form", "validate", "url"}
Effective(caps) == IF caps = Unknown THEN DefaultCaps ELSE caps

NewClient == [hooks |-> NoHooks, caps |-> Unknown, known |-> Unknown]

OnHook(cli, k, h) == [cli EXCEPT !.hooks[k] = h]

ClientAggregate(cli, n, members) ==
  [cli EXCEPT !.hooks = [k \in Hooks |-> IF k \in members THEN Func(n, k[1]) ELSE @[k]]]

\* an interface fills every aware request slot and every notification slot
ClientInterface(cli, n, over) ==
  [cli EXCEPT !.hooks = [k \in Hooks |-> IF k[2] = "aware" \/ k[1] \in ClientNotes
                                         THEN Iface(n, over) ELSE @[k]]]

(* Peer<RoleClient> keeps a second copy, written by the same setters.      *)
PeerOnHook(cli, k, h) == OnHook(cli, k, h)
PeerClientAggregate(cli, n, members) == ClientAggregate(cli, n, members)
PeerClientInterface(cli, n, over) == ClientInterface(cli, n, over)

(* The client builder applies the aggregate first and the single handlers  *)
(* on top of it, in whatever order they were given.                        *)
BuildClient(members, n, singles) ==
  LET agg == ClientAggregate(NewClient, n, members)
  IN  [agg EXCEPT !.hooks = [k \in Hooks |-> IF Present(singles[k]) THEN singles[k]
                                             ELSE @[k]]]

\* Variant: the plain hook is preferred
Chosen_PlainFirst(cli, m) ==
  IF Present(cli.hooks[<<m, "plain">>]) THEN cli.hooks[<<m, "plain">>]
  ELSE cli.hooks[<<m, "aware">>]

Chosen(cli, m) == IF Present(cli.hooks[<<m, "aware">>]) THEN cli.hooks[<<m, "aware">>]
                  ELSE cli.hooks[<<m, "plain">>]

Ask(h, m, r) == IF m \in h.over THEN Answer(Code[r.does], <<h.id>>)
                ELSE Answer("MethodNotFound", << >>)

---------------------------------------------------------------------------
(* Requests from the server.                                               *)
ListRoots(cli, r) ==
  IF r.method # "roots/list" THEN Skip
  ELSE IF Present(Chosen(cli, "roots/list")) THEN Ask(Chosen(cli, "roots/list"), "roots/list", r)
  ELSE Answer("ok", << >>)

CreateMessage(cli, r) ==
  LET h == Chosen(cli, "sampling/createMessage")
  IN  CASE r.method # "sampling/createMessage" -> Skip
        [] r.method = "sampling/createMessage" /\ ~Present(h) ->
             Answer("MethodNotFound", << >>)
        [] r.method = "sampling/createMessage" /\ Present(h) ->
             IF r.params = "malformed" THEN Answer("InvalidParams", << >>)
             ELSE Ask(h, "sampling/createMessage", r)

\* an accepted form whose content does not fit the schema is the client's
\* fault; without handler the user declines
CreateElicitation(cli, r) ==
  LET h == Chosen(cli, "elicitation/create")
      said == Ask(h, "elicitation/create", r)
  IN  CASE r.method # "elicitation/create" -> Skip
        [] r.method = "elicitation/create" /\ r.params = "malformed" ->
             Answer("InvalidParams", << >>)
        [] r.method = "elicitation/create" /\ r.params # "malformed" ->
             IF ~Present(h) THEN Answer("declined", << >>)
             ELSE IF said.code = "ok" /\ r.form /\ r.params = "offSchema"
                       /\ "validate" \in Effective(cli.caps)
             THEN Answer("InternalError", said.ran)
             ELSE said

Custom(cli, r) ==
  IF Present(Chosen(cli, "custom")) THEN Ask(Chosen(cli, "custom"), "custom", r)
  ELSE Answer("MethodNotFound", << >>)

ClientHandleRequest(cli, r) ==
  Else(Ping(r),
  Else(ListRoots(cli, r),
  Else(CreateMessage(cli, r),
  Else(CreateElicitation(cli, r),
       Custom(cli, r)))))

PeerClientHandleRequest(cli, r) ==
  Else(Ping(r),
  Else(ListRoots(cli, r),
  Else(CreateMessage(cli, r),
  Else(CreateElicitation(cli, r),
       Custom(cli, r)))))

(* Notifications from the server: one handler by method, then the raw      *)
(* observer, which a malformed or throwing notification never reaches.     *)
ClientChecked == {"resources/updated", "progress", "elicitation/complete", "tasks/status"}

NoteHook(cli, m, r) ==
  LET h == cli.hooks[<<m, "plain">>]
  IN  CASE m = "cancelled" /\ r.params = "malformed" -> Answer("InvalidParams", << >>)
        [] m \in ClientChecked /\ Present(h) /\ r.params = "malformed" ->
             Answer("InvalidParams", << >>)
        [] OTHER -> IF m \notin h.over THEN Skip
                    ELSE IF r.does = "throw" THEN Answer("HandlerFailed", <<h.id>>)
                    ELSE Pass(<<h.id>>)

ClientHandleNotification(cli, r) ==
  Else(NoteHook(cli, r.method, r), Else(NoteHook(cli, "rawNote", r), Answer("ok", << >>)))
PeerClientHandleNotification(cli, r) ==
  Else(NoteHook(cli, r.method, r), Else(NoteHook(cli, "rawNote", r), Answer("ok", << >>)))

---------------------------------------------------------------------------
(* server::ClientPeer: the calls a server makes.  Its gates are closed     *)
(* until the session's client capabilities are known.                      *)
Asking(m, g) == [method |-> m, gate |-> g]
client_list_roots == Asking("roots/list", "roots")
client_create_message == Asking("sampling/createMessage", "sampling")
client_elicit_form == Asking("elicitation/create", "form")
client_elicit_url == Asking("elicitation/create", "url")
client_list_tasks == Asking("tasks/list", "tasks.list")
client_get_task == Asking("tasks/get", "tasks")
client_cancel_task == Asking("tasks/cancel", "tasks.cancel")
client_task_result == Asking("tasks/result", "tasks")

Askings == {client_list_roots, client_create_message, client_elicit_form,
            client_elicit_url, client_list_tasks, client_get_task,
            client_cancel_task, client_task_result}

ClientPeerOpen(seen, call) == seen # Unknown /\ call.gate \in seen
ClientPeerRefusal(call) ==
  IF call.gate = "url" THEN "UrlElicitationRequired" ELSE "MethodNotFound"
=============================================================================
