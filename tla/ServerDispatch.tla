--------------------------- MODULE ServerDispatch ---------------------------
(***************************************************************************)
(* What a server answers: Server::handle_request, the copy of its dispatch *)
(* that ServerPeer runs in front of it, and the two notification           *)
(* dispatchers.  Each branch of the code is one operator that answers or   *)
(* passes; an answer carries its code and the ids of the handlers that     *)
(* ran, in order.                                                          *)
(*                                                                         *)
(* A request is [method, params, key, task, submit, modern, known,         *)
(* allowed, via, raw, does]: params "good", "malformed" or "offSchema";    *)
(* task and modern say whether a tool call asks for a task and speaks the  *)
(* newer wire version, submit what the task processor makes of it; via is  *)
(* what it came over: a transport its context names, a transport only the  *)
(* peer knows ("native"), or none;                                         *)
(* known and allowed are the verdicts of the auth provider and the rate    *)
(* limiter; raw is what a raw handler does with it (answer, pass, throw)   *)
(* and does what any other handler does (ok, error, throw, or misfit: a    *)
(* tool's result that its output schema rejects).                          *)
(***************************************************************************)
EXTENDS ServerSetup

Answer(code, ran) == [done |-> TRUE, code |-> code, ran |-> ran, subscribes |-> {}]
Pass(ran) == [done |-> FALSE, code |-> "pass", ran |-> ran, subscribes |-> {}]
Skip == Pass(<< >>)
Else(a, b) == IF a.done THEN a ELSE [b EXCEPT !.ran = a.ran \o @]

Code == [ok |-> "ok", misfit |-> "ok", error |-> "HandlerError",
         throw |-> "HandlerFailed"]

\* running handler h for callback c; an interface that does not override c
\* answers MethodNotFound
Run(h, c, r) ==
  IF c \notin h.over THEN Answer("MethodNotFound", << >>)
  ELSE IF h.typed /\ r.params = "malformed" THEN Answer("InvalidParams", << >>)
  ELSE Answer(Code[r.does], <<h.id>>)

---------------------------------------------------------------------------
(* Authentication, rate limit, and the three methods answered before any   *)
(* handler.                                                                *)
Authenticate(srv, r) ==
  IF srv.auth /\ ~r.known THEN Answer("Unauthorized", << >>) ELSE Skip

RateLimit(srv, r) ==
  IF srv.limiter /\ ~r.allowed THEN Answer("RateLimited", << >>) ELSE Skip

Initialize(r) ==
  IF r.method # "initialize" THEN Skip
  ELSE Answer(IF r.params = "good" THEN "ok" ELSE "InvalidParams", << >>)

Ping(r) == IF r.method = "ping" THEN Answer("ok", << >>) ELSE Skip
Discover(r) == IF r.method = "server/discover" THEN Answer("ok", << >>) ELSE Skip

(* dispatch_server_handler_request: an interface looks at discovery        *)
(* methods, then at calls.  It checks the parameters of a method even when *)
(* it declines the method, and reports a malformed call with the decoder's *)
(* own code.                                                               *)
Discoveries == ListMethods \cup {"tools/get"}
InterfaceDiscovery(h, r) ==
  CASE r.method \notin Discoveries -> Skip
    [] r.method \in Discoveries /\ r.params = "malformed" ->
         Answer("InvalidParams", << >>)
    [] r.method \in Discoveries /\ r.params # "malformed" ->
         IF r.method \in h.over THEN Run(h, r.method, r) ELSE Skip

Calls == {"tools/call", "prompts/get", "resources/read"}
RawCalls == {"logging/setLevel", "resources/subscribe", "resources/unsubscribe"}
InterfaceCalls(h, r) ==
  CASE r.method \in Calls /\ r.params = "malformed" -> Answer("InvalidRequest", << >>)
    [] r.method = "tools/call" /\ r.params # "malformed" /\ r.task -> Skip
    [] OTHER -> IF r.method \in (Calls \cup RawCalls) \cap h.over
                THEN Run(h, r.method, r) ELSE Skip

\* a raw handler: a function, or the wrapper around an interface, whose
\* on_custom_request is asked last
RawFunc(h, r) ==
  CASE r.raw = "answer" -> Answer("raw", <<h.id>>)
    [] r.raw = "pass" -> Pass(<<h.id>>)
    [] r.raw = "throw" -> Answer("HandlerFailed", <<h.id>>)
IsFunction(h, s) == h.over = {s}

RawContext(h, r) ==
  CASE ~Present(h) -> Skip
    [] Present(h) /\ IsFunction(h, "rawContext") -> RawFunc(h, r)
    [] OTHER -> Else(InterfaceDiscovery(h, r),
                Else(InterfaceCalls(h, r),
                     IF "custom" \in h.over THEN RawFunc(h, r) ELSE Skip))
RawPlain(h, r) == IF Present(h) THEN RawFunc(h, r) ELSE Skip

RawHandlers(slots, r) ==
  Else(RawContext(slots["rawContext"], r), RawPlain(slots["raw"], r))

---------------------------------------------------------------------------
Tasks(srv, r) ==
  LET h == srv.slots[r.method]
  IN  CASE r.method \notin TaskMethods -> Skip
        [] r.method \in TaskMethods /\ ~Present(h) /\ ~srv.manager ->
             Answer("MethodNotFound", << >>)
        [] r.method \in TaskMethods /\ (Present(h) \/ srv.manager) ->
             IF r.params = "malformed" THEN Answer("InvalidParams", << >>)
             ELSE IF Present(h) THEN Run(h, r.method, r)
             ELSE Answer("ok", << >>)

(* The four listings: parameters first, then the list handler or the       *)
(* registry.                                                               *)
ListFrom(srv, r) ==
  IF Present(srv.slots[r.method]) THEN Run(srv.slots[r.method], r.method, r)
  ELSE Answer("ok", << >>)
ListTools(srv, r) == ListFrom(srv, r)
ListPrompts(srv, r) == ListFrom(srv, r)
ListResources(srv, r) == ListFrom(srv, r)
ListResourceTemplates(srv, r) == ListFrom(srv, r)

ToolsListing(srv, r) ==
  IF r.method # "tools/list" THEN Skip
  ELSE IF r.params = "malformed" THEN Answer("InvalidParams", << >>)
  ELSE ListTools(srv, r)
PromptsListing(srv, r) ==
  IF r.method # "prompts/list" THEN Skip
  ELSE IF r.params = "malformed" THEN Answer("InvalidParams", << >>)
  ELSE ListPrompts(srv, r)
ResourcesListing(srv, r) ==
  IF r.method # "resources/list" THEN Skip
  ELSE IF r.params = "malformed" THEN Answer("InvalidParams", << >>)
  ELSE ListResources(srv, r)
TemplatesListing(srv, r) ==
  IF r.method # "resources/templates/list" THEN Skip
  ELSE IF r.params = "malformed" THEN Answer("InvalidParams", << >>)
  ELSE ListResourceTemplates(srv, r)

ToolGet(srv, r) ==
  CASE r.method # "tools/get" -> Skip
    [] r.method = "tools/get" /\ r.params = "malformed" ->
         Answer("InvalidParams", << >>)
    [] r.method = "tools/get" /\ r.params # "malformed" ->
         Answer(IF r.key \in Registered(srv.regs.tools) THEN "ok"
                ELSE "ToolNotFound", << >>)

(* tools/call.  A newer client's task request to a tool that forbids tasks *)
(* is run as a plain call.  A task request is validated before the lack of *)
(* a processor is noticed, and the processor may refuse it.                *)
ParamsError(code) == IF code = "InvalidRequest" THEN "InvalidParams" ELSE code

ToolHandlerId == 99   \* handlers registered with an entry

\* a typed handler never sees arguments that do not decode
EntryAnswer(e, r) ==
  CASE e.typed /\ r.params = "offSchema" -> Answer("InvalidParams", << >>)
    [] e.typed /\ r.params # "offSchema" /\ r.does = "throw" ->
         Answer("InvalidParams", <<ToolHandlerId>>)
    [] OTHER -> Answer(Code[r.does], <<ToolHandlerId>>)

AsTask(srv, r) ==
  /\ r.task
  /\ ~(/\ r.modern
       /\ r.key \in Registered(srv.regs.tools)
       /\ EntryOf(srv.regs.tools, r.key).support = "forbidden")

ToolTask(srv, r) ==
  LET valid == ValidateCall(srv.regs.tools, r.key, TRUE, TRUE, FALSE)
  IN  CASE valid # "ok" -> Answer(ParamsError(valid), << >>)
        [] valid = "ok" /\ ~srv.manager -> Answer("MethodNotFound", << >>)
        [] valid = "ok" /\ srv.manager ->
             IF r.submit = "ok" THEN Answer("ok", <<ToolHandlerId>>)
             ELSE Answer(ParamsError(r.submit), << >>)

ToolRun(srv, r) ==
  LET valid == ValidateCall(srv.regs.tools, r.key, FALSE,
                            r.params # "offSchema", srv.validator)
      ran == EntryAnswer(EntryOf(srv.regs.tools, r.key), r)
  IN  IF valid # "ok" THEN Answer(valid, << >>)
      ELSE IF OutputFault(ran.code = "ok", r.does # "misfit", srv.validator)
      THEN Answer("InternalError", ran.ran)
      ELSE ran

ToolCall(srv, r) ==
  CASE r.method # "tools/call" -> Skip
    [] r.method = "tools/call" /\ r.params = "malformed" ->
         Answer("InvalidParams", << >>)
    [] r.method = "tools/call" /\ r.params # "malformed" ->
         IF AsTask(srv, r) THEN ToolTask(srv, r) ELSE ToolRun(srv, r)

KeyedMethod == [prompts |-> "prompts/get", resources |-> "resources/read"]
Keyed(srv, kind, r) ==
  CASE r.method # KeyedMethod[kind] -> Skip
    [] r.method = KeyedMethod[kind] /\ r.params = "malformed" ->
         Answer("InvalidParams", << >>)
    [] r.method = KeyedMethod[kind] /\ r.params # "malformed" ->
         IF r.key \in Registered(srv.regs[kind])
         THEN EntryAnswer(EntryOf(srv.regs[kind], r.key), r)
         ELSE Answer(NotFound[kind], << >>)
PromptGet(srv, r) == Keyed(srv, "prompts", r)
ResourceRead(srv, r) == Keyed(srv, "resources", r)

(* A subscription belongs to the transport the request came over; the      *)
(* answer carries the new set of them.                                     *)
SubscriptionMethods == {"resources/subscribe", "resources/unsubscribe"}
set_resource_subscription(srv, via, r) ==
  IF via = "none" THEN Answer("InvalidRequest", << >>)
  ELSE [Answer("ok", << >>) EXCEPT
          !.subscribes = IF r.method = "resources/subscribe"
                         THEN {srv.subscriptions \cup {<<via, r.key>>}}
                         ELSE {srv.subscriptions \ {<<via, r.key>>}}]
Subscribing(srv, via, r) ==
  IF r.method \notin SubscriptionMethods THEN Skip
  ELSE IF "subscribe" \notin srv.caps THEN Answer("MethodNotFound", << >>)
  ELSE IF r.params = "malformed" THEN Answer("InvalidParams", << >>)
  ELSE set_resource_subscription(srv, via, r)

Subscription(srv, r) == Subscribing(srv, IF r.via = "context" THEN r.via ELSE "none", r)

Extension == [c \in {"completion/complete", "sampling/createMessage"} |->
                IF c = "completion/complete" THEN "completion" ELSE "sampling"]
Extensions(srv, r) ==
  IF r.method \notin DOMAIN Extension THEN Skip
  ELSE LET s == Extension[r.method]
       IN  IF Present(srv.slots[s]) THEN Run(srv.slots[s], s, r)
           ELSE Answer("MethodNotFound", << >>)

\* a handler for log levels returns nothing: the answer is empty with or
\* without it, unless it throws
LogLevel(h, r) ==
  IF ~Present(h) \/ "logging" \notin h.over THEN Answer("ok", << >>)
  ELSE Answer(IF r.does = "throw" THEN "HandlerFailed" ELSE "ok", <<h.id>>)
SetLevel(srv, r) ==
  IF r.method # "logging/setLevel" THEN Skip
  ELSE IF r.params = "malformed" THEN Answer("InvalidParams", << >>)
  ELSE LogLevel(srv.slots["logging"], r)

HandleRequest(srv, r) ==
  Else(Authenticate(srv, r),
  Else(RateLimit(srv, r),
  Else(Initialize(r),
  Else(Ping(r),
  Else(Discover(r),
  Else(RawHandlers(srv.slots, r),
  Else(Tasks(srv, r),
  Else(ToolsListing(srv, r),
  Else(ToolGet(srv, r),
  Else(ToolCall(srv, r),
  Else(PromptsListing(srv, r),
  Else(PromptGet(srv, r),
  Else(ResourcesListing(srv, r),
  Else(ResourceRead(srv, r),
  Else(TemplatesListing(srv, r),
  Else(Subscription(srv, r),
  Else(Extensions(srv, r),
  Else(SetLevel(srv, r),
       Answer("MethodNotFound", << >>)))))))))))))))))))

---------------------------------------------------------------------------
(* ServerPeer::handle_request repeats the dispatch over its own slots and  *)
(* the server's registries, and hands what is left to the server, which    *)
(* starts over.                                                            *)
PeerHandshake(r) == Else(Initialize(r), Ping(r))
PeerTools(srv, r) == Else(ToolsListing(srv, r), Else(ToolGet(srv, r), ToolCall(srv, r)))
PeerPrompts(srv, r) == Else(PromptsListing(srv, r), PromptGet(srv, r))
PeerResources(srv, r) ==
  Else(ResourcesListing(srv, r), Else(ResourceRead(srv, r), TemplatesListing(srv, r)))

PeerSubscription(srv, r) == Subscribing(srv, r.via, r)

PeerExtensions(p, r) ==
  CASE r.method \in DOMAIN Extension /\ Present(p.slots[Extension[r.method]]) ->
         Run(p.slots[Extension[r.method]], Extension[r.method], r)
    [] r.method = "logging/setLevel" /\ Present(p.slots["logging"]) ->
         IF r.params = "malformed" THEN Answer("InvalidParams", << >>)
         ELSE LogLevel(p.slots["logging"], r)
    [] OTHER -> Skip

\* Variant: the peer's copy runs the handler on anything
PeerTasks_Unchecked(p, r) ==
  IF r.method \notin TaskMethods \/ ~Present(p.slots[r.method]) THEN Skip
  ELSE Run(p.slots[r.method], r.method, r)

PeerTasks(p, r) ==
  IF r.method \notin TaskMethods \/ ~Present(p.slots[r.method]) THEN Skip
  ELSE IF r.params = "malformed" THEN Answer("InvalidParams", << >>)
  ELSE Run(p.slots[r.method], r.method, r)

PeerHandleRequest(srv, p, r) ==
  Else(Authenticate(srv, r),
  Else(PeerHandshake(r),
  Else(RawHandlers(p.slots, r),
  Else(PeerTools(srv, r),
  Else(PeerPrompts(srv, r),
  Else(PeerResources(srv, r),
  Else(PeerSubscription(srv, r),
  Else(PeerExtensions(p, r),
  Else(PeerTasks(p, r),
       HandleRequest(srv, r))))))))))

---------------------------------------------------------------------------
(* Notifications.  The raw observer runs first and its failure ends the    *)
(* dispatch; then at most one handler by method.  Parameters are checked   *)
(* only when there is a handler to receive them.                           *)
Checked == {"progress", "resources/updated"}

Observe(h, r) ==
  CASE ~Present(h) \/ "rawNote" \notin h.over -> Skip
    [] OTHER -> IF r.does = "ok" THEN Pass(<<h.id>>) ELSE Answer(Code[r.does], <<h.id>>)

Deliver(slots, r) ==
  IF r.method \notin NoteMethods \/ ~Present(slots[r.method])
  THEN Answer("ok", << >>)
  ELSE IF r.method \in Checked /\ r.params = "malformed"
  THEN Answer("InvalidParams", << >>)
  ELSE IF r.method \in slots[r.method].over
  THEN Answer(Code[r.does], <<slots[r.method].id>>)
  ELSE Answer("ok", << >>)

HandleNotification(srv, r) == Else(Observe(srv.slots["rawNote"], r), Deliver(srv.slots, r))

\* once a notification setter of the peer was used the server's handlers are
\* not consulted, except for a cancellation
PeerHandleNotification(srv, p, r) ==
  IF p.native
  THEN Else(Observe(p.slots["rawNote"], r), Deliver(p.slots, r))
  ELSE HandleNotification(srv, r)
=============================================================================
