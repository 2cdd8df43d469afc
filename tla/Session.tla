------------------------------- MODULE Session -------------------------------
(***************************************************************************)
(* A server put together call by call and a client talking to it: the      *)
(* builder's calls, build(), the setters of the running Server or of the   *)
(* ServerPeer around it, late additions to its registries, the client's    *)
(* hooks and the handshake that tells each side the other's capabilities.  *)
(* What a request or a notification does in a state is an operator of      *)
(* ServerDispatch or ClientApi; the properties ask it of every request in  *)
(* every state the configuration can reach.                                *)
(*                                                                         *)
(* A behaviour configures one topic, the group of slots and methods its    *)
(* calls are about; the slots of different topics do not interact.         *)
(***************************************************************************)
EXTENDS ClientApi

CONSTANTS Topics,       \* topics to configure, a subset of AllTopics
          MaxCalls,     \* configuration calls in a behaviour
          Negotiated    \* topics whose calls depend on capabilities

AllTopics == {"completion", "tasks", "raw", "notes", "tools", "prompts",
              "resources", "reverse"}

VARIABLES topic,        \* never changes
          target,       \* what is built: "server", "peer" or "app"; never changes
                        \* (a peer's client is a client peer)
          layer,        \* "building", "server", "peer" or "failed"
          builder,      \* ServerBuilder
          router,       \* routes collected for the builder, and whether the
                        \* last router operation called the change observer
          srv,          \* Server
          peer,         \* the slots of the ServerPeer around it
          cli,          \* the client
          seen,         \* client capabilities the session recorded
          calls         \* the configuration calls made, in order

vars == <<topic, target, layer, builder, router, srv, peer, cli, seen, calls>>

TopicSlots ==
  [completion |-> {"completion", "logging", "sampling"},
   tasks |-> {"tasks/list", "tasks/get"},
   raw |-> {"raw", "rawContext", "completion"},
   notes |-> {"progress", "resources/updated", "rawNote"},
   tools |-> {"tools/list"}, prompts |-> {"prompts/list"},
   resources |-> {"resources/templates/list"},
   reverse |-> {}]

MySlots == TopicSlots[topic]
MyMembers == MySlots \cup {m \in DOMAIN WithRequestContext : WithRequestContext[m] \in MySlots}
Aggregates == IF MySlots = {} THEN {} ELSE {MyMembers} \cup {{m} : m \in MyMembers}
Overrides == IF topic = "reverse" THEN {} ELSE
  {{}, MySlots} \cup (IF topic = "raw" THEN {{"custom"}} ELSE {})
                \cup (IF topic = "tools" THEN {{"tools/call"}} ELSE {})
MyKinds == CASE topic = "resources" -> {"resources", "templates"}
             [] topic \in {"tools", "prompts"} -> {topic}
             [] OTHER -> {}

NoRoutes == [kind \in Kinds |-> << >>]
Id == Len(calls) + 1
Record(at, op, members) ==
  calls' = Append(calls, [at |-> at, op |-> op, members |-> members])
Configuring == Len(calls) < MaxCalls

---------------------------------------------------------------------------
Init ==
  /\ topic \in Topics
  /\ target \in IF topic = "reverse" THEN {"server", "peer"} ELSE {"server", "peer", "app"}
  /\ layer = "building"
  /\ builder = NewBuilder
  /\ router = [routes |-> NoRoutes, told |-> FALSE]
  /\ srv = Fresh(NewBuilder)
  /\ peer = NoPeer
  /\ cli = NewClient
  /\ seen = Unknown
  /\ calls = << >>

(* --- the builder --- *)
Building == layer = "building" /\ Configuring
OnlyBuilder(b) == builder' = b /\ UNCHANGED <<topic, target, layer, router, srv, peer, cli, seen>>

BuilderSet(s) ==
  /\ Building
  /\ target = "app" => s \in AppSlots
  /\ OnlyBuilder(CASE target = "app" -> AppOnSlot(builder, s, Id)
                   [] target = "peer" -> PeerBuilderOnSlot(builder, s, Func(Id, s))
                   [] target = "server" -> OnSlot(builder, s, Func(Id, s)))
  /\ Record("builder", "set", {s})
BuilderTyped ==
  /\ Building /\ topic = "completion" /\ target = "peer"
  /\ OnlyBuilder(PeerCompletion(builder, Id))
  /\ Record("builder", "set", {"completion"})
BuilderClear(s) ==
  /\ Building /\ target # "app" /\ OnlyBuilder(OnSlot(builder, s, NoHandler))
  /\ Record("builder", "clear", {s})
BuilderHandler(members) ==
  /\ Building /\ target # "app"
  /\ OnlyBuilder(IF target = "peer" THEN PeerBuilderWithHandler(builder, Id, members)
                 ELSE WithHandler(builder, Id, members))
  /\ Record("builder", "aggregate", members)
BuilderInterface(over) ==
  /\ Building /\ target # "app" /\ OnlyBuilder(WithInterface(builder, Id, over))
  /\ Record("builder", "interface", over)
BuilderNull ==
  /\ Building /\ topic = "raw" /\ target = "server" /\ OnlyBuilder(WithNullInterface(builder))
  /\ Record("builder", "null", {})
BuilderCaps(c) ==
  /\ Building /\ target # "app" /\ OnlyBuilder(WithCapabilities(builder, c))
  /\ Record("builder", "capabilities", c)
BuilderOption(o) ==
  /\ Building
  /\ target = "app" => o \in {"manager", "validator"}
  /\ OnlyBuilder(CASE o = "manager" -> WithTaskManager(builder)
                   [] o = "limiter" -> WithRateLimiter(builder)
                   [] o = "auth" -> WithAuthProvider(builder)
                   [] o = "validator" -> WithSchemaValidator(builder))
  /\ Record("builder", "option", {o})
BuilderAdd(kind, e) ==
  /\ Building
  /\ OnlyBuilder(CASE target = "app" -> AppAddEntry(builder, kind, e)
                   [] target = "peer" -> PeerBuilderAddEntry(builder, kind, e)
                   [] target = "server" -> AddEntry(builder, kind, e))
  /\ Record("builder", "add", {e.key})

(* --- routers, filled and then applied to the builder --- *)
RouterOperates(kind, op, e) ==
  /\ Building /\ target # "app"
  /\ LET new == Routed(kind, router.routes[kind], op, e)
     IN  router' = [routes |-> [router.routes EXCEPT ![kind] = new.routes],
                    told |-> new.told]
  /\ Record("router", op, {e.key})
  /\ UNCHANGED <<topic, target, layer, builder, srv, peer, cli, seen>>
RouterApplies(kind) ==
  /\ layer = "building" /\ router.routes[kind] # << >>
  /\ builder' = LET es == Applied(router.routes[kind])
                    to[i \in 0..Len(es)] ==
                      IF i = 0 THEN builder ELSE AddEntry(to[i - 1], kind, es[i])
                IN  to[Len(es)]
  /\ router' = [routes |-> [router.routes EXCEPT ![kind] = << >>], told |-> TRUE]
  /\ UNCHANGED <<topic, target, layer, srv, peer, cli, seen, calls>>

Builds ==
  /\ layer = "building" /\ router.routes = NoRoutes
  /\ LET built == Build(builder)
     IN  /\ layer' = IF ~built.ok THEN "failed" ELSE IF target = "peer" THEN "peer" ELSE "server"
         /\ srv' = built.srv
         /\ peer' = IF target = "peer" THEN BuildPeer(built.srv) ELSE NoPeer
  /\ UNCHANGED <<topic, target, builder, router, cli, seen, calls>>

(* --- the running server --- *)
OnlyServer(new) == srv' = new /\ UNCHANGED <<topic, target, layer, builder, router, peer, cli, seen>>
ServerSet(s) ==
  /\ layer = "server" /\ Configuring /\ OnlyServer(SetSlot(srv, s, Func(Id, s)))
  /\ Record("server", "set", {s})
ServerClear(s) ==
  /\ layer = "server" /\ Configuring /\ OnlyServer(SetSlot(srv, s, NoHandler))
  /\ Record("server", "clear", {s})
ServerHandler(members) ==
  /\ layer = "server" /\ Configuring
  /\ OnlyServer(ApplyAggregate(srv, Id, members))
  /\ Record("server", "aggregate", members)
ServerInterface(over) ==
  /\ layer = "server" /\ Configuring /\ OnlyServer(ApplyInterface(srv, Id, over))
  /\ Record("server", "interface", over)
ServerTaskManager(on) ==
  /\ layer = "server" /\ Configuring /\ topic = "tasks"
  /\ OnlyServer(UseTaskManager(srv, on))
  /\ Record("server", IF on THEN "manager" ELSE "noManager", {})

(* --- the server peer: every setter writes its own slot and the server's --- *)
PeerSets(s, h) ==
  /\ layer = "peer" /\ Configuring
  /\ srv' = SetSlot(srv, s, h)
  /\ peer' = PeerSet(peer, s, h)
  /\ UNCHANGED <<topic, target, layer, builder, router, cli, seen>>
PeerSetter(s) == PeerSets(s, Func(Id, s)) /\ Record("peer", "set", {s})
PeerClear(s) == PeerSets(s, NoHandler) /\ Record("peer", "clear", {s})
PeerHandler(members) ==
  /\ layer = "peer" /\ Configuring
  /\ srv' = ApplyAggregate(srv, Id, PeerMembers(members))
  /\ peer' = PeerAggregate(peer, Id, members)
  /\ Record("peer", "aggregate", members)
  /\ UNCHANGED <<topic, target, layer, builder, router, cli, seen>>
PeerSetInterface(over) ==
  /\ layer = "peer" /\ Configuring
  /\ srv' = ApplyInterface(srv, Id, over)
  /\ peer' = PeerInterface(peer, Id, over)
  /\ Record("peer", "interface", over)
  /\ UNCHANGED <<topic, target, layer, builder, router, cli, seen>>

(* --- the registries of a running server --- *)
RegistryAdd(kind, e) ==
  /\ layer \in {"server", "peer"} /\ Configuring
  /\ OnlyServer([srv EXCEPT !.regs[kind] = Add(kind, @, e).reg])
  /\ Record("registry", IF Add(kind, srv.regs[kind], e).ok THEN "add" ELSE "refused",
            {e.key})
RegistryList(kind) ==
  /\ layer \in {"server", "peer"} /\ srv.regs[kind].dirty
  /\ OnlyServer([srv EXCEPT !.regs[kind] = Refreshed(@)])
  /\ UNCHANGED calls

(* --- requests: of what they change, the server keeps the subscriptions --- *)
Plain == [method |-> "ping", params |-> "good", key |-> "none", task |-> FALSE,
          submit |-> "ok", modern |-> FALSE, known |-> TRUE, allowed |-> TRUE,
          via |-> "context", raw |-> "pass", does |-> "ok"]
Entry1 == CHOOSE k \in Valid : TRUE
Request(m) == [Plain EXCEPT !.method = m]
Respond(r) == IF layer = "peer" THEN PeerHandleRequest(srv, peer, r)
              ELSE HandleRequest(srv, r)

\* bound: one transport subscribes
Subscribes(m) ==
  /\ layer \in {"server", "peer"} /\ topic = "resources" /\ "subscribe" \in srv.caps
  /\ \E new \in Respond([Request(m) EXCEPT !.key = Entry1,
                  !.via = IF layer = "peer" THEN "native" ELSE "context"]).subscribes :
       OnlyServer([srv EXCEPT !.subscriptions = new])
  /\ UNCHANGED calls

(* --- the client, or the client peer --- *)
OnlyClient(new) == cli' = new /\ UNCHANGED <<topic, target, layer, builder, router, srv, peer, seen>>
Listening == topic = "reverse" /\ Configuring
ClientBuilt(members, k) ==
  /\ Listening /\ calls = << >> /\ target = "peer"
  /\ OnlyClient(BuildClient(members, 2, [NoHooks EXCEPT ![k] = Func(1, k[1])]))
  /\ calls' = <<[at |-> "clientBuilder", op |-> "set", members |-> {k}],
                [at |-> "clientBuilder", op |-> "aggregate", members |-> members]>>
ClientSet(k) ==
  /\ Listening
  /\ OnlyClient(IF target = "peer" THEN PeerOnHook(cli, k, Func(Id, k[1]))
                ELSE OnHook(cli, k, Func(Id, k[1])))
  /\ Record("client", "set", {k})
ClientHandler(members) ==
  /\ Listening
  /\ OnlyClient(IF target = "peer" THEN PeerClientAggregate(cli, Id, members)
                ELSE ClientAggregate(cli, Id, members))
  /\ Record("client", "aggregate", members)
ClientSetInterface(over) ==
  /\ Listening
  /\ OnlyClient(IF target = "peer" THEN PeerClientInterface(cli, Id, over)
                ELSE ClientInterface(cli, Id, over))
  /\ Record("client", "interface", {k \in Hooks : k[2] = "aware" \/ k[1] \in ClientNotes})
ClientSetCaps(c) ==
  /\ Listening /\ OnlyClient([cli EXCEPT !.caps = c])
  /\ Record("client", "capabilities", {})

\* the initialize exchange: each side records what the other one declares
Handshake ==
  /\ layer \in {"server", "peer"} /\ topic \in Negotiated
  /\ cli' = [cli EXCEPT !.known = RecordCapabilities(@, srv.caps, TRUE)]
  /\ seen' = Effective(cli.caps)
  /\ UNCHANGED <<topic, target, layer, builder, router, srv, peer, calls>>

---------------------------------------------------------------------------
HandCaps == [completion |-> {{"completions"}, {}}, tasks |-> {{"tasks", "tasks.list"}, {}},
             raw |-> {{}}, notes |-> {}, tools |-> {}, prompts |-> {},
             resources |-> {{"resources", "subscribe"}}, reverse |-> {}]
Options == [completion |-> {"limiter"}, tasks |-> {"manager", "auth"}, raw |-> {"limiter"},
            notes |-> {}, tools |-> {"validator", "manager", "limiter"}, prompts |-> {"auth"},
            resources |-> {}, reverse |-> {}]
TypedTools(k, s) == CASE target = "app" -> {AppTool(k, s)}
                      [] target = "peer" -> {PeerTool(k, s), RegisteredTool(k, s)}
                      [] OTHER -> {}
TypedOthers(k) == CASE target = "app" -> {AppPrompt(k), AppResource(k)}
                    [] target = "peer" -> {PeerPrompt(k), PeerResource(k)}
                    [] OTHER -> {}
ToolEntries == UNION {TypedTools(k, s) : k \in Valid, s \in {"forbidden", "required"}}
                 \cup {Entry(k, "optional", h, FALSE) : k \in Valid, h \in BOOLEAN}
                 \cup {Entry(k, "optional", TRUE, FALSE) : k \in Invalid}
Offered(kind) ==
  CASE kind = "tools" -> ToolEntries
    [] kind = "prompts" -> {Entry(k, "optional", h, FALSE) : k \in Keys, h \in BOOLEAN}
                             \cup UNION {TypedOthers(k) : k \in Valid}
    [] kind = "resources" -> {Entry(k, "optional", TRUE, FALSE) : k \in Invalid}
                               \cup UNION {TypedOthers(k) : k \in Valid}
    [] kind = "templates" -> {Entry(k, "optional", TRUE, FALSE) : k \in Valid}
ClientTopics == {"roots/list", "sampling/createMessage", "elicitation/create", "message",
                 "rawNote"}
ClientHooks == {k \in Hooks : k[1] \in ClientTopics}
ClientOverrides == {{}, {"sampling/createMessage"}, {"roots/list", "message"}}

BuilderNext ==
  \/ \E s \in MySlots : BuilderSet(s) \/ BuilderClear(s)
  \/ BuilderTyped
  \/ \E members \in Aggregates : BuilderHandler(members)
  \/ \E over \in Overrides : BuilderInterface(over)
  \/ BuilderNull
  \/ \E c \in HandCaps[topic] : BuilderCaps(c)
  \/ \E o \in Options[topic] : BuilderOption(o)
  \/ \E kind \in MyKinds : \E e \in Offered(kind) : BuilderAdd(kind, e)
  \/ \E kind \in MyKinds, op \in RouterOps, k \in Valid :
       RouterOperates(kind, op, RouterTool(k, "optional"))
  \/ \E kind \in MyKinds : RouterApplies(kind)
  \/ Builds

ServerNext ==
  \/ \E s \in MySlots : ServerSet(s) \/ ServerClear(s)
  \/ \E members \in Aggregates : ServerHandler(members)
  \/ \E over \in Overrides : ServerInterface(over)
  \/ \E on \in BOOLEAN : ServerTaskManager(on)
  \/ \E kind \in MyKinds : \E e \in Offered(kind) : RegistryAdd(kind, e)
  \/ \E kind \in MyKinds : RegistryList(kind)
  \/ \E m \in SubscriptionMethods : Subscribes(m)

PeerNext ==
  \/ \E s \in MySlots : PeerSetter(s) \/ PeerClear(s)
  \/ \E members \in Aggregates : PeerHandler(members)
  \/ \E over \in Overrides : PeerSetInterface(over)

ClientNext ==
  \/ \E k \in ClientHooks : ClientBuilt(ClientHooks, k)
  \/ \E k \in ClientHooks : ClientSet(k)
  \/ ClientHandler(ClientHooks)
  \/ \E over \in ClientOverrides : ClientSetInterface(over)
  \/ \E c \in {{}, {"sampling"}} : ClientSetCaps(c)

Next == BuilderNext \/ ServerNext \/ PeerNext \/ ClientNext \/ Handshake

Spec == Init /\ [][Next]_vars

---------------------------------------------------------------------------
(* Requests the properties ask about.                                      *)
MethodOf(slot) == CASE slot = "completion" -> "completion/complete"
                    [] slot = "sampling" -> "sampling/createMessage"
                    [] slot = "logging" -> "logging/setLevel"
                    [] OTHER -> slot
Running == layer \in {"server", "peer"}
Hear(r) == IF layer = "peer" THEN PeerHandleNotification(srv, peer, r)
           ELSE HandleNotification(srv, r)

(* Which configuration call a slot should obey: handlers set one by one on *)
(* the builder come first, then the aggregates and interfaces given to it, *)
(* then what was set on the built server or peer; the latest wins.         *)
Touches(c, slot) == \/ c.op \in {"set", "clear", "aggregate"} /\ slot \in SlotsOf(c.members)
                    \/ c.op = "interface" /\ slot \in InterfaceSlots
Stage(c) == CASE c.at = "builder" /\ c.op \in {"set", "clear"} -> 1
              [] c.at = "builder" /\ c.op \notin {"set", "clear"} -> 2
              [] OTHER -> 3
Touching(slot) == {i \in 1..Len(calls) : Touches(calls[i], slot)}
Later(i, j) == \/ Stage(calls[i]) < Stage(calls[j])
               \/ Stage(calls[i]) = Stage(calls[j]) /\ i < j
Newest(slot) == {i \in Touching(slot) : \A j \in Touching(slot) : j = i \/ Later(j, i)}
Observers == {"raw", "rawContext", "rawNote"}
RawIds == {srv.slots[s].id : s \in Observers} \cup {peer.slots[s].id : s \in Observers}
CallsBy(at, op) == {i \in 1..Len(calls) : calls[i].at = at /\ calls[i].op = op}

(* The handler that answers a method is the one the newest configuration   *)
(* call for its slot installed, on a Server and on a ServerPeer alike, and *)
(* nobody answers in its place.  Four cases are set apart: an interface    *)
(* given to a running peer does not displace a handler in a slot of the    *)
(* peer's own (peer.hpp 3299-3313), a peer that was given a notification   *)
(* setter no longer hears with the server's handlers (peer.hpp 4227-4311), *)
(* an aggregate given to a running peer loses the members that take the    *)
(* context of the request (peer.hpp 3226-3297), and an interface that      *)
(* implements a listing is asked before any list handler (server.cpp       *)
(* 651-664).                                                               *)
NewestHandlerRuns ==
  Running => \A slot \in MySlots \ Observers :
    \A i \in Newest(slot) :
      LET out == IF slot \in NoteMethods THEN Hear(Request(slot))
                 ELSE Respond(Request(MethodOf(slot)))
          c == calls[i]
          toPeer(op) == c.at = "peer" /\ c.op = op
          kept == \/ toPeer("interface") /\ slot \in PeerOwn /\ Present(peer.slots[slot])
                  \/ slot \in NoteMethods /\ peer.native
                       /\ (c.at = "builder" \/ toPeer("interface"))
                  \/ toPeer("aggregate") /\ slot \notin c.members
                  \/ slot \in ListMethods /\ \E j \in 1..Len(calls) :
                       calls[j].op = "interface" /\ slot \in calls[j].members
          served == c.op \in {"set", "aggregate"} \/ (c.op = "interface" /\ slot \in c.members)
      IN  ~kept => IF served THEN out.ran # << >> /\ out.ran[Len(out.ran)] = i
                   ELSE \A k \in 1..Len(out.ran) : out.ran[k] \in RawIds

(* Capabilities tell the truth.  One the server declares in initialize     *)
(* stands for a method it answers: MethodNotFound follows only after the   *)
(* program itself withdrew the handler or the processor, wrote the         *)
(* capabilities by hand, or installed an interface that does not implement *)
(* the method.  Conversely a typed call of a client that knows the         *)
(* capabilities as they are refuses locally only what would have run no    *)
(* handler but a raw observer; task handlers installed without a task      *)
(* processor are set apart, they are never advertised.                     *)
Promised == [completions |-> "completion", logging |-> "logging", tasks |-> "tasks/get"]
AdvertisedIsServed ==
  \A cap \in DOMAIN Promised \cap srv.caps :
    LET slot == Promised[cap]
    IN  (Respond(Request(MethodOf(slot))).code = "MethodNotFound") =>
          \E i \in 1..Len(calls) :
            \/ calls[i].op \in {"clear", "noManager"}
            \/ calls[i].op = "capabilities" /\ cap \in calls[i].members
            \/ calls[i].op = "interface" /\ slot \notin calls[i].members
Refused(call) ==
  \/ call \in ClientCalls \cup ClientAsyncCalls /\ ~GateOpen(cli.known, call)
  \/ call \in PeerCalls \cup PeerAsyncCalls /\ ~PeerGateOpen(cli.known, call)
RefusedIsUnserved ==
  \A call \in TypedCalls :
    LET r == [Request(call.method) EXCEPT !.task = (call.gate = "tasks.call"),
                                          !.key = Entry1]
        ran == Respond(r).ran
    IN  Refused(call) /\ (call.method \in TaskMethods => srv.manager)
          => \A k \in 1..Len(ran) : ran[k] \in RawIds
CapabilitiesTell ==
  Running => AdvertisedIsServed /\ (cli.known = srv.caps => RefusedIsUnserved)

(* ServerPeer::handle_request is a second copy of the server's dispatch.   *)
(* A request the rate limiter lets through gets the same code from both,   *)
(* the same handler runs last and the same subscriptions result.  Set      *)
(* apart: an interface given to the running peer (see above), requests     *)
(* over a transport only the peer knows, and server/discover, which a raw  *)
(* handler sees only on the peer.                                          *)
ListedMethods ==
  {MethodOf(slot) : slot \in MySlots \ (NoteMethods \cup {"rawNote"})}
    \cup (CASE topic = "tools" -> {"tools/get"}
            [] topic = "prompts" -> {"prompts/get"}
            [] topic = "resources" -> {"resources/list", "resources/read"}
            [] OTHER -> {})
Asks ==
  {[Request(m) EXCEPT !.params = p, !.raw = w, !.does = d, !.key = Entry1] :
     m \in ListedMethods, p \in {"good", "malformed"},
     w \in IF topic = "raw" THEN {"answer", "pass", "throw"} ELSE {"pass"},
     d \in {"ok", "throw"}}
  \cup
  {[Request("tools/call") EXCEPT !.params = p, !.does = d, !.key = k] :
     p \in {"good", "malformed", "offSchema"}, d \in {"ok", "throw", "misfit"},
     k \in IF topic = "tools" THEN Keys ELSE {}}
  \cup
  {[Request(m) EXCEPT !.params = p, !.via = v, !.key = Entry1] :
     m \in IF topic = "resources" THEN SubscriptionMethods ELSE {},
     p \in {"good", "malformed"}, v \in {"context", "none"}}
  \cup
  {[Request("tools/call") EXCEPT !.params = p, !.task = TRUE, !.submit = u, !.key = k] :
     p \in {"good", "malformed"}, u \in {"ok", "InvalidRequest", "ExecutorError"},
     k \in IF topic = "tools" THEN Keys ELSE {}}
Final(out) == [code |-> out.code, subscribes |-> out.subscribes,
               by |-> IF out.ran = << >> THEN 0 ELSE out.ran[Len(out.ran)]]
EntriesAgree ==
  layer = "peer" /\ CallsBy("peer", "interface") = {} =>
    \A r \in Asks : Final(PeerHandleRequest(srv, peer, r)) = Final(HandleRequest(srv, r))

(* Nothing that was registered is missing from a list: a list never comes  *)
(* from a cache older than the last insertion, and a build that succeeds   *)
(* registered every entry given to the builder, by itself or through a     *)
(* router; a clash is an error, never a silent loss.                       *)
ListComplete ==
  /\ \A kind \in Kinds : ~srv.regs[kind].dirty =>
                            srv.regs[kind].cache = Registered(srv.regs[kind])
  /\ Running => \A i \in 1..Len(builder.regs) :
       builder.regs[i].op = "add" =>
         builder.regs[i].entry \in srv.regs[builder.regs[i].kind].entries

(* What the server sends reaches the hook the client installed last.  A    *)
(* call that passes the capability gate is answered by the newest          *)
(* cancellation-aware hook, or without one by the newest plain one, and    *)
(* the gate is open for every hook of a client that left its capabilities  *)
(* alone; without hook only sampling fails.  A notification is heard by    *)
(* the newest hook for it and then by the raw observer.  Handlers given to *)
(* a client builder one by one win over its aggregate, whatever the order. *)
(* An interface that does not implement a callback silences older hooks.   *)
Hooked(k) == {i \in 1..Len(calls) : /\ calls[i].at \in {"client", "clientBuilder"}
                                    /\ k \in calls[i].members}
Overrules(i, j) ==
  IF calls[i].at = "clientBuilder" /\ calls[j].at = "clientBuilder" THEN i < j ELSE i > j
LastHook(k) == {i \in Hooked(k) : \A j \in Hooked(k) \ {i} : Overrules(i, j)}
ServerAsks(call) ==
  LET r == [method |-> call.method, params |-> "good", form |-> call.gate = "form",
            does |-> "ok"]
  IN  IF ~ClientPeerOpen(seen, call) THEN Answer(ClientPeerRefusal(call), << >>)
      ELSE IF target = "peer" THEN PeerClientHandleRequest(cli, r)
      ELSE ClientHandleRequest(cli, r)
ServerTells(m) ==
  LET r == [method |-> m, params |-> "good", does |-> "ok"]
  IN  IF target = "peer" THEN PeerClientHandleNotification(cli, r)
      ELSE ClientHandleNotification(cli, r)
Served(i, out) == \/ \E n \in 1..Len(out.ran) : out.ran[n] = i
                  \/ calls[i].op = "interface"
Reaches(call) ==
  LET aware == LastHook(<<call.method, "aware">>)
      plain == LastHook(<<call.method, "plain">>)
      due == IF aware # {} THEN aware ELSE plain
      out == ServerAsks(call)
  IN  IF due = {} THEN out.code = "MethodNotFound" => call.method = "sampling/createMessage"
      ELSE \A i \in due : Served(i, out) /\ Len(out.ran) <= 1
ReverseCallServed ==
  topic = "reverse" =>
    /\ \A call \in Askings :
         ClientPeerOpen(seen, call)
           \/ (cli.caps = Unknown /\ seen # Unknown /\ call.method \in Asked) => Reaches(call)
    /\ \A i \in LastHook(<<"message", "plain">>) \cup LastHook(<<"rawNote", "plain">>) :
         Served(i, ServerTells("message"))
=============================================================================
