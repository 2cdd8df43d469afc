---------------------------- MODULE ServerSetup ----------------------------
(***************************************************************************)
(* How a server comes to have its handlers, registries and capabilities:   *)
(* ServerBuilder, the setters of Server, handler aggregates (ServerHandler)*)
(* and handler interfaces (ServerHandlerInterface), and the second set of  *)
(* slots a ServerPeer keeps next to the server it owns.                    *)
(*                                                                         *)
(* A handler is [id, over, typed]: the number of the configuration call    *)
(* that installed it, the callbacks it implements, and whether it decodes  *)
(* its parameters before it runs.  A function implements the slot it is    *)
(* put in; the wrappers an interface installs implement whatever the       *)
(* interface overrides and decline the rest.                               *)
(***************************************************************************)
EXTENDS Registry

ListMethods == {"tools/list", "prompts/list", "resources/list",
                "resources/templates/list"}
TaskMethods == {"tasks/list", "tasks/get", "tasks/cancel", "tasks/result"}
NoteMethods == {"roots/list_changed", "progress", "tools/list_changed",
                "prompts/list_changed", "resources/list_changed",
                "resources/updated"}
CallSlots == {"completion", "sampling", "logging", "raw", "rawContext"}
Slots == CallSlots \cup ListMethods \cup TaskMethods \cup NoteMethods
           \cup {"rawNote"}

Handler(n, over, typed) == [id |-> n, over |-> over, typed |-> typed]
NoHandler == Handler(0, {}, FALSE)
Func(n, s) == Handler(n, {s}, FALSE)
Typing(n, s) == Handler(n, {s}, TRUE)
Iface(n, over) == Handler(n, over, FALSE)
Present(h) == h # NoHandler
NoSlots == [s \in Slots |-> NoHandler]

TaskCaps == {"tasks", "tasks.list", "tasks.cancel", "tasks.call"}

---------------------------------------------------------------------------
(* Setters of Server.  Completion and logging advertise themselves; no     *)
(* setter ever withdraws a capability.                                     *)
Advertising(srv, cap, h) ==
  IF Present(h) THEN [srv EXCEPT !.caps = @ \cup {cap}] ELSE srv

\* Variant: the setter forgets to advertise
SetCompletion_Silent(srv, h) == [srv EXCEPT !.slots["completion"] = h]
SetCompletion(srv, h) ==
  [Advertising(srv, "completions", h) EXCEPT !.slots["completion"] = h]
SetSampling(srv, h) == [srv EXCEPT !.slots["sampling"] = h]
SetLogging(srv, h) ==
  [Advertising(srv, "logging", h) EXCEPT !.slots["logging"] = h]
SetOther(srv, s, h) == [srv EXCEPT !.slots[s] = h]

SetSlot(srv, s, h) ==
  CASE s = "completion" -> SetCompletion(srv, h)
    [] s = "sampling" -> SetSampling(srv, h)
    [] s = "logging" -> SetLogging(srv, h)
    [] OTHER -> SetOther(srv, s, h)

UseTaskManager(srv, on) ==
  [srv EXCEPT !.manager = on, !.caps = IF on THEN @ \cup TaskCaps ELSE @]

(* A ServerHandler aggregate sets the slots it has a member for and leaves *)
(* the others alone.  Two slots have a second member, whose function takes *)
(* the context of the request as well.                                     *)
WithRequestContext == [completionContext |-> "completion", samplingContext |-> "sampling"]
SlotsOf(members) ==
  (members \cap Slots)
    \cup {WithRequestContext[m] : m \in members \cap DOMAIN WithRequestContext}

ApplyAggregate(srv, n, members) ==
  LET set == SlotsOf(members)
  IN  [srv EXCEPT !.slots = [s \in Slots |-> IF s \in set THEN Func(n, s) ELSE @[s]],
                  !.caps = @ \cup (IF "completion" \in set THEN {"completions"} ELSE {})
                             \cup (IF "logging" \in set THEN {"logging"} ELSE {})]

(* An interface puts a wrapper in every slot but the plain raw one and the *)
(* list slots, whether or not it overrides the callback behind it.         *)
InterfaceSlots == (CallSlots \ {"raw"}) \cup TaskMethods \cup NoteMethods
                    \cup {"rawNote"}
ApplyInterface(srv, n, over) ==
  [srv EXCEPT !.slots = [s \in Slots |-> IF s \in InterfaceSlots THEN Iface(n, over)
                                         ELSE @[s]],
              !.caps = @ \cup {"completions", "logging"}]

---------------------------------------------------------------------------
(* ServerBuilder.  regs are the registrations build() replays in order     *)
(* after it has installed the individually set handlers.                   *)
NewBuilder == [slots |-> NoSlots, caps |-> {}, manager |-> FALSE,
               limiter |-> FALSE, auth |-> FALSE, validator |-> FALSE,
               regs |-> << >>]

WithCapabilities(b, c) == [b EXCEPT !.caps = c]
WithAuthProvider(b) == [b EXCEPT !.auth = TRUE]
WithRateLimiter(b) == [b EXCEPT !.limiter = TRUE]
WithSchemaValidator(b) == [b EXCEPT !.validator = TRUE]
WithTaskManager(b) == [b EXCEPT !.manager = TRUE, !.caps = @ \cup TaskCaps]

KindCap == [tools |-> "tools", prompts |-> "prompts",
            resources |-> "resources", templates |-> "resources"]

AddEntry(b, kind, e) ==
  [b EXCEPT !.caps = @ \cup {KindCap[kind]},
            !.regs = Append(@, [op |-> "add", kind |-> kind, entry |-> e])]

OnCompletion(b, h) == [b EXCEPT !.slots["completion"] = h]
OnSampling(b, h) == [b EXCEPT !.slots["sampling"] = h]
OnLogging(b, h) ==
  [b EXCEPT !.slots["logging"] = h,
            !.caps = IF Present(h) THEN @ \cup {"logging"} ELSE @ \ {"logging"}]
OnOther(b, s, h) == [b EXCEPT !.slots[s] = h]

OnSlot(b, s, h) ==
  CASE s = "completion" -> OnCompletion(b, h)
    [] s = "sampling" -> OnSampling(b, h)
    [] s = "logging" -> OnLogging(b, h)
    [] OTHER -> OnOther(b, s, h)

WithHandler(b, n, members) ==
  [b EXCEPT !.regs = Append(@, [op |-> "aggregate", n |-> n, members |-> members])]
WithInterface(b, n, over) ==
  [b EXCEPT !.regs = Append(@, [op |-> "interface", n |-> n, members |-> over])]
WithNullInterface(b) ==
  [b EXCEPT !.regs = Append(@, [op |-> "null"])]

(* The App builder and the peer's builder wrap a ServerBuilder.  Their     *)
(* completion() takes a handler of decoded parameters.                     *)
AppCompletion(b, n) == OnCompletion(b, Typing(n, "completion"))
AppSampling(b, n) == OnSampling(b, Func(n, "sampling"))
AppLogging(b, n) == OnLogging(b, Func(n, "logging"))
AppRawRequest(b, n) == OnOther(b, "raw", Func(n, "raw"))
AppSlots == {"completion", "sampling", "logging", "raw"}
AppOnSlot(b, s, n) ==
  CASE s = "completion" -> AppCompletion(b, n)
    [] s = "sampling" -> AppSampling(b, n)
    [] s = "logging" -> AppLogging(b, n)
    [] s = "raw" -> AppRawRequest(b, n)
AppAddEntry(b, kind, e) == AddEntry(b, kind, e)

PeerCompletion(b, n) == OnCompletion(b, Typing(n, "completion"))
PeerBuilderOnSlot(b, s, h) == OnSlot(b, s, h)
PeerBuilderWithHandler(b, n, members) == WithHandler(b, n, members)
PeerBuilderAddEntry(b, kind, e) == AddEntry(b, kind, e)

(* build(): options first, then the handlers, then the registrations; the  *)
(* first registration that fails fails the build.                          *)
Fresh(b) ==
  [slots |-> b.slots,
   caps |-> b.caps \cup (IF b.manager THEN TaskCaps ELSE {})
                   \cup (IF Present(b.slots["completion"]) THEN {"completions"} ELSE {})
                   \cup (IF Present(b.slots["logging"]) THEN {"logging"} ELSE {}),
   manager |-> b.manager, limiter |-> b.limiter, auth |-> b.auth,
   validator |-> b.validator, subscriptions |-> {},
   regs |-> [k \in Kinds |-> EmptyRegistry]]

\* Variant: the result of an addition is not looked at
Replay_Careless(srv, reg) ==
  CASE reg.op = "add" ->
         [ok |-> TRUE, srv |-> [srv EXCEPT !.regs[reg.kind] = Add(reg.kind, @, reg.entry).reg]]
    [] reg.op = "aggregate" ->
         [ok |-> TRUE, srv |-> ApplyAggregate(srv, reg.n, reg.members)]
    [] reg.op = "interface" ->
         [ok |-> TRUE, srv |-> ApplyInterface(srv, reg.n, reg.members)]
    [] reg.op = "null" -> [ok |-> FALSE, srv |-> srv]
Replay(srv, reg) ==
  CASE reg.op = "add" ->
         LET added == Add(reg.kind, srv.regs[reg.kind], reg.entry)
         IN  [ok |-> added.ok, srv |-> [srv EXCEPT !.regs[reg.kind] = added.reg]]
    [] reg.op = "aggregate" ->
         [ok |-> TRUE, srv |-> ApplyAggregate(srv, reg.n, reg.members)]
    [] reg.op = "interface" ->
         [ok |-> TRUE, srv |-> ApplyInterface(srv, reg.n, reg.members)]
    [] reg.op = "null" -> [ok |-> FALSE, srv |-> srv]

Build(b) ==
  LET done[i \in 0..Len(b.regs)] ==
        IF i = 0 THEN [ok |-> TRUE, srv |-> Fresh(b)]
        ELSE IF ~done[i - 1].ok THEN done[i - 1]
        ELSE Replay(done[i - 1].srv, b.regs[i])
  IN  done[Len(b.regs)]

---------------------------------------------------------------------------
(* The slots a ServerPeer keeps itself.  Its setters write both its own    *)
(* slot and the server's; the list handlers only the server's.  "native"   *)
(* records that a notification setter was used.                            *)
PeerOwn == CallSlots \cup TaskMethods \cup NoteMethods \cup {"rawNote"}
NoPeer == [slots |-> [s \in PeerOwn |-> NoHandler], native |-> FALSE]

BuildPeer(srv) ==
  [NoPeer EXCEPT !.slots["raw"] = srv.slots["raw"],
                 !.slots["rawContext"] = srv.slots["rawContext"]]

\* Variant: clearing a handler clears only the server's slot
PeerSet_KeepsCleared(p, s, h) ==
  IF s \in ListMethods \/ ~Present(h) THEN p
  ELSE [p EXCEPT !.slots[s] = h,
                 !.native = @ \/ s \in NoteMethods \cup {"rawNote"}]

PeerSet(p, s, h) ==
  IF s \in ListMethods THEN p
  ELSE [p EXCEPT !.slots[s] = h,
                 !.native = @ \/ s \in NoteMethods \cup {"rawNote"}]

(* set_handler of the peer sets what it installs on the server too.  It    *)
(* does not look at the members that take the context of the request.      *)
PeerMembers(members) == members \cap Slots
PeerAggregate(p, n, members) ==
  [slots |-> [s \in PeerOwn |-> IF s \in PeerMembers(members) THEN Func(n, s)
                                ELSE p.slots[s]],
   native |-> p.native \/ members \cap (NoteMethods \cup {"rawNote"}) # {}]

PeerInterface(p, n, over) == [p EXCEPT !.slots["rawContext"] = Iface(n, over)]
=============================================================================
