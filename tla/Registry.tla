------------------------------ MODULE Registry ------------------------------
(***************************************************************************)
(* The four registries of a server (tools, prompts, resources, resource    *)
(* templates) and the routers that collect routes for them.  A registry    *)
(* is a set of entries keyed by name or URI; every operation of the code   *)
(* holds the registry's mutex, so each is one operator here.  What a list  *)
(* returns comes from a cached, sorted vector that an insertion marks      *)
(* dirty and the next list rebuilds.                                       *)
(*                                                                         *)
(* An entry is [key, support, handler, typed]: the name (or URI), a tool's *)
(* task support, whether the handler given with it was callable, and       *)
(* whether it was wrapped to decode its arguments first.  A key outside    *)
(* Valid fails the name or URI check.                                      *)
(***************************************************************************)
EXTENDS Naturals, FiniteSets, Sequences

CONSTANTS Valid,        \* keys that pass the name / URI checks
          Invalid       \* keys that do not

Keys == Valid \cup Invalid
Supports == {"forbidden", "optional", "required"}
Entry(k, s, h, t) == [key |-> k, support |-> s, handler |-> h, typed |-> t]
Entries == [key : Keys, support : Supports, handler : BOOLEAN, typed : BOOLEAN]
Kinds == {"tools", "prompts", "resources", "templates"}

EmptyRegistry == [entries |-> {}, cache |-> {}, dirty |-> TRUE]

Registered(reg) == {e.key : e \in reg.entries}
EntryOf(reg, k) == CHOOSE e \in reg.entries : e.key = k

(***************************************************************************)
(* add: an invalid key, an empty handler or a duplicate is refused and     *)
(* leaves the registry as it is.  A template has no handler.               *)
(***************************************************************************)
ValidName(k) == k \in Valid
ValidUri(k) == k \in Valid

Inserted(reg, e) ==
  [reg EXCEPT !.entries = @ \cup {e}, !.dirty = TRUE]

AddTool(reg, e) ==
  IF ~ValidName(e.key) \/ ~e.handler \/ e.key \in Registered(reg)
  THEN [ok |-> FALSE, reg |-> reg]
  ELSE [ok |-> TRUE, reg |-> Inserted(reg, e)]

AddPrompt(reg, e) ==
  IF ~ValidName(e.key) \/ ~e.handler \/ e.key \in Registered(reg)
  THEN [ok |-> FALSE, reg |-> reg]
  ELSE [ok |-> TRUE, reg |-> Inserted(reg, e)]

AddResource(reg, e) ==
  IF ~ValidUri(e.key) \/ ~e.handler \/ e.key \in Registered(reg)
  THEN [ok |-> FALSE, reg |-> reg]
  ELSE [ok |-> TRUE, reg |-> Inserted(reg, e)]

AddTemplate(reg, e) ==
  IF ~ValidUri(e.key) \/ e.key \in Registered(reg)
  THEN [ok |-> FALSE, reg |-> reg]
  ELSE [ok |-> TRUE, reg |-> Inserted(reg, e)]

Add(kind, reg, e) ==
  CASE kind = "tools" -> AddTool(reg, e)
    [] kind = "prompts" -> AddPrompt(reg, e)
    [] kind = "resources" -> AddResource(reg, e)
    [] kind = "templates" -> AddTemplate(reg, e)

(***************************************************************************)
(* list: the cache, rebuilt first when an insertion made it dirty.         *)
(***************************************************************************)
Refreshed(reg) ==
  IF reg.dirty THEN [reg EXCEPT !.cache = Registered(reg), !.dirty = FALSE]
  ELSE reg

(***************************************************************************)
(* Looking an entry up and the checks of ToolRegistry::call and ::validate *)
(* in their order.  "given" says whether the call asks for a task,         *)
(* "fits" whether the arguments satisfy the input schema and               *)
(* "validating" whether a schema validator is configured.                  *)
(***************************************************************************)
NotFound == [tools |-> "ToolNotFound", prompts |-> "InvalidRequest",
             resources |-> "ResourceNotFound"]

TaskSupportFault(e, given) ==
  \/ e.support = "forbidden" /\ given
  \/ e.support = "required" /\ ~given

InputFault(fits, validating) == validating /\ ~fits
OutputFault(ok, fits, validating) == validating /\ ok /\ ~fits

ValidateCall(reg, k, given, fits, validating) ==
  IF k \notin Registered(reg) THEN "ToolNotFound"
  ELSE IF TaskSupportFault(EntryOf(reg, k), given) THEN "InvalidRequest"
  ELSE IF InputFault(fits, validating) THEN "InvalidParams"
  ELSE "ok"

(***************************************************************************)
(* Typed registrations wrap the user's handler: the arguments are decoded  *)
(* first, and an exception of the decoder or of the handler is reported as *)
(* bad parameters.  The App builder, the peer's builder and the tool       *)
(* router each have their own copy.                                        *)
(***************************************************************************)
AppTool(k, s) == Entry(k, s, TRUE, TRUE)
AppPrompt(k) == Entry(k, "optional", TRUE, TRUE)
AppResource(k) == Entry(k, "optional", TRUE, TRUE)
PeerTool(k, s) == Entry(k, s, TRUE, TRUE)
PeerPrompt(k) == Entry(k, "optional", TRUE, TRUE)
PeerResource(k) == Entry(k, "optional", TRUE, TRUE)
RegisteredTool(k, s) == Entry(k, s, TRUE, TRUE)
RouterTool(k, s) == Entry(k, s, TRUE, TRUE)

(***************************************************************************)
(* Routers.  A route is [entry, on]; a router is a sequence of routes in   *)
(* which a key may occur twice, and says after each operation whether its  *)
(* change observer was called.  The resource router keeps two sequences,   *)
(* for resources and for templates, behind one observer.                   *)
(***************************************************************************)
RouterAdd(r, e) == [routes |-> Append(r, [entry |-> e, on |-> TRUE]), told |-> TRUE]

RouterMerge(r, other) == [routes |-> r \o other, told |-> TRUE]

RouterRemove(r, k) ==
  LET kept == SelectSeq(r, LAMBDA x : x.entry.key # k)
  IN  [routes |-> kept, told |-> Len(kept) # Len(r)]

RouterClear(r) == [routes |-> << >>, told |-> r # << >>]

RouterEnable(r, k, on) ==
  [routes |-> [i \in 1..Len(r) |-> IF r[i].entry.key = k THEN [r[i] EXCEPT !.on = on]
                                   ELSE r[i]],
   told |-> TRUE]

RouterStep(r, op, e) ==
  CASE op = "add" -> RouterAdd(r, e)
    [] op = "merge" -> RouterMerge(r, RouterAdd(<< >>, e).routes)
    [] op = "remove" -> RouterRemove(r, e.key)
    [] op = "clear" -> RouterClear(r)
    [] op = "disable" -> RouterEnable(r, e.key, FALSE)
    [] op = "enable" -> RouterEnable(r, e.key, TRUE)
RouterOps == {"add", "merge", "remove", "clear", "disable", "enable"}

PromptRouterStep(r, op, e) == RouterStep(r, op, e)
ResourceRouterStep(r, op, e) == RouterStep(r, op, e)
TemplateRouterStep(r, op, e) == RouterStep(r, op, e)

Routed(kind, r, op, e) ==
  CASE kind = "tools" -> RouterStep(r, op, e)
    [] kind = "prompts" -> PromptRouterStep(r, op, e)
    [] kind = "resources" -> ResourceRouterStep(r, op, e)
    [] kind = "templates" -> TemplateRouterStep(r, op, e)

\* apply_to: the entries handed to the builder, in order
Applied(r) == LET on == SelectSeq(r, LAMBDA x : x.on)
              IN  [i \in 1..Len(on) |-> on[i].entry]
=============================================================================
