------------------------------- MODULE Envelope -------------------------------
(***************************************************************************)
(* serialization.cpp: the JSON-RPC envelope.  parse_message tells the      *)
(* three kinds of message apart by the keys it finds.  A request and a     *)
(* notification carry _meta inside params and, once parsed, a copy of it   *)
(* in `meta` that is written over params again.                            *)
(* Of params "objMore" is an object with a _meta object, "objBad" one      *)
(* whose _meta is something else.                                          *)
(***************************************************************************)
EXTENDS WireCapabilities

\* method is a non-empty string.
Method == Field("method", {"empty", "str"}, {}, {"str", "word"}, "refuse")
\* null and absent params are {}, and {} is not written.
Params ==
  [Field("params", JsonTokens \ {"objBad"}, {"null", "obj0"},
         {"null", "obj0", "obj", "objMore"} \cup Arrays, "obj0")
     EXCEPT !.as = [t \in {"null"} |-> "obj0"]]

JsonRpcRequest == Closed(Row(<<Enum("jsonrpc"), Method, Params, Id("id")>>))

JsonRpcNotification == Closed(Row(<<Enum("jsonrpc"), Method, Params>>))

\* The id of a response may be null. ErrorObject keeps code, message and data.
JsonRpcResponse ==
  Closed(Row(<<Enum("jsonrpc"),
               Field("id", {"null", "int", "empty", "str"}, {},
                     {"null"} \cup Ints \cup Strings, "refuse"),
               OptObj("_meta"), Forgetful(OptNested("error", FALSE)), OptAny("result")>>))

MessageTypes ==
  [Request |-> JsonRpcRequest, Notification |-> JsonRpcNotification,
   Response |-> JsonRpcResponse]

Kind(w) ==
  IF {"result", "error"} \subseteq DOMAIN w THEN "none"
  ELSE IF "method" \in DOMAIN w
       THEN IF "id" \in DOMAIN w THEN "Request" ELSE "Notification"
  ELSE IF {"result", "error"} \cap DOMAIN w # {} THEN "Response"
  ELSE "none"

\* The members of a message besides its row: its kind, and meta.
ParseMessage(w) ==
  LET kind == Kind(w)
      read == FromJson(MessageTypes[kind], w)
      meta == IF kind # "Response" /\ read.value.member["params"] = "objMore"
              THEN "obj" ELSE "none"
  IN IF kind = "none" \/ "jsonrpc" \notin DOMAIN w THEN [status |-> "error"]
     ELSE IF read.status # "ok" THEN read
     ELSE [status |-> "ok",
           value |-> [kind |-> kind, meta |-> meta, member |-> read.value.member,
                      extensions |-> NoExtensions]]

\* append_params_property: meta needs params that are an object.
SerializeParams(v) ==
  IF v.meta = "none" THEN v.member
  ELSE [v.member EXCEPT !["params"] = "objMore"]

SerializeMessage(v) ==
  LET row == MessageTypes[v.kind]
      response == v.kind = "Response"
      m == v.member
      Json(members) == [status |-> "ok",
                        wire |-> ToJson(row, [member |-> members, extensions |-> NoExtensions])]
  IN IF response
     THEN IF m["error"] # "none" THEN Json([m EXCEPT !["result"] = "none"])
          ELSE IF m["result"] = "none" THEN [status |-> "error"] ELSE Json(m)
     ELSE IF v.meta # "none" /\ m["params"] \notin Objects \cup {"null"}
          THEN [status |-> "error"] ELSE Json(SerializeParams(v))

Messages(kind) ==
  {[kind |-> kind, meta |-> meta, member |-> v.member, extensions |-> NoExtensions] :
     meta \in IF kind = "Response" THEN {"none"} ELSE {"none", "obj"},
     v \in Values(MessageTypes[kind])}
=============================================================================
