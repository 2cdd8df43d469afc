---------------------------- MODULE MCServerPeer ----------------------------
(* Instances of ServerPeer for TLC: two sessions on one transport.  The     *)
(* client of one sends every type of message, two requests at a time, one  *)
(* of them stateless; the client of the other uses the same request id.    *)
EXTENDS ServerPeer

CONSTANTS s1, s2, i1, i2

Message(type, session, id, stateless) ==
  [type |-> type, session |-> session, id |-> id, stateless |-> stateless]

MCMessages ==
  {Message("initialize", s1, i1, FALSE), Message("ping", s1, i2, FALSE),
   Message("call", s1, i1, FALSE), Message("call", s1, i2, TRUE),
   Message("other", s1, i1, TRUE), Message("initialized", s1, i1, FALSE),
   Message("cancelled", s1, i1, TRUE), Message("note", s1, i1, FALSE),
   Message("response", s1, i1, FALSE),
   Message("other", s2, i1, TRUE), Message("cancelled", s2, i1, TRUE)}
=============================================================================
