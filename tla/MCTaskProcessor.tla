-------------------------- MODULE MCTaskProcessor --------------------------
(* TaskProcessor on small instances.                                       *)
EXTENDS TaskProcessor
=============================================================================
