-------------------------- MODULE MCClientRequest --------------------------
(* Small instances of ClientRequest for TLC.                               *)
EXTENDS ClientRequest

CONSTANTS r1, r2

\* The first request has every combination of options, the second has none.
MCOptions ==
  {o \in [{r1, r2} -> SUBSET {"timeout", "token"}] : o[r2] = {}}
=============================================================================
