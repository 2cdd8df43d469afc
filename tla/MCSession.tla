------------------------------ MODULE MCSession ------------------------------
(***************************************************************************)
(* Session with one good and one bad key.                                  *)
(***************************************************************************)
EXTENDS Session

MCValid == {"k1"}
MCInvalid == {"bad"}
=============================================================================
