---------------------------- MODULE MCHttpClient ----------------------------
(* Small instances of HttpNative for TLC.                                  *)
EXTENDS HttpNative

CONSTANTS c1, c2

MCCallers == {c1, c2}

MCKinds == c1 :> {"initialize", "initialized"} @@ c2 :> {"business", "ping"}
=============================================================================
