--------------------------- MODULE MCProcessStdio ---------------------------
(***************************************************************************)
(* Two timed requests to a child that only answers and may close its       *)
(* stdout, so that an answer may come late; the same with one request and  *)
(* stop(); a request without a timeout and a child that writes unasked,    *)
(* stopped by two threads; and a child that does not read, with stop().    *)
(***************************************************************************)
EXTENDS ProcessStdio

CONSTANT q1

MCServerRequests == {q1}

Scene(timed, deaf, mute, sends, stops, lines) ==
  [timed |-> timed, deaf |-> deaf, mute |-> mute, sends |-> sends, stops |-> stops,
   lines |-> lines]

MCScenes == {Scene(TRUE, FALSE, TRUE, 2, 0, 0), Scene(TRUE, FALSE, TRUE, 1, 1, 0),
             Scene(FALSE, FALSE, FALSE, 1, 2, 1), Scene(TRUE, TRUE, FALSE, 1, 1, 1)}
=============================================================================
