---------------------------- MODULE MCStreaming ----------------------------
(* Two streamed requests, with an id each or with one id for both. *)
EXTENDS Streaming, TLC

CONSTANTS s1, s2, i1, i2

MCStreams == {s1, s2}
MCIds == {i1, i2}

\* Up to the names of streams and ids these are all the choices there are.
MCTwoChoices == {s1 :> i1 @@ s2 :> i2, s1 :> i1 @@ s2 :> i1}
=============================================================================
