--------------------------- MODULE MCFlagPipeline ---------------------------
(* Instances of FlagPipeline for TLC: connections c1 and c2 of two sessions,*)
(* or c1 alone, with the messages those sessions' clients can send.         *)
EXTENDS FlagPipeline, TLC

CONSTANTS c1, c2, s1, s2

SessionOfEach == (c1 :> s1) @@ (c2 :> s2)
SessionOfOne == (c1 :> s1)

AllMessages == [session : Sessions, kind : Kinds]
=============================================================================
