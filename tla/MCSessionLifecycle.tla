------------------------- MODULE MCSessionLifecycle -------------------------
(* Instances of SessionLifecycle for TLC; handlers are interchangeable.     *)
EXTENDS SessionLifecycle, TLC

HandlerSymmetry == Permutations(Requests)
=============================================================================
