---------------------------- MODULE MCCaptureLoop ----------------------------
(***************************************************************************)
(* TLC instance of CaptureLoop.  The intervals keep the order of the       *)
(* configuration's (1000/15 < 1000 < 2500 < 10000) with frames that fall   *)
(* between them, and the epoch lies far beyond the page's own clock.       *)
(***************************************************************************)
EXTENDS CaptureLoop
=============================================================================
