----------------------------- MODULE MCLtiLaunch -----------------------------
(***************************************************************************)
(* TLC instance of LtiLaunch: two logins, whose answers may be posted by   *)
(* two requests; the answers differ in issuer, nonce, key and validity.  *)
(***************************************************************************)
EXTENDS LtiLaunch

CONSTANTS i1, i2, k1, k2, u1, s1, s2

Good == [state |-> s1, nonce |-> s1, iss |-> i1, sub |-> u1, kid |-> k1,
         valid |-> TRUE]

MCKeySets == {{k1}, {k2}}

MCAnswers == {Good,
              [Good EXCEPT !.state = s2, !.nonce = s2],
              [Good EXCEPT !.iss = i2],
              [Good EXCEPT !.nonce = s2],
              [Good EXCEPT !.valid = FALSE]}
=============================================================================
