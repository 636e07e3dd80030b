---------------------------- MODULE SessionProofs ----------------------------
(***************************************************************************)
(* How a session begins and how it may end: what holds of LTI launches for *)
(* any number of logins, requests, answers, platforms and key sets, and of *)
(* a session row for any number of overlapping requests.  The two parts    *)
(* share a module and nothing else; neither cites the other.               *)
(*                                                                         *)
(* StateUsedOnce and IssuerIsTheLoginsIssuer are not inductive: they speak *)
(* of requests that are past consume and say nothing of the store.  What   *)
(* carries them is that a spent state never returns (SpentStaysSpent) and  *)
(* that the issuer a request was admitted with agrees with its state for   *)
(* as long as the state is pending (AdmittedAgrees).                       *)
(*                                                                         *)
(* OnlyStaleMovesIllegal is about what a handler overwrites, and a handler *)
(* knows only what it read.  LifeInv says what the row may have become     *)
(* since: while a handshake that read pending waits, the session has no    *)
(* connection and no flag, so it can only have been terminated; while a    *)
(* review that read terminated waits, the session has a flag, so no such   *)
(* handshake is left that could activate it.                               *)
(***************************************************************************)
EXTENDS LtiLaunch, SessionLifecycle, TLAPS

-----------------------------------------------------------------------------
(* LTI launches (LtiLaunch). *)


Past == {"process", "commit", "done"}

Admitted == {"discovery", "key", "fetch", "answered", "verified"}

EntriesAgree ==
    \A s \in Logins : entries[s] # None => login[s] = entries[s].issuer

StatesWereIssued ==
    \A l \in Launches : launch[l] # None => login[launch[l].token.state] # None

AdmittedAgrees ==
    \A l \in Launches :
        /\ launch[l] # None /\ launch[l].pc \in Admitted
        /\ entries[launch[l].token.state] # None
        => entries[launch[l].token.state].issuer = launch[l].token.iss

SpentStaysSpent ==
    \A l \in Launches : launch[l] # None /\ launch[l].pc \in Past
        => entries[launch[l].token.state] = None

KeyInHand ==
    \A l \in Launches : launch[l] # None /\ launch[l].key_up =>
        /\ launch[l].token.kid \in published[launch[l].token.iss]
        /\ launch[l].pc = "answered" => launch[l].token.kid \in launch[l].got

(* A request that may still fetch the keys has fetched them once at most.  *)
Fetching == {"discovery", "key", "fetch"}

TriesLeft == \A l \in Launches : launch[l] # None /\ launch[l].pc \in Fetching
                                     => launch[l].tries < 2

LtiInv == /\ TypeOK
          /\ TriesLeft
          /\ EntriesAgree
          /\ StatesWereIssued
          /\ AdmittedAgrees
          /\ SpentStaysSpent
          /\ KeyInHand
          /\ StateUsedOnce
          /\ IssuerIsTheLoginsIssuer
          /\ PublishedKeyIsFound

(* Purging drops entries and changes none (_purge_expired_locked).         *)
LEMMA PurgeDrops ==
    ASSUME TypeOK
    PROVE  /\ _purge_expired_locked \in [Logins -> Entry \cup {None}]
           /\ \A s \in Logins : _purge_expired_locked[s] \in {None, entries[s]}
  BY DEF TypeOK, _purge_expired_locked

(* The initial state satisfies the invariant.                              *)
LEMMA LtiInit == Init => LtiInv
<1> SUFFICES ASSUME Init PROVE LtiInv
  OBVIOUS
<1>1. TypeOK
  BY LtiAssumption DEF Init, TypeOK
<1> QED
  BY <1>1 DEF Init, LtiInv, TriesLeft, EntriesAgree, StatesWereIssued,
     AdmittedAgrees, SpentStaysSpent, KeyInHand, StateUsedOnce,
     IssuerIsTheLoginsIssuer, PublishedKeyIsFound, At

(* A request that moves on, and touches neither the store nor what logins  *)
(* and platforms have done, keeps the invariant if it goes no further than *)
(* its stage allows.                                                       *)
LEMMA Advance ==
    ASSUME LtiInv, TypeOK', UNCHANGED <<entries, login, published>>,
           NEW l \in Launches, launch[l] # None,
           NEW r \in Request, launch' = [launch EXCEPT ![l] = r],
           r.token = launch[l].token,
           r.pc \in Admitted => launch[l].pc \in Admitted,
           r.pc \in Past => launch[l].pc \in Past,
           r.key_up => launch[l].key_up,
           r.pc = "answered" /\ r.key_up => r.token.kid \in r.got,
           r.pc \in Fetching => r.tries < 2,
           r.pc = "unknown_kid" => ~r.key_up
    PROVE  LtiInv'
<1>1. /\ launch'[l] = r
      /\ \A m \in Launches : m # l => launch'[m] = launch[m]
  BY DEF LtiInv, TypeOK
<1>2. TriesLeft'
  BY <1>1 DEF LtiInv, TriesLeft, At
<1>3. EntriesAgree' /\ StatesWereIssued'
  BY <1>1 DEF LtiInv, EntriesAgree, StatesWereIssued
<1>4. AdmittedAgrees' /\ SpentStaysSpent'
  BY <1>1 DEF LtiInv, AdmittedAgrees, SpentStaysSpent
<1>5. KeyInHand'
  BY <1>1 DEF LtiInv, KeyInHand
<1>6. StateUsedOnce' /\ IssuerIsTheLoginsIssuer'
  BY <1>1 DEF LtiInv, StateUsedOnce, IssuerIsTheLoginsIssuer, Past
<1>7. PublishedKeyIsFound'
  BY <1>1 DEF LtiInv, PublishedKeyIsFound, At
<1> QED
  BY <1>2, <1>3, <1>4, <1>5, <1>6, <1>7 DEF LtiInv

(* A request that ends without a session keeps nothing of its frame.       *)
LEMMA FramelessIsTyped ==
    ASSUME NEW r \in Request, NEW pc \in Stage
    PROVE  /\ Frameless(r, pc) \in Request
           /\ Frameless(r, pc).pc = pc
           /\ Frameless(r, pc).token = r.token
           /\ ~Frameless(r, pc).key_up
<1>1. r.token \in Token /\ {} \in SUBSET Kids /\ 0 \in 0..2
  BY DEF Request
<1>2. Frameless(r, pc) \in Request
  BY <1>1 DEF Frameless, Request
<1>3. Frameless(r, pc).pc = pc /\ Frameless(r, pc).token = r.token
  BY DEF Frameless
<1>4. ~Frameless(r, pc).key_up
  BY DEF Frameless
<1> QED
  BY <1>2, <1>3, <1>4

(* Ending a request keeps the invariant.                                   *)
LEMMA CloseKeeps ==
    ASSUME LtiInv, TypeOK', UNCHANGED <<entries, login, published>>,
           NEW l \in Launches, launch[l] # None,
           NEW pc \in Stage \ (Admitted \cup Past), Close(l, pc)
    PROVE  LtiInv'
<1>1. launch[l] \in Request
  BY DEF LtiInv, TypeOK
<1>2. launch' = [launch EXCEPT ![l] = Frameless(launch[l], pc)]
  BY DEF Close, LtiInv, TypeOK
<1>3. pc # "answered" /\ pc \notin Fetching
  BY DEF Admitted, Fetching
<1> QED
  BY <1>1, <1>2, <1>3, FramelessIsTyped, Advance

(* The steps of one request (LaunchStep).                                  *)
LEMMA LaunchStepKeeps ==
    ASSUME LtiInv, NEW l \in Launches, LaunchStep(l)
    PROVE  LtiInv'
<1> DEFINE q == launch[l]
<1>0. /\ TypeOK
      /\ launch \in [Launches -> Request \cup {None}]
  BY DEF LtiInv, TypeOK
<1>1. q # None /\ q \in Request
  BY <1>0 DEF LaunchStep, FetchDiscovery, get_key, AnswerJwks, _refresh,
              ConsumeState, ReadParticipant, CommitLaunch, At
<1>2. CASE FetchDiscovery(l)
  <2>1. TypeOK'
    BY <1>0, <1>1, <1>2, FramelessIsTyped, SMTT(40) DEF TypeOK, FetchDiscovery, Goto, Close,
       Request, Stage, Token
  <2>2. CASE Goto(l, "key")
    <3> DEFINE r == [q EXCEPT !.pc = "key"]
    <3>1. r \in Request /\ launch' = [launch EXCEPT ![l] = r]
      BY <1>0, <1>1, <2>2 DEF Goto, Request, Stage
    <3>2. /\ r.token = q.token /\ r.pc = "key" /\ r.key_up = q.key_up
          /\ q.pc = "discovery" /\ r.tries = q.tries
      BY <1>1, <1>2 DEF FetchDiscovery, At, Request
    <3>3. q.tries < 2
      BY <1>1, <3>2 DEF LtiInv, TriesLeft, Fetching
    <3> QED
      BY <1>1, <1>2, <2>1, <3>1, <3>2, <3>3, Advance DEF FetchDiscovery, Admitted, Past, Fetching
  <2>3. CASE Close(l, "failed")
    BY <1>1, <1>2, <2>1, <2>3, CloseKeeps DEF FetchDiscovery, Stage, Admitted, Past
  <2> QED
    BY <1>2, <2>2, <2>3 DEF FetchDiscovery
<1>3. CASE get_key(l)
  <2> DEFINE r == [q EXCEPT !.pc = IF CachedKey(q.token.iss, q.token.kid)
                                   THEN "verified" ELSE "fetch"]
  <2>1. r \in Request /\ launch' = [launch EXCEPT ![l] = r]
    BY <1>0, <1>1, <1>3 DEF get_key, Request, Stage
  <2>2. TypeOK'
    BY <1>0, <1>3, <2>1 DEF TypeOK, get_key
  <2>3. /\ r.token = q.token /\ r.pc \in {"verified", "fetch"}
        /\ r.key_up = q.key_up /\ r.tries = q.tries /\ q.pc = "key"
    BY <1>1, <1>3 DEF get_key, At, Request
  <2>4. q.tries < 2
    BY <1>1, <2>3 DEF LtiInv, TriesLeft, Fetching
  <2> QED
    BY <1>1, <1>3, <2>1, <2>2, <2>3, <2>4, Advance DEF get_key, Admitted, Past, Fetching
<1>4. CASE AnswerJwks(l)
  <2>1. CASE Close(l, "failed")
    <3>1. TypeOK'
      BY <1>0, <1>1, <1>4, <2>1, FramelessIsTyped DEF TypeOK, AnswerJwks, Close, Stage
    <3> QED
      BY <1>1, <1>4, <2>1, <3>1, CloseKeeps DEF AnswerJwks, Stage, Admitted, Past
  <2>2. CASE ~Close(l, "failed")
    <3> DEFINE r == [q EXCEPT !.pc = "answered", !.tries = @ + 1,
                              !.got = published[q.token.iss]]
    <3>1. q.pc = "fetch" /\ q.tries \in 0..1 /\ q.token \in Token
      BY <1>1, <1>4 DEF AnswerJwks, At, LtiInv, TriesLeft, Fetching, Request
    <3>2. published[q.token.iss] \in SUBSET Kids
      BY <1>0, <3>1, LtiAssumption DEF TypeOK, Token
    <3>3. r \in Request /\ launch' = [launch EXCEPT ![l] = r]
      BY <1>0, <1>1, <1>4, <2>2, <3>1, <3>2 DEF AnswerJwks, Request, Stage
    <3>4. TypeOK'
      BY <1>0, <1>4, <3>3 DEF TypeOK, AnswerJwks
    <3>5. /\ r.token = q.token /\ r.pc = "answered" /\ r.key_up = q.key_up
          /\ r.got = published[q.token.iss]
      BY <1>1 DEF Request
    <3>6. r.key_up => r.token.kid \in r.got
      BY <1>1, <3>5 DEF LtiInv, KeyInHand
    <3> QED
      BY <1>1, <1>4, <3>1, <3>3, <3>4, <3>5, <3>6, Advance
         DEF AnswerJwks, Admitted, Past, Fetching
  <2> QED
    BY <2>1, <2>2
<1>5. CASE _refresh(l)
  <2> DEFINE stage == CASE q.token.kid \in q.got -> "verified"
                        [] q.tries < 2 -> "fetch"
                        [] OTHER -> "unknown_kid"
             r == [q EXCEPT !.got = {}, !.pc = stage]
  <2>0. q.tries \in 0..2 /\ q.got \subseteq Kids /\ q.pc = "answered"
    BY <1>1, <1>5 DEF _refresh, At, Request
  <2>1. /\ stage \in {"verified", "fetch", "unknown_kid"}
        /\ stage = "fetch" => q.tries < 2
        /\ stage = "unknown_kid" => q.token.kid \notin q.got
    BY <2>0
  <2>2. r \in Request
    BY <1>1, <2>1 DEF Request, Stage
  <2>3. launch' = [launch EXCEPT ![l] = r]
    BY <1>0, <1>5 DEF _refresh
  <2>4. TypeOK'
    <3>1. [keys |-> q.got, fetched_at |-> now] \in Document
      BY <1>0, <2>0 DEF TypeOK, Document
    <3>2. jwks' \in [Issuers -> Document \cup {None}]
      BY <1>0, <1>5, <3>1 DEF TypeOK, _refresh
    <3>3. launch' \in [Launches -> Request \cup {None}]
      BY <1>0, <2>2, <2>3
    <3> QED
      BY <1>0, <1>5, <3>2, <3>3 DEF TypeOK, _refresh
  <2>5. /\ r.token = q.token /\ r.pc = stage /\ r.key_up = q.key_up
        /\ r.tries = q.tries
    BY <1>1, <2>1 DEF Request
  <2>6. stage = "unknown_kid" => ~q.key_up
    BY <1>1, <2>0, <2>1 DEF LtiInv, KeyInHand
  <2>7. UNCHANGED <<entries, login, published>>
    BY <1>5 DEF _refresh
  <2> HIDE DEF stage, r
  <2> QED
    BY <1>1, <2>0, <2>1, <2>2, <2>3, <2>4, <2>5, <2>6, <2>7, Advance
       DEF Admitted, Past, Fetching
<1>7. CASE ReadParticipant(l)
  <2>1. CASE Close(l, "failed")
    <3>1. TypeOK'
      BY <1>0, <1>1, <1>7, <2>1, FramelessIsTyped DEF TypeOK, ReadParticipant, Close, Stage
    <3> QED
      BY <1>1, <1>7, <2>1, <3>1, CloseKeeps DEF ReadParticipant, Stage, Admitted, Past
  <2>2. CASE ~Close(l, "failed")
    <3> DEFINE r == [q EXCEPT !.pc = "commit", !.found = Person(l) \in participants]
    <3>0. \A found \in BOOLEAN :
             [q EXCEPT !.pc = "commit", !.found = found] \in Request
      BY <1>1 DEF Request, Stage
    <3>1. r \in Request /\ launch' = [launch EXCEPT ![l] = r]
      <4>1. (Person(l) \in participants) \in BOOLEAN
        OBVIOUS
      <4>2. r \in Request
        BY <3>0, <4>1, Zenon
      <4> QED
        BY <1>7, <2>2, <4>2, Zenon DEF ReadParticipant
    <3>2. TypeOK'
      BY <1>0, <1>7, <3>1 DEF TypeOK, ReadParticipant
    <3>3. /\ r.token = q.token /\ r.pc = "commit" /\ r.key_up = q.key_up
          /\ q.pc = "process"
      BY <1>1, <1>7 DEF Request, ReadParticipant, At
    <3> QED
      BY <1>1, <1>7, <3>1, <3>2, <3>3, Advance DEF ReadParticipant, Admitted, Past, Fetching
  <2> QED
    BY <2>1, <2>2
<1>8. CASE CommitLaunch(l)
  <2>1. q.pc = "commit" /\ q.token \in Token
    BY <1>1, <1>8 DEF CommitLaunch, At, Request
  <2>2. CASE RowsFit(l)
    <3> DEFINE r == Frameless(q, "done")
    <3>1. launch' = [launch EXCEPT ![l] = r]
      BY <1>8, <2>2 DEF CommitLaunch, Close
    <3>2. r \in Request /\ r.token = q.token /\ r.pc = "done" /\ ~r.key_up
      BY <1>1, FramelessIsTyped DEF Stage
    <3>3. Person(l) \in Issuers \X Subjects
      BY <2>1 DEF Person, Token
    <3>4. TypeOK'
      BY <1>0, <1>8, <2>2, <3>1, <3>2, <3>3 DEF TypeOK, CommitLaunch
    <3> QED
      BY <1>1, <1>8, <2>1, <3>1, <3>2, <3>4, Advance DEF CommitLaunch, Admitted, Past, Fetching
  <2>3. CASE ~RowsFit(l)
    <3>1. TypeOK'
      BY <1>0, <1>1, <1>8, <2>3, FramelessIsTyped DEF TypeOK, CommitLaunch, Close, Stage
    <3> QED
      BY <1>1, <1>8, <2>3, <3>1, CloseKeeps DEF CommitLaunch, Stage, Admitted, Past
  <2> QED
    BY <2>2, <2>3
<1>9. CASE ConsumeState(l)
  <2> DEFINE s == q.token.state
             nonce == q.token.nonce
             stage == IF Consumable(s, nonce) THEN "process" ELSE "rejected"
             r == [q EXCEPT !.pc = stage]
  <2>1. q.pc = "verified" /\ q.token \in Token /\ s \in Logins
    BY <1>1, <1>9 DEF ConsumeState, At, Request, Token
  <2>2. CASE ~ClaimsAccepted(q.token)
    <3>1. TypeOK'
      BY <1>0, <1>1, <1>9, <2>2, FramelessIsTyped DEF TypeOK, ConsumeState, Close, Stage
    <3> QED
      BY <1>1, <1>9, <2>2, <3>1, CloseKeeps DEF ConsumeState, Stage, Admitted, Past
  <2>3. CASE ClaimsAccepted(q.token)
    <3>1. r \in Request /\ launch' = [launch EXCEPT ![l] = r]
      BY <1>0, <1>1, <1>9, <2>3 DEF ConsumeState, Goto, Request, Stage
    <3>2. /\ r.token = q.token /\ r.pc = stage /\ r.key_up = q.key_up
      BY <1>1 DEF Request
    <3>3. /\ launch'[l] = r
          /\ \A m \in Launches : m # l => launch'[m] = launch[m]
      BY <1>0, <3>1
    <3>4. /\ \A u \in Logins : entries'[u] \in {entries[u], None}
          /\ Consumable(s, nonce) => entries[s] # None /\ entries'[s] = None
          /\ entries' \in [Logins -> Entry \cup {None}]
      BY <1>0, <1>9, <2>1, <2>3 DEF ConsumeState, consume, Consumable, TypeOK
    <3>5. TypeOK'
      BY <1>0, <1>9, <3>1, <3>4 DEF TypeOK, ConsumeState
    <3>6. UNCHANGED <<login, published>>
      BY <1>9 DEF ConsumeState
    <3>7. /\ stage \in {"process", "rejected"}
          /\ stage = "process" => Consumable(s, nonce)
      OBVIOUS
    <3>8. \A m \in Launches : launch[m] # None => launch[m].token.state \in Logins
      BY <1>0 DEF Request, Token
    <3> HIDE DEF stage, r
    <3>9. TriesLeft' /\ PublishedKeyIsFound' /\ KeyInHand'
      BY <3>2, <3>3, <3>6, <3>7, <1>1 DEF LtiInv, TriesLeft, Fetching, At, PublishedKeyIsFound, KeyInHand
    <3>10. EntriesAgree' /\ StatesWereIssued'
      BY <1>1, <3>2, <3>3, <3>4, <3>6 DEF LtiInv, EntriesAgree, StatesWereIssued
    <3>11. AdmittedAgrees'
      BY <3>2, <3>3, <3>4, <3>7, <3>8 DEF LtiInv, AdmittedAgrees, Admitted
    <3>12. SpentStaysSpent'
      BY <3>2, <3>3, <3>4, <3>7, <3>8 DEF LtiInv, SpentStaysSpent, Past
    <3>13. StateUsedOnce'
      BY <3>2, <3>3, <3>4, <3>7 DEF LtiInv, StateUsedOnce, SpentStaysSpent, Past
    <3>14. IssuerIsTheLoginsIssuer'
      BY <1>1, <2>1, <3>2, <3>3, <3>4, <3>6, <3>7
         DEF LtiInv, IssuerIsTheLoginsIssuer, AdmittedAgrees, EntriesAgree, Admitted
    <3> QED
      BY <3>5, <3>9, <3>10, <3>11, <3>12, <3>13, <3>14 DEF LtiInv
  <2> QED
    BY <2>2, <2>3
<1> QED
  BY <1>2, <1>3, <1>4, <1>5, <1>7, <1>8, <1>9 DEF LaunchStep

(* A login registers a state that no request has ever named (lti_login).   *)
LEMMA LoginKeeps ==
    ASSUME LtiInv, NEW s \in Logins, NEW iss \in Issuers, lti_login(s, iss)
    PROVE  LtiInv'
<1>0. TypeOK
  BY DEF LtiInv
<1>1. /\ login[s] = None
      /\ login' = [login EXCEPT ![s] = iss]
      /\ entries' = [_purge_expired_locked EXCEPT
                       ![s] = [issuer |-> iss, issued_at |-> now]]
      /\ documents' = documents \cup {iss}
      /\ UNCHANGED <<now, backend, published, rotations, jwks, launch, participants>>
  BY DEF lti_login, register
<1>2. [issuer |-> iss, issued_at |-> now] \in Entry
  BY <1>0 DEF TypeOK, Entry
<1>3. TypeOK'
  BY <1>0, <1>1, <1>2, PurgeDrops DEF TypeOK
<1>4. /\ entries'[s].issuer = iss /\ login'[s] = iss
      /\ \A u \in Logins : u # s => /\ entries'[u] \in {None, entries[u]}
                                    /\ login'[u] = login[u]
  BY <1>0, <1>1, PurgeDrops DEF TypeOK
<1>5. \A l \in Launches : launch[l] # None =>
         launch[l].token.state \in Logins /\ launch[l].token.state # s
  BY <1>0, <1>1 DEF LtiInv, TypeOK, StatesWereIssued, Request, Token
<1>6. EntriesAgree' /\ StatesWereIssued'
  BY <1>1, <1>4, <1>5 DEF LtiInv, EntriesAgree, StatesWereIssued
<1>7. AdmittedAgrees' /\ SpentStaysSpent'
  BY <1>1, <1>4, <1>5 DEF LtiInv, AdmittedAgrees, SpentStaysSpent
<1>8. TriesLeft' /\ KeyInHand' /\ StateUsedOnce' /\ PublishedKeyIsFound'
  BY <1>1 DEF LtiInv, TriesLeft, KeyInHand, StateUsedOnce, PublishedKeyIsFound, At
<1>9. IssuerIsTheLoginsIssuer'
  BY <1>1, <1>4, <1>5 DEF LtiInv, IssuerIsTheLoginsIssuer
<1> QED
  BY <1>3, <1>6, <1>7, <1>8, <1>9 DEF LtiInv

(* A request is admitted only with the issuer its pending state names      *)
(* (ArriveLaunch).                                                         *)
LEMMA ArrivalKeeps ==
    ASSUME LtiInv, NEW l \in Launches, NEW token \in Answers,
           ArriveLaunch(l, token)
    PROVE  LtiInv'
<1> DEFINE stage == IF peek(token.state) \notin {None, token.iss}
                    THEN "rejected" ELSE "discovery"
           up == token.kid \in published[token.iss]
           r == [pc |-> stage, token |-> token, got |-> {}, tries |-> 0,
                 found |-> FALSE, key_up |-> up]
<1>0. /\ TypeOK /\ token \in Token /\ token.state \in Logins
      /\ \A m \in Launches : launch[m] # None => launch[m].token.state \in Logins
  BY LtiAssumption DEF LtiInv, TypeOK, Token, Request
<1>1. /\ launch[l] = None /\ login[token.state] # None
      /\ entries' = _purge_expired_locked
      /\ launch' = [launch EXCEPT ![l] = r]
      /\ UNCHANGED <<now, backend, login, published, rotations, documents, jwks,
                     participants>>
  BY DEF ArriveLaunch
<1>2. up \in BOOLEAN /\ stage \in {"rejected", "discovery"}
  OBVIOUS
<1>3. r \in Request
  <2>1. \A b \in BOOLEAN : [pc |-> stage, token |-> token, got |-> {}, tries |-> 0,
                            found |-> FALSE, key_up |-> b] \in Request
    BY <1>0, <1>2 DEF Request, Stage
  <2> QED
    BY <1>2, <2>1, Zenon
<1>4. r.pc = stage /\ r.token = token /\ r.tries = 0 /\ r.key_up = up
  BY Zenon
<1>5. /\ launch'[l] = r
      /\ \A m \in Launches : m # l => launch'[m] = launch[m]
  BY <1>0, <1>1 DEF TypeOK
<1>6. /\ \A u \in Logins : entries'[u] \in {None, entries[u]}
      /\ entries' \in [Logins -> Entry \cup {None}]
  BY <1>0, <1>1, PurgeDrops
<1>7. TypeOK'
  BY <1>0, <1>1, <1>3, <1>6 DEF TypeOK
<1>8. stage = "discovery" /\ entries'[token.state] # None =>
         entries'[token.state].issuer = token.iss
  <2>1. entries'[token.state] # None =>
           /\ entries'[token.state].issuer = peek(token.state)
           /\ entries'[token.state].issuer # None
    BY <1>0, <1>1, <1>6, LtiAssumption DEF peek, Entry
  <2> QED
    BY <2>1
<1> HIDE DEF stage, up, r
<1>9. up => token.kid \in published[token.iss]
  BY DEF up
<1>10. TriesLeft' /\ PublishedKeyIsFound'
  BY <1>2, <1>4, <1>5 DEF LtiInv, TriesLeft, PublishedKeyIsFound, At
<1>11. KeyInHand'
  BY <1>1, <1>2, <1>4, <1>5, <1>9 DEF LtiInv, KeyInHand
<1>12. EntriesAgree' /\ StatesWereIssued'
  BY <1>1, <1>4, <1>5, <1>6 DEF LtiInv, EntriesAgree, StatesWereIssued
<1>13. AdmittedAgrees'
  BY <1>0, <1>2, <1>4, <1>5, <1>6, <1>8 DEF LtiInv, AdmittedAgrees, Admitted
<1>14. SpentStaysSpent'
  BY <1>0, <1>2, <1>4, <1>5, <1>6 DEF LtiInv, SpentStaysSpent, Past
<1>15. StateUsedOnce' /\ IssuerIsTheLoginsIssuer'
  BY <1>1, <1>2, <1>4, <1>5 DEF LtiInv, StateUsedOnce, IssuerIsTheLoginsIssuer
<1> QED
  BY <1>7, <1>10, <1>11, <1>12, <1>13, <1>14, <1>15 DEF LtiInv

(* A platform that withdraws a key clears the mark of the requests that    *)
(* counted on it (RotateKeys).                                             *)
LEMMA RotationKeeps ==
    ASSUME LtiInv, NEW i \in Issuers, NEW keys \in KeySets, RotateKeys(i, keys)
    PROVE  LtiInv'
<1> DEFINE after(m) == [launch[m] EXCEPT !.key_up = @ /\ launch[m].token.kid \in keys]
<1>0. TypeOK /\ launch \in [Launches -> Request \cup {None}]
  BY DEF LtiInv, TypeOK
<1>1. /\ published' = [published EXCEPT ![i] = keys]
      /\ rotations < MaxRotations /\ rotations' = rotations + 1
      /\ launch' = [m \in Launches |->
                      IF launch[m] # None /\ launch[m].token.iss = i
                      THEN after(m) ELSE launch[m]]
      /\ UNCHANGED <<now, backend, login, entries, documents, jwks, participants>>
  BY Zenon DEF RotateKeys
<1>2. ASSUME NEW m \in Launches, launch[m] # None
      PROVE  /\ after(m) \in Request
             /\ after(m).pc = launch[m].pc /\ after(m).token = launch[m].token
             /\ after(m).got = launch[m].got /\ after(m).tries = launch[m].tries
             /\ after(m).key_up <=> launch[m].key_up /\ launch[m].token.kid \in keys
  <2>1. launch[m] \in Request
    BY <1>0, <1>2
  <2>2. (launch[m].key_up /\ launch[m].token.kid \in keys) \in BOOLEAN
    OBVIOUS
  <2>3. \A b \in BOOLEAN :
          /\ [launch[m] EXCEPT !.key_up = b] \in Request
          /\ [launch[m] EXCEPT !.key_up = b].pc = launch[m].pc
          /\ [launch[m] EXCEPT !.key_up = b].token = launch[m].token
          /\ [launch[m] EXCEPT !.key_up = b].got = launch[m].got
          /\ [launch[m] EXCEPT !.key_up = b].tries = launch[m].tries
          /\ [launch[m] EXCEPT !.key_up = b].key_up = b
    BY <2>1 DEF Request
  <2>4. after(m) = [launch[m] EXCEPT
                      !.key_up = launch[m].key_up /\ launch[m].token.kid \in keys]
    BY Zenon
  <2> HIDE DEF after
  <2> QED
    BY <2>2, <2>3, <2>4, Zenon
<1> HIDE DEF after
<1>3. \A m \in Launches :
         /\ launch[m] = None => launch'[m] = None
         /\ launch'[m] # None => launch[m] # None
         /\ launch[m] # None =>
              /\ launch'[m] \in Request
              /\ launch'[m].pc = launch[m].pc /\ launch'[m].token = launch[m].token
              /\ launch'[m].got = launch[m].got /\ launch'[m].tries = launch[m].tries
              /\ launch'[m].key_up => launch[m].key_up
              /\ launch'[m].key_up /\ launch[m].token.iss = i
                    => launch[m].token.kid \in keys
  BY <1>0, <1>1, <1>2
<1>4. TypeOK'
  <2>1. rotations' \in 0..MaxRotations
    BY <1>0, <1>1, LtiAssumption DEF TypeOK
  <2>2. published' \in [Issuers -> KeySets]
    BY <1>0, <1>1 DEF TypeOK
  <2>3. launch' \in [Launches -> Request \cup {None}]
    BY <1>1, <1>3
  <2> QED
    BY <1>0, <1>1, <2>1, <2>2, <2>3 DEF TypeOK
<1>5. KeyInHand'
  BY <1>0, <1>1, <1>3 DEF LtiInv, KeyInHand, TypeOK, Request, Token
<1>6. TriesLeft' /\ PublishedKeyIsFound'
  BY <1>3 DEF LtiInv, TriesLeft, PublishedKeyIsFound, At
<1>7. /\ EntriesAgree' /\ StatesWereIssued' /\ AdmittedAgrees' /\ SpentStaysSpent'
      /\ StateUsedOnce' /\ IssuerIsTheLoginsIssuer'
  BY <1>1, <1>3 DEF LtiInv, EntriesAgree, StatesWereIssued, AdmittedAgrees,
     SpentStaysSpent, StateUsedOnce, IssuerIsTheLoginsIssuer
<1> QED
  BY <1>4, <1>5, <1>6, <1>7 DEF LtiInv

(* A restart ends the requests in progress and revives no state (Restart). *)
LEMMA RestartKeeps ==
    ASSUME LtiInv, Restart
    PROVE  LtiInv'
<1>0. TypeOK /\ launch \in [Launches -> Request \cup {None}]
  BY DEF LtiInv, TypeOK
<1>1. /\ launch' = [l \in Launches |->
                      IF launch[l] # None /\ launch[l].pc \notin Ended
                      THEN Frameless(launch[l], "crashed") ELSE launch[l]]
      /\ entries' = IF backend = "redis" THEN entries ELSE [s \in Logins |-> None]
      /\ documents' = {} /\ jwks' = [i \in Issuers |-> None]
      /\ UNCHANGED <<now, backend, login, published, rotations, participants>>
  BY DEF Restart
<1>2. \A l \in Launches :
         /\ launch'[l] # None => launch[l] # None
         /\ \/ launch'[l] = launch[l]
            \/ /\ launch[l] # None
               /\ launch'[l] \in Request /\ launch'[l].pc = "crashed"
               /\ launch'[l].token = launch[l].token /\ ~launch'[l].key_up
  BY <1>0, <1>1, FramelessIsTyped DEF Stage
<1>3. /\ \A s \in Logins : entries'[s] \in {None, entries[s]}
      /\ entries' \in [Logins -> Entry \cup {None}]
  BY <1>0, <1>1 DEF TypeOK
<1>4. \A l \in Launches : launch[l] # None => launch[l].token.state \in Logins
  BY <1>0 DEF Request, Token
<1>5. TypeOK'
  <2>1. launch' \in [Launches -> Request \cup {None}]
    BY <1>0, <1>1, <1>2
  <2> QED
    BY <1>0, <1>1, <1>3, <2>1 DEF TypeOK
<1>6. TriesLeft' /\ PublishedKeyIsFound' /\ KeyInHand'
  BY <1>1, <1>2 DEF LtiInv, TriesLeft, Fetching, PublishedKeyIsFound, KeyInHand, At
<1>7. EntriesAgree' /\ StatesWereIssued'
  BY <1>1, <1>2, <1>3 DEF LtiInv, EntriesAgree, StatesWereIssued
<1>8. AdmittedAgrees' /\ SpentStaysSpent'
  BY <1>2, <1>3, <1>4 DEF LtiInv, AdmittedAgrees, SpentStaysSpent, Admitted, Past
<1>9. StateUsedOnce' /\ IssuerIsTheLoginsIssuer'
  BY <1>1, <1>2 DEF LtiInv, StateUsedOnce, IssuerIsTheLoginsIssuer
<1> QED
  BY <1>5, <1>6, <1>7, <1>8, <1>9 DEF LtiInv

(* Every step keeps the invariant.                                         *)
LEMMA LtiStep == LtiInv /\ [Next]_vars => LtiInv'
<1> SUFFICES ASSUME LtiInv, [Next]_vars PROVE LtiInv'
  OBVIOUS
<1>1. CASE Tick \/ UNCHANGED vars
  <2>1. TypeOK'
    BY <1>1, LtiAssumption DEF LtiInv, TypeOK, Tick, vars
  <2> QED
    BY <1>1, <2>1 DEF Tick, vars, LtiInv, TriesLeft, EntriesAgree, StatesWereIssued,
       AdmittedAgrees, SpentStaysSpent, KeyInHand, StateUsedOnce,
       IssuerIsTheLoginsIssuer, PublishedKeyIsFound, At
<1> QED
  BY <1>1, RotationKeeps, LoginKeeps, ArrivalKeeps, LaunchStepKeeps, RestartKeeps
     DEF Next

(* The store, the caches and the requests keep their types, whatever       *)
(* answers arrive and however often keys rotate or the server restarts.    *)
THEOREM LtiTypeCorrect == Spec => []TypeOK
<1>1. LtiInv => TypeOK
  BY DEF LtiInv
<1> QED
  BY <1>1, LtiInit, LtiStep, PTL DEF Spec

(* However many posts, logins and restarts there are, a login's state lets *)
(* one request through (consume, in memory and in Redis).                  *)
THEOREM StatesUsedOnce == Spec => []StateUsedOnce
<1>1. LtiInv => StateUsedOnce
  BY DEF LtiInv
<1> QED
  BY <1>1, LtiInit, LtiStep, PTL DEF Spec

(* Whoever gets through carries the issuer of the login, though the two    *)
(* are compared only when the request arrives (peek).                      *)
THEOREM IssuersAgree == Spec => []IssuerIsTheLoginsIssuer
<1>1. LtiInv => IssuerIsTheLoginsIssuer
  BY DEF LtiInv
<1> QED
  BY <1>1, LtiInit, LtiStep, PTL DEF Spec

(* A key that stays published is never reported unknown, however old the   *)
(* cached document is and whichever response replaces it (get_key).        *)
THEOREM PublishedKeysFound == Spec => []PublishedKeyIsFound
<1>1. LtiInv => PublishedKeyIsFound
  BY DEF LtiInv
<1> QED
  BY <1>1, LtiInit, LtiStep, PTL DEF Spec

-----------------------------------------------------------------------------
(* The session row (SessionLifecycle). *)


ByRequest == {"identity", "request"}

(* Handshakes of one process do not overlap each other.                    *)
OneHandshake ==
    \A q, r \in Requests :
        request[q].op = "connect" /\ request[r].op = "connect" => q = r

(* A session that was never activated has neither connection nor flag.     *)
NotStarted == status = "pending" => live = 0 /\ ~flagged

(* What the row may be while a handshake waits.                            *)
HandshakeJustified ==
    \A r \in Requests : request[r].op = "connect" =>
        /\ request[r].read \in {"pending", "active"}
        /\ request[r].read = "pending" =>
              live = 0 /\ ~flagged /\ status \in {"pending", "terminated"}
        /\ request[r].read = "active" => status # "pending"

(* What the row may be while a review waits.                               *)
ReviewJustified ==
    \A r \in Requests : request[r].op = "review" =>
        /\ flagged
        /\ request[r].read = "terminated" =>
              record \in ByRequest /\ status \in {"terminated", "under_review", "reinstated"}

LifeInv == /\ LifeTypeOK
           /\ TerminatedHasRecord
           /\ status # "completed"
           /\ OneHandshake
           /\ NotStarted
           /\ HandshakeJustified
           /\ ReviewJustified

(* A handler that begins changes its own slot and nothing but the count of *)
(* requests, and the slots keep their type (each Begin action).            *)
LEMMA BeginFrame ==
    ASSUME LifeTypeOK, NEW r \in Requests, NEW next \in Handling, Begin(r, next)
    PROVE  /\ LifeTypeOK'
           /\ request'[r] = next
           /\ \A q \in Requests : q # r => request'[q] = request[q]
           /\ UNCHANGED <<status, record, flagged, live>>
  BY LifecycleAssumption DEF LifeTypeOK, Begin

(* A handler that begins keeps the invariant if what it read is the row.   *)
LEMMA BeginPreserves ==
    ASSUME LifeInv, NEW r \in Requests, NEW next \in Handling, Begin(r, next),
           next.op = "connect" => /\ next.read = status
                                  /\ status \in {"pending", "active"}
                                  /\ \A q \in Requests : request[q].op # "connect",
           next.op = "review" => flagged /\ next.read = status
    PROVE  LifeInv'
<1>1. LifeTypeOK
  BY DEF LifeInv
<1>2. /\ LifeTypeOK'
      /\ request'[r] = next
      /\ \A q \in Requests : q # r => request'[q] = request[q]
      /\ status' = status /\ record' = record /\ live' = live
      /\ flagged' = flagged
  BY <1>1, BeginFrame
<1>3. TerminatedHasRecord' /\ status' # "completed" /\ NotStarted'
  BY <1>2 DEF LifeInv, TerminatedHasRecord, NotStarted
<1>4. OneHandshake'
  BY <1>2 DEF LifeInv, OneHandshake
<1>5. HandshakeJustified'
  <2> SUFFICES ASSUME NEW q \in Requests, request'[q].op = "connect"
               PROVE  /\ request'[q].read \in {"pending", "active"}
                      /\ request'[q].read = "pending" =>
                            live' = 0 /\ ~flagged' /\ status' \in {"pending", "terminated"}
                      /\ request'[q].read = "active" => status' # "pending"
    BY DEF HandshakeJustified
  <2>1. CASE q = r
    BY <2>1, <1>2 DEF LifeInv, NotStarted
  <2>2. CASE q # r
    BY <2>2, <1>2 DEF LifeInv, HandshakeJustified
  <2> QED
    BY <2>1, <2>2
<1>6. ReviewJustified'
  <2> SUFFICES ASSUME NEW q \in Requests, request'[q].op = "review"
               PROVE  /\ flagged'
                      /\ request'[q].read = "terminated" =>
                            /\ record' \in ByRequest
                            /\ status' \in {"terminated", "under_review", "reinstated"}
    BY DEF ReviewJustified
  <2>1. CASE q = r
    BY <2>1, <1>2 DEF LifeInv, TerminatedHasRecord, ByRequest
  <2>2. CASE q # r
    BY <2>2, <1>2 DEF LifeInv, ReviewJustified
  <2> QED
    BY <2>1, <2>2
<1> QED
  BY <1>2, <1>3, <1>4, <1>5, <1>6 DEF LifeInv

(* A handler that commits frees its slot and the others keep what they     *)
(* read.  They stay justified if a record never goes away, and if what the *)
(* commit writes is among what they allow.                                 *)
LEMMA FinishPreserves ==
    ASSUME LifeInv, NEW r \in Requests, Finish(r), UNCHANGED flagged,
           status' \in SessionStatus,
           record # "none" => record' = record,
           status' # status =>
              /\ status' \notin {"pending", "completed"}
              /\ status' \in {"terminated", "reinstated"} => record' \in ByRequest
              /\ status' = "active" => ~flagged
              /\ status' # "terminated" => flagged \/ request[r].op = "connect",
           live' # live => status' # "pending" /\ request[r].op = "connect"
    PROVE  /\ request' \in [Requests -> Handling]
           /\ TerminatedHasRecord' /\ status' # "completed"
           /\ OneHandshake' /\ NotStarted'
           /\ HandshakeJustified' /\ ReviewJustified'
<1>1. request \in [Requests -> Handling] /\ Free \in Handling
  BY DEF LifeInv, LifeTypeOK, Handling
<1>2. /\ request' \in [Requests -> Handling]
      /\ request'[r] = Free
      /\ \A q \in Requests : q # r => request'[q] = request[q]
  BY <1>1 DEF Finish
<1>3. Free.op # "connect" /\ Free.op # "review"
  BY DEF Free
<1>4. TerminatedHasRecord' /\ status' # "completed"
  BY DEF LifeInv, TerminatedHasRecord, ByRequest
<1>5. OneHandshake'
  BY <1>2, <1>3 DEF LifeInv, OneHandshake
<1>6. NotStarted'
  BY DEF LifeInv, NotStarted
<1>7. HandshakeJustified'
  <2> SUFFICES ASSUME NEW q \in Requests, request'[q].op = "connect"
               PROVE  /\ request'[q].read \in {"pending", "active"}
                      /\ request'[q].read = "pending" =>
                            live' = 0 /\ ~flagged' /\ status' \in {"pending", "terminated"}
                      /\ request'[q].read = "active" => status' # "pending"
    BY DEF HandshakeJustified
  <2>1. q # r /\ request'[q] = request[q]
    BY <1>2, <1>3
  <2>2. request[r].op # "connect"
    BY <2>1 DEF LifeInv, OneHandshake
  <2>3. live' = live
    BY <2>2
  <2>4. /\ request[q].read \in {"pending", "active"}
        /\ request[q].read = "pending" =>
              live = 0 /\ ~flagged /\ status \in {"pending", "terminated"}
        /\ request[q].read = "active" => status # "pending"
    BY <2>1 DEF LifeInv, HandshakeJustified
  <2> QED
    BY <2>1, <2>2, <2>3, <2>4
<1>8. ReviewJustified'
  <2> SUFFICES ASSUME NEW q \in Requests, request'[q].op = "review"
               PROVE  /\ flagged'
                      /\ request'[q].read = "terminated" =>
                            /\ record' \in ByRequest
                            /\ status' \in {"terminated", "under_review", "reinstated"}
    BY DEF ReviewJustified
  <2>1. q # r /\ request'[q] = request[q]
    BY <1>2, <1>3
  <2>2. /\ flagged
        /\ request[q].read = "terminated" =>
              record \in ByRequest /\ status \in {"terminated", "under_review", "reinstated"}
    BY <2>1 DEF LifeInv, ReviewJustified
  <2>3. status' # status => status' \in {"terminated", "under_review", "reinstated"}
    BY <2>2 DEF SessionStatus
  <2> QED
    BY <2>1, <2>2, <2>3 DEF ByRequest
<1> QED
  BY <1>2, <1>4, <1>5, <1>6, <1>7, <1>8

(* The initial row satisfies the invariant.                                *)
LEMMA InitInv == LifeInit => LifeInv
<1> SUFFICES ASSUME LifeInit PROVE LifeInv
  OBVIOUS
<1>1. Free \in Handling
  BY DEF Handling
<1>2. request \in [Requests -> Handling]
  BY <1>1 DEF LifeInit
<1>3. flagged \in BOOLEAN
  BY Zenon DEF LifeInit
<1>4. live \in Nat /\ orphans \in Nat /\ begun \in 0 .. MaxBegun
  BY LifecycleAssumption DEF LifeInit
<1>5. status \in SessionStatus /\ record \in {"none", "identity", "request", "kill_switch"}
  BY DEF LifeInit, SessionStatus
<1>6. /\ reviews \subseteq ReviewDecision
      /\ identity \in {"pending_check", "unavailable"}
  BY DEF LifeInit
<1>7. LifeTypeOK
  BY <1>2, <1>3, <1>4, <1>5, <1>6, Zenon DEF LifeTypeOK
<1>8. \A r \in Requests : request[r].op = "free"
  BY DEF LifeInit, Free
<1> QED
  BY <1>7, <1>8 DEF LifeInit, LifeInv, TerminatedHasRecord, OneHandshake, NotStarted,
                    HandshakeJustified, ReviewJustified

(* What a committing handshake writes and over what: it activates a        *)
(* session that is pending or was terminated meanwhile, or refuses one     *)
(* that has no record yet.                                                 *)
LEMMA ConnectWrites ==
    ASSUME LifeInv, NEW r \in Requests, CommitConnect(r)
    PROVE  /\ record # "none" => record' = record
           /\ status' # status =>
                 \/ /\ status' = "active" /\ ~flagged
                    /\ status \in {"pending", "terminated"}
                 \/ /\ status' = "terminated" /\ record' = "identity"
                    /\ status \in {"pending", "active", "under_review"}
           /\ live' # live => status' # "pending"
<1>1. /\ request[r].op = "connect"
      /\ request[r].read \in {"pending", "active"}
      /\ request[r].read = "pending" =>
            ~flagged /\ status \in {"pending", "terminated"}
      /\ request[r].read = "active" => status # "pending"
  BY DEF LifeInv, HandshakeJustified, CommitConnect
<1>2. record = "none" => status \in {"pending", "active", "under_review"}
  BY DEF LifeInv, TerminatedHasRecord, LifeTypeOK, SessionStatus
<1> QED
  BY <1>1, <1>2 DEF CommitConnect, Activated, InsertRecord

(* What a committing POST /terminate writes, and over what.                *)
LEMMA TerminateWrites ==
    ASSUME LifeInv, NEW r \in Requests, CommitTerminate(r)
    PROVE  /\ record # "none" => record' = record
           /\ status' # status =>
                 /\ status' = "terminated" /\ record' = "request"
                 /\ status \in {"pending", "active", "under_review"}
<1>1. record = "none" => status \in {"pending", "active", "under_review"}
  BY DEF LifeInv, TerminatedHasRecord, LifeTypeOK, SessionStatus
<1> QED
  BY <1>1 DEF CommitTerminate, InsertRecord

(* What a committing review writes, and over what.                         *)
LEMMA ReviewWrites ==
    ASSUME LifeInv, NEW r \in Requests, CommitReview(r)
    PROVE  /\ flagged /\ record' = record
           /\ status' # status =>
                 \/ /\ status' = "under_review"
                    /\ status \in {"active", "terminated", "reinstated"}
                 \/ /\ status' = "reinstated" /\ record \in ByRequest
                    /\ status \in {"terminated", "under_review"}
<1>1. /\ request[r].op = "review" /\ flagged
      /\ request[r].read = "terminated" =>
            record \in ByRequest /\ status \in {"terminated", "under_review", "reinstated"}
  BY DEF LifeInv, ReviewJustified, CommitReview
<1>2. status \in SessionStatus /\ status # "pending" /\ status # "completed"
  BY <1>1 DEF LifeInv, LifeTypeOK, NotStarted
<1> QED
  BY <1>1, <1>2 DEF CommitReview, ReviewedStatus, SessionStatus

(* Every step of every request keeps the invariant.                        *)
LEMMA StepInv == LifeInv /\ [LifeNext]_lifeVars => LifeInv'
<1> SUFFICES ASSUME LifeInv, [LifeNext]_lifeVars PROVE LifeInv'
  OBVIOUS
<1>0. /\ status \in SessionStatus /\ LifeTypeOK
      /\ request \in [Requests -> Handling]
  BY DEF LifeInv, LifeTypeOK
<1>1. CASE UNCHANGED lifeVars
  BY <1>1 DEF lifeVars, LifeInv, LifeTypeOK, TerminatedHasRecord, OneHandshake,
              NotStarted, HandshakeJustified, ReviewJustified
<1>2. CASE RaiseFlag \/ Disconnect
  <2>0. live \in Nat /\ live' \in Nat /\ live # 0 /\ UNCHANGED <<status, record, request>>
    BY <1>0, <1>2 DEF LifeTypeOK, RaiseFlag, Disconnect
  <2>1. LifeTypeOK'
    BY <1>0, <1>2, <2>0 DEF LifeTypeOK, RaiseFlag, Disconnect
  <2>2. TerminatedHasRecord' /\ status' # "completed" /\ OneHandshake'
    BY <2>0 DEF LifeInv, TerminatedHasRecord, OneHandshake
  <2>3. status # "pending"
    BY <2>0 DEF LifeInv, NotStarted
  <2>4. \A r \in Requests : request[r].op = "connect" => request[r].read = "active"
    BY <2>0 DEF LifeInv, HandshakeJustified
  <2>5. NotStarted' /\ HandshakeJustified'
    BY <2>0, <2>3, <2>4 DEF NotStarted, HandshakeJustified
  <2>6. flagged => flagged'
    BY <1>2 DEF RaiseFlag, Disconnect
  <2>7. ReviewJustified'
    BY <2>0, <2>6 DEF LifeInv, ReviewJustified
  <2> QED
    BY <2>1, <2>2, <2>5, <2>7 DEF LifeInv
<1>3. ASSUME NEW r \in Requests, BeginConnect(r) PROVE LifeInv'
  <2>1. PICK answer \in {"available", "override", "none"} :
            Begin(r, [op |-> "connect", read |-> status, backend |-> answer])
    BY <1>3 DEF BeginConnect
  <2> DEFINE next == [op |-> "connect", read |-> status, backend |-> answer]
  <2>2. next \in Handling
    BY <1>0 DEF Handling
  <2>3. /\ next.op = "connect" /\ next.read = status
        /\ status \in {"pending", "active"}
        /\ \A q \in Requests : request[q].op # "connect"
    BY <1>3 DEF BeginConnect
  <2> QED
    BY <2>1, <2>2, <2>3, BeginPreserves
<1>4. ASSUME NEW r \in Requests, BeginTerminate(r) PROVE LifeInv'
  <2> DEFINE next == [op |-> "terminate", read |-> status]
  <2>1. Begin(r, next)
    BY <1>4 DEF BeginTerminate
  <2>2. next \in Handling /\ next.op = "terminate"
    BY <1>0 DEF Handling
  <2> QED
    BY <2>1, <2>2, BeginPreserves
<1>5. ASSUME NEW r \in Requests, BeginReview(r) PROVE LifeInv'
  <2>1. PICK decision \in ReviewDecision :
            Begin(r, [op |-> "review", read |-> status, decision |-> decision])
    BY <1>5 DEF BeginReview
  <2> DEFINE next == [op |-> "review", read |-> status, decision |-> decision]
  <2>2. next \in Handling
    BY <1>0 DEF Handling
  <2>3. next.op = "review" /\ flagged /\ next.read = status
    BY <1>5 DEF BeginReview
  <2> QED
    BY <2>1, <2>2, <2>3, BeginPreserves
<1>6. ASSUME NEW r \in Requests, BeginKillSwitch(r) PROVE LifeInv'
  <2> DEFINE next == [op |-> "kill_switch"]
  <2>1. Begin(r, next)
    BY <1>6 DEF BeginKillSwitch
  <2>2. next \in Handling /\ next.op = "kill_switch"
    BY DEF Handling
  <2> QED
    BY <2>1, <2>2, BeginPreserves
<1>7. ASSUME NEW r \in Requests, CommitConnect(r) PROVE LifeInv'
  <2>1. Finish(r) /\ request[r].op = "connect" /\ UNCHANGED flagged
    BY <1>7 DEF CommitConnect
  <2>2. status' \in SessionStatus
    BY <1>0, <1>7, ConnectWrites DEF SessionStatus
  <2>3. /\ request' \in [Requests -> Handling]
        /\ TerminatedHasRecord' /\ status' # "completed"
        /\ OneHandshake' /\ NotStarted'
        /\ HandshakeJustified' /\ ReviewJustified'
    BY <1>7, <2>1, <2>2, ConnectWrites, FinishPreserves DEF ByRequest
  <2>4. LifeTypeOK'
    BY <1>0, <1>7, <2>2, <2>3 DEF LifeTypeOK, CommitConnect, InsertRecord, Finish
  <2> QED
    BY <2>3, <2>4 DEF LifeInv
<1>8. ASSUME NEW r \in Requests, CommitTerminate(r) PROVE LifeInv'
  <2>1. Finish(r) /\ UNCHANGED <<flagged, live>>
    BY <1>8 DEF CommitTerminate
  <2>2. status' \in SessionStatus
    BY <1>0, <1>8, TerminateWrites DEF SessionStatus
  <2>3. /\ request' \in [Requests -> Handling]
        /\ TerminatedHasRecord' /\ status' # "completed"
        /\ OneHandshake' /\ NotStarted'
        /\ HandshakeJustified' /\ ReviewJustified'
    BY <1>8, <2>1, <2>2, TerminateWrites, FinishPreserves DEF ByRequest
  <2>4. LifeTypeOK'
    BY <1>0, <1>8, <2>2, <2>3 DEF LifeTypeOK, CommitTerminate, InsertRecord, Finish
  <2> QED
    BY <2>3, <2>4 DEF LifeInv
<1>9. ASSUME NEW r \in Requests, CommitReview(r) PROVE LifeInv'
  <2>1. Finish(r) /\ UNCHANGED <<flagged, live>>
    BY <1>9 DEF CommitReview
  <2>2. status' \in SessionStatus
    BY <1>0, <1>9, ReviewWrites DEF SessionStatus
  <2>3. /\ request' \in [Requests -> Handling]
        /\ TerminatedHasRecord' /\ status' # "completed"
        /\ OneHandshake' /\ NotStarted'
        /\ HandshakeJustified' /\ ReviewJustified'
    BY <1>9, <2>1, <2>2, ReviewWrites, FinishPreserves DEF ByRequest
  <2>4. request[r].decision \in ReviewDecision
    BY <1>0, <1>9 DEF CommitReview, Handling, Free
  <2>5. reviews' = reviews \cup {request[r].decision}
    BY <1>9 DEF CommitReview, WithReview
  <2>6. LifeTypeOK'
    BY <1>0, <1>9, <2>2, <2>3, <2>4, <2>5 DEF LifeTypeOK, CommitReview, Finish
  <2> QED
    BY <2>3, <2>6 DEF LifeInv
<1>10. ASSUME NEW r \in Requests, CommitKillSwitch(r) PROVE LifeInv'
  <2>1. /\ Finish(r) /\ UNCHANGED <<flagged, live, status>>
        /\ record # "none" => record' = record
    BY <1>10 DEF CommitKillSwitch, InsertRecord
  <2>2. /\ request' \in [Requests -> Handling]
        /\ TerminatedHasRecord' /\ status' # "completed"
        /\ OneHandshake' /\ NotStarted'
        /\ HandshakeJustified' /\ ReviewJustified'
    BY <1>0, <2>1, FinishPreserves
  <2>3. LifeTypeOK'
    BY <1>0, <1>10, <2>2 DEF LifeTypeOK, CommitKillSwitch, InsertRecord, Finish
  <2> QED
    BY <2>2, <2>3 DEF LifeInv
<1> QED
  BY <1>1, <1>2, <1>3, <1>4, <1>5, <1>6, <1>7, <1>8, <1>9, <1>10 DEF LifeNext

(* The row's variables keep their types however many requests overlap      *)
(* (_state_machine.py, _routes.py, _admin_service.py).                     *)
THEOREM LifeTypeCorrect == LifeSpec => []LifeTypeOK
  BY InitInv, StepInv, PTL DEF LifeSpec, LifeInv

(* However many requests overlap, a session that is terminated or was      *)
(* reinstated has the record of the request or of the refused handshake    *)
(* that terminated it, never that of an automatic kill-switch.             *)
THEOREM TerminationRecorded == LifeSpec => []TerminatedHasRecord
  BY InitInv, StepInv, PTL DEF LifeSpec, LifeInv

(* However many requests overlap, the only moves of the row that the table *)
(* forbids are the three stale ones.                                       *)
THEOREM StaleMovesOnly == LifeSpec => OnlyStaleMovesIllegal
<1> DEFINE Legal ==
        status' # status =>
          CanTransition(status, status') \/ <<status, status'>> \in StaleMoves
<1>1. LifeInv /\ [LifeNext]_lifeVars => [Legal]_lifeVars
  <2> SUFFICES ASSUME LifeInv, LifeNext, status' # status PROVE Legal
    BY DEF lifeVars
  <2>1. ASSUME NEW r \in Requests, CommitConnect(r) PROVE Legal
    BY <2>1, ConnectWrites DEF CanTransition, Allowed, SessionStatus, StaleMoves
  <2>2. ASSUME NEW r \in Requests, CommitTerminate(r) PROVE Legal
    BY <2>2, TerminateWrites DEF CanTransition, Allowed, SessionStatus, StaleMoves
  <2>3. ASSUME NEW r \in Requests, CommitReview(r) PROVE Legal
    BY <2>3, ReviewWrites DEF CanTransition, Allowed, SessionStatus, StaleMoves
  <2> QED
    BY <2>1, <2>2, <2>3 DEF LifeNext, RaiseFlag, Disconnect, BeginConnect,
       BeginTerminate, BeginReview, BeginKillSwitch, Begin, CommitKillSwitch
<1> QED
  BY InitInv, StepInv, <1>1, PTL DEF LifeSpec, OnlyStaleMovesIllegal

=============================================================================
