------------------------------ MODULE LtiLaunch ------------------------------
(***************************************************************************)
(* LTI 1.3 launches: /lti/login registers a one-shot state, the platform's *)
(* answer is posted to /lti/launch, which checks the state's issuer, gets  *)
(* the platform's keys, verifies the token, consumes the state and writes  *)
(* the participant and the exam session.  Requests interleave at every     *)
(* await; a browser may post the same answer twice; the platform rotates   *)
(* its keys meanwhile; the participant is read and inserted by replicas    *)
(* that do not see each other's transactions.                              *)
(***************************************************************************)
EXTENDS Naturals, FiniteSets

CONSTANTS
    Issuers, Subjects, Kids,
    Logins,          \* the states (with their nonces) /lti/login draws
    Launches,        \* POST /lti/launch requests
    Answers,         \* the id_tokens platforms post
    Backends,        \* the launch-state stores deployed: "memory", "redis"
    KeySets,         \* the sets of key ids a platform may publish
    StateTtl,        \* lifetime of a state
    KeysTtl,         \* lifetime of a cached JWKS document
    MaxTime,         \* bound on the clock
    MaxRotations,    \* bound on changes of a platform's key set
    None

Token == [state : Logins, nonce : Logins, iss : Issuers, sub : Subjects,
          kid : Kids, valid : BOOLEAN]

ASSUME LtiAssumption ==
    /\ StateTtl \in Nat /\ KeysTtl \in Nat /\ MaxTime \in Nat
    /\ MaxRotations \in Nat
    /\ Backends \subseteq {"memory", "redis"}
    /\ Answers \subseteq Token
    /\ KeySets \subseteq SUBSET Kids
    /\ None \notin Issuers
    /\ None \notin [issuer : Issuers, issued_at : 0..MaxTime]

VARIABLES
    now,
    backend,      \* the store in use
    login,        \* login[s]: the issuer /lti/login was called for, or None
    entries,      \* the launch-state store: state -> pending launch, or None
    published,    \* the key ids each platform publishes (external)
    rotations,
    documents,    \* issuers whose discovery document is cached
    jwks,         \* cached JWKS documents
    launch,       \* per request: token and how far it has come
    participants  \* rows, by natural key

vars == <<now, backend, login, entries, published, rotations, documents, jwks,
          launch, participants>>

-----------------------------------------------------------------------------
Entry == [issuer : Issuers, issued_at : 0..MaxTime]

Document == [keys : SUBSET Kids, fetched_at : 0..MaxTime]

Stage == {"new", "discovery", "key", "fetch", "answered", "verified",
          "process", "commit",
          "done", "rejected", "unknown_kid", "failed", "crashed"}

Ended == {"done", "rejected", "unknown_kid", "failed", "crashed"}

(* got: the JWKS response in flight; tries: refreshes begun; found: the    *)
(* participant row was there when read; key_up: the token's key has been   *)
(* published ever since the request arrived.                               *)
Request == [pc : Stage, token : Token, got : SUBSET Kids, tries : 0..2,
            found : BOOLEAN, key_up : BOOLEAN]

(* Every variable has its type.                                            *)
TypeOK ==
    /\ now \in 0..MaxTime
    /\ backend \in Backends
    /\ login \in [Logins -> Issuers \cup {None}]
    /\ entries \in [Logins -> Entry \cup {None}]
    /\ published \in [Issuers -> KeySets]
    /\ rotations \in 0..MaxRotations
    /\ documents \subseteq Issuers
    /\ jwks \in [Issuers -> Document \cup {None}]
    /\ launch \in [Launches -> Request \cup {None}]
    /\ participants \subseteq Issuers \X Subjects

Init ==
    /\ now = 0
    /\ backend \in Backends
    /\ login = [s \in Logins |-> None]
    /\ entries = [s \in Logins |-> None]
    /\ \E keys \in KeySets : published = [i \in Issuers |-> keys]
    /\ rotations = 0
    /\ documents = {}
    /\ jwks = [i \in Issuers |-> None]
    /\ launch = [l \in Launches |-> None]
    /\ participants = {}

Tick == /\ now < MaxTime
        /\ now' = now + 1
        /\ UNCHANGED <<backend, login, entries, published, rotations, documents, jwks,
                       launch, participants>>

(* The platform changes the keys it publishes (external).                  *)
RotateKeys(i, keys) ==
    /\ rotations < MaxRotations
    /\ keys # published[i]
    /\ rotations' = rotations + 1
    /\ published' = [published EXCEPT ![i] = keys]
    /\ launch' = [l \in Launches |->
         IF launch[l] # None /\ launch[l].token.iss = i
         THEN [launch[l] EXCEPT !.key_up = @ /\ launch[l].token.kid \in keys]
         ELSE launch[l]]
    /\ UNCHANGED <<now, backend, login, entries, documents, jwks, participants>>

-----------------------------------------------------------------------------
(* The launch-state store.  In memory an entry is kept up to its TTL and   *)
(* purged by later calls; Redis drops the key itself when the TTL is up,   *)
(* and its Lua script tests and deletes in one step.                       *)
Aged(entry) == IF backend = "memory" THEN now - entry.issued_at > StateTtl
               ELSE now - entry.issued_at >= StateTtl

_purge_expired_locked ==
    [s \in Logins |-> IF entries[s] # None /\ Aged(entries[s])
                      THEN None ELSE entries[s]]

register(s, issuer) ==
    entries' = [_purge_expired_locked EXCEPT
                  ![s] = [issuer |-> issuer, issued_at |-> now]]

(* Mutant: the registered issuer is never reported.                        *)
peekBlind(s) == None

peek(s) == IF _purge_expired_locked[s] = None THEN None
           ELSE _purge_expired_locked[s].issuer

(* Mutant: a state is validated and not removed.                           *)
consumeKeeping(s, nonce) ==
    entries' = [entries EXCEPT ![s] =
        IF entries[s] # None /\ ~Aged(entries[s]) THEN @ ELSE None]

(* An expired entry is dropped, a wrong nonce leaves the entry in place.   *)
consume(s, nonce) ==
    entries' = [entries EXCEPT ![s] =
        IF entries[s] # None /\ ~Aged(entries[s]) /\ nonce # s THEN @ ELSE None]

Consumable(s, nonce) == entries[s] # None /\ ~Aged(entries[s]) /\ nonce = s

-----------------------------------------------------------------------------
(* GET /lti/login with a fresh state.  A failing discovery fetch ends the  *)
(* request before anything is stored.                                      *)
lti_login(s, iss) ==
    /\ login[s] = None
    /\ login' = [login EXCEPT ![s] = iss]
    /\ documents' = documents \cup {iss}
    /\ register(s, iss)
    /\ UNCHANGED <<now, backend, published, rotations, jwks, launch, participants>>

Goto(l, pc) == launch' = [launch EXCEPT ![l].pc = pc]

(* The request ends; what it held in its frame is gone.                    *)
Frameless(request, pc) ==
    [pc |-> pc, token |-> request.token, got |-> {}, tries |-> 0,
     found |-> FALSE, key_up |-> FALSE]

Close(l, pc) ==
    launch' = [launch EXCEPT ![l] = Frameless(@, pc)]

At(l, pc) == launch[l] # None /\ launch[l].pc = pc

(* POST /lti/launch up to the first outbound call: the token names a state *)
(* the platform was given, and its issuer must be the registered one if    *)
(* the state is still pending.                                             *)
ArriveLaunch(l, token) ==
    /\ launch[l] = None
    /\ login[token.state] # None
    /\ entries' = _purge_expired_locked
    /\ launch' = [launch EXCEPT ![l] =
         [pc |-> IF peek(token.state) \notin {None, token.iss}
                 THEN "rejected" ELSE "discovery",
          token |-> token, got |-> {}, tries |-> 0, found |-> FALSE,
          key_up |-> token.kid \in published[token.iss]]]
    /\ UNCHANGED <<now, backend, login, published, rotations, documents, jwks,
                   participants>>

(* OidcDiscoveryCache.fetch: a document is cached for good, a failure never. *)
FetchDiscovery(l) ==
    /\ At(l, "discovery")
    /\ \/ /\ documents' = documents \cup {launch[l].token.iss}
          /\ Goto(l, "key")
       \/ /\ launch[l].token.iss \notin documents
          /\ Close(l, "failed")
          /\ UNCHANGED documents
    /\ UNCHANGED <<now, backend, login, entries, published, rotations, jwks,
                   participants>>

is_fresh(doc) == now - doc.fetched_at < KeysTtl

CachedKey(iss, kid) == /\ jwks[iss] # None
                       /\ kid \in jwks[iss].keys
                       /\ is_fresh(jwks[iss])

(* Mutant: a fresh document without the key is taken as final.             *)
get_keyTrustingCache(l) ==
    /\ At(l, "key")
    /\ LET t == launch[l].token
       IN  Goto(l, CASE CachedKey(t.iss, t.kid) -> "verified"
                     [] jwks[t.iss] # None /\ is_fresh(jwks[t.iss]) -> "unknown_kid"
                     [] OTHER -> "fetch")
    /\ UNCHANGED <<now, backend, login, entries, published, rotations, documents, jwks,
                   participants>>

(* JwksCache.get_key up to its first await.                                *)
get_key(l) ==
    /\ At(l, "key")
    /\ launch' = [launch EXCEPT
         ![l].pc = IF CachedKey(launch[l].token.iss, launch[l].token.kid)
                   THEN "verified" ELSE "fetch"]
    /\ UNCHANGED <<now, backend, login, entries, published, rotations, documents, jwks,
                   participants>>

(* The platform answers the GET, or it fails.                              *)
AnswerJwks(l) ==
    /\ At(l, "fetch")
    /\ \/ launch' = [launch EXCEPT ![l].pc = "answered", ![l].tries = @ + 1,
                                   ![l].got = published[launch[l].token.iss]]
       \/ Close(l, "failed")
    /\ UNCHANGED <<now, backend, login, entries, published, rotations, documents, jwks,
                   participants>>

(* The response replaces the cache entry, whatever another request stored  *)
(* meanwhile; a key that is still missing is fetched once more.            *)
_refresh(l) ==
    /\ At(l, "answered")
    /\ jwks' = [jwks EXCEPT ![launch[l].token.iss] =
                  [keys |-> launch[l].got, fetched_at |-> now]]
    /\ launch' = [launch EXCEPT ![l] = [@ EXCEPT !.got = {},
         !.pc = CASE launch[l].token.kid \in launch[l].got -> "verified"
                  [] launch[l].tries < 2 -> "fetch"
                  [] OTHER -> "unknown_kid"]]
    /\ UNCHANGED <<now, backend, login, entries, published, rotations, documents,
                   participants>>

(* jwt.decode checks signature, audience, issuer and expiry, then come the *)
(* LTI claims, the policy name and the roles.                              *)
ClaimsAccepted(token) == token.valid

(* The token is verified and the state consumed.                           *)
ConsumeState(l) ==
    /\ At(l, "verified")
    /\ IF ClaimsAccepted(launch[l].token)
       THEN /\ consume(launch[l].token.state, launch[l].token.nonce)
            /\ Goto(l, IF Consumable(launch[l].token.state, launch[l].token.nonce)
                       THEN "process" ELSE "rejected")
       ELSE /\ Close(l, "rejected")
            /\ UNCHANGED entries
    /\ UNCHANGED <<now, backend, login, published, rotations, documents, jwks,
                   participants>>

Person(l) == <<launch[l].token.iss, launch[l].token.sub>>

(* process_launch reads the policy, which may be missing, and the row.     *)
ReadParticipant(l) ==
    /\ At(l, "process")
    /\ \/ launch' = [launch EXCEPT ![l] =
            [@ EXCEPT !.pc = "commit", !.found = Person(l) \in participants]]
       \/ Close(l, "failed")
    /\ UNCHANGED <<now, backend, login, entries, published, rotations, documents, jwks,
                   participants>>

(* The inserts succeed unless the person was not found and is there now.   *)
RowsFit(l) == launch[l].found \/ Person(l) \notin participants

(* Participant (if it was not found) and exam session in one transaction.  *)
(* Another replica's insert of the same person fails it.                   *)
CommitLaunch(l) ==
    /\ At(l, "commit")
    /\ IF RowsFit(l)
       THEN /\ participants' = participants \cup {Person(l)}
            /\ Close(l, "done")
       ELSE /\ Close(l, "failed")
            /\ UNCHANGED participants
    /\ UNCHANGED <<now, backend, login, entries, published, rotations, documents, jwks>>

(* The server restarts: requests in progress and the caches are lost, and  *)
(* so are the pending states unless Redis keeps them.                      *)
Restart ==
    /\ launch' = [l \in Launches |->
         IF launch[l] # None /\ launch[l].pc \notin Ended
         THEN Frameless(launch[l], "crashed")
         ELSE launch[l]]
    /\ documents' = {}
    /\ jwks' = [i \in Issuers |-> None]
    /\ entries' = IF backend = "redis" THEN entries
                  ELSE [s \in Logins |-> None]
    /\ UNCHANGED <<now, backend, login, published, rotations, participants>>

LaunchStep(l) == \/ FetchDiscovery(l) \/ get_key(l) \/ AnswerJwks(l)
                 \/ _refresh(l) \/ ConsumeState(l) \/ ReadParticipant(l)
                 \/ CommitLaunch(l)

Next == \/ Tick
        \/ \E i \in Issuers, keys \in KeySets : RotateKeys(i, keys)
        \/ \E s \in Logins, i \in Issuers : lti_login(s, i)
        \/ \E l \in Launches : \/ \E t \in Answers : ArriveLaunch(l, t)
                               \/ LaunchStep(l)
        \/ Restart

Spec == Init /\ [][Next]_vars

-----------------------------------------------------------------------------
(* However often an answer is posted, and however the posts interleave, a  *)
(* login leads to at most one exam session: only one request ever gets     *)
(* past consume with a given state.                                        *)
StateUsedOnce ==
    \A l, m \in Launches :
        /\ launch[l] # None /\ launch[l].pc \in {"process", "commit", "done"}
        /\ launch[m] # None /\ launch[m].pc \in {"process", "commit", "done"}
        /\ launch[l].token.state = launch[m].token.state
        => l = m

(* A launch that gets past consume carries the issuer its login was        *)
(* registered for, although only peek compares them, before two awaits,    *)
(* and only if it finds the state.                                         *)
IssuerIsTheLoginsIssuer ==
    \A l \in Launches :
        launch[l] # None /\ launch[l].pc \in {"process", "commit", "done"}
            => login[launch[l].token.state] = launch[l].token.iss

(* No launch is refused for an unknown key while the platform publishes    *)
(* that key, however old the cached document and whatever response a       *)
(* concurrent request stores.                                              *)
PublishedKeyIsFound ==
    \A l \in Launches : At(l, "unknown_kid") => ~launch[l].key_up
=============================================================================
