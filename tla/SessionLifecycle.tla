-------------------------- MODULE SessionLifecycle --------------------------
(***************************************************************************)
(* The life of one exam session's row: its status, its termination record  *)
(* and its reviews, under concurrent requests.  The transition table is    *)
(* that of orchestration/_state_machine.py; the requests are the WebSocket *)
(* handshake (websocket/routes.py), POST /terminate (_routes.py), POST     *)
(* /admin/flags/{id}/review (_admin_service.py) and the persistence        *)
(* worker's kill-switch (_flag_persistence_worker.py).                     *)
(*                                                                         *)
(* Each request reads the row in one step and commits in a later one, with *)
(* nothing that would make the commit fail if the status has changed since:*)
(* PostgreSQL runs at READ COMMITTED and no request locks the row.         *)
(***************************************************************************)
EXTENDS Integers, FiniteSets

CONSTANTS Requests,   \* request handlers in progress at the same time
          MaxBegun    \* bound of the model: requests begun

ASSUME LifecycleAssumption == MaxBegun \in Nat

SessionStatus == {"pending", "active", "completed", "terminated",
                  "under_review", "reinstated"}

ReviewDecision == {"upheld", "overturned", "annotated", "needs_more_info"}

(* _ALLOWED.                                                               *)
Allowed ==
    [s \in SessionStatus |->
        CASE s = "pending" -> {"active", "terminated"}
          [] s = "active" -> {"completed", "terminated", "under_review"}
          [] s = "completed" -> {"under_review"}
          [] s = "terminated" -> {"under_review", "reinstated"}
          [] s = "reinstated" -> {"under_review"}
          [] s = "under_review" -> {}]

(* can_transition and assert_transition.                                   *)
CanTransition(current, target) == target \in Allowed[current]

VARIABLES
    status,          \* exam_sessions.status
    record,          \* termination_records: who wrote it, or "none"
    reviews,         \* decisions in proctor_reviews
    identity,        \* exam_sessions.identity_verification_status
    request,         \* what each handler has read and is about to write
    flagged,         \* the session has a row in flags
    live,            \* handlers of open telemetry connections
    orphans,         \* dispatcher threads whose handler has died
    begun

lifeVars == <<status, record, reviews, identity, request, flagged, live,
              orphans, begun>>

Free == [op |-> "free"]

(* What a handler has read and decided.                                    *)
Handling ==
    {Free}
    \cup [op : {"connect"}, read : SessionStatus,
          backend : {"available", "override", "none"}]
    \cup [op : {"terminate"}, read : SessionStatus]
    \cup [op : {"review"}, read : SessionStatus, decision : ReviewDecision]
    \cup [op : {"kill_switch"}]

LifeInit ==
    /\ status = "pending"      \* lti/service.py creates the row so
    /\ record = "none"
    /\ reviews = {}
    /\ identity = "pending_check"
    /\ request = [r \in Requests |-> Free]
    /\ flagged = FALSE
    /\ live = 0 /\ orphans = 0
    /\ begun = 0

-----------------------------------------------------------------------------
(* Reading. *)
Begin(r, next) ==
    /\ request[r] = Free
    /\ begun < MaxBegun
    /\ begun' = begun + 1
    /\ request' = [request EXCEPT ![r] = next]
    /\ UNCHANGED <<status, record, reviews, identity, flagged,
                   live, orphans>>

(* _lookup_session and the identity check: whether the backend could be    *)
(* constructed, and if not whether an approved override covers now.        *)
(* The handshake makes its database calls without an await, so handshakes  *)
(* handled by one process do not overlap each other.                       *)
BeginConnect(r) ==
    /\ status \in {"pending", "active"}
    /\ \A q \in Requests : request[q].op # "connect"
    /\ \E answer \in {"available", "override", "none"} :
          Begin(r, [op |-> "connect", read |-> status, backend |-> answer])

(* post_terminate up to the transition check; the flag it names may be of  *)
(* another session.                                                        *)
BeginTerminate(r) ==
    /\ CanTransition(status, "terminated")
    /\ Begin(r, [op |-> "terminate", read |-> status])

(* record_proctor_review up to the commit.                                 *)
BeginReview(r) ==
    /\ flagged
    /\ \E decision \in ReviewDecision :
          Begin(r, [op |-> "review", read |-> status, decision |-> decision])

(* _handle_kill_switch of a live connection's worker finds no record.      *)
BeginKillSwitch(r) ==
    /\ live > 0 /\ flagged
    /\ record = "none"
    /\ Begin(r, [op |-> "kill_switch"])

-----------------------------------------------------------------------------
(* Committing. *)
Finish(r) == request' = [request EXCEPT ![r] = Free] /\ UNCHANGED begun

(* termination_records.exam_session_id is unique: a second insert fails    *)
(* and takes the whole transaction with it.                                *)
InsertRecord(by) == record = "none" /\ record' = by

(* Mutant: every handshake writes active, whatever it read.                *)
ActivatedAlways(read) == "active"

(* _activate_session: only a session read as pending is written.           *)
Activated(read) == IF read = "pending" THEN "active" ELSE status

(* The handshake's three identity cases.  In the second the dispatcher     *)
(* starts its thread and then raises, because _emit_identity_unavailable_  *)
(* flag uses an attribute that does not exist: the handler dies before its *)
(* try block and nothing stops the thread.  identity_verification_status   *)
(* is saved only by the commit that activates a pending session.           *)
CommitConnect(r) ==
    /\ request[r].op = "connect"
    /\ Finish(r)
    /\ \/ /\ request[r].backend = "available"
          /\ status' = Activated(request[r].read)
          /\ live' = live + 1
          /\ UNCHANGED <<record, identity, orphans>>
       \/ /\ request[r].backend = "override"
          /\ status' = Activated(request[r].read)
          /\ identity' = IF request[r].read = "pending" THEN "unavailable"
                                                         ELSE identity
          /\ orphans' = orphans + 1
          /\ UNCHANGED <<record, live>>
       \/ /\ request[r].backend = "none"
          /\ InsertRecord("identity")
          /\ status' = "terminated"
          /\ UNCHANGED <<identity, live, orphans>>
       \/ /\ request[r].backend = "none"
          /\ record # "none"
          /\ UNCHANGED <<status, record, identity, live, orphans>>
    /\ UNCHANGED <<reviews, flagged>>

(* Mutant: the status is committed before the record is inserted.          *)
CommitTerminateStatusFirst(r) ==
    /\ request[r].op = "terminate"
    /\ Finish(r)
    /\ status' = "terminated"
    /\ UNCHANGED <<record, reviews, identity, flagged, live, orphans>>

CommitTerminate(r) ==
    /\ request[r].op = "terminate"
    /\ Finish(r)
    /\ \/ InsertRecord("request") /\ status' = "terminated"
       \/ record # "none" /\ UNCHANGED <<record, status>>
    /\ UNCHANGED <<reviews, identity, flagged, live, orphans>>

WithReview(decision) == reviews \cup {decision}

(* The status a review leads to, from the status it read; the other two    *)
(* decisions leave it alone.                                               *)
ReviewedStatus(read, decision) ==
    CASE decision = "upheld" /\ read \in {"active", "terminated", "completed"}
             -> "under_review"
      [] decision = "overturned" /\ read = "terminated" -> "reinstated"
      [] OTHER -> status

CommitReview(r) ==
    /\ request[r].op = "review"
    /\ Finish(r)
    /\ reviews' = WithReview(request[r].decision)
    /\ status' = ReviewedStatus(request[r].read, request[r].decision)
    /\ UNCHANGED <<record, identity, flagged, live, orphans>>

(* The worker writes the record and leaves the status alone.               *)
CommitKillSwitch(r) ==
    /\ request[r].op = "kill_switch"
    /\ Finish(r)
    /\ \/ InsertRecord("kill_switch")
       \/ record # "none" /\ UNCHANGED record
    /\ UNCHANGED <<status, reviews, identity, flagged, live, orphans>>

(* A live connection's worker commits the session's first flag.            *)
RaiseFlag ==
    /\ live > 0
    /\ ~flagged
    /\ flagged' = TRUE
    /\ UNCHANGED <<status, record, reviews, identity, request, live, orphans, begun>>

(* The candidate's connection ends; a handler does not end on its own when *)
(* the session is terminated.                                              *)
Disconnect ==
    /\ live > 0
    /\ live' = live - 1
    /\ UNCHANGED <<status, record, reviews, identity, request, flagged,
                   orphans, begun>>

LifeNext ==
    \/ RaiseFlag \/ Disconnect
    \/ \E r \in Requests :
          \/ BeginConnect(r) \/ BeginTerminate(r) \/ BeginReview(r)
          \/ BeginKillSwitch(r)
          \/ CommitConnect(r) \/ CommitTerminate(r) \/ CommitReview(r)
          \/ CommitKillSwitch(r)

LifeSpec == LifeInit /\ [][LifeNext]_lifeVars

-----------------------------------------------------------------------------
(* Every variable has its type.                                            *)
LifeTypeOK ==
    /\ status \in SessionStatus
    /\ record \in {"none", "identity", "request", "kill_switch"}
    /\ reviews \subseteq ReviewDecision
    /\ identity \in {"pending_check", "unavailable"}
    /\ flagged \in BOOLEAN
    /\ live \in Nat /\ orphans \in Nat /\ begun \in 0 .. MaxBegun
    /\ request \in [Requests -> Handling]

(* Whatever requests overlap, a session that reads terminated, or that was *)
(* reinstated by a review, has the record of the request or of the refused *)
(* handshake that terminated it (both commit record and status at once or  *)
(* neither).  A session the automatic kill-switch ended is never among     *)
(* them: the worker leaves the status alone, so no review can undo it.     *)
TerminatedHasRecord ==
    status \in {"terminated", "reinstated"} => record \in {"identity", "request"}

(* Whatever requests overlap, the row itself makes only moves of the table *)
(* and the three that a handler can still make from a status that has      *)
(* changed since it looked: a handshake that read pending activates a      *)
(* session terminated meanwhile, POST /terminate or a refused handshake    *)
(* ends one that went under review, and a second review reinstates one     *)
(* that the first had put under review.  No other illegal move happens, so *)
(* a reviewed session is never activated, nor a reinstated one terminated  *)
(* (_activate_session, post_terminate, record_proctor_review).             *)
StaleMoves == {<<"terminated", "active">>, <<"under_review", "terminated">>,
               <<"under_review", "reinstated">>}

OnlyStaleMovesIllegal ==
    [][status' # status =>
          CanTransition(status, status') \/ <<status, status'>> \in StaleMoves]_lifeVars
=============================================================================
