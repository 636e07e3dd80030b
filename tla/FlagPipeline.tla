---------------------------- MODULE FlagPipeline ----------------------------
(***************************************************************************)
(* From a client message to a durable flag and a kill-switch.  Every       *)
(* WebSocket connection owns a dispatcher thread (_frame_dispatcher.py)    *)
(* with its own SessionAggregator, and a persistence-worker thread         *)
(* (_flag_persistence_worker.py); all connections of the process share one *)
(* TelemetryEventBuffer (api.py) and one database.  POST /terminate        *)
(* (_routes.py) runs concurrently.                                         *)
(*                                                                         *)
(* Two of the aggregator's rules stand for all: the second-person window   *)
(* (several events, terminating) and browser blur events (one event, MEDIUM*)
(* and scored, with the accumulated-score flag on top).  SessionAggregator *)
(* models the rules themselves.  A telemetry event's id is its buffer seq. *)
(***************************************************************************)
EXTENDS TelemetryEventBuffer, FiniteSets, Functions

CONSTANTS Sessions, Conns,
          SessionOf,           \* the session each connection's token names
          ConfirmationFrames,  \* second_face_confirmation_frames
          Threshold,           \* medium_score_termination_threshold
          MaxFaults,           \* bounds of the model: database errors,
          MaxDisconnects       \*   connections that end

NoFlag == 0
Kinds == {"second_face", "one_face", "blur"}

ASSUME PipelineAssumption ==
    /\ SessionOf \in [Conns -> Sessions]
    /\ Messages = [session : Sessions, kind : Kinds]
    /\ Consumers = Conns
    /\ ConfirmationFrames \in Nat \ {0} /\ Threshold \in Nat
    /\ MaxFaults \in Nat /\ MaxDisconnects \in Nat

VARIABLES
    conn,         \* lifecycle of each connection's handler
    batch,        \* events the dispatcher drained and has yet to dispatch
    cached,       \* _event_id_to_buffered: ids whose event is still held
    streak,       \* _second_person_event_ids
    personFired,  \* _second_person_fired
    score,        \* _accumulated_score
    queue,        \* flag_decisions
    worker,       \* what the persistence worker is doing
    telemetry,    \* rows of telemetry_events
    flags,        \* rows of flags with their links, in commit order
    termination,  \* termination_records: the triggering flag, or NoFlag
    dbScore,      \* exam_sessions.accumulated_medium_score
    status,       \* exam_sessions.status
    killed,       \* kill-switch callbacks that reached a live connection
    emittedBy,    \* history: decisions each dispatcher has queued
    rejected,     \* history: decisions refused for a missing telemetry row
    faulted       \* history: decisions that met a database error

threadVars == <<conn, batch, cached, streak, personFired, score, queue, worker>>
dbVars == <<telemetry, flags, termination, dbScore, status>>
auxVars == <<killed, emittedBy, rejected, faulted>>
pipelineVars == <<vars, threadVars, dbVars, auxVars>>

Idle == [pc |-> "idle"]        \* the worker waits in flag_decisions.get
Stopped == [pc |-> "stopped"]  \* its thread has left _run_loop

PipelineInit ==
    /\ Init
    /\ conn = [c \in Conns |-> "new"]
    /\ batch = [c \in Conns |-> <<>>]
    /\ cached = [c \in Conns |-> {}]
    /\ streak = [c \in Conns |-> {}]
    /\ personFired = [c \in Conns |-> FALSE]
    /\ score = [c \in Conns |-> 0]
    /\ queue = [c \in Conns |-> <<>>]
    /\ worker = [c \in Conns |-> Idle]
    /\ telemetry = {}
    /\ flags = <<>>
    /\ termination = [s \in Sessions |-> NoFlag]
    /\ dbScore = [s \in Sessions |-> 0]
    /\ status = [s \in Sessions |-> "pending"]
    /\ killed = {}
    /\ emittedBy = [c \in Conns |-> 0]
    /\ rejected = {}
    /\ faulted = {}

-----------------------------------------------------------------------------
(* The handler's life. *)

(* All handlers share one event loop, which a closing handler blocks while *)
(* it joins its threads.                                                   *)
LoopFree == \A c \in Conns : conn[c] # "stopping_worker"

(* websocket_endpoint: a pending or active session may connect; it becomes *)
(* active, and both threads start.                                         *)
Connect(c) ==
    /\ conn[c] = "new"
    /\ LoopFree
    /\ status[SessionOf[c]] \in {"pending", "active"}
    /\ conn' = [conn EXCEPT ![c] = "open"]
    /\ status' = [status EXCEPT ![SessionOf[c]] = "active"]
    /\ UNCHANGED <<vars, batch, cached, streak, personFired, score, queue,
                   worker, telemetry, flags, termination, dbScore, auxVars>>

(* _message_loop: a message whose session_id matches the token is buffered.*)
Receive(c, kind) ==
    /\ conn[c] = "open"
    /\ LoopFree
    /\ Push([session |-> SessionOf[c], kind |-> kind])
    /\ UNCHANGED <<threadVars, dbVars, auxVars>>

(* The finally block: the kill-switch drain task is cancelled, then the    *)
(* worker is told to stop, then the dispatcher.  Each stop waits for its   *)
(* thread for a bounded time only.                                         *)
Disconnect(c) ==
    /\ conn[c] = "open"
    /\ LoopFree
    /\ Cardinality({d \in Conns : conn[d] = "closed"}) < MaxDisconnects
    /\ conn' = [conn EXCEPT ![c] = "stopping_worker"]
    /\ UNCHANGED <<vars, batch, cached, streak, personFired, score, queue,
                   worker, dbVars, auxVars>>

(* dispatcher.stop, once the worker has left or its join has timed out in  *)
(* the middle of a decision.  The rest of the drained batch and the queued *)
(* decisions are abandoned and the aggregator goes with the handler.       *)
StopDispatcher(c) ==
    /\ conn[c] = "stopping_worker"
    /\ worker[c] # Idle
    /\ conn' = [conn EXCEPT ![c] = "closed"]
    /\ batch' = [batch EXCEPT ![c] = <<>>]
    /\ cached' = [cached EXCEPT ![c] = {}]
    /\ streak' = [streak EXCEPT ![c] = {}]
    /\ personFired' = [personFired EXCEPT ![c] = FALSE]
    /\ score' = [score EXCEPT ![c] = 0]
    /\ queue' = [queue EXCEPT ![c] = <<>>]
    /\ UNCHANGED <<vars, worker, dbVars, auxVars>>

-----------------------------------------------------------------------------
(* The dispatcher thread. *)
DispatcherRuns(c) == conn[c] \in {"open", "stopping_worker"}

(* _run_loop: take everything the shared buffer holds.                     *)
DrainBatch(c) ==
    /\ DispatcherRuns(c)
    /\ batch[c] = <<>>
    /\ Drain(c)
    /\ batch' = [batch EXCEPT ![c] = buf]
    /\ UNCHANGED <<conn, cached, streak, personFired, score, queue, worker,
                   dbVars, auxVars>>

Decision(rule, terminates, ids, delta) ==
    [rule |-> rule, triggered_termination |-> terminates, ids |-> ids,
     score_delta |-> delta]

(* What the aggregator answers to one event: path 1 and the browser path.  *)
SecondPersonDecisions(c, id) ==
    IF ~personFired[c] /\ Cardinality(streak[c]) + 1 >= ConfirmationFrames
    THEN <<Decision("second_person", TRUE, streak[c] \cup {id}, 0)>>
    ELSE <<>>

BlurDecisions(c, id) ==
    <<Decision("browser_event", FALSE, {id}, 1)>>
    \o (IF Threshold > 0 /\ score[c] + 1 >= Threshold
        THEN <<Decision("accumulated_score", TRUE, {id}, 0)>> ELSE <<>>)

Decisions(c, event) ==
    CASE event.message.kind = "second_face" -> SecondPersonDecisions(c, event.seq)
      [] event.message.kind = "blur" -> BlurDecisions(c, event.seq)
      [] OTHER -> <<>>

(* The frames of the second-person streak, once the event is processed.    *)
StreakAfter(c, event) ==
    CASE event.message.kind = "second_face" /\ ~personFired[c]
             -> streak[c] \cup {event.seq}
      [] event.message.kind = "one_face" /\ ~personFired[c] -> {}
      [] OTHER -> streak[c]

(* _emit: each decision carries the buffered events of its ids that are    *)
(* still cached, and takes them out of the cache, so a later decision      *)
(* about the same ids travels without them.                                *)
PersistedFlags(c, decisions, held) ==
    [i \in 1 .. Len(decisions) |->
        LET earlier == UNION {decisions[j].ids : j \in 1 .. i - 1}
        IN  [decision |-> decisions[i],
             n |-> emittedBy[c] + i,
             events |-> (decisions[i].ids \cap held) \ earlier]]

(* Mutant: the newest decision overtakes the queue.                        *)
EnqueueFront(c, items) == items \o queue[c]

Enqueue(c, items) == queue[c] \o items

(* _dispatch_event for the next event of the batch.                        *)
Dispatch(c) ==
    /\ DispatcherRuns(c)
    /\ batch[c] # <<>>
    /\ LET event == Head(batch[c])
           kind == event.message.kind
           decisions == Decisions(c, event)
           held == cached[c] \cup {event.seq}
       IN  /\ batch' = [batch EXCEPT ![c] = Tail(@)]
           /\ streak' = [streak EXCEPT ![c] = StreakAfter(c, event)]
           /\ personFired' = [personFired EXCEPT ![c] =
                 @ \/ (kind = "second_face" /\ decisions # <<>>)]
           /\ score' = [score EXCEPT ![c] = IF kind = "blur" THEN @ + 1 ELSE @]
           /\ cached' = [cached EXCEPT ![c] =
                 held \ UNION {decisions[i].ids : i \in 1 .. Len(decisions)}]
           /\ queue' = [queue EXCEPT ![c] =
                           Enqueue(c, PersistedFlags(c, decisions, held))]
           /\ emittedBy' = [emittedBy EXCEPT ![c] = @ + Len(decisions)]
    /\ UNCHANGED <<vars, conn, worker, dbVars, killed, rejected, faulted>>

-----------------------------------------------------------------------------
(* The persistence worker thread. *)

(* Back in _run_loop: the stop event is looked at before the next get.     *)
Rest(c) == IF conn[c] = "open" THEN Idle ELSE Stopped

(* get timed out and the stop event is set.                                *)
WorkerExit(c) ==
    /\ conn[c] = "stopping_worker"
    /\ worker[c] = Idle
    /\ worker' = [worker EXCEPT ![c] = Stopped]
    /\ UNCHANGED <<vars, conn, batch, cached, streak, personFired, score, queue,
                   dbVars, auxVars>>

(* _run_loop and _resolve_session: take one decision, open a transaction   *)
(* and read the session row; its score is read here and written at commit. *)
(* A worker already waiting in get when it is told to stop may still take  *)
(* one.                                                                    *)
PersistBegin(c) ==
    /\ worker[c] = Idle
    /\ queue[c] # <<>>
    /\ queue' = [queue EXCEPT ![c] = Tail(@)]
    /\ worker' = [worker EXCEPT ![c] = [pc |-> "persist",
                                        item |-> Head(queue[c]),
                                        read |-> dbScore[SessionOf[c]]]]
    /\ UNCHANGED <<vars, conn, batch, cached, streak, personFired, score,
                   dbVars, auxVars>>

(* _insert_telemetry_event: rows carry the worker's own session; from is   *)
(* the session whose client sent the event (history).                      *)
TelemetryRows(c, ids) ==
    {[id |-> id, session |-> SessionOf[c], from |-> pushed[id + 1].session] :
        id \in ids}

RowIds == {row.id : row \in telemetry}

FlagRow(c) ==
    LET item == worker[c].item
    IN  [session |-> SessionOf[c], conn |-> c, n |-> item.n,
         rule |-> item.decision.rule,
         triggered_termination |-> item.decision.triggered_termination,
         ids |-> item.decision.ids, score_delta |-> item.decision.score_delta]

(* Mutant: the links carry no foreign key.                                 *)
LinksUnchecked(c) == TRUE

(* The links' foreign key: every contributing id has a telemetry row.      *)
LinksResolve(c) ==
    worker[c].item.decision.ids \subseteq RowIds \cup worker[c].item.events

(* Mutant: the score is overwritten by the delta instead of increased.     *)
NewScoreOverwrites(c) == worker[c].item.decision.score_delta

NewScore(c) == worker[c].read + worker[c].item.decision.score_delta

(* persist_flag_decision: telemetry rows, flag, links and score in one     *)
(* commit.  A terminating flag goes on to the kill-switch.                 *)
PersistCommit(c) ==
    /\ worker[c].pc = "persist"
    /\ LinksResolve(c)
    /\ telemetry' = telemetry \cup TelemetryRows(c, worker[c].item.events)
    /\ flags' = Append(flags, FlagRow(c))
    /\ dbScore' = [dbScore EXCEPT ![SessionOf[c]] =
                      IF worker[c].item.decision.score_delta > 0
                      THEN NewScore(c) ELSE @]
    /\ worker' = [worker EXCEPT ![c] =
                     IF worker[c].item.decision.triggered_termination
                     THEN [pc |-> "kill_read", flag |-> Len(flags) + 1]
                     ELSE Rest(c)]
    /\ UNCHANGED <<vars, conn, batch, cached, streak, personFired, score, queue,
                   termination, status, auxVars>>

(* The transaction fails: FlagPersistenceError on the links, or a database *)
(* error.  It is rolled back, logged and not retried.                      *)
PersistRejected(c) ==
    /\ worker[c].pc = "persist"
    /\ ~LinksResolve(c)
    /\ worker' = [worker EXCEPT ![c] = Rest(c)]
    /\ rejected' = rejected \cup {<<c, worker[c].item.n>>}
    /\ UNCHANGED <<vars, conn, batch, cached, streak, personFired, score, queue,
                   dbVars, killed, emittedBy, faulted>>

(* Mutant: the exception of a failed decision ends the thread.             *)
PersistFaultKillsThread(c) ==
    /\ worker[c].pc = "persist"
    /\ Cardinality(faulted) < MaxFaults
    /\ faulted' = faulted \cup {<<c, worker[c].item.n>>}
    /\ worker' = [worker EXCEPT ![c] = Stopped]
    /\ UNCHANGED <<vars, conn, batch, cached, streak, personFired, score, queue,
                   dbVars, killed, emittedBy, rejected>>

PersistFault(c) ==
    /\ worker[c].pc = "persist"
    /\ Cardinality(faulted) < MaxFaults
    /\ faulted' = faulted \cup {<<c, worker[c].item.n>>}
    /\ worker' = [worker EXCEPT ![c] = Rest(c)]
    /\ UNCHANGED <<vars, conn, batch, cached, streak, personFired, score, queue,
                   dbVars, killed, emittedBy, rejected>>

(* _handle_kill_switch: look for the session's record.                     *)
KillRead(c) ==
    /\ worker[c].pc = "kill_read"
    /\ worker' = [worker EXCEPT ![c] =
          [pc |-> IF termination[SessionOf[c]] = NoFlag
                  THEN "kill_insert" ELSE "kill_update",
           flag |-> worker[c].flag]]
    /\ UNCHANGED <<vars, conn, batch, cached, streak, personFired, score, queue,
                   dbVars, auxVars>>

(* Mutant: the callback runs before the record is committed, so it also    *)
(* runs when the insert then meets the unique constraint.                  *)
KillInsertCallbackFirst(c) ==
    /\ worker[c].pc = "kill_insert"
    /\ termination' = [termination EXCEPT ![SessionOf[c]] =
                          IF @ = NoFlag THEN worker[c].flag ELSE @]
    /\ killed' = IF conn[c] = "open" THEN killed \cup {worker[c].flag}
                                     ELSE killed
    /\ worker' = [worker EXCEPT ![c] = Rest(c)]
    /\ UNCHANGED <<vars, conn, batch, cached, streak, personFired, score, queue,
                   telemetry, flags, dbScore, status, emittedBy, rejected,
                   faulted>>

(* No record was found: insert one.  exam_session_id is unique, so if one  *)
(* has appeared meanwhile the insert fails and the callback is not run.    *)
(* The callback reaches the client's queue while the connection is open.   *)
KillInsert(c) ==
    LET s == SessionOf[c]
        inserted == termination[s] = NoFlag
    IN  /\ worker[c].pc = "kill_insert"
        /\ termination' = IF inserted
                          THEN [termination EXCEPT ![s] = worker[c].flag]
                          ELSE termination
        /\ killed' = IF inserted /\ conn[c] = "open"
                     THEN killed \cup {worker[c].flag} ELSE killed
        /\ worker' = [worker EXCEPT ![c] = Rest(c)]
        /\ UNCHANGED <<vars, conn, batch, cached, streak, personFired, score,
                       queue, telemetry, flags, dbScore, status, emittedBy,
                       rejected, faulted>>

(* Mutant: the record takes the update.                                    *)
KillUpdateAccepted(c) ==
    /\ worker[c].pc = "kill_update"
    /\ termination' = [termination EXCEPT ![SessionOf[c]] = worker[c].flag]
    /\ worker' = [worker EXCEPT ![c] = Rest(c)]
    /\ UNCHANGED <<vars, conn, batch, cached, streak, personFired, score, queue,
                   telemetry, flags, dbScore, status, auxVars>>

(* A record was found: the update is flushed, the before_update listener   *)
(* raises ImmutableRecordError, the transaction is rolled back and the     *)
(* callback is not run.                                                    *)
KillUpdate(c) ==
    /\ worker[c].pc = "kill_update"
    /\ worker' = [worker EXCEPT ![c] = Rest(c)]
    /\ UNCHANGED <<vars, conn, batch, cached, streak, personFired, score, queue,
                   dbVars, auxVars>>

(* A database error after the flag was committed and before the record is: *)
(* the rest of _handle_kill_switch is skipped and nothing takes it up.     *)
KillFault(c) ==
    /\ worker[c].pc \in {"kill_read", "kill_insert", "kill_update"}
    /\ Cardinality(faulted) < MaxFaults
    /\ faulted' = faulted \cup {<<c, flags[worker[c].flag].n>>}
    /\ worker' = [worker EXCEPT ![c] = Rest(c)]
    /\ UNCHANGED <<vars, conn, batch, cached, streak, personFired, score, queue,
                   dbVars, killed, emittedBy, rejected>>

(* POST /sessions/{id}/terminate naming an existing flag, of whichever     *)
(* session: status and record in one commit; an existing record makes the  *)
(* commit fail whole.                                                      *)
PostTerminate(s, flag) ==
    /\ status[s] \in {"pending", "active"}
    /\ flag \in 1 .. Len(flags)
    /\ termination[s] = NoFlag
    /\ status' = [status EXCEPT ![s] = "terminated"]
    /\ termination' = [termination EXCEPT ![s] = flag]
    /\ UNCHANGED <<vars, threadVars, telemetry, flags, dbScore, auxVars>>

WorkerStep(c) == \/ WorkerExit(c) \/ PersistBegin(c) \/ PersistCommit(c)
                 \/ PersistRejected(c) \/ KillRead(c) \/ KillInsert(c) \/ KillUpdate(c)

PipelineNext ==
    \/ \E c \in Conns :
          \/ Connect(c) \/ Disconnect(c) \/ StopDispatcher(c)
          \/ \E kind \in Kinds : Receive(c, kind)
          \/ DrainBatch(c) \/ Dispatch(c)
          \/ WorkerStep(c) \/ PersistFault(c) \/ KillFault(c)
    \/ \E s \in Sessions, flag \in 1 .. Len(flags) : PostTerminate(s, flag)

(* Both threads of a connection loop forever: while one of their steps     *)
(* stays possible they take it.  Nothing obliges clients to send or to     *)
(* stay connected, or administrators to act.                               *)
PipelineFairness ==
    \A c \in Conns : /\ WF_pipelineVars(DrainBatch(c) \/ Dispatch(c))
                     /\ WF_pipelineVars(WorkerStep(c))

PipelineSpec == PipelineInit /\ [][PipelineNext]_pipelineVars
FairPipelineSpec == PipelineSpec /\ PipelineFairness

-----------------------------------------------------------------------------
(* Every variable has its type.                                            *)
PipelineTypeOK ==
    /\ TypeOK
    /\ conn \in [Conns -> {"new", "open", "stopping_worker", "closed"}]
    /\ \A c \in Conns :
          /\ batch[c] \in Seq(BufferedEvent)
          /\ cached[c] \cup streak[c] \subseteq 0 .. seq - 1
          /\ personFired[c] \in BOOLEAN
          /\ score[c] \in Nat
          /\ worker[c].pc \in {"idle", "stopped", "persist", "kill_read",
                               "kill_insert", "kill_update"}
          /\ \A i \in 1 .. Len(queue[c]) : queue[c][i].n \in 1 .. emittedBy[c]
    /\ \A row \in telemetry : row.id \in 0 .. seq - 1
    /\ \A i \in 1 .. Len(flags) : flags[i].session \in Sessions
    /\ termination \in [Sessions -> 0 .. Len(flags)]
    /\ dbScore \in [Sessions -> Nat]
    /\ status \in [Sessions -> {"pending", "active", "terminated"}]
    /\ killed \subseteq 1 .. Len(flags)
    /\ emittedBy \in [Conns -> Nat]
    /\ rejected \cup faulted \subseteq Conns \X Nat

(* The flags one connection commits appear in the order its aggregator     *)
(* emitted them and none appears twice, whatever was rejected, failed or   *)
(* was lost to a disconnect in between (the queue of PersistedFlag and the *)
(* single worker that drains it).                                          *)
FlagsInEmissionOrder ==
    \A i, j \in 1 .. Len(flags) :
        i < j /\ flags[i].conn = flags[j].conn => flags[i].n < flags[j].n

(* Every link of a committed flag leads to a telemetry row of the flag's   *)
(* own session, whichever failures came before (persist_flag_decision,     *)
(* flag_telemetry_events foreign key).                                     *)
FlagsLinkToOwnTelemetry ==
    \A i \in 1 .. Len(flags) : \A id \in flags[i].ids :
        \E row \in telemetry : row.id = id /\ row.session = flags[i].session

FlagsOf(s) == {i \in 1 .. Len(flags) : flags[i].session = s}

ScoreDelta == [i \in 1 .. Len(flags) |-> flags[i].score_delta]

(* The persisted accumulator of a session is the sum of the increments of  *)
(* its persisted flags, whatever is rejected, fails or is lost in between: *)
(* none is lost, none is counted twice (docs/05 path 3, "Each MEDIUM Flag  *)
(* adds a weighted increment").  It needs one connection at a time for a   *)
(* session: the score is read when a transaction opens and written back.   *)
PersistedScoreMatchesFlags ==
    \A s \in Sessions :
        dbScore[s] = SumFunctionOnSet(ScoreDelta, FlagsOf(s))

(* A kill-switch reaches a client only for the flag the session's durable  *)
(* record names, although POST /terminate may write that record between    *)
(* the worker's query and its insert (_handle_kill_switch: "The            *)
(* kill-switch callback is invoked last, after the TerminationRecord is    *)
(* committed").                                                            *)
KillSwitchBackedByRecord ==
    \A f \in killed : termination[flags[f].session] = f

(* A termination record, once committed, never changes: neither a later    *)
(* terminating flag nor POST /terminate rewrites what ended the session    *)
(* (models.py, ImmutableRecordError).                                      *)
RecordImmutable ==
    [][\A s \in Sessions :
          termination[s] # NoFlag => termination'[s] = termination[s]]_pipelineVars

Settled(c, n) ==
    \/ \E i \in 1 .. Len(flags) : flags[i].conn = c /\ flags[i].n = n
    \/ <<c, n>> \in rejected \cup faulted

(* As long as the client stays connected every decision the dispatcher     *)
(* queues is eventually committed or has failed: one failing decision does *)
(* not stop the worker thread (_run_loop).                                 *)
DecisionsSettle ==
    \A c \in Conns : \A n \in 1 .. 2 * MaxPushes :
        emittedBy[c] >= n ~> Settled(c, n) \/ conn[c] # "open"

-----------------------------------------------------------------------------
(* What the documentation says of the pipeline and the code does not do.   *)

(* persist_flag_decision: "cross-session flag links are an audit bug": a   *)
(* telemetry row carries the session whose client sent the event.          *)
NoCrossSessionTelemetry == \A row \in telemetry : row.session = row.from
=============================================================================
