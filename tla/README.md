# AI-Proctor-Engine in TLA+

A verification project for the proctoring engine: TLA+ modules for its parts, TLC
configurations that check them on small instances, and TLAPS proofs of what must
hold for every size. Paths below are relative to the repository; Python paths to
src/proctoring_engine.

## 1. The system

A candidate's browser page (client/) captures camera frames, audio and browser
events and sends telemetry over a WebSocket, through a Cloudflare gateway
(gateway/), to the engine (src/proctoring_engine). The engine runs inference
models, fuses their results into flags, stores flags and termination records in
PostgreSQL, and tells the page to lock itself when an exam is terminated
(the kill-switch). Proctors review flags over an HTTP API, attach evidence blobs to
them and administer policies; exams are launched through LTI.

| Component | State | Operations | Talks to |
|---|---|---|---|
| Ingest buffer (websocket/server.py `TelemetryEventBuffer`) | bounded deque, next seq, dropped count | push, drain | handlers push, dispatcher threads drain; one buffer per process (api.py) |
| WebSocket endpoint (websocket/routes.py) | handler per connection, its queue of kill-switches | handshake, message loop, heartbeat, drain task, teardown | page, buffer, dispatcher, worker, session row |
| Delivery service (server.py `DeliveryService`) | ack counter, pending kill-switch | next_ack, prepare_kill_switch, record_kill_switch_ack | endpoint |
| Frame dispatcher (orchestration/_frame_dispatcher.py), with scheduler, preprocessing and runners | thread, runners built on demand, frame number, cache of undecided events | start, drain, dispatch per kind of event, emit, stop | buffer, runners, aggregator, worker |
| Fusion engine (fusion/aggregator.py) | confirmation windows, gaze episodes, score, fired-once latches | process_* | dispatcher |
| Flag persistence (_flag_persistence_worker.py, _flag_persistence.py) | thread, transaction | persist, kill-switch | database, endpoint callback |
| Session row (models.py, _state_machine.py) | status, termination record, reviews, identity status | handshake, POST /terminate, review, worker | every request |
| Admin service (_admin_service.py, _routes.py, _auth.py) | policy versions, exemptions, overrides, roles, role audit | create, request, approve, reject, grant | database; LTI launches write roles too |
| Evidence (evidence/, _evidence_service.py) | bucket, evidence_artifacts rows | seal; recurring retention job | object store, database |
| LTI launch (lti/) | pending states (memory or Redis), discovery and JWKS caches, participants, sessions | login, launch | platform, database |
| Page connection (client/src/ws-client.ts, kill-switch.ts) | socket, timers, terminal mark, locked flags | connect, send, heartbeat, handlers | gateway, server |
| Capture loop (client/src/capture-loop.ts, media-capture.ts, rolling-buffer.ts) | run flags, camera, detector, three time bases, rolling buffer | start, stop, frame callback, drain | page connection, kill-switch |

What is hard here:

- **Threads.** Each connection has a dispatcher and a worker thread; all share
  one buffer and one database, and the asyncio loop blocks while a closing
  handler joins its threads.
- **Requests that read and later write.** At READ COMMITTED and without row
  locks handshakes, terminations, reviews, policy, override and role changes and
  launches overlap; the ORM writes only the columns that differ from what it read.
- **Awaits.** A launch suspends between looking at a state and consuming it; the
  page's start() suspends on camera, video and detector while stop() may run.
- **Transports and stores that break.** What is in flight is lost, each end notices
  in its own time; the object store and the database fail separately, and a process
  may die between two calls.
- **Partial failure.** A flag, its telemetry, the termination record and the
  kill-switch, or a blob and its row, are written in separate steps.
- **Windows and thresholds.** Six flag rules with sliding windows and latches,
  three client time bases, padded audio tails, clamped face crops.

What makes each part correct: the buffer loses only the oldest events and counts
them; every rule fires exactly when its definition over the input history says, on
exactly the frames that are due; flags are stored once, in order, linked to
telemetry; a kill-switch has a durable reason that never changes; an acknowledged
kill-switch has locked the page, and a locked page stays down; a session's status
has the record or review that explains it; a role, a policy and an override have
the grant, the successor and the second person they need; evidence is recorded
once and goes only after its horizon; a login yields one session; a stopped loop is
off.

## 2. Modules

| Module | Models | State ↔ code |
|---|---|---|
| `TelemetryEventBuffer` | the ingest buffer | `buf` = `_buf`, `seq` = `_seq`, `dropped` = `_dropped`; `pushed`, `taken` are history |
| `SessionAggregator` | the fusion engine, with exemptions and book severity | one variable per attribute of the class, one action per process_* method; the two parallel deques of a window are one sequence; `*Log` are history |
| `FlagPipeline` (extends the buffer) | dispatcher thread, worker thread, database rows, POST /terminate, connection teardown | `batch`, `cached`, `queue`, `worker` are the threads' state; `telemetry`, `flags`, `termination`, `dbScore`, `status` the tables; `killed`, `emittedBy`, `rejected`, `faulted` history |
| `FrameDispatch` | one dispatcher's life: start, every _dispatch_* method with its early returns, the scheduler, the face crop, VAD framing, stop | `thread` is where the thread is, `event` what it is dispatching and has fed to the aggregator; `decoded`, `timed_out` history |
| `TelemetryConnection` | page, transport, server handler, delivery service | client attributes by name; `up`, `c2s`, `s2c` the transport per attempt; `handler`, `pending`, `acked`, `seq`, `kills` per handler |
| `SessionLifecycle` | the session row under overlapping requests | `request[r]` holds what a handler has read and will write |
| `AdminService` | policies, exemptions, overrides, roles; authentication and LTI's admin upsert | `handler[h]` holds what a request has read; `approvals` is history |
| `EvidenceContract` | what the store promises: a write-once archive with expiry | `archive`, `clock` |
| `EvidenceStore` | sealing and the retention job over bucket and database | `blobs`, `rows` the stores; `seal[q]`, `job[w]` how far each request and run has come |
| `LtiLaunch` | login, launch-state stores, discovery and JWKS caches, launch with every await, restart | `entries` = the store; `launch[l]` a request with its token and stage; `key_up` history |
| `CaptureLoop` | the page's capture loop and rolling buffer | `flags`, `last`, `held` the class's fields; `pc` where start() is suspended; `past` history |
| `MC*` | instances for TLC | constants only |
| `*Proofs` | theorems and their proofs; `SessionProofs` is about `SessionLifecycle` and `LtiLaunch`, `ClientProofs` about `TelemetryConnection` and `CaptureLoop`, `FlagPipelineProofs` about the buffer too | |
| `SumLemmas` | sums over finite sets, for the two score proofs | |

How they compose. `FlagPipeline` puts the threads on the shared buffer and is proved
to implement it; it takes two rules, one windowed and terminating, one immediate
and scored, for the aggregator, whose rules `SessionAggregator` checks on their own,
and takes an event's dispatch as one step, which `FrameDispatch` spells out for one
thread. `TelemetryConnection` takes over where the worker's kill-switch callback
ends, `SessionLifecycle` has the status those two leave to it, `CaptureLoop` sees
the connection as a socket that opens and closes. `EvidenceStore` is shown to
implement `EvidenceContract`. `AdminService` includes the role-writing part of the
launches whose other part is `LtiLaunch`. The lines each definition stands for are
in PROJECT.json, "map".

Abstractions: a telemetry event's id is its arrival number (the code uses a fresh
uuid4); a message is its kind and session; times are small numbers; a blob is its
digest (SHA-256 is taken as injective); a token is valid or not and carries its
claims; confidence values, detail dictionaries, wording and logging are left out.
Neural models, the object store, Redis, PostgreSQL, the LTI platform and the browser
APIs are external and modelled from their use. Operators whose comment begins with
"Mutant" are plausible mistakes in the definition that follows; each makes the
property it is paired with fail, which shows the property depends on that code.

## 3. What the runs check

Passing:

- **aggregator**: every rule against its meaning over the *whole input history*,
  under a policy in which confirmations terminate and one that leaves them to a
  reviewer. `SecondPersonExact`, `IdentityMismatchExact`: the flag is raised at the
  first full window, once, with exactly that window's frames. `LivenessExact`: at
  every further multiple of a spoof streak. `GazeLadderBounded`: under a client clock
  that may step back, the ladder warns and terminates once the episodes that were
  never outside the window call for it, and only when those no sweep has expired do;
  on a clock that only grows the two are the same, and one scenario has a clock that
  steps back and separates them, at the terminating flag too. `ScoreExact`: score =
  weighted number of countable incidents, exemptions and permitted items taken off.
  `ThresholdExact`: the accumulated-score flag follows exactly the scored flags that
  find the score at or over the threshold; one policy has a weight of zero, which
  scores nothing and still raises the flag again.
- **pipeline_two_sessions**: two sessions with a connection each. Of the buffer:
  `NewestRunKept`, `DroppedAccountsForLoss`, `FifoAcrossConsumers`. Of the
  database: `FlagsInEmissionOrder`, `FlagsLinkToOwnTelemetry`,
  `PersistedScoreMatchesFlags`, `KillSwitchBackedByRecord`, `RecordImmutable`,
  with a database error anywhere, disconnects and POST /terminate at any moment.
- **pipeline_liveness**: `DecisionsSettle`, every queued decision is committed or
  has failed while the client stays.
- **dispatch**: `SamplingExact`, which results of a frame reach the aggregator, said
  from its number and what failed on it (a frame due for both checks has no liveness
  result without an identity result); `FaceBoxCoversFace`, the crop contains what of
  the face is in the picture; `ChunkVerdictExact`, no sample lost or repeated on the
  way to the VAD and the verdict that follows, for an empty chunk and a threshold of
  zero too; `LandmarkerReleased` and `ThreadStops` for a stop at any step.
- **connection**: `AckMeansLocked`, `OneKillSwitchInFlight`,
  `KilledClientStaysDown`, `ClientSettles` over breaking transports, closes and
  heartbeats that time out.
- **lifecycle_concurrent**, for overlapping requests: `TerminatedHasRecord`, a session
  that is terminated, or reinstated by a review, has the record of the request that
  terminated it, never that of an automatic kill-switch; `OnlyStaleMovesIllegal`, the
  row itself makes only moves of the table and three more, each a handler's write
  from a status that has changed since it looked. TLC reaches each of the three.
- **admin**: `HeadsGrantedByHeads` (HEAD comes only from another HEAD, on record),
  `SupersededHasSuccessor` (no overlap leaves a name without a later version),
  `ApprovedByAnotherHead` (the two-person rule, however decisions overlap).
- **evidence**: `RowEvidenceIntact` (a row's blob is the one it vouches for, unless
  expired or overwritten by another request), `NoBlobOutlivesItsRow` (the job leaks
  nothing), `ImplementsContract` (refinement), `ExpiredRowsReclaimed` (every expired
  row goes, whatever failed before).
- **lti**: `StateUsedOnce`, `IssuerIsTheLoginsIssuer`, `PublishedKeyIsFound`, for
  both launch-state stores, with awaits, rotations, expiry and restarts.
- **capture**: `CadenceExact` (telemetry falls due on exactly the frames its interval
  says; a due frame whose JPEG fails or that meets a closed socket sends nothing),
  `RunningLoopIsScheduled`, `StoppedIsOff`. The last two name their exceptions,
  which are real: a detector that raises ends the loop, a stop() during start() is
  overrun, and a metadata timeout leaves the camera on.

Disagreements between the code and what the repository says of it (PROJECT.json,
"findings", quotes the lines) that a run shows. Two are expected violations:

- **pipeline_cross_session**: the shared buffer lets one session's worker store
  another session's telemetry under its own session.
- **capture_preroll**: the loop stamps frames with page time and the rolling buffer
  evicts by epoch time, so the pre-roll is always empty.

The others are properties that hold of the code and not of the text: each says what
the code does in the very case where the text says something else, and the run
reaches that case.

- **aggregator**, `LivenessExact`: the flag fires again at every multiple of the
  window; the docstring says it fires once a session (aggregator.py:342-344).
- **aggregator**, `GazeLadderBounded`: the deque is expired from its left end only, by
  the client's wall clock, "a safe default that always grows"
  (_frame_dispatcher.py:778); when that clock steps back the count is not that of the
  rolling window (docs/05:32). An episode ends at the on-screen frame that closes it
  (aggregator.py:500), not at the last off-screen one (_types.py:50-53).
- **pipeline_two_sessions**, `RecordImmutable`: a second terminating flag cannot
  update the record (_flag_persistence_worker.py:389; docstring 358-362 and comment
  386-388 say it does).
- **lifecycle_concurrent**, `OnlyStaleMovesIllegal`: a handshake that read `pending`
  commits `active` over a termination (routes.py:174), and two other stale writes;
  ARCHITECTURE.md:200-201 says every move not listed is rejected.
- **lifecycle_concurrent**, `TerminatedHasRecord`: the automatic kill-switch never
  writes `terminated` (docs/07:28, ARCHITECTURE.md:189), so an overturned review does
  not undo it (_admin_service.py:564).
- **evidence**, `NoBlobOutlivesItsRow`: blobs that a refused seal leaves are never
  reclaimed though docstring and comment say so (_evidence_service.py:170-172,
  230-231), so the property has to except them.

Disagreements met while modelling that no run demonstrates:

- *Fusion.* A reconnect starts a fresh aggregator at score zero
  (websocket/routes.py:489); every connection runs under a hard-coded policy
  (routes.py:460).
- *Pipeline.* After a failed commit a later decision on the same events is refused
  for missing telemetry although a comment says the flag persists
  (_frame_dispatcher.py:754); two connections of one session lose a score increment
  (_flag_persistence.py:201); an error between a terminating flag's commit and its
  record leaves the flag without record, kill-switch or retry
  (_flag_persistence_worker.py:321); decisions still queued at a teardown are lost,
  since the worker is stopped before the dispatcher (routes.py:571).
- *Session row.* `under_review` is written with an upheld review, in one commit; the
  docs set it while a review is pending (docs/07:29, ARCHITECTURE.md:190).
- *Connection.* The page's heartbeat is an unknown message, which the server answers
  with a close the page treats as terminal (ws-client.ts:181, docs/02:64), as is a
  bounding box outside [0, 1] (routes.py:701-708); a kill-switch that was not
  delivered is never retried (routes.py:655, server.py:291-293 "eligible for
  retry"); nothing compares pongs with pings (routes.py:609): what times out, and
  closes with 4007, is the ping's own send; ack numbers restart with every connection
  (server.py:89).
- *Dispatch.* The production configuration passes no enrolment embedding, so identity,
  and with it liveness on coinciding frames, never runs; under an identity override
  start() raises after its thread has begun (_frame_dispatcher.py:475) and the
  identity status is saved only for a pending session (routes.py:385); the
  landmarker is given BGR labelled SRGB; only the landmarker is ever closed; a
  missing liveness model path is not refused; audio documented as "silently
  resampled" is rejected by preprocess_audio_chunk; docs/02:94 shows a chunk of
  2000 ms, the validator takes frames of 10, 20 or 30.
- *Evidence.* The route always passes the present instant, so the default retention
  never applies; a second seal overwrites the sealed blob before the row refuses it,
  and races with the retention job; the job counts deletions again after a rollback.
- *Administration.* Two concurrent policies may get one version number; overlapping
  launches and role changes may lose an update, and the audit's previous role may
  not be the one replaced; a row may say approved and name its requester as decider;
  a second approved override makes the handshake's scalar_one_or_none raise; the
  reject route returns nothing; departments are not compared.
- *Client.* The loop runs on while send() drops (main.ts:106-108 "no telemetry is
  silently dropped"); focus and blur are listened for on document, where they do not
  fire (browser-events.ts).

## 4. Bounds

Every bound is a CONSTANT whose comment says so, and guards only the environment
(messages sent, requests begun, time, losses, errors), never a step of the engine.

- Aggregator: each scenario has a set of boxes: up to 7 results for one path alone,
  which passes every window (2 or 3 frames) at least twice, and smaller boxes in
  which paths interleave through the shared score and output. A third scenario gives
  gaze alone 6 results on a clock that goes both ways, enough for three episodes
  with the clock stepping back between them, and for the two bounds to differ.
- Pipeline: 2 connections of which one may end, 3 messages, buffer of 2, one
  database error. Three messages overflow the buffer, fill a confirmation window of
  2 and reach a threshold of 2.
- Dispatch: 6 events, so that a period of 5 comes round; six configurations (periods
  that coincide and not, no enrolment, no liveness runner, runners that cannot be
  built); five faces, among them one at a corner, one cut by an edge and one outside;
  every chunk of up to 4 samples, the empty one too, with 2 per VAD frame; a speech
  threshold of zero among those of the configurations.
- Connection: 2 flags, 3 attempts, 2 losses, one telemetry message and one ping
  each way; attempts exceed losses so that the bound itself never strands a page.
- Lifecycle: 3 handlers, 6 requests; handlers are interchangeable, so states are
  identified up to their permutation.
- Admin: a HEAD, an ADMIN and a person yet to launch; 4 requests on 2 handlers, one
  override. A grant and its use, or two overlapping decisions after a request, take
  at most four.
- Evidence: 2 seals for the same or different flags and contents, one retention
  worker, 2 faults, time to 2, so that a row expires between two sweeps. Overlapping
  workers are covered by the proofs.
- LTI: 2 logins, 2 posts, lifetimes of 1, time to 2, one rotation, both stores; an
  answer with the wrong issuer, nonce or signature.
- Capture: time to 14 with intervals 2, 3 and 5 and a window of 10, two kill
  switches, epoch origin 1000.

Deadlock is not checked: a session may end, a page may go down for good, and
bounded environments stop.

## 5. Fairness

- `PipelineFairness`: both threads of a connection loop until stopped, so a step
  that stays possible is taken (weak fairness of each thread). Clients need not
  send or stay, administrators need not act, and errors need not happen.
- `ConnFairness`: browser and server event loops run their timers and handle what
  has been delivered; the browser notices a broken socket. The *server* is not
  assumed to notice, since the gateway may fail to pass the close on.
- `EvidenceStore!FairSpec`: a scheduler runs the retention job again and again and a
  running job proceeds; faults are bounded in number, so some run meets none.
- `FrameDispatch!FairSpec`: the thread runs and a runner that was called returns or
  raises.

## 6. Proofs

Each holds for all values of the constants that satisfy the ASSUMEs of the module
(a capacity of at least one, a positive frame interval, distinguishable null
values and the like); the bounds of section 4 are among the constants, so they are
arbitrary here. Each argument is an inductive invariant.

- `FlagPipelineProofs`, the buffer: `TypeCorrect`, `NewestRunStays`,
  `LossIsCounted`, `DrainedInOrder`. `IInv` conjoins type and the three properties;
  none is inductive alone, since the order of what was taken needs to know what is
  buffered, and both need the counter equation.
- `FlagPipelineProofs`, the pipeline: `PipelineImplementsBuffer` (the composition
  refines the buffer, so `PipelineBufferCorrect` carries over). `KillSwitchBacked`
  and `RecordsImmutable` from `RecordInv`: a worker in the kill-switch path holds a
  committed flag of its own session. `EmissionOrder` and `LinksStayInSession` from
  `FlowInv`, which follows an event from the buffer through batch, cache, queue and
  transaction to its row and a decision from the aggregator to its flag: every place
  holds later ones than the next place, and no event is in the hands of two
  dispatchers, which is the buffer's theorem. `ScoreIsSumOfFlags` from `ScoreInv`:
  the score a transaction has read is the sum of what is committed. It is stated
  under `[]OneWriterPerSession`, since two overlapping transactions of a session do
  lose an increment. `ScoreNeverExceedsFlags` needs no such condition: however many
  connections of a session overlap, the stored score is at most the sum, because what
  a transaction read was at most the sum then, and the sum only grows (`BoundInv`).
- `SessionAggregatorProofs`: `AggregatorTypes`, `SecondPersonIsExact`,
  `IdentityMismatchIsExact`, `LivenessIsExact`, `GazeLadderIsBounded`,
  `GazeBoundsMeet`, `ThresholdIsExact`, `ScoreIsExact`, for every policy, context, window size and
  number of results. `StepOutcome` says once what a step of each path may do to the
  others' state and to the output; with the `*Else` lemmas each rule's proof then
  only looks at its own path. The link between deque and history is the invariant:
  `FaceInv` (the streak is the run the log ends in), `IdentityInv` and `LivenessInv`
  (the sliding window is the tail of the log), each in a *pending* form before the
  latch and a *done* form after. `DequeInv` says, for any clock,
  that the deque popped from the left holds every episode that was never outside the
  window and none that a sweep has expired, in order, and `GazeInv` that the open
  streak is the log's last run and that as many warnings were raised as the bounds
  allow. `GazeBoundsMeet` shows that on a clock that only grew the two bounds are one
  number, that of the episodes inside the window. `ThresholdInv` ties the running score to the deltas emitted.
  `ScoreIsExact` splits the score into one share per scored path and shows that a
  step adds the same to its share and to the score.
- `FrameDispatchProofs`: `SamplingIsExact`, `CropCoversFace`, `ChunkVerdictIsExact`,
  `LandmarkerIsReleased`. `SamplingExact` speaks of finished frames; `StageInv` says
  for each place of the thread what a frame can have been fed and can have failed by
  then. `SideCovers` is the arithmetic of the crop (truncation, padding, clamping)
  and `SplitKeepsSamples` that of the VAD frames, for every size.
- `SumLemmas`: what the two score proofs need of the community modules' sum over a
  set: empty, one more element, equal functions. The sum is a fold that chooses an
  element; the lemmas say the choice does not matter for the sets at hand.
- `ClientProofs`: of the connection `AckLocked`, `KilledStaysDown`, `OneInFlight`;
  of the capture loop `CaptureTypeCorrect`, `CadenceKept`, `RunningScheduled`,
  `StoppedOff`. `AckMeansLocked` is not inductive because acknowledgements travel;
  `AcksTellTruth` says every one in flight is for a locked flag, and `FlightInv`
  that what travels in both directions together is the one kill-switch the server
  waits for. `LifeInv` follows the camera through start(); `TimesInv` ties each time
  base to the latest due frame.
- `SessionProofs`: of the session row `LifeTypeCorrect`, `TerminationRecorded`,
  `StaleMovesOnly`; of the launch `LtiTypeCorrect`, `StatesUsedOnce`,
  `IssuersAgree`, `PublishedKeysFound`. `LifeInv` says what the row may have become
  while a handler waits: with a handshake that read `pending` in progress the session
  has no connection and no flag, so nothing but a termination can have come between;
  a review needs a flag, so no such handshake is left to activate what it looks at.
  `SpentStaysSpent`: a
  consumed state never returns to the store; `AdmittedAgrees`: while it is there,
  its issuer is the one that was compared; `KeyInHand`: an answered fetch holds a
  key published all the while.
- `AdminServiceProofs`: `AdminTypeCorrect`, `HeadsGranted`, `SupersededSucceeded`,
  `ApprovedByAnother`. `Justified` says what of a handler's earlier read cannot
  become false while it waits: who once held HEAD has held it for good, a request
  keeps its requester, a version its number. `VersionsBounded` gives the highest
  version its existence.
- `EvidenceStoreProofs`: `StoreImplementsContract` (refinement), `EvidenceIntact`,
  `NoBlobLeaked`, `StoreTypeCorrect`, with any number of overlapping retention runs.
  `Sealed` says every row a run has in hand came from a request that is sealed for
  good and has expired, `Verified` what is at the key when a row is inserted,
  `Cleared` that a row waiting for its deletion to commit has no blob of its own.

The proofs corrected two statements that the small instances had not refuted.
`ThresholdExact` took "raises the score" for "is scored": a weight of zero, which
the policy allows, is scored and raises nothing. `ChunkVerdictExact` forgot that an
empty chunk is silence even when the threshold is zero. The instances were widened
to contain both cases.

The assumptions the proofs use are named in the modules: `PolicyAssumption`,
`BoundAssumption` and `ExemptionAssumption` (a policy is one the admin service
accepts, an exemption's times are numbers, its end perhaps absent), `DispatchAssumption` and
`FaceAssumption` (positive sizes, a threshold between 0 and 1, landmarks with least
and greatest in order, distinguishable null values), and one per other module.

Only model-checked: liveness (`DecisionsSettle`, `ClientSettles`,
`ExpiredRowsReclaimed`, `ThreadStops`), which needs fairness and is outside what
TLAPS's provers do here. Every safety property of a passing run has a theorem. Type
invariants are proved for every module except `TelemetryConnection`, `FlagPipeline`
and `FrameDispatch`, whose invariants contain the parts they need; no run spends
time on them.

## 7. Running

In this directory: `tlc -config MCPipelineTwoSessions.cfg MCFlagPipeline` (and so
on for the runs of PROJECT.json), `tlapm FlagPipelineProofs.tla`. The longest run
takes about two minutes with two workers.

## 8. Not modelled, and the plan

Not modelled: the neural networks (their verdicts are inputs), pixel and decibel
arithmetic, signature and token verification (stateless cryptography), field
validation, settings and wiring, markup of the lock screen, backoff delays. The
server's rolling_buffer.py and resampling have no caller outside the tests. The
gateway forwards messages and closes and is part of the transport.

Next, in this order:

1. Type correctness of `FlagPipeline`, `TelemetryConnection` and `FrameDispatch` as
   theorems of their own.
2. The safety part behind the liveness runs: that a queued decision is never lost
   while its worker runs, and that a stopped dispatcher takes no further event.
3. A composition of `CaptureLoop` with `TelemetryConnection`, so that what is dropped
   while the socket is down is counted.
