-------------------------- MODULE SessionAggregator --------------------------
(***************************************************************************)
(* The per-session fusion engine (fusion/aggregator.py, SessionAggregator):*)
(* it turns single inference results into flag decisions.  One action per  *)
(* process_* method; the methods are called one at a time by the session's *)
(* dispatcher thread, so each is atomic.                                   *)
(*                                                                         *)
(* A telemetry event id is <<path, n>>, the n-th result of its path (the   *)
(* code mints a fresh uuid4 per event).  Contributing ids are kept as a    *)
(* set; times are in milliseconds; score weights are naturals.             *)
(***************************************************************************)
EXTENDS Integers, Sequences, FiniteSets, FiniteSetsExt

CONSTANT Scenarios   \* the sessions looked at, each with its policy and
                     \* context, and with the bounds of the model:
                     \*   call_bounds: sets of numbers of results per path
                     \*   max_time: the latest captured_at
                     \*   clock_step_back: how far captured_at may step back

VARIABLE scenario    \* the session; it never changes

Policy == scenario.policy
Context == scenario.context
MaxTime == scenario.max_time

None == -1   \* an absent time
Nat1 == Nat \ {0}

RULE_SECOND_PERSON == "second_person"
RULE_GAZE_AWAY_FREQUENCY == "gaze_away_frequency"
RULE_ACCUMULATED_SCORE == "accumulated_score"
RULE_OBJECT_DETECTED == "object_detected"
BOOK_RULE_CODE == "book_detected"
RULE_BROWSER_EVENT == "browser_event"
RULE_LIVENESS_CHECK_FAILED == "liveness_check_failed"
RULE_IDENTITY_MISMATCH == "identity_mismatch"
RULE_AUDIO_ANOMALY == "audio_anomaly"

(* The rules whose MEDIUM flags carry a weight.                            *)
ScoredRules == {RULE_GAZE_AWAY_FREQUENCY, RULE_OBJECT_DETECTED, BOOK_RULE_CODE,
                RULE_BROWSER_EVENT, RULE_LIVENESS_CHECK_FAILED,
                RULE_AUDIO_ANOMALY}

Rules == ScoredRules \cup {RULE_SECOND_PERSON, RULE_ACCUMULATED_SCORE,
                           RULE_IDENTITY_MISMATCH}

(* PolicySnapshot, with the constraints the policy_configs table enforces. *)
PolicySnapshot ==
    [terminate_on_second_face : BOOLEAN,
     second_face_confirmation_frames : Nat1,
     gaze_min_duration_ms : Nat,
     gaze_window_ms : Nat1,
     gaze_warning_limit : Nat,
     gaze_termination_limit : Nat1,
     medium_score_termination_threshold : Nat,
     medium_score_action : {"auto_terminate", "flag_for_review"},
     liveness_check_enabled : BOOLEAN,
     liveness_check_action : {"critical_terminate", "medium_accumulate"},
     liveness_confirmation_frames : Nat1,
     identity_confirmation_frames : Nat1,
     score_weights : [ScoredRules -> Nat]]

ASSUME PolicyAssumption ==
    \A policy \in {s.policy : s \in Scenarios} :
        /\ policy \in PolicySnapshot
        /\ policy.gaze_warning_limit =< policy.gaze_termination_limit
        /\ policy.gaze_min_duration_ms =< policy.gaze_window_ms

ASSUME BoundAssumption ==
    \A s \in Scenarios : s.max_time \in Nat /\ s.clock_step_back \in Nat

(* The exemptions' validity, in the time base of the detections.           *)
ASSUME ExemptionAssumption ==
    \A s \in Scenarios : \A ex \in s.context.exemptions :
        ex.effective_at \in Nat /\ ex.expires_at \in Nat \cup {None}

Paths == {"face", "liveness", "gaze", "identity", "object", "browser", "audio"}
EventIds == Paths \X Nat1

VARIABLES
    (* Path 1 *)
    consecutive_second_person_frames, second_person_event_ids,
    second_person_fired,
    (* Path 2 *)
    gaze_off_start_ms, gaze_off_event_ids, gaze_away_events,
    gaze_termination_fired,
    (* Path 3 *)
    accumulated_score,
    (* Path 4: results and their ids, two deques kept in step by the code *)
    liveness_window, liveness_spoof_run_length,
    (* Path 5: likewise *)
    identity_window, identity_mismatch_fired,
    (* every decision returned so far, in order *)
    emitted,
    (* history: what each path was fed *)
    faceLog, livenessLog, gazeLog, identityLog, objectLog, browserLog, audioLog

faceVars == <<consecutive_second_person_frames, second_person_event_ids,
              second_person_fired, faceLog>>
gazeVars == <<gaze_off_start_ms, gaze_off_event_ids, gaze_away_events,
              gaze_termination_fired, gazeLog>>
livenessVars == <<liveness_window, liveness_spoof_run_length, livenessLog>>
identityVars == <<identity_window, identity_mismatch_fired, identityLog>>
singleLogs == <<objectLog, browserLog, audioLog>>
outVars == <<accumulated_score, emitted>>
vars == <<faceVars, gazeVars, livenessVars, identityVars, singleLogs, outVars,
          scenario>>

(* SessionAggregator.__init__.                                             *)
Init ==
    /\ scenario \in Scenarios
    /\ consecutive_second_person_frames = 0
    /\ second_person_event_ids = {}
    /\ second_person_fired = FALSE
    /\ gaze_off_start_ms = None
    /\ gaze_off_event_ids = {}
    /\ gaze_away_events = <<>>
    /\ gaze_termination_fired = FALSE
    /\ accumulated_score = 0
    /\ liveness_window = <<>>
    /\ liveness_spoof_run_length = 0
    /\ identity_window = <<>>
    /\ identity_mismatch_fired = FALSE
    /\ emitted = <<>>
    /\ faceLog = <<>> /\ livenessLog = <<>> /\ gazeLog = <<>>
    /\ identityLog = <<>> /\ objectLog = <<>> /\ browserLog = <<>>
    /\ audioLog = <<>>

(* The results each path has been fed.                                     *)
Fed == [face |-> Len(faceLog), liveness |-> Len(livenessLog),
        gaze |-> Len(gazeLog), identity |-> Len(identityLog),
        object |-> Len(objectLog), browser |-> Len(browserLog),
        audio |-> Len(audioLog)]

(* One more result on this path stays within one of the bounds.            *)
MayFeed(path) == \E bound \in scenario.call_bounds :
                    /\ Fed[path] < bound[path]
                    /\ \A p \in Paths : Fed[p] =< bound[p]

-----------------------------------------------------------------------------
(* FlagDecision: the fields that decide what becomes of the flag.          *)
FlagDecision ==
    [rule_code : Rules, severity : {"critical", "medium", "low"},
     triggered_termination : BOOLEAN, contributing_event_ids : SUBSET EventIds,
     score_delta : Nat]

Terminating(rule, ids) ==
    [rule_code |-> rule, severity |-> "critical", triggered_termination |-> TRUE,
     contributing_event_ids |-> ids, score_delta |-> 0]

Medium(rule, ids, delta) ==
    [rule_code |-> rule, severity |-> "medium", triggered_termination |-> FALSE,
     contributing_event_ids |-> ids, score_delta |-> delta]

(* PolicySnapshot.weight_for.                                              *)
WeightFor(rule) == Policy.score_weights[rule]

(* Mutant: the threshold must be exceeded, not merely reached.             *)
CheckAccumulatedThresholdStrict(score, ids) ==
    IF \/ Policy.medium_score_termination_threshold = 0
       \/ score =< Policy.medium_score_termination_threshold
    THEN <<>>
    ELSE <<Terminating(RULE_ACCUMULATED_SCORE, ids)>>

(* _check_accumulated_threshold, for the score just reached.               *)
CheckAccumulatedThreshold(score, ids) ==
    IF \/ Policy.medium_score_termination_threshold = 0
       \/ score < Policy.medium_score_termination_threshold
    THEN <<>>
    ELSE <<[Terminating(RULE_ACCUMULATED_SCORE, ids) EXCEPT
               !.triggered_termination =
                   Policy.medium_score_action = "auto_terminate"]>>

(* The tail every scoring path shares: emit the MEDIUM flag, add its       *)
(* weight, then test the threshold against the new score.                  *)
Accumulate(rule, ids) ==
    /\ accumulated_score' = accumulated_score + WeightFor(rule)
    /\ emitted' = Append(emitted, Medium(rule, ids, WeightFor(rule)))
                      \o CheckAccumulatedThreshold(accumulated_score', ids)

Emit(decision) == /\ emitted' = Append(emitted, decision)
                  /\ UNCHANGED accumulated_score

(* A rolling deque: append, and pop the left end once longer than size.    *)
Slide(window, x, size) ==
    IF Len(window) < size THEN Append(window, x) ELSE Append(Tail(window), x)

Ids(window) == {window[i].id : i \in 1 .. Len(window)}

-----------------------------------------------------------------------------
(* Path 1. *)
FaceIgnored == second_person_fired \/ ~Policy.terminate_on_second_face

(* Mutant: a frame without a second face does not break the streak.        *)
FaceStreakBrokenNoReset == UNCHANGED <<consecutive_second_person_frames,
                                      second_person_event_ids>>

FaceStreakBroken == /\ consecutive_second_person_frames' = 0
                    /\ second_person_event_ids' = {}

(* process_face_presence.                                                  *)
ProcessFacePresence(face_count) ==
    LET id == <<"face", Len(faceLog) + 1>>
        ids == second_person_event_ids \cup {id}
    IN  /\ MayFeed("face")
        /\ faceLog' = Append(faceLog, face_count)
        /\ \/ /\ FaceIgnored
              /\ UNCHANGED <<consecutive_second_person_frames,
                             second_person_event_ids, second_person_fired,
                             outVars>>
           \/ /\ ~FaceIgnored
              /\ face_count >= 2
              /\ consecutive_second_person_frames' =
                     consecutive_second_person_frames + 1
              /\ second_person_event_ids' = ids
              /\ second_person_fired' =
                     (consecutive_second_person_frames + 1
                          >= Policy.second_face_confirmation_frames)
              /\ IF second_person_fired'
                 THEN Emit(Terminating(RULE_SECOND_PERSON, ids))
                 ELSE UNCHANGED outVars
           \/ /\ ~FaceIgnored
              /\ face_count < 2
              /\ FaceStreakBroken
              /\ UNCHANGED <<second_person_fired, outVars>>
        /\ UNCHANGED <<gazeVars, livenessVars, identityVars, singleLogs>>

-----------------------------------------------------------------------------
(* Path 4. *)

(* Mutant: the window alone decides, so a sustained streak fires on every  *)
(* frame after the first full window.                                      *)
SpoofConfirmedEveryFrame(window, run) ==
    /\ Len(window) = Policy.liveness_confirmation_frames
    /\ \A i \in 1 .. Len(window) : ~window[i].is_real

(* A full window of spoof frames whose streak length is a multiple of the  *)
(* window size.                                                            *)
SpoofConfirmed(window, run) ==
    /\ Len(window) = Policy.liveness_confirmation_frames
    /\ \A i \in 1 .. Len(window) : ~window[i].is_real
    /\ run % Policy.liveness_confirmation_frames = 0

(* process_liveness; when the check is disabled the method does nothing.   *)
ProcessLiveness(is_real) ==
    LET window == Slide(liveness_window,
                        [is_real |-> is_real,
                         id |-> <<"liveness", Len(livenessLog) + 1>>],
                        Policy.liveness_confirmation_frames)
        run == IF is_real THEN 0 ELSE liveness_spoof_run_length + 1
    IN  /\ Policy.liveness_check_enabled
        /\ MayFeed("liveness")
        /\ livenessLog' = Append(livenessLog, is_real)
        /\ liveness_window' = window
        /\ liveness_spoof_run_length' = run
        /\ \/ /\ is_real \/ ~SpoofConfirmed(window, run)
              /\ UNCHANGED outVars
           \/ /\ ~is_real /\ SpoofConfirmed(window, run)
              /\ Policy.liveness_check_action = "critical_terminate"
              /\ Emit(Terminating(RULE_LIVENESS_CHECK_FAILED, Ids(window)))
           \/ /\ ~is_real /\ SpoofConfirmed(window, run)
              /\ Policy.liveness_check_action = "medium_accumulate"
              /\ Accumulate(RULE_LIVENESS_CHECK_FAILED, Ids(window))
        /\ UNCHANGED <<faceVars, gazeVars, identityVars, singleLogs>>

-----------------------------------------------------------------------------
(* Path 2. *)
GazeAwayEvent == [started_at_ms : Nat, ended_at_ms : Nat,
                  contributing_event_ids : SUBSET EventIds]

(* The part of the deque that survives popping the left end while it ended *)
(* before the window starts: everything from the first event that did not. *)
FirstLive(events, window_start_ms) ==
    CHOOSE k \in 1 .. Len(events) + 1 :
        /\ \A i \in 1 .. k - 1 : events[i].ended_at_ms < window_start_ms
        /\ k =< Len(events) => events[k].ended_at_ms >= window_start_ms

(* Mutant: events are never expired.                                       *)
NotExpired(events, window_start_ms) == events

Unexpired(events, window_start_ms) ==
    SubSeq(events, FirstLive(events, window_start_ms), Len(events))

(* The streak an on-screen frame closes becomes an event if it lasted.     *)
WithClosedStreak(ts) ==
    IF /\ gaze_off_start_ms # None
       /\ ts - gaze_off_start_ms >= Policy.gaze_min_duration_ms
    THEN Append(gaze_away_events,
                [started_at_ms |-> gaze_off_start_ms, ended_at_ms |-> ts,
                 contributing_event_ids |-> gaze_off_event_ids])
    ELSE gaze_away_events

(* The streak after a frame: unchanged by a frame without landmarks, begun *)
(* or extended by an off-screen one, ended by an on-screen one.            *)
GazeStreak(off_screen, ts, id) ==
    \/ /\ off_screen = "no_landmarks"
       /\ UNCHANGED <<gaze_off_start_ms, gaze_off_event_ids>>
    \/ /\ off_screen = "off"
       /\ gaze_off_start_ms' =
              IF gaze_off_start_ms = None THEN ts ELSE gaze_off_start_ms
       /\ gaze_off_event_ids' = gaze_off_event_ids \cup {id}
    \/ /\ off_screen = "on"
       /\ gaze_off_start_ms' = None
       /\ gaze_off_event_ids' = {}

AllGazeIds(events) ==
    UNION {events[i].contributing_event_ids : i \in 1 .. Len(events)}

LatestGazeIds(events) ==
    IF events = <<>> THEN {} ELSE events[Len(events)].contributing_event_ids

(* The escalation ladder, evaluated on every frame.                        *)
GazeLadder(events) ==
    LET count == Len(events) IN
    /\ gaze_termination_fired' = (count >= Policy.gaze_termination_limit)
    /\ \/ /\ count >= Policy.gaze_termination_limit
          /\ Emit(Terminating(RULE_GAZE_AWAY_FREQUENCY, AllGazeIds(events)))
       \/ /\ count < Policy.gaze_termination_limit
          /\ count >= Policy.gaze_warning_limit
          /\ Accumulate(RULE_GAZE_AWAY_FREQUENCY, LatestGazeIds(events))
       \/ /\ count < Policy.gaze_termination_limit
          /\ count < Policy.gaze_warning_limit
          /\ UNCHANGED outVars

(* The captured_at values a frame may carry: the client's clock, which may *)
(* have been stepped back since the previous frame.                        *)
CapturedAt ==
    {ts \in 0 .. MaxTime :
        gazeLog # <<>> => ts >= gazeLog[Len(gazeLog)].ts - scenario.clock_step_back}

(* process_gaze.                                                           *)
ProcessGaze(off_screen, ts) ==
    /\ MayFeed("gaze")
    /\ ts \in CapturedAt
    /\ gazeLog' = Append(gazeLog, [off_screen |-> off_screen, ts |-> ts])
    /\ \/ /\ gaze_termination_fired
          /\ UNCHANGED <<gaze_off_start_ms, gaze_off_event_ids,
                         gaze_away_events, gaze_termination_fired, outVars>>
       \/ /\ ~gaze_termination_fired
          /\ GazeStreak(off_screen, ts, <<"gaze", Len(gazeLog) + 1>>)
          /\ gaze_away_events' =
                 Unexpired(IF off_screen = "on" THEN WithClosedStreak(ts)
                                                ELSE gaze_away_events,
                           ts - Policy.gaze_window_ms)
          /\ GazeLadder(gaze_away_events')
    /\ UNCHANGED <<faceVars, livenessVars, identityVars, singleLogs>>

-----------------------------------------------------------------------------
(* Path 5. *)

(* Mutant: one matching frame in the window is forgiven by the newest.     *)
MismatchOnNewest(window) ==
    /\ Len(window) = Policy.identity_confirmation_frames
    /\ ~window[Len(window)].matches

MismatchConfirmed(window) ==
    /\ Len(window) = Policy.identity_confirmation_frames
    /\ \A i \in 1 .. Len(window) : ~window[i].matches

(* process_identity_match; matches is similarity >= threshold.             *)
ProcessIdentityMatch(matches) ==
    LET window == Slide(identity_window,
                        [matches |-> matches,
                         id |-> <<"identity", Len(identityLog) + 1>>],
                        Policy.identity_confirmation_frames)
    IN  /\ MayFeed("identity")
        /\ identityLog' = Append(identityLog, matches)
        /\ \/ /\ identity_mismatch_fired
              /\ UNCHANGED <<identity_window, identity_mismatch_fired, outVars>>
           \/ /\ ~identity_mismatch_fired
              /\ identity_window' = window
              /\ identity_mismatch_fired' = MismatchConfirmed(window)
              /\ IF MismatchConfirmed(window)
                 THEN Emit(Terminating(RULE_IDENTITY_MISMATCH, Ids(window)))
                 ELSE UNCHANGED outVars
        /\ UNCHANGED <<faceVars, gazeVars, livenessVars, singleLogs>>

-----------------------------------------------------------------------------
(* Single-result paths. *)

(* should_flag_book.                                                       *)
ShouldFlagBook ==
    \/ Context.allowed_reference_materials = "closed_book"
    \/ /\ Context.allowed_reference_materials = "specific_list"
       /\ "book" \notin Context.allowed_items

(* Mutant: an exemption still counts at the instant it expires.            *)
MatchesInclusive(ex, object_class, now) ==
    /\ ex.participant_id = Context.participant_id
    /\ ex.object_class = object_class
    /\ ex.exam_reference = Context.exam_reference
    /\ now >= ex.effective_at
    /\ ex.expires_at # None => now =< ex.expires_at

(* One exemption record against one detection (find_matching_exemption).   *)
Matches(ex, object_class, now) ==
    /\ ex.participant_id = Context.participant_id
    /\ ex.object_class = object_class
    /\ ex.exam_reference = Context.exam_reference
    /\ now >= ex.effective_at
    /\ ex.expires_at # None => now < ex.expires_at

FindMatchingExemption(object_class, now) ==
    \E ex \in Context.exemptions : Matches(ex, object_class, now)

ObjectRule(object_class) ==
    IF object_class = "book" THEN BOOK_RULE_CODE ELSE RULE_OBJECT_DETECTED

(* process_object_detection: a book the exam allows is dropped, an exempt  *)
(* object is recorded LOW and unscored, anything else is MEDIUM and scored.*)
ProcessObjectDetection(object_class, now) ==
    LET ids == {<<"object", Len(objectLog) + 1>>}
        dropped == object_class = "book" /\ ~ShouldFlagBook
        exempt == FindMatchingExemption(object_class, now)
    IN  /\ MayFeed("object")
        /\ objectLog' = Append(objectLog, [class |-> object_class, now |-> now])
        /\ \/ dropped /\ UNCHANGED outVars
           \/ /\ ~dropped /\ exempt
              /\ Emit([Medium(ObjectRule(object_class), ids, 0)
                          EXCEPT !.severity = "low"])
           \/ /\ ~dropped /\ ~exempt
              /\ Accumulate(ObjectRule(object_class), ids)
        /\ UNCHANGED <<faceVars, gazeVars, livenessVars, identityVars,
                       browserLog, audioLog>>

BROWSER_ACCUMULATION_EVENTS == {"visibilitychange", "blur"}

(* process_browser_event: always a MEDIUM flag, scored for two kinds.      *)
ProcessBrowserEvent(event_type) ==
    LET ids == {<<"browser", Len(browserLog) + 1>>}
    IN  /\ MayFeed("browser")
        /\ browserLog' = Append(browserLog, event_type)
        /\ IF event_type \in BROWSER_ACCUMULATION_EVENTS
           THEN Accumulate(RULE_BROWSER_EVENT, ids)
           ELSE Emit(Medium(RULE_BROWSER_EVENT, ids, 0))
        /\ UNCHANGED <<faceVars, gazeVars, livenessVars, identityVars,
                       objectLog, audioLog>>

(* process_audio_vad: silence is not a flag.                               *)
ProcessAudioVad(event_type) ==
    LET ids == {<<"audio", Len(audioLog) + 1>>}
    IN  /\ MayFeed("audio")
        /\ audioLog' = Append(audioLog, event_type)
        /\ IF event_type = "silence"
           THEN UNCHANGED outVars
           ELSE Accumulate(RULE_AUDIO_ANOMALY, ids)
        /\ UNCHANGED <<faceVars, gazeVars, livenessVars, identityVars,
                       objectLog, browserLog>>

Step ==
    \/ \E n \in 0 .. 2 : ProcessFacePresence(n)
    \/ \E is_real \in BOOLEAN : ProcessLiveness(is_real)
    \/ \E off_screen \in {"on", "off", "no_landmarks"}, ts \in 0 .. MaxTime :
          ProcessGaze(off_screen, ts)
    \/ \E matches \in BOOLEAN : ProcessIdentityMatch(matches)
    \/ \E object_class \in {"book", "cell_phone"}, now \in 0 .. MaxTime :
          ProcessObjectDetection(object_class, now)
    \/ \E event_type \in {"blur", "copy"} : ProcessBrowserEvent(event_type)
    \/ \E event_type \in {"silence", "speech_detected"} :
          ProcessAudioVad(event_type)

Next == Step /\ UNCHANGED scenario

Spec == Init /\ [][Next]_vars

-----------------------------------------------------------------------------
(* Every variable has its type; the deques respect their sizes.            *)
TypeOK ==
    /\ consecutive_second_person_frames \in Nat
    /\ second_person_event_ids \in SUBSET EventIds
    /\ second_person_fired \in BOOLEAN
    /\ gaze_off_start_ms \in Nat \cup {None}
    /\ gaze_off_event_ids \in SUBSET EventIds
    /\ gaze_away_events \in Seq(GazeAwayEvent)
    /\ gaze_termination_fired \in BOOLEAN
    /\ accumulated_score \in Nat
    /\ liveness_window \in Seq([is_real : BOOLEAN, id : EventIds])
    /\ Len(liveness_window) =< Policy.liveness_confirmation_frames
    /\ liveness_spoof_run_length \in Nat
    /\ identity_window \in Seq([matches : BOOLEAN, id : EventIds])
    /\ Len(identity_window) =< Policy.identity_confirmation_frames
    /\ identity_mismatch_fired \in BOOLEAN
    /\ emitted \in Seq(FlagDecision)
    /\ faceLog \in Seq(0 .. 2)
    /\ livenessLog \in Seq(BOOLEAN)
    /\ gazeLog \in Seq([off_screen : {"on", "off", "no_landmarks"}, ts : Nat])
    /\ identityLog \in Seq(BOOLEAN)
    /\ objectLog \in Seq([class : {"book", "cell_phone"}, now : Nat])
    /\ browserLog \in Seq({"blur", "copy"})
    /\ audioLog \in Seq({"silence", "speech_detected"})

-----------------------------------------------------------------------------
(* What the rules mean, said over the whole history of results instead of  *)
(* the counters and windows the code maintains.                            *)

FlagsOf(rule) == {i \in 1 .. Len(emitted) : emitted[i].rule_code = rule}

(* The size frames that end with the k-th of a path.                       *)
FramesUpTo(path, size, k) == {<<path, i>> : i \in k - size + 1 .. k}

SecondFaceWindow(k) ==
    LET size == Policy.second_face_confirmation_frames
    IN  k >= size /\ \A i \in k - size + 1 .. k : faceLog[i] >= 2

MismatchWindow(k) ==
    LET size == Policy.identity_confirmation_frames
    IN  k >= size /\ \A i \in k - size + 1 .. k : ~identityLog[i]

(* The second-person flag is raised exactly when some run of confirmation  *)
(* frames has shown two faces, at the first such run, once per session,    *)
(* and links exactly the frames of that run (process_face_presence).       *)
SecondPersonExact ==
    Policy.terminate_on_second_face =>
        \/ /\ FlagsOf(RULE_SECOND_PERSON) = {}
           /\ \A k \in 1 .. Len(faceLog) : ~SecondFaceWindow(k)
        \/ \E i \in 1 .. Len(emitted), k \in 1 .. Len(faceLog) :
              /\ FlagsOf(RULE_SECOND_PERSON) = {i}
              /\ SecondFaceWindow(k)
              /\ \A j \in 1 .. k - 1 : ~SecondFaceWindow(j)
              /\ emitted[i].contributing_event_ids =
                     FramesUpTo("face", Policy.second_face_confirmation_frames, k)
              /\ emitted[i].triggered_termination

(* The identity-mismatch flag is raised exactly when some run of           *)
(* confirmation frames has failed the similarity threshold, at the first   *)
(* such run, once, linking exactly its frames (process_identity_match).    *)
IdentityMismatchExact ==
    \/ /\ FlagsOf(RULE_IDENTITY_MISMATCH) = {}
       /\ \A k \in 1 .. Len(identityLog) : ~MismatchWindow(k)
    \/ \E i \in 1 .. Len(emitted), k \in 1 .. Len(identityLog) :
          /\ FlagsOf(RULE_IDENTITY_MISMATCH) = {i}
          /\ MismatchWindow(k)
          /\ \A j \in 1 .. k - 1 : ~MismatchWindow(j)
          /\ emitted[i].contributing_event_ids =
                 FramesUpTo("identity", Policy.identity_confirmation_frames, k)
          /\ emitted[i].triggered_termination

(* The streak of spoof frames that ends with the k-th has length r.        *)
SpoofRun(k, r) == /\ \A i \in k - r + 1 .. k : ~livenessLog[i]
                  /\ r < k => livenessLog[k - r]

SpoofWindowCompleted(k) ==
    \E r \in 1 .. k : /\ SpoofRun(k, r)
                      /\ r % Policy.liveness_confirmation_frames = 0

(* A liveness flag is raised exactly at the frames where a spoof streak    *)
(* reaches a multiple of the window size, and links the window's frames:   *)
(* real frames in between neither leave half-filled windows behind nor     *)
(* shift the beat (process_liveness).                                      *)
LivenessExact ==
    LET size == Policy.liveness_confirmation_frames
        flags == FlagsOf(RULE_LIVENESS_CHECK_FAILED)
        due == {k \in 1 .. Len(livenessLog) : SpoofWindowCompleted(k)}
    IN  /\ {emitted[i].contributing_event_ids : i \in flags} =
               {FramesUpTo("liveness", size, k) : k \in due}
        /\ \A i, j \in flags :
              emitted[i].contributing_event_ids =
                  emitted[j].contributing_event_ids => i = j

(* The off-screen frames of the streak that the k-th frame closes.         *)
StreakClosedBy(k) ==
    IF gazeLog[k].off_screen # "on" THEN {}
    ELSE {i \in 1 .. k - 1 :
             /\ gazeLog[i].off_screen = "off"
             /\ \A j \in i .. k - 1 : gazeLog[j].off_screen # "on"}

(* An episode runs to the on-screen frame that closes it (ended_at_ms).    *)
IsGazeAway(k) ==
    LET streak == StreakClosedBy(k)
    IN  /\ streak # {}
        /\ gazeLog[k].ts - gazeLog[Min(streak)].ts
               >= Policy.gaze_min_duration_ms

(* Frame j lies in the rolling window that ends at frame q.                *)
InWindow(j, q) == gazeLog[j].ts >= gazeLog[q].ts - Policy.gaze_window_ms

(* Episodes, named by the frame that ends them, that no frame up to the    *)
(* k-th has seen outside its window.                                       *)
NeverOutside(k) ==
    {j \in 1 .. k : IsGazeAway(j) /\ \A q \in j .. k : InWindow(j, q)}

(* Episodes that no frame up to the k-th has seen outside its window       *)
(* together with every episode before them.                                *)
NeverSwept(k) ==
    {j \in 1 .. k :
        /\ IsGazeAway(j)
        /\ \A q \in j .. k : \E i \in 1 .. j : IsGazeAway(i) /\ InWindow(i, q)}

LeastCount(k) == Cardinality(NeverOutside(k))
MostCount(k) == Cardinality(NeverSwept(k))

StreakIds(J) == UNION {{<<"gaze", n>> : n \in StreakClosedBy(j)} : j \in J}

GazeWarningDue(k) ==
    /\ LeastCount(k) >= Policy.gaze_warning_limit
    /\ \A j \in 1 .. k : MostCount(j) < Policy.gaze_termination_limit

GazeWarningAllowed(k) ==
    /\ MostCount(k) >= Policy.gaze_warning_limit
    /\ \A j \in 1 .. k : LeastCount(j) < Policy.gaze_termination_limit

(* Whatever the client's clock does, the gaze ladder counts every episode  *)
(* that has stayed inside the rolling window and none that a frame has     *)
(* seen outside it together with all earlier ones: the terminating flag    *)
(* fires once, not before a count in those bounds reaches its limit and no *)
(* later than the lower bound does, and links the off-screen frames of the *)
(* episodes counted; each earlier frame at the warning limit raises one    *)
(* MEDIUM flag.  On a clock that does not step back the two bounds are the *)
(* episodes in the window, so that the count is exact (process_gaze).      *)
GazeLadderBounded ==
    LET flags == FlagsOf(RULE_GAZE_AWAY_FREQUENCY)
        fatal == {i \in flags : emitted[i].triggered_termination}
        frames == 1 .. Len(gazeLog)
        limit == Policy.gaze_termination_limit
    IN  /\ Cardinality({k \in frames : GazeWarningDue(k)})
               =< Cardinality(flags \ fatal)
        /\ Cardinality(flags \ fatal)
               =< Cardinality({k \in frames : GazeWarningAllowed(k)})
        /\ Cardinality(fatal) =< 1
        /\ (\E k \in frames : LeastCount(k) >= limit) => fatal # {}
        /\ \A i \in fatal : \E k \in frames :
              /\ MostCount(k) >= limit
              /\ \A j \in 1 .. k - 1 : LeastCount(j) < limit
              /\ StreakIds(NeverOutside(k)) \subseteq emitted[i].contributing_event_ids
              /\ emitted[i].contributing_event_ids \subseteq StreakIds(NeverSwept(k))

(* Detections that count against the candidate.                            *)
ObjectScored(k) ==
    /\ objectLog[k].class = "book" => ShouldFlagBook
    /\ ~\E ex \in Context.exemptions :
           /\ ex.participant_id = Context.participant_id
           /\ ex.exam_reference = Context.exam_reference
           /\ ex.object_class = objectLog[k].class
           /\ objectLog[k].now \in ex.effective_at ..
                  (IF ex.expires_at = None THEN MaxTime ELSE ex.expires_at - 1)

(* The running score is the weighted number of countable incidents in the  *)
(* whole history, whatever the order the paths interleave in: an exempt    *)
(* object, an allowed book, silence or a copy event never reaches it.      *)
ScoreExact ==
    accumulated_score =
        SumFunctionOnSet(
            [k \in 1 .. Len(objectLog) |->
                WeightFor(ObjectRule(objectLog[k].class))],
            {k \in 1 .. Len(objectLog) : ObjectScored(k)})
        + WeightFor(RULE_BROWSER_EVENT)
            * Cardinality({k \in 1 .. Len(browserLog) :
                              browserLog[k] \in BROWSER_ACCUMULATION_EVENTS})
        + WeightFor(RULE_AUDIO_ANOMALY)
            * Cardinality({k \in 1 .. Len(audioLog) : audioLog[k] # "silence"})
        + WeightFor(RULE_GAZE_AWAY_FREQUENCY)
            * Cardinality({i \in FlagsOf(RULE_GAZE_AWAY_FREQUENCY) :
                              ~emitted[i].triggered_termination})
        + (IF Policy.liveness_check_action = "medium_accumulate"
           THEN WeightFor(RULE_LIVENESS_CHECK_FAILED)
                  * Cardinality({k \in 1 .. Len(livenessLog) :
                                    SpoofWindowCompleted(k)})
           ELSE 0)

(* The score of the flags emitted up to and including the i-th.            *)
ScoreUpTo(i) ==
    SumFunctionOnSet([j \in 1 .. Len(emitted) |-> emitted[j].score_delta], 1 .. i)

(* The i-th flag went through the scoring tail: a MEDIUM flag, unless it   *)
(* is for a browser event that does not accumulate.                        *)
Scoring(i) ==
    /\ emitted[i].severity = "medium"
    /\ emitted[i].rule_code = RULE_BROWSER_EVENT =>
          \E n \in 1 .. Len(browserLog) :
             /\ emitted[i].contributing_event_ids = {<<"browser", n>>}
             /\ browserLog[n] \in BROWSER_ACCUMULATION_EVENTS

(* The flags whose weight, which may be zero, found or brought the sum of  *)
(* all score_deltas at or above the threshold.                             *)
Crossing ==
    {i \in 1 .. Len(emitted) :
        /\ Scoring(i)
        /\ Policy.medium_score_termination_threshold > 0
        /\ ScoreUpTo(i) >= Policy.medium_score_termination_threshold}

(* The accumulated-score flag follows a flag immediately iff that flag was *)
(* scored and the sum of all score_deltas emitted so far is at or above    *)
(* the threshold, and it carries that flag's evidence; it terminates       *)
(* exactly under auto_terminate (_check_accumulated_threshold).            *)
ThresholdExact ==
    /\ FlagsOf(RULE_ACCUMULATED_SCORE) = {i + 1 : i \in Crossing}
    /\ \A i \in Crossing :
          /\ emitted[i + 1].contributing_event_ids =
                 emitted[i].contributing_event_ids
          /\ emitted[i + 1].triggered_termination
                 <=> Policy.medium_score_action = "auto_terminate"
=============================================================================
