------------------------- MODULE MCSessionAggregator -------------------------
(***************************************************************************)
(* TLC instances of SessionAggregator: three policies, two contexts and    *)
(* the numbers of results the paths are fed.  A bound is one of a set of   *)
(* boxes: deep for one path alone, shallow for paths that interleave.      *)
(***************************************************************************)
EXTENDS SessionAggregator

NoCalls == [p \in Paths |-> 0]

(* Every confirmation terminates; unequal weights.                         *)
TerminatePolicy ==
    [terminate_on_second_face |-> TRUE,
     second_face_confirmation_frames |-> 3,
     gaze_min_duration_ms |-> 1,
     gaze_window_ms |-> 2,
     gaze_warning_limit |-> 1,
     gaze_termination_limit |-> 2,
     medium_score_termination_threshold |-> 4,
     medium_score_action |-> "auto_terminate",
     liveness_check_enabled |-> TRUE,
     liveness_check_action |-> "critical_terminate",
     liveness_confirmation_frames |-> 2,
     identity_confirmation_frames |-> 2,
     score_weights |->
        [r \in ScoredRules |-> IF r = RULE_OBJECT_DETECTED THEN 2 ELSE 1]]

TerminateCalls ==
    {[NoCalls EXCEPT !["face"] = 6],
     [NoCalls EXCEPT !["liveness"] = 7],
     [NoCalls EXCEPT !["identity"] = 5],
     [NoCalls EXCEPT !["gaze"] = 6],
     [NoCalls EXCEPT !["face"] = 3, !["liveness"] = 3, !["identity"] = 3],
     [NoCalls EXCEPT !["object"] = 1, !["browser"] = 2, !["audio"] = 2]}

(* Every confirmation is left to a reviewer; a warning limit of zero, which *)
(* the table allows, warns on every frame, and a weight of zero, which the  *)
(* snapshot allows, scores nothing.                                         *)
ReviewPolicy ==
    [TerminatePolicy EXCEPT
        !.medium_score_action = "flag_for_review",
        !.medium_score_termination_threshold = 2,
        !.liveness_check_action = "medium_accumulate",
        !.gaze_warning_limit = 0,
        !.score_weights[RULE_AUDIO_ANOMALY] = 0]

ReviewCalls ==
    {[NoCalls EXCEPT !["gaze"] = 4, !["browser"] = 1],
     [NoCalls EXCEPT !["gaze"] = 2, !["object"] = 1, !["audio"] = 1],
     [NoCalls EXCEPT !["liveness"] = 4, !["object"] = 1],
     [NoCalls EXCEPT !["object"] = 3]}

(* A participant with a phone exemption that starts and ends; the other    *)
(* records belong to someone else or to another exam.                      *)
ExemptContext ==
    [participant_id |-> "p1", exam_reference |-> "x1",
     allowed_reference_materials |-> "closed_book",
     allowed_items |-> {},
     exemptions |->
        {[participant_id |-> "p1", object_class |-> "cell_phone",
          exam_reference |-> "x1", effective_at |-> 1, expires_at |-> 2],
         [participant_id |-> "p2", object_class |-> "book",
          exam_reference |-> "x1", effective_at |-> 0, expires_at |-> None],
         [participant_id |-> "p1", object_class |-> "book",
          exam_reference |-> "x2", effective_at |-> 0, expires_at |-> None]}]

(* An exam whose list of permitted items names the book.                   *)
ListContext == [ExemptContext EXCEPT
                   !.allowed_reference_materials = "specific_list",
                   !.allowed_items = {"book"}]

(* The client's clock steps back by one between frames, which leaves an    *)
(* episode that is out of the window in the deque behind an earlier one    *)
(* with a later end, up to the frame that terminates.                      *)
ClockPolicy ==
    [TerminatePolicy EXCEPT
        !.gaze_min_duration_ms = 0,
        !.gaze_window_ms = 1,
        !.gaze_warning_limit = 2,
        !.gaze_termination_limit = 3]

ClockCalls == {[NoCalls EXCEPT !["gaze"] = 6]}

MCScenarios ==
    {[policy |-> TerminatePolicy, context |-> ExemptContext,
      call_bounds |-> TerminateCalls, max_time |-> 4, clock_step_back |-> 0],
     [policy |-> ReviewPolicy, context |-> ListContext,
      call_bounds |-> ReviewCalls, max_time |-> 3, clock_step_back |-> 1],
     [policy |-> ClockPolicy, context |-> ExemptContext,
      call_bounds |-> ClockCalls, max_time |-> 2, clock_step_back |-> 1]}
=============================================================================
