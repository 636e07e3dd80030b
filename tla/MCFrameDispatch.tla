---------------------------- MODULE MCFrameDispatch ----------------------------
(* TLC instance of FrameDispatch.                                          *)
EXTENDS FrameDispatch

DefaultPeriods == [gaze |-> 1, object |-> 1, identity |-> 5, liveness |-> 5]

(* Periods that meet and miss each other within a few frames.              *)
MixedPeriods == [gaze |-> 2, object |-> 3, identity |-> 2, liveness |-> 3]

Usual == [periods |-> DefaultPeriods, enrolled |-> TRUE,
          liveness_runner |-> TRUE, buildable |-> {"landmarker", "detector"},
          identity_backend_unavailable |-> FALSE,
          similarity_threshold |-> 1, speech_tenths |-> 3]

MCConfigs ==
    {Usual,
     [Usual EXCEPT !.periods = MixedPeriods],
     [Usual EXCEPT !.periods = MixedPeriods, !.enrolled = FALSE],
     [Usual EXCEPT !.periods = MixedPeriods, !.liveness_runner = FALSE,
                   !.buildable = {"detector"}],
     [Usual EXCEPT !.periods = MixedPeriods, !.buildable = {"landmarker"}],
     [Usual EXCEPT !.identity_backend_unavailable = TRUE, !.speech_tenths = 0]}

Face(yaw, open, iris, x, y) ==
    [yaw |-> yaw, eyes_open |-> open, iris_off |-> iris, x |-> x, y |-> y]

(* On screen; glancing aside, small; turned away with the eyes closed, cut *)
(* by an edge; blinking at the corner; next to the picture.                *)
MCFaces == {Face(10, TRUE, FALSE, <<2, 5>>, <<1, 6>>),
            Face(10, TRUE, TRUE, <<3, 3>>, <<4, 4>>),
            Face(50, FALSE, FALSE, <<-2, 1>>, <<2, 9>>),
            Face(40, FALSE, FALSE, <<8, 8>>, <<0, 0>>),
            Face(40, TRUE, FALSE, <<9, 10>>, <<2, 4>>)}

(* Up to two frames; the empty chunk decodes to no samples.                *)
MCChunks == UNION {[1..n -> {0, 1}] : n \in 0..4}
=============================================================================
