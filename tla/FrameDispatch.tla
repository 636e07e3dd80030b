---------------------------- MODULE FrameDispatch ----------------------------
(***************************************************************************)
(* What the dispatcher thread does with one telemetry event: the scheduler,*)
(* the runners it calls for a heavy frame and an audio chunk, their early  *)
(* returns, and the results that reach the aggregator; with the handler    *)
(* that starts and stops the thread.  The neural models are external: each *)
(* answers with any verdict it can give, or raises.  Buffer, flag queue    *)
(* and aggregator have modules of their own.                               *)
(***************************************************************************)
EXTENDS Integers, Sequences, FiniteSets

CONSTANTS
    Configs,          \* the FrameDispatcherConfigs looked at
    Faces,            \* faces the landmarker may find
    Chunks,           \* PCM chunks, sequences of samples
    Grid,             \* image coordinates: 0..Grid spans the frame
    Size,             \* width and height of the frame in pixels
    SamplesPerFrame,  \* samples of one VAD frame
    MaxEvents,        \* bound on events
    None, Absent      \* no result; a result without a face

Modalities == {"gaze", "object", "identity", "liveness"}

ASSUME DispatchAssumption ==
    /\ \A c \in Configs : /\ \A m \in Modalities : c.periods[m] \in Nat \ {0}
                          /\ c.speech_tenths \in 0..10
    /\ {Grid, Size, SamplesPerFrame} \subseteq Nat \ {0}
    /\ MaxEvents \in Nat
    /\ Chunks \subseteq Seq(Int)

(* No result is neither a face nor a crop; x and y are a face's least and  *)
(* greatest landmark on the axis.                                          *)
ASSUME FaceAssumption ==
    /\ None # Absent /\ None \notin Faces /\ Absent \notin Faces
    /\ None \notin (Int \X Int) \X (Int \X Int)
    /\ \A face \in Faces : \A side \in {face.x, face.y} :
          side \in Int \X Int /\ side[1] <= side[2]

VARIABLES
    config,      \* the session's configuration; it never changes
    handler,     \* the WebSocket handler that owns the dispatcher
    stop_event,
    thread,      \* where the dispatcher thread is
    landmarker,  \* _face_landmarker: not built, open or closed
    heavy_frame_seq,
    event,       \* the event being dispatched, or the last one
    events,      \* number of events taken
    decoded,     \* history: heavy frames that could be decoded
    timed_out    \* history: stop gave up waiting for the thread

vars == <<config, handler, stop_event, thread, landmarker, heavy_frame_seq,
          event, events, decoded, timed_out>>

NoEvent == [kind |-> "none"]

Init ==
    /\ config \in Configs
    /\ handler = "accepted"
    /\ stop_event = FALSE
    /\ thread = "none"
    /\ landmarker = "none"
    /\ heavy_frame_seq = 0
    /\ event = NoEvent
    /\ events = 0
    /\ decoded = 0
    /\ timed_out = FALSE

-----------------------------------------------------------------------------
(* start: with an identity override the flag is put on an attribute that   *)
(* does not exist, so start raises after the thread has begun.             *)
start ==
    /\ handler = "accepted"
    /\ thread' = "idle"
    /\ handler' = IF config.identity_backend_unavailable THEN "failed"
                  ELSE "serving"
    /\ UNCHANGED <<config, stop_event, landmarker, heavy_frame_seq, event,
                   events, decoded, timed_out>>

(* The message loop ends and the handler calls stop.                       *)
stop ==
    /\ handler = "serving"
    /\ stop_event' = TRUE
    /\ handler' = "joining"
    /\ UNCHANGED <<config, thread, landmarker, heavy_frame_seq, event, events,
                   decoded, timed_out>>

(* Mutant: the runners are closed without waiting for the thread.          *)
JoinedAtOnce == TRUE

Joined == thread = "exited"

(* join returns when the thread has ended, or after its timeout; then      *)
(* _close_runners.  Only the landmarker has a close method, and a closed   *)
(* runner stays in its field.                                              *)
_close_runners ==
    /\ handler = "joining"
    /\ \/ Joined /\ UNCHANGED timed_out
       \/ thread # "exited" /\ timed_out' = TRUE
    /\ landmarker' = IF landmarker = "open" THEN "closed" ELSE landmarker
    /\ handler' = "closed"
    /\ UNCHANGED <<config, stop_event, thread, heavy_frame_seq, event, events,
                   decoded>>

(* The event is done with; the loop goes on to the next one.               *)
NextEvent ==
    /\ thread = "done"
    /\ thread' = "idle"
    /\ event' = NoEvent
    /\ UNCHANGED <<config, handler, stop_event, landmarker, heavy_frame_seq,
                   events, decoded, timed_out>>

(* Mutant: once it has seen an event the loop no longer looks at the flag. *)
StopSeenAtFirst == stop_event /\ events = 0

(* The flag is looked at before every batch and every event.               *)
StopSeen == stop_event

ExitLoop ==
    /\ thread = "idle" /\ StopSeen
    /\ thread' = "exited"
    /\ UNCHANGED <<config, handler, stop_event, landmarker, heavy_frame_seq,
                   event, events, decoded, timed_out>>

_run_loop == NextEvent \/ ExitLoop

-----------------------------------------------------------------------------
(* Taking the next event from the batch.                                   *)
Take(next, at) ==
    /\ thread = "idle" /\ ~StopSeen
    /\ events < MaxEvents
    /\ events' = events + 1
    /\ event' = next
    /\ thread' = at
    /\ UNCHANGED <<config, handler, stop_event, landmarker, timed_out>>

(* decide_for_frame, for the frame being dispatched.                       *)
ShouldRun(m) == event.seq % config.periods[m] = 0

HeavyFrame == [kind |-> "heavy", seq |-> heavy_frame_seq,
               landmarks |-> None, fed |-> {}, failed |-> {}]

(* Mutant: a frame that cannot be decoded uses up a sequence number.       *)
DecodeFailsCounted ==
    /\ Take([kind |-> "undecodable"], "done")
    /\ heavy_frame_seq' = heavy_frame_seq + 1 /\ UNCHANGED decoded

(* decode_jpeg_frame raises: the frame leaves no trace.                    *)
DecodeFails ==
    /\ Take([kind |-> "undecodable"], "done")
    /\ UNCHANGED <<heavy_frame_seq, decoded>>

(* The frame decodes and takes the next sequence number.                   *)
_dispatch_heavy_frame ==
    /\ Take(HeavyFrame, "landmarker")
    /\ heavy_frame_seq' = heavy_frame_seq + 1
    /\ decoded' = decoded + 1

Move(next, at) ==
    /\ event' = next
    /\ thread' = at
    /\ UNCHANGED <<config, handler, stop_event, heavy_frame_seq, events, decoded,
                   timed_out>>

Failed(what) == [event EXCEPT !.failed = @ \cup {what}]

Fed(results) == [event EXCEPT !.fed = @ \cup results]

(* FaceLandmarkerRunner.run, from yaw, eye opening and iris offset.        *)
GazeVerdict(face) ==
    IF face = Absent THEN "no_landmarks"
    ELSE IF \/ face.yaw > 45
            \/ face.eyes_open /\ (face.yaw > 30 \/ face.iris_off)
         THEN "off_screen" ELSE "on_screen"

(* The landmarker, needed by three of the four modalities, and the gaze    *)
(* result.  It is built on first use, outside the try block.               *)
RunLandmarker ==
    /\ thread = "landmarker"
    /\ IF ~\E m \in {"gaze", "identity", "liveness"} : ShouldRun(m)
       THEN Move(event, "detector") /\ UNCHANGED landmarker
       ELSE IF landmarker = "none" /\ "landmarker" \notin config.buildable
       THEN Move(Failed("build_landmarker"), "done") /\ UNCHANGED landmarker
       ELSE /\ landmarker' = IF landmarker = "none" THEN "open" ELSE landmarker
            /\ \/ Move(Failed("landmarker"), "detector")
               \/ /\ landmarker # "closed"
                  /\ \E face \in Faces \cup {Absent} :
                       Move([Fed(IF ShouldRun("gaze")
                                 THEN {<<"gaze", GazeVerdict(face)>>} ELSE {})
                             EXCEPT !.landmarks = face], "detector")

DENYLIST_CLASSES == {"book", "cell_phone", "laptop", "tv"}

filter_denylist_detections(seen) == seen \cap DENYLIST_CLASSES

(* ObjectDetectorRunner.run and the denylist; built outside the try block. *)
RunDetector ==
    /\ thread = "detector"
    /\ IF ~ShouldRun("object") THEN Move(event, "identity")
       ELSE IF "detector" \notin config.buildable
       THEN Move(Failed("build_detector"), "done")
       ELSE \/ Move(Failed("detector"), "identity")
            \/ \E seen \in SUBSET {"book", "cup"} :
                 Move(Fed({<<"object", c>> : c \in filter_denylist_detections(seen)}),
                      "identity")
    /\ UNCHANGED landmarker

-----------------------------------------------------------------------------
Larger(a, b) == IF a > b THEN a ELSE b
Smaller(a, b) == IF a < b THEN a ELSE b

(* int(): rounds towards zero.                                             *)
Truncate(n, d) == IF n >= 0 THEN n \div d ELSE -((-n) \div d)

(* Mutant: the padding of a small face rounds to nothing.                  *)
PaddingUnbounded(extent) == Truncate(3 * extent, 10)

Padding(extent) == Larger(1, Truncate(3 * extent, 10))

(* _extract_face_bbox_pixel_coords on one axis, from the least and the     *)
(* greatest landmark.                                                      *)
BboxSide(lo, hi) ==
    LET p == Truncate(Larger(0, lo) * Size, Grid)
        q == Truncate(Smaller(Grid, hi) * Size, Grid)
    IN  <<Larger(0, p - Padding(q - p)), Smaller(Size, q + Padding(q - p))>>

Bbox(face) ==
    IF face \in {None, Absent} THEN None
    ELSE LET x == BboxSide(face.x[1], face.x[2])
             y == BboxSide(face.y[1], face.y[2])
         IN  IF x[2] <= x[1] \/ y[2] <= y[1] THEN None ELSE <<x, y>>

(* compute_cosine_similarity, clamped to [0, 1], in halves.                *)
Similarities == 0..2

(* IdentityMatchRunner.run.                                                *)
IdentityVerdict(similarity) ==
    IF similarity >= config.similarity_threshold THEN "identity_match"
    ELSE "identity_mismatch"

(* Every way out of the identity branch but the last ends the event.       *)
RunIdentity ==
    /\ thread = "identity"
    /\ IF ~ShouldRun("identity") THEN Move(event, "liveness")
       ELSE IF ~config.enrolled \/ Bbox(event.landmarks) = None
       THEN Move(event, "done")
       ELSE \/ Move(Failed("identity"), "done")
            \/ \E similarity \in Similarities :
                 Move(Fed({<<"identity", IdentityVerdict(similarity)>>}), "liveness")
    /\ UNCHANGED landmarker

(* LivenessRunner.run.                                                     *)
LivenessVerdict(model_is_real, confident) ==
    IF model_is_real /\ confident THEN "liveness_real" ELSE "liveness_spoof"

RunLiveness ==
    /\ thread = "liveness"
    /\ IF \/ ~ShouldRun("liveness") \/ ~config.liveness_runner
          \/ Bbox(event.landmarks) = None
       THEN Move(event, "done")
       ELSE \/ Move(Failed("liveness"), "done")
            \/ \E model_is_real, confident \in BOOLEAN :
                 Move(Fed({<<"liveness", LivenessVerdict(model_is_real, confident)>>}),
                      "done")
    /\ UNCHANGED landmarker

-----------------------------------------------------------------------------
(* Mutant: a partial last frame is dropped.                                *)
SplitWithoutTail(samples) ==
    [i \in 1..(Len(samples) \div SamplesPerFrame) |->
        SubSeq(samples, (i - 1) * SamplesPerFrame + 1, i * SamplesPerFrame)]

(* split_into_vad_frames: full frames, then the tail padded with silence.  *)
split_into_vad_frames(samples) ==
    LET n_full == Len(samples) \div SamplesPerFrame
        tail == Len(samples) % SamplesPerFrame
        Frame(i) == [k \in 1..SamplesPerFrame |->
                       LET at == (i - 1) * SamplesPerFrame + k
                       IN  IF at <= Len(samples) THEN samples[at] ELSE 0]
    IN  [i \in 1..(n_full + (IF tail > 0 THEN 1 ELSE 0)) |-> Frame(i)]

(* AudioVadRunner.run; the threshold is a number of tenths.                *)
AudioVerdict(speech, total, loud) ==
    IF total = 0 THEN "silence"
    ELSE IF 10 * speech >= config.speech_tenths * total THEN "speech_detected"
    ELSE IF loud THEN "elevated_rms" ELSE "silence"

(* _compute_rms_db: all-zero samples have level minus infinity; any other  *)
(* level may be above or below the noise floor.                            *)
MayBeLoud(samples) == \E k \in 1..Len(samples) : samples[k] # 0

(* The VAD may call any frame speech.  Silence is not passed on.           *)
_dispatch_audio_chunk(samples, loud) ==
    LET frames == split_into_vad_frames(samples) IN
    \E speech \in SUBSET (1..Len(frames)) :
        LET verdict == AudioVerdict(Cardinality(speech), Len(frames), loud)
        IN  /\ loud => MayBeLoud(samples)
            /\ Take([kind |-> "audio", samples |-> samples, frames |-> frames,
                     speech |-> speech, loud |-> loud,
                     fed |-> IF verdict = "silence" THEN {} ELSE {<<"audio", verdict>>}],
                    "done")
            /\ UNCHANGED <<heavy_frame_seq, decoded>>

(* decode_pcm_audio_chunk raises: bad base64 or an odd number of bytes.    *)
DecodePcmFails ==
    /\ Take([kind |-> "undecodable"], "done")
    /\ UNCHANGED <<heavy_frame_seq, decoded>>

(* AudioVadRunner.run or its construction raises.                          *)
VadFails ==
    /\ Take([kind |-> "vad_failed"], "done")
    /\ UNCHANGED <<heavy_frame_seq, decoded>>

(* _dispatch_light: the client's own face count.                           *)
_dispatch_light(face_count) ==
    /\ Take([kind |-> "light",
             fed |-> {<<"face", IF face_count >= 2 THEN "second_person"
                                ELSE IF face_count = 0 THEN "no_face"
                                ELSE "one_face">>}], "done")
    /\ UNCHANGED <<heavy_frame_seq, decoded>>

(* The event keeps its type, which was validated when it was received.     *)
classify_browser_event(event_type) == <<"browser", event_type>>

_dispatch_browser_event(event_type) ==
    /\ Take([kind |-> "browser", fed |-> {classify_browser_event(event_type)}],
            "done")
    /\ UNCHANGED <<heavy_frame_seq, decoded>>

_dispatch_event ==
    \/ DecodeFails \/ _dispatch_heavy_frame
    \/ DecodePcmFails \/ VadFails
    \/ \E samples \in Chunks, loud \in BOOLEAN : _dispatch_audio_chunk(samples, loud)
    \/ \E face_count \in 0..2 : _dispatch_light(face_count)
    \/ \E event_type \in {"blur", "copy"} : _dispatch_browser_event(event_type)

RunnerStep == RunLandmarker \/ RunDetector \/ RunIdentity \/ RunLiveness

Next == \/ start \/ stop \/ _close_runners
        \/ _run_loop \/ _dispatch_event \/ RunnerStep

Spec == Init /\ [][Next]_vars

(* The operating system runs the thread and every runner returns.          *)
FairSpec == Spec /\ WF_vars(_run_loop) /\ WF_vars(RunnerStep)

-----------------------------------------------------------------------------
(* Which results of a decoded frame reach the aggregator, said from the    *)
(* number of the frame and what went wrong on it: the beat does not drift  *)
(* with frames that cannot be decoded, a runner's failure costs only its   *)
(* own result, a runner that cannot be built costs the rest of the frame,  *)
(* and a frame due for both checks has a liveness result only if it has an *)
(* identity result.                                                        *)
SamplingExact ==
    (event.kind = "heavy" /\ thread = "done") =>
        LET Due(m) == (decoded - 1) % config.periods[m] = 0
            fed == {r[1] : r \in event.fed}
            unbuilt == event.failed \cap {"build_landmarker", "build_detector"}
            usable == Bbox(event.landmarks) # None /\ unbuilt = {}
        IN  /\ "gaze" \in fed <=> Due("gaze") /\ event.landmarks # None
            /\ "object" \in fed => Due("object") /\ unbuilt = {}
            /\ "identity" \in fed <=> /\ Due("identity") /\ usable
                                      /\ config.enrolled
                                      /\ "identity" \notin event.failed
            /\ "liveness" \in fed <=> /\ Due("liveness") /\ usable
                                      /\ config.liveness_runner
                                      /\ "liveness" \notin event.failed
                                      /\ Due("identity") => "identity" \in fed

(* The crop handed to identity match and liveness contains every landmark  *)
(* that lies in the picture, however small the face or close to the edge.  *)
FaceBoxCoversFace ==
    (event.kind = "heavy" /\ event.landmarks \notin {None, Absent}) =>
        LET face == event.landmarks
            InPicture(side) == side[1] <= Grid /\ side[2] >= 0
            Pixel(c) == Smaller(Size - 1, (c * Size) \div Grid)
            Covers(span, side) == \A c \in {side[1], side[2]} \cap 0..Grid :
                                    span[1] <= Pixel(c) /\ Pixel(c) < span[2]
        IN  InPicture(face.x) /\ InPicture(face.y) =>
              /\ Bbox(face) # None
              /\ Covers(Bbox(face)[1], face.x) /\ Covers(Bbox(face)[2], face.y)

(* No sample is lost or repeated on the way to the VAD, less than a frame  *)
(* of silence is added, and a chunk is passed over exactly if it is empty  *)
(* or neither loud nor, over all its frames, speech, whatever the          *)
(* threshold (AudioVadRunner.run).                                         *)
ChunkVerdictExact ==
    event.kind = "audio" =>
        LET n == Len(event.samples)
            total == Len(event.frames)
        IN  /\ \A i \in 1..total : Len(event.frames[i]) = SamplesPerFrame
            /\ total * SamplesPerFrame - n \in 0..SamplesPerFrame - 1
            /\ \A k \in 1..total * SamplesPerFrame :
                  event.frames[(k - 1) \div SamplesPerFrame + 1]
                              [((k - 1) % SamplesPerFrame) + 1]
                  = IF k <= n THEN event.samples[k] ELSE 0
            /\ event.fed = {} <=>
                  \/ n = 0
                  \/ /\ ~event.loud
                     /\ 10 * Cardinality(event.speech)
                            < config.speech_tenths * total

(* A dispatcher whose thread ended before stop gave up waiting leaves no   *)
(* landmarker open, and the thread never ran one that was closed.          *)
LandmarkerReleased ==
    (handler = "closed" /\ ~timed_out) =>
        thread = "exited" /\ landmarker # "open"

(* Once stop has set its flag the thread ends, at the latest after the     *)
(* event it is dispatching.                                                *)
ThreadStops == stop_event ~> thread = "exited"
=============================================================================
