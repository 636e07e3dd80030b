----------------------------- MODULE CaptureLoop -----------------------------
(***************************************************************************)
(* The browser client's capture loop: main.ts starts it once, on the first *)
(* open socket; start() awaits the camera, the video and the face detector *)
(* in turn; every animation frame then runs the detector and sends light   *)
(* and heavy telemetry at their intervals; heavy frames also enter the     *)
(* rolling buffer the kill switch drains.  beforeunload calls stop() at    *)
(* any time, also while start() is suspended, and the page may live on.    *)
(***************************************************************************)
EXTENDS Integers, Sequences

CONSTANTS
    MinInterval,    \* 1000 / maxLightFps
    LightInterval,  \* lightFrameSendIntervalMs
    HeavyInterval,  \* heavyFrameIntervalMs
    WindowMs,       \* windowMs of the rolling buffer
    TimeOrigin,     \* Date.now() when performance.now() is 0
    FlagIds,        \* flag_ids of kill switches
    MaxTime         \* bound on performance.now()

ASSUME CaptureAssumption ==
    /\ MinInterval \in Nat \ {0} /\ LightInterval \in Nat /\ HeavyInterval \in Nat
    /\ WindowMs \in Nat /\ TimeOrigin \in Nat /\ MaxTime \in Nat

VARIABLES
    clock,      \* performance.now()
    open,       \* the socket's readyState is OPEN
    pc,         \* where start() is suspended, or how it ended
    flags,      \* isRunningFlag, isInitializingFlag, animationFrameId # null
    camera,     \* the camera's track is live
    held,       \* which of mediaCapture and faceInference are not null
    last,       \* lastFrameTime, lastLightSendTime, lastHeavyFrameTime
    rolling,    \* entries and heavyFrameEntries, by timestamp
    handledFlagIds,
    past        \* history: what the properties quantify over

vars == <<clock, open, pc, flags, camera, held, last, rolling,
          handledFlagIds, past>>

-----------------------------------------------------------------------------
Time == 0..MaxTime

Suspended == {"camera", "play", "metadata", "detector"}

(* begun: when the loop last began; frames, light, heavy: the times at     *)
(* which a frame was processed, light telemetry due, a heavy frame due;    *)
(* kept: heavy frames captured since the last drain; threw: a detector     *)
(* call raised; stopped: stop() ran while start() was not suspended;       *)
(* cut: it ran while it was.                                               *)
Past == [begun : Time, frames : SUBSET Time, light : SUBSET Time,
         heavy : SUBSET Time, kept : SUBSET Time, threw : BOOLEAN,
         stopped : BOOLEAN, cut : BOOLEAN]

(* Every variable has its type.                                            *)
CaptureTypeOK ==
    /\ clock \in Time
    /\ open \in BOOLEAN
    /\ pc \in Suspended \cup {"idle", "up", "failed", "leaked"}
    /\ flags \in [running : BOOLEAN, initializing : BOOLEAN, scheduled : BOOLEAN]
    /\ camera \in BOOLEAN
    /\ held \in [media : BOOLEAN, inference : BOOLEAN]
    /\ last \in [frame : Time, light : Time, heavy : Time]
    /\ rolling \in [entries : Seq(Time), heavy : Seq(Time)]
    /\ handledFlagIds \subseteq FlagIds
    /\ past \in Past

Init ==
    /\ clock = 0
    /\ open = FALSE
    /\ pc = "idle"
    /\ flags = [running |-> FALSE, initializing |-> FALSE, scheduled |-> FALSE]
    /\ camera = FALSE
    /\ held = [media |-> FALSE, inference |-> FALSE]
    /\ last = [frame |-> 0, light |-> 0, heavy |-> 0]
    /\ rolling = [entries |-> <<>>, heavy |-> <<>>]
    /\ handledFlagIds = {}
    /\ past = [begun |-> 0, frames |-> {}, light |-> {}, heavy |-> {},
               kept |-> {}, threw |-> FALSE, stopped |-> FALSE, cut |-> FALSE]

Tick == /\ clock < MaxTime
        /\ clock' = clock + 1
        /\ UNCHANGED <<open, pc, flags, camera, held, last, rolling,
                       handledFlagIds, past>>

-----------------------------------------------------------------------------
(* onStatusChange("connected"): startCaptureLoopOnce calls start() once    *)
(* per page, however often the socket opens.                               *)
SocketOpens ==
    /\ ~open
    /\ open' = TRUE
    /\ IF pc = "idle"
       THEN /\ pc' = "camera"
            /\ flags' = [flags EXCEPT !.initializing = TRUE]
       ELSE UNCHANGED <<pc, flags>>
    /\ UNCHANGED <<clock, camera, held, last, rolling, handledFlagIds, past>>

(* The loop keeps running; what it sends meanwhile is dropped by send().   *)
SocketCloses ==
    /\ open
    /\ open' = FALSE
    /\ UNCHANGED <<clock, pc, flags, camera, held, last, rolling,
                   handledFlagIds, past>>

(* start() catches the error; what it has acquired stays.                  *)
Fail(outcome) == /\ pc' = outcome
                 /\ flags' = [flags EXCEPT !.initializing = FALSE]

(* navigator.mediaDevices.getUserMedia.                                    *)
getUserMedia ==
    /\ pc = "camera"
    /\ \/ pc' = "play" /\ camera' = TRUE /\ UNCHANGED flags
       \/ Fail("failed") /\ UNCHANGED camera
    /\ UNCHANGED <<clock, open, held, last, rolling, handledFlagIds, past>>

(* The media result is assigned and the detector begins to load.           *)
MediaReady == /\ pc' = "detector"
              /\ held' = [media |-> TRUE, inference |-> TRUE]
              /\ UNCHANGED <<flags, camera>>

(* video.play(), then the track; a failure of either stops the stream.     *)
PlayVideo ==
    /\ pc = "play"
    /\ \/ MediaReady
       \/ pc' = "metadata" /\ UNCHANGED <<flags, camera, held>>
       \/ Fail("failed") /\ camera' = FALSE /\ UNCHANGED held
    /\ UNCHANGED <<clock, open, last, rolling, handledFlagIds, past>>

(* The dimensions are awaited for five seconds; a timeout or a video error *)
(* rejects without stopping the stream, a missing track stops it.          *)
AwaitMetadata ==
    /\ pc = "metadata"
    /\ \/ MediaReady
       \/ Fail("leaked") /\ UNCHANGED <<camera, held>>
       \/ Fail("failed") /\ camera' = FALSE /\ UNCHANGED held
    /\ UNCHANGED <<clock, open, last, rolling, handledFlagIds, past>>

(* faceInference.initialize() settles: the loop begins, also when stop()   *)
(* has taken its camera away, or the error leaves the camera on.           *)
InitializeDetector ==
    /\ pc = "detector"
    /\ \/ /\ pc' = "up"
          /\ flags' = [running |-> TRUE, initializing |-> FALSE,
                       scheduled |-> TRUE]
          /\ last' = [frame |-> clock, light |-> clock, heavy |-> clock]
          /\ past' = [past EXCEPT !.begun = clock]
       \/ Fail("failed") /\ UNCHANGED <<last, past>>
    /\ UNCHANGED <<clock, open, camera, held, rolling, handledFlagIds>>

(* Mutant: the stream is forgotten instead of destroyed.                   *)
stopForgettingMedia ==
    /\ pc # "idle"
    /\ flags' = [flags EXCEPT !.running = FALSE, !.scheduled = FALSE]
    /\ camera' = camera
    /\ held' = [media |-> FALSE, inference |-> FALSE]
    /\ past' = IF pc \in Suspended THEN [past EXCEPT !.cut = TRUE]
               ELSE [past EXCEPT !.stopped = TRUE]
    /\ UNCHANGED <<clock, open, pc, last, rolling, handledFlagIds>>

(* beforeunload: stop().  It cannot reach a start() that is suspended, nor *)
(* a stream that start() does not hold yet.                                *)
stop ==
    /\ pc # "idle"
    /\ flags' = [flags EXCEPT !.running = FALSE, !.scheduled = FALSE]
    /\ camera' = (camera /\ ~held.media)
    /\ held' = [media |-> FALSE, inference |-> FALSE]
    /\ past' = IF pc \in Suspended THEN [past EXCEPT !.cut = TRUE]
               ELSE [past EXCEPT !.stopped = TRUE]
    /\ UNCHANGED <<clock, open, pc, last, rolling, handledFlagIds>>

-----------------------------------------------------------------------------
(* The rolling buffer evicts by Date.now(), from the front.                *)
Evict(timestamps) ==
    LET cutoff == (TimeOrigin + clock) - WindowMs
        recent == {i \in DOMAIN timestamps : timestamps[i] >= cutoff}
    IN  IF recent = {} THEN <<>>
        ELSE SubSeq(timestamps, CHOOSE i \in recent : \A j \in recent : i <= j,
                    Len(timestamps))

add(timestamp) ==
    [entries |-> Evict(Append(rolling.entries, timestamp)),
     heavy |-> Evict(Append(rolling.heavy, timestamp))]

drain == [entries |-> <<>>, heavy |-> <<>>]

(* scheduleNextFrame does nothing once the loop is stopped.                *)
scheduleNextFrame == flags' = [flags EXCEPT !.scheduled = flags.running]

FrameDue == flags.scheduled /\ flags.running /\ held.media /\ held.inference

(* processFrame without a camera or a detector: no next frame.             *)
AbandonFrame ==
    /\ flags.scheduled
    /\ ~(flags.running /\ held.media /\ held.inference)
    /\ flags' = [flags EXCEPT !.scheduled = FALSE]
    /\ UNCHANGED <<clock, open, pc, camera, held, last, rolling,
                   handledFlagIds, past>>

TooSoon == clock - last.frame < MinInterval

(* Mutant: a frame that comes too soon ends the loop.                      *)
SkipFrameForGood ==
    /\ FrameDue
    /\ flags' = [flags EXCEPT !.scheduled = FALSE]
    /\ UNCHANGED <<clock, open, pc, camera, held, last, rolling,
                   handledFlagIds, past>>

(* The video is not ready, or the frame comes too soon.                    *)
SkipFrame ==
    /\ FrameDue
    /\ scheduleNextFrame
    /\ UNCHANGED <<clock, open, pc, camera, held, last, rolling,
                   handledFlagIds, past>>

LightDue == clock - last.light >= LightInterval

(* Mutant: the light send resets the heavy interval's time base.           *)
HeavyDueAfterLight ==
    clock - (IF last.light > last.heavy THEN last.light ELSE last.heavy)
        >= HeavyInterval

HeavyDue == clock - last.heavy >= HeavyInterval

If(due, times) == IF due THEN times \cup {clock} ELSE times

(* A frame is processed: detectFaces, light telemetry, and a heavy frame   *)
(* whose JPEG may fail to encode; its interval restarts all the same.      *)
processFrame(encoded) ==
    /\ FrameDue /\ ~TooSoon
    /\ last' = [frame |-> clock,
                light |-> IF LightDue THEN clock ELSE last.light,
                heavy |-> IF HeavyDue THEN clock ELSE last.heavy]
    /\ rolling' = IF HeavyDue /\ encoded THEN add(clock) ELSE rolling
    /\ past' = [past EXCEPT
         !.frames = @ \cup {clock},
         !.light = If(LightDue, @),
         !.heavy = If(HeavyDue, @),
         !.kept = If(HeavyDue /\ encoded, @)]
    /\ scheduleNextFrame
    /\ UNCHANGED <<clock, open, pc, camera, held, handledFlagIds>>

(* detectForVideo raises: the callback ends before it schedules another.   *)
DetectorRaises ==
    /\ FrameDue /\ ~TooSoon
    /\ last' = [last EXCEPT !.frame = clock]
    /\ flags' = [flags EXCEPT !.scheduled = FALSE]
    /\ past' = [past EXCEPT !.threw = TRUE]
    /\ UNCHANGED <<clock, open, pc, camera, held, rolling, handledFlagIds>>

(* A kill switch drains the buffer once per flag; the loop goes on.        *)
handleKillSwitch(f) ==
    /\ open
    /\ f \notin handledFlagIds
    /\ handledFlagIds' = handledFlagIds \cup {f}
    /\ rolling' = drain
    /\ past' = [past EXCEPT !.kept = {}]
    /\ UNCHANGED <<clock, open, pc, flags, camera, held, last>>

Next ==
    \/ Tick
    \/ SocketOpens \/ SocketCloses
    \/ getUserMedia \/ PlayVideo \/ AwaitMetadata \/ InitializeDetector
    \/ stop
    \/ AbandonFrame \/ SkipFrame \/ DetectorRaises
    \/ \E encoded \in BOOLEAN : processFrame(encoded)
    \/ \E f \in FlagIds : handleKillSwitch(f)

Spec == Init /\ [][Next]_vars

-----------------------------------------------------------------------------
(* Light and heavy telemetry fall due on exactly the processed frames at   *)
(* which their interval has passed since they last fell due, counted from  *)
(* the moment the loop began: skipped and late frames, and a due one whose *)
(* JPEG fails or whose socket is closed so that nothing leaves, neither    *)
(* delay nor advance the next (processFrame).                              *)
CadenceExact ==
    LET Exact(times, interval) ==
          \A t \in past.frames :
            t \in times <=> \A u \in times \cup {past.begun} :
                               u < t => t - u >= interval
    IN  /\ Exact(past.light, LightInterval)
        /\ Exact(past.heavy, HeavyInterval)

(* A loop that says it is running has its next frame scheduled, unless the *)
(* detector raised or stop() took the camera while start() was suspended.  *)
RunningLoopIsScheduled ==
    flags.running => \/ flags.scheduled
                     \/ past.threw
                     \/ past.cut /\ ~held.media

(* stop() after start() has settled leaves nothing on: no frame scheduled, *)
(* the camera off, whatever failed on the way, except for the stream a     *)
(* metadata timeout abandons.                                              *)
StoppedIsOff ==
    past.stopped => /\ ~flags.running /\ ~flags.scheduled
                    /\ camera => pc = "leaked"

(* rolling-buffer.ts: the buffer holds the pre-roll, "bounded to roughly   *)
(* 10-15 seconds": the heavy frames of the last windowMs, since the last   *)
(* drain.                                                                  *)
PreRollKept ==
    \A t \in past.kept : clock - t <= WindowMs
        => \E i \in DOMAIN rolling.entries : rolling.entries[i] = t
=============================================================================
