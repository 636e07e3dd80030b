---------------------------- MODULE ClientProofs ----------------------------
(***************************************************************************)
(* The candidate's page: what holds of its capture loop for every frame    *)
(* rate, interval and length of session, and between it and the server for *)
(* any number of flags, reconnects, losses and messages in flight.  The    *)
(* two parts share a module and nothing else; neither cites the other.     *)
(*                                                                         *)
(* LifeInv follows the camera through start(): a live track is held by the *)
(* loop once the media is ready, and only stop() takes it away again.      *)
(* TimesInv ties the three time bases to the frames processed so far.      *)
(*                                                                         *)
(* That an acknowledged kill-switch has locked the page is not inductive:  *)
(* the acknowledgement travels.  AcksTellTruth adds what is true of every  *)
(* acknowledgement still in flight; FlightInv does the same for the        *)
(* kill-switches themselves.                                               *)
(***************************************************************************)
EXTENDS CaptureLoop, TelemetryConnection, SequenceTheorems, FiniteSetTheorems,
        WellFoundedInduction, TLAPS

-----------------------------------------------------------------------------
(* The capture loop (CaptureLoop). *)


LifeInv ==
    /\ flags.running \/ flags.scheduled => pc = "up"
    /\ past.stopped => pc \in {"up", "failed", "leaked"}
    /\ camera => pc \notin {"idle", "camera"}
    /\ camera /\ pc \in {"detector", "up", "failed"} => held.media
    /\ held.media = held.inference
    /\ pc \in {"detector", "up"} /\ ~held.media => past.cut \/ past.stopped

(* base is the time base of the frames in times.                           *)
BaseOf(base, times) ==
    /\ base \in times \cup {past.begun}
    /\ times \subseteq past.frames
    /\ \A u \in times \cup {past.begun} : u <= base
    /\ base <= last.frame

TimesInv ==
    /\ last.frame <= clock
    /\ \A t \in past.frames : past.begun < t /\ t <= last.frame
    /\ BaseOf(last.light, past.light)
    /\ BaseOf(last.heavy, past.heavy)
    /\ pc # "up" => past.frames = {}

Exact(times, interval) ==
    \A t \in past.frames :
        t \in times <=> \A u \in times \cup {past.begun} :
                           u < t => t - u >= interval

CaptureInv == /\ CaptureTypeOK /\ LifeInv /\ TimesInv
              /\ CadenceExact /\ RunningLoopIsScheduled /\ StoppedIsOff

-----------------------------------------------------------------------------
(* Eviction from the front leaves a sequence of timestamps.                *)
LEMMA EvictTyped ==
    ASSUME NEW s \in Seq(Time)
    PROVE  Evict(s) \in Seq(Time)
<1> DEFINE cutoff == (TimeOrigin + clock) - WindowMs
           recent == {i \in DOMAIN s : s[i] >= cutoff}
           first == CHOOSE i \in recent : \A j \in recent : i <= j
<1>1. /\ Len(s) \in Nat /\ DOMAIN s = 1..Len(s)
      /\ \A i \in 1..Len(s) : s[i] \in Time
  OBVIOUS
<1>2. CASE recent = {}
  BY <1>2 DEF Evict
<1>3. CASE recent # {}
  <2> DEFINE R == OpToRel(<, Nat)
  <2>1. recent \subseteq Nat /\ recent \subseteq 1..Len(s)
    BY <1>1
  <2>2. PICK m \in recent : \A j \in recent : ~(<<j, m>> \in R)
    <3> HIDE DEF recent, R
    <3>1. IsWellFoundedOn(R, Nat)
      BY NatLessThanWellFounded DEF R
    <3> QED
      BY <1>3, <2>1, <3>1, WFMin
  <2>3. \A j \in recent : m <= j
    <3>1. \A j \in recent : ~(j < m)
      <4> HIDE DEF recent
      <4> QED
        BY <2>1, <2>2 DEF OpToRel
    <3>2. m \in Nat /\ \A j \in recent : j \in Nat
      BY <2>1, <2>2
    <3> HIDE DEF recent
    <3> QED
      BY <3>1, <3>2
  <2>4. first \in recent
    <3> HIDE DEF recent
    <3> QED
      BY <2>3
  <2>5. first \in Int /\ \A i \in first..Len(s) : s[i] \in Time
    <3> HIDE DEF recent, first
    <3> QED
      BY <1>1, <2>1, <2>4
  <2>6. SubSeq(s, first, Len(s)) \in Seq(Time)
    <3> HIDE DEF first
    <3> QED
      BY <1>1, <2>5, SubSeqProperties
  <2> QED
    BY <1>3, <2>6 DEF Evict
<1> QED
  BY <1>2, <1>3

(* add keeps the rolling buffer a pair of sequences of timestamps.         *)
LEMMA AddTyped ==
    ASSUME CaptureTypeOK, NEW t \in Time
    PROVE  add(t) \in [entries : Seq(Time), heavy : Seq(Time)]
<1>1. /\ rolling.entries \in Seq(Time) /\ rolling.heavy \in Seq(Time)
  BY DEF CaptureTypeOK
<1>2. /\ Append(rolling.entries, t) \in Seq(Time)
      /\ Append(rolling.heavy, t) \in Seq(Time)
  BY <1>1
<1>3. /\ Evict(Append(rolling.entries, t)) \in Seq(Time)
      /\ Evict(Append(rolling.heavy, t)) \in Seq(Time)
  BY <1>2, EvictTyped
<1> QED
  BY <1>3 DEF add

(* The initial state satisfies the invariant.                              *)
LEMMA CaptureInit == Init => CaptureInv
<1> SUFFICES ASSUME Init PROVE CaptureInv
  OBVIOUS
<1>1. 0 \in Time
  BY CaptureAssumption DEF Time
<1>2. CaptureTypeOK
  <2>1. rolling \in [entries : Seq(Time), heavy : Seq(Time)]
    BY DEF Init
  <2>2. past \in Past
    BY <1>1 DEF Init, Past
  <2>3. last \in [frame : Time, light : Time, heavy : Time]
    BY <1>1 DEF Init
  <2> QED
    BY <1>1, <2>1, <2>2, <2>3 DEF Init, CaptureTypeOK
<1>3. LifeInv /\ RunningLoopIsScheduled /\ StoppedIsOff
  BY DEF Init, LifeInv, RunningLoopIsScheduled, StoppedIsOff
<1>4. TimesInv /\ CadenceExact
  BY DEF Init, TimesInv, BaseOf, CadenceExact
<1> QED
  BY <1>2, <1>3, <1>4 DEF CaptureInv

(* Every step keeps the types.                                             *)
LEMMA TypeKept ==
    ASSUME CaptureTypeOK, [Next]_vars
    PROVE  CaptureTypeOK'
<1> USE DEF CaptureTypeOK, Suspended
<1> DEFINE Flagging == [running : BOOLEAN, initializing : BOOLEAN,
                        scheduled : BOOLEAN]
<1>0. ASSUME NEW outcome, Fail(outcome) PROVE flags' \in Flagging
  BY <1>0 DEF Fail
<1>00. ASSUME MediaReady PROVE held' \in [media : BOOLEAN, inference : BOOLEAN]
  BY <1>00 DEF MediaReady
<1>1. ASSUME Tick PROVE CaptureTypeOK'
  BY <1>1, CaptureAssumption DEF Tick, Time
<1>2. ASSUME SocketOpens \/ SocketCloses PROVE CaptureTypeOK'
  BY <1>2 DEF SocketOpens, SocketCloses
<1>3. ASSUME getUserMedia PROVE CaptureTypeOK'
  BY <1>3 DEF getUserMedia, Fail
<1>4. ASSUME PlayVideo PROVE CaptureTypeOK'
  <2>1. held' \in [media : BOOLEAN, inference : BOOLEAN]
    BY <1>00, <1>4 DEF PlayVideo
  <2>2. camera' \in BOOLEAN
    BY <1>4 DEF PlayVideo, MediaReady
  <2>3. flags' \in Flagging
    BY <1>4, <1>0 DEF PlayVideo, MediaReady
  <2> QED
    BY <1>4, <2>1, <2>2, <2>3 DEF PlayVideo, Fail, MediaReady
<1>5. ASSUME AwaitMetadata PROVE CaptureTypeOK'
  <2>1. held' \in [media : BOOLEAN, inference : BOOLEAN]
    BY <1>00, <1>5 DEF AwaitMetadata
  <2>2. flags' \in Flagging
    BY <1>5, <1>0 DEF AwaitMetadata, MediaReady
  <2>3. camera' \in BOOLEAN
    BY <1>5 DEF AwaitMetadata, MediaReady
  <2> QED
    BY <1>5, <2>1, <2>2, <2>3 DEF AwaitMetadata, Fail, MediaReady
<1>6. ASSUME InitializeDetector PROVE CaptureTypeOK'
  <2>1. flags' \in Flagging
    <3>1. CASE flags' = [running |-> TRUE, initializing |-> FALSE,
                         scheduled |-> TRUE]
      BY <3>1
    <3> QED
      BY <1>0, <1>6, <3>1 DEF InitializeDetector
  <2>2. last' \in [frame : Time, light : Time, heavy : Time]
    BY <1>6 DEF InitializeDetector
  <2>3. past' \in Past
    BY <1>6 DEF InitializeDetector, Past
  <2> QED
    BY <1>6, <2>1, <2>2, <2>3 DEF InitializeDetector, Fail
<1>7. ASSUME stop PROVE CaptureTypeOK'
  <2>1. past' \in Past
    BY <1>7 DEF stop, Past
  <2>2. camera' \in BOOLEAN
    BY <1>7 DEF stop
  <2>3. flags' \in Flagging
        /\ held' \in [media : BOOLEAN, inference : BOOLEAN]
    BY <1>7 DEF stop
  <2> QED
    BY <1>7, <2>1, <2>2, <2>3 DEF stop
<1>8. ASSUME AbandonFrame \/ SkipFrame PROVE CaptureTypeOK'
  <2>1. flags' \in Flagging
    BY <1>8 DEF AbandonFrame, SkipFrame, scheduleNextFrame
  <2> QED
    BY <1>8, <2>1 DEF AbandonFrame, SkipFrame
<1>9. ASSUME DetectorRaises PROVE CaptureTypeOK'
  BY <1>9 DEF DetectorRaises, Past
<1>10. ASSUME NEW encoded \in BOOLEAN, processFrame(encoded) PROVE CaptureTypeOK'
  <2>1. rolling' \in [entries : Seq(Time), heavy : Seq(Time)]
    BY <1>10, AddTyped DEF processFrame
  <2>2. past' \in Past
    BY <1>10 DEF processFrame, Past, If
  <2>3. last' \in [frame : Time, light : Time, heavy : Time]
    BY <1>10 DEF processFrame
  <2>4. flags' \in Flagging
    BY <1>10 DEF processFrame, scheduleNextFrame
  <2> QED
    BY <1>10, <2>1, <2>2, <2>3, <2>4 DEF processFrame
<1>11. ASSUME NEW f \in FlagIds, handleKillSwitch(f) PROVE CaptureTypeOK'
  BY <1>11 DEF handleKillSwitch, drain, Past
<1>12. ASSUME UNCHANGED vars PROVE CaptureTypeOK'
  BY <1>12 DEF vars
<1> QED
  BY <1>1, <1>2, <1>3, <1>4, <1>5, <1>6, <1>7, <1>8, <1>9, <1>10, <1>11, <1>12
     DEF Next

-----------------------------------------------------------------------------
(* The camera, the flags and the scheduled frame through start() and       *)
(* stop(), in whatever order they settle.                                  *)
LEMMA LifeKept ==
    ASSUME CaptureTypeOK, LifeInv, RunningLoopIsScheduled, StoppedIsOff,
           [Next]_vars
    PROVE  LifeInv' /\ RunningLoopIsScheduled' /\ StoppedIsOff'
<1> DEFINE Good == LifeInv /\ RunningLoopIsScheduled /\ StoppedIsOff
<1> USE DEF LifeInv, RunningLoopIsScheduled, StoppedIsOff
<1>0. /\ flags \in [running : BOOLEAN, initializing : BOOLEAN, scheduled : BOOLEAN]
      /\ held \in [media : BOOLEAN, inference : BOOLEAN]
      /\ past \in Past /\ camera \in BOOLEAN
  BY DEF CaptureTypeOK
<1>1. ASSUME UNCHANGED <<pc, flags, camera, held>>,
             past'.stopped = past.stopped, past'.cut = past.cut,
             past'.threw = past.threw
      PROVE  Good'
  BY <1>1
<1>2. ASSUME Tick \/ SocketCloses \/ UNCHANGED vars PROVE Good'
  BY <1>1, <1>2 DEF Tick, SocketCloses, vars
<1>3. ASSUME SocketOpens PROVE Good'
  <2>1. CASE pc = "idle"
    <3>1. /\ pc' = "camera" /\ flags'.running = flags.running
          /\ flags'.scheduled = flags.scheduled /\ UNCHANGED <<camera, held, past>>
      BY <1>0, <1>3, <2>1 DEF SocketOpens
    <3> QED
      BY <2>1, <3>1
  <2>2. CASE pc # "idle"
    BY <1>1, <1>3, <2>2 DEF SocketOpens
  <2> QED
    BY <2>1, <2>2
<1>4. ASSUME NEW outcome, Fail(outcome)
      PROVE  /\ pc' = outcome /\ flags'.running = flags.running
             /\ flags'.scheduled = flags.scheduled
  BY <1>0, <1>4 DEF Fail
<1>5. ASSUME getUserMedia PROVE Good'
  <2>1. pc = "camera" /\ UNCHANGED <<held, past>>
    BY <1>5 DEF getUserMedia
  <2>2. CASE pc' = "play" /\ camera' = TRUE /\ UNCHANGED flags
    BY <2>1, <2>2
  <2>3. CASE Fail("failed") /\ UNCHANGED camera
    BY <1>4, <2>1, <2>3
  <2> QED
    BY <1>5, <2>2, <2>3 DEF getUserMedia
<1>6. ASSUME pc \in {"play", "metadata"}, MediaReady, UNCHANGED past PROVE Good'
  <2>1. /\ pc' = "detector" /\ held'.media = TRUE /\ held'.inference = TRUE
        /\ UNCHANGED <<flags, camera>>
    BY <1>6 DEF MediaReady
  <2> QED
    BY <1>6, <2>1
<1>7. ASSUME PlayVideo PROVE Good'
  <2>1. pc = "play" /\ UNCHANGED past
    BY <1>7 DEF PlayVideo
  <2>2. CASE pc' = "metadata" /\ UNCHANGED <<flags, camera, held>>
    BY <2>1, <2>2
  <2>3. CASE Fail("failed") /\ camera' = FALSE /\ UNCHANGED held
    BY <1>4, <2>1, <2>3
  <2> QED
    BY <1>6, <1>7, <2>1, <2>2, <2>3 DEF PlayVideo
<1>8. ASSUME AwaitMetadata PROVE Good'
  <2>1. pc = "metadata" /\ UNCHANGED past
    BY <1>8 DEF AwaitMetadata
  <2>2. CASE Fail("leaked") /\ UNCHANGED <<camera, held>>
    BY <1>4, <2>1, <2>2
  <2>3. CASE Fail("failed") /\ camera' = FALSE /\ UNCHANGED held
    BY <1>4, <2>1, <2>3
  <2> QED
    BY <1>6, <1>8, <2>1, <2>2, <2>3 DEF AwaitMetadata
<1>9. ASSUME InitializeDetector PROVE Good'
  <2>1. pc = "detector" /\ UNCHANGED <<camera, held>>
    BY <1>9 DEF InitializeDetector
  <2>2. CASE Fail("failed") /\ UNCHANGED past
    BY <1>4, <2>1, <2>2
  <2>3. CASE ~(Fail("failed") /\ UNCHANGED past)
    <3>1. /\ pc' = "up" /\ flags'.running = TRUE /\ flags'.scheduled = TRUE
          /\ past' = [past EXCEPT !.begun = clock]
      BY <1>9, <2>3 DEF InitializeDetector
    <3>2. past'.stopped = past.stopped /\ past'.cut = past.cut
          /\ past'.threw = past.threw
      BY <1>0, <3>1 DEF Past
    <3> QED
      BY <2>1, <3>1, <3>2
  <2> QED
    BY <2>2, <2>3
<1>10. ASSUME stop PROVE Good'
  <2>1. /\ pc # "idle" /\ UNCHANGED pc
        /\ flags'.running = FALSE /\ flags'.scheduled = FALSE
        /\ held'.media = FALSE /\ held'.inference = FALSE
        /\ camera' = (camera /\ ~held.media)
    BY <1>0, <1>10 DEF stop
  <2>2. CASE pc \in Suspended
    <3>1. past' = [past EXCEPT !.cut = TRUE]
      BY <1>10, <2>2 DEF stop
    <3>2. past'.stopped = past.stopped /\ past'.cut = TRUE
      BY <1>0, <3>1 DEF Past
    <3> QED
      BY <2>1, <2>2, <3>2 DEF Suspended
  <2>3. CASE pc \notin Suspended
    <3>1. past' = [past EXCEPT !.stopped = TRUE]
      BY <1>10, <2>3 DEF stop
    <3>2. past'.stopped = TRUE /\ past'.cut = past.cut
      BY <1>0, <3>1 DEF Past
    <3>3. pc \in {"up", "failed", "leaked"}
      BY <2>1, <2>3 DEF CaptureTypeOK, Suspended
    <3> QED
      BY <2>1, <3>2, <3>3
  <2> QED
    BY <2>2, <2>3
<1>11. ASSUME AbandonFrame PROVE Good'
  <2>1. /\ flags.scheduled /\ ~(flags.running /\ held.media /\ held.inference)
        /\ UNCHANGED <<pc, camera, held, past>>
        /\ flags'.running = flags.running /\ flags'.scheduled = FALSE
    BY <1>0, <1>11 DEF AbandonFrame
  <2> QED
    BY <2>1
<1>12. ASSUME FrameDue, scheduleNextFrame, UNCHANGED <<pc, camera, held>>,
              past'.stopped = past.stopped, past'.cut = past.cut,
              past'.threw = past.threw
       PROVE  Good'
  <2>1. flags'.running = flags.running /\ flags'.scheduled = flags.running
    BY <1>0, <1>12 DEF scheduleNextFrame
  <2> QED
    BY <1>12, <2>1 DEF FrameDue
<1>13. ASSUME SkipFrame PROVE Good'
  BY <1>12, <1>13 DEF SkipFrame
<1>14. ASSUME NEW encoded \in BOOLEAN, processFrame(encoded) PROVE Good'
  <2>1. past'.stopped = past.stopped /\ past'.cut = past.cut
        /\ past'.threw = past.threw
    BY <1>0, <1>14 DEF processFrame, Past
  <2> QED
    BY <1>12, <1>14, <2>1 DEF processFrame
<1>15. ASSUME DetectorRaises PROVE Good'
  <2>1. /\ FrameDue /\ UNCHANGED <<pc, camera, held>>
        /\ flags'.running = flags.running /\ flags'.scheduled = FALSE
    BY <1>0, <1>15 DEF DetectorRaises
  <2>2. past'.stopped = past.stopped /\ past'.cut = past.cut
        /\ past'.threw = TRUE
    BY <1>0, <1>15 DEF DetectorRaises, Past
  <2> QED
    BY <2>1, <2>2 DEF FrameDue
<1>16. ASSUME NEW f \in FlagIds, handleKillSwitch(f) PROVE Good'
  <2>1. past'.stopped = past.stopped /\ past'.cut = past.cut
        /\ past'.threw = past.threw
    BY <1>0, <1>16 DEF handleKillSwitch, Past
  <2> QED
    BY <1>1, <1>16, <2>1 DEF handleKillSwitch
<1> QED
  BY <1>2, <1>3, <1>5, <1>7, <1>8, <1>9, <1>10, <1>11, <1>13, <1>14, <1>15,
     <1>16 DEF Next

-----------------------------------------------------------------------------
(* One time base over a processed frame: a frame at which the interval has *)
(* passed since the base is the first such frame since the base.           *)
LEMMA CadenceStep ==
    ASSUME CaptureTypeOK, TimesInv, last.frame < clock,
           NEW base \in Time, NEW times \in SUBSET Time, NEW interval \in Nat,
           BaseOf(base, times), Exact(times, interval),
           last'.frame = clock, past'.begun = past.begun,
           past'.frames = past.frames \cup {clock},
           NEW base1, NEW times1,
           \/ /\ clock - base >= interval
              /\ base1 = clock /\ times1 = times \cup {clock}
           \/ /\ ~(clock - base >= interval)
              /\ base1 = base /\ times1 = times
    PROVE  BaseOf(base1, times1)' /\ Exact(times1, interval)'
<1> DEFINE earlier == times \cup {past.begun}
<1>0. /\ clock \in Nat /\ base \in Nat /\ past.begun \in Nat /\ last.frame \in Nat
      /\ \A t \in past.frames : t \in Nat
      /\ \A t \in times : t \in Nat
  BY CaptureAssumption DEF CaptureTypeOK, Past, Time
<1>1. \A t \in past.frames : past.begun < t /\ t < clock
  BY <1>0 DEF TimesInv
<1>2. base \in earlier /\ times \subseteq past.frames /\ base < clock
  BY <1>0 DEF BaseOf
<1>3. \A u \in earlier : u \in Nat /\ u <= base /\ u < clock
  BY <1>0, <1>2 DEF BaseOf
<1>4. earlier \subseteq times1 \cup {past.begun}
  OBVIOUS
<1>5. \A u \in times1 \cup {past.begun} : u \in earlier \/ u = clock
  OBVIOUS
<1>6. BaseOf(base1, times1)'
  <2>1. /\ base1 \in times1 \cup {past.begun}
        /\ times1 \subseteq past.frames \cup {clock}
        /\ base1 <= clock /\ base <= base1
        /\ clock \in times1 => base1 = clock
    <3>1. clock \notin earlier /\ times \subseteq earlier
      BY <1>0, <1>3
    <3>2. CASE base1 = clock /\ times1 = times \cup {clock}
      BY <1>0, <1>2, <3>2
    <3>3. CASE base1 = base /\ times1 = times
      BY <1>0, <1>2, <3>1, <3>3
    <3> QED
      BY <3>2, <3>3
  <2>2. \A u \in times1 \cup {past.begun} : u <= base1
    <3> HIDE DEF earlier
    <3>1. base1 \in Nat
      BY <1>0
    <3>2. ASSUME NEW u \in earlier PROVE u <= base1
      BY <1>0, <1>3, <2>1, <3>1, <3>2
    <3>3. clock \in times1 \cup {past.begun} => clock <= base1
      BY <1>0, <1>1, <1>2, <1>3, <2>1 DEF earlier
    <3> QED
      BY <1>5, <3>2, <3>3
  <2> QED
    BY <2>1, <2>2 DEF BaseOf
<1>7. Exact(times1, interval)'
  <2> SUFFICES ASSUME NEW t \in past.frames \cup {clock}
               PROVE  t \in times1 <=> \A u \in times1 \cup {past.begun} :
                                          u < t => t - u >= interval
    BY DEF Exact
  <2>1. CASE t \in past.frames
    <3>1. t < clock /\ t \in Nat
      BY <1>0, <1>1, <2>1
    <3>2. t \in times1 <=> t \in times
      BY <1>0, <3>1
    <3>3. \A u \in times1 \cup {past.begun} : u < t => u \in earlier
      BY <1>0, <1>5, <3>1
    <3> QED
      BY <1>4, <2>1, <3>2, <3>3 DEF Exact
  <2>2. CASE t = clock
    <3>1. \A u \in times1 \cup {past.begun} : u < clock => u \in earlier
      BY <1>0, <1>5
    <3>2. CASE clock - base >= interval
      <4>1. clock \in times1
        BY <3>2
      <4>2. ASSUME NEW u \in earlier PROVE clock - u >= interval
        <5>1. u \in Nat /\ u <= base
          BY <1>3
        <5> QED
          BY <1>0, <3>2, <5>1
      <4> QED
        BY <2>2, <3>1, <4>1, <4>2
    <3>3. CASE ~(clock - base >= interval)
      <4>1. clock \notin times1
        BY <1>0, <1>3, <3>3
      <4>2. base \in times1 \cup {past.begun} /\ base < clock
        BY <1>2, <1>4
      <4> QED
        BY <2>2, <3>3, <4>1, <4>2
    <3> QED
      BY <3>2, <3>3
  <2> QED
    BY <2>1, <2>2
<1> QED
  BY <1>6, <1>7

(* The cadence is the conjunction of the two time bases'.                  *)
LEMMA CadenceIsExact ==
    CadenceExact <=> /\ Exact(past.light, LightInterval)
                     /\ Exact(past.heavy, HeavyInterval)
  BY DEF CadenceExact, Exact

(* Every step keeps the time bases and the cadence.                        *)
LEMMA TimesKept ==
    ASSUME CaptureTypeOK, LifeInv, TimesInv, CadenceExact, [Next]_vars
    PROVE  TimesInv' /\ CadenceExact'
<1>0. /\ last \in [frame : Time, light : Time, heavy : Time] /\ past \in Past
      /\ clock \in Nat /\ last.frame \in Nat /\ last.light \in Nat
      /\ last.heavy \in Nat
      /\ clock \in Time
  BY CaptureAssumption DEF CaptureTypeOK, Time
<1>1. ASSUME UNCHANGED last, clock' \in Nat, clock <= clock',
             past'.begun = past.begun, past'.frames = past.frames,
             past'.light = past.light, past'.heavy = past.heavy,
             pc' # "up" => pc # "up"
      PROVE  TimesInv' /\ CadenceExact'
  <2>1. TimesInv'
    BY <1>0, <1>1 DEF TimesInv, BaseOf
  <2>2. CadenceExact'
    BY <1>1 DEF CadenceExact
  <2> QED
    BY <2>1, <2>2
<1>2. ASSUME Tick PROVE TimesInv' /\ CadenceExact'
  BY <1>0, <1>1, <1>2 DEF Tick
<1>3. ASSUME \/ SocketOpens \/ SocketCloses \/ getUserMedia \/ PlayVideo
             \/ AwaitMetadata \/ AbandonFrame \/ SkipFrame \/ UNCHANGED vars
      PROVE  TimesInv' /\ CadenceExact'
  <2>1. UNCHANGED <<last, clock, past>>
    BY <1>3 DEF SocketOpens, SocketCloses, getUserMedia, PlayVideo,
                AwaitMetadata, AbandonFrame, SkipFrame, vars
  <2>2. pc' # "up" => pc # "up"
    BY <1>3 DEF SocketOpens, SocketCloses, getUserMedia, PlayVideo,
                AwaitMetadata, AbandonFrame, SkipFrame, vars
  <2> QED
    BY <1>0, <1>1, <2>1, <2>2
<1>4. ASSUME stop PROVE TimesInv' /\ CadenceExact'
  <2>1. /\ past'.begun = past.begun /\ past'.frames = past.frames
        /\ past'.light = past.light /\ past'.heavy = past.heavy
    BY <1>0, <1>4 DEF stop, Past
  <2> QED
    BY <1>0, <1>1, <1>4, <2>1 DEF stop
<1>5. ASSUME NEW f \in FlagIds, handleKillSwitch(f) PROVE TimesInv' /\ CadenceExact'
  <2>1. /\ past'.begun = past.begun /\ past'.frames = past.frames
        /\ past'.light = past.light /\ past'.heavy = past.heavy
    BY <1>0, <1>5 DEF handleKillSwitch, Past
  <2> QED
    BY <1>0, <1>1, <1>5, <2>1 DEF handleKillSwitch
<1>6. ASSUME InitializeDetector PROVE TimesInv' /\ CadenceExact'
  <2>1. past.frames = {} /\ past.light = {} /\ past.heavy = {}
    BY <1>6 DEF InitializeDetector, TimesInv, BaseOf
  <2>2. UNCHANGED clock
    BY <1>6 DEF InitializeDetector
  <2>3. CASE Fail("failed") /\ UNCHANGED <<last, past>>
    <3>1. pc # "up"
      BY <1>6 DEF InitializeDetector
    <3> QED
      BY <1>0, <1>1, <2>2, <2>3, <3>1
  <2>4. CASE /\ last' = [frame |-> clock, light |-> clock, heavy |-> clock]
             /\ past' = [past EXCEPT !.begun = clock]
    <3>1. /\ past'.begun = clock /\ past'.frames = {} /\ past'.light = {}
          /\ past'.heavy = {}
      BY <1>0, <2>1, <2>4 DEF Past
    <3>2. last'.frame = clock /\ last'.light = clock /\ last'.heavy = clock
      BY <2>4
    <3> QED
      BY <1>0, <2>2, <3>1, <3>2 DEF TimesInv, BaseOf, CadenceExact
  <2> QED
    BY <1>6, <2>3, <2>4 DEF InitializeDetector
<1>7. FrameDue => pc = "up"
  BY DEF FrameDue, LifeInv
<1>8. ASSUME DetectorRaises PROVE TimesInv' /\ CadenceExact'
  <2>1. /\ last'.frame = clock /\ last'.light = last.light
        /\ last'.heavy = last.heavy /\ pc = "up" /\ UNCHANGED <<pc, clock>>
    BY <1>0, <1>7, <1>8 DEF DetectorRaises
  <2>2. /\ past'.begun = past.begun /\ past'.frames = past.frames
        /\ past'.light = past.light /\ past'.heavy = past.heavy
    BY <1>0, <1>8 DEF DetectorRaises, Past
  <2>3. TimesInv'
    <3>1. \A t \in past.frames : t \in Nat
      BY <1>0, CaptureAssumption DEF Past, Time
    <3> QED
      BY <1>0, <2>1, <2>2, <3>1 DEF TimesInv, BaseOf
  <2>4. CadenceExact'
    BY <2>2 DEF CadenceExact
  <2> QED
    BY <2>3, <2>4
<1>9. ASSUME NEW encoded \in BOOLEAN, processFrame(encoded)
      PROVE  TimesInv' /\ CadenceExact'
  <2>1. /\ pc = "up" /\ UNCHANGED <<pc, clock>> /\ last.frame < clock
    BY <1>0, <1>7, <1>9, CaptureAssumption DEF processFrame, TooSoon
  <2>2. /\ last'.frame = clock
        /\ last'.light = IF LightDue THEN clock ELSE last.light
        /\ last'.heavy = IF HeavyDue THEN clock ELSE last.heavy
    BY <1>9 DEF processFrame
  <2>3. /\ past'.begun = past.begun
        /\ past'.frames = past.frames \cup {clock}
        /\ past'.light = If(LightDue, past.light)
        /\ past'.heavy = If(HeavyDue, past.heavy)
    BY <1>0, <1>9 DEF processFrame, Past
  <2>4. /\ past.light \in SUBSET Time /\ past.heavy \in SUBSET Time
        /\ last.light \in Time /\ last.heavy \in Time
    BY <1>0 DEF Past
  <2>5. /\ BaseOf(last.light, past.light) /\ BaseOf(last.heavy, past.heavy)
        /\ Exact(past.light, LightInterval) /\ Exact(past.heavy, HeavyInterval)
    BY CadenceIsExact DEF TimesInv
  <2>6. PICK light, lights, heavy, heavies :
          /\ light = last'.light /\ lights = past'.light
          /\ heavy = last'.heavy /\ heavies = past'.heavy
    OBVIOUS
  <2>7. BaseOf(light, lights)' /\ Exact(lights, LightInterval)'
    <3>1. \/ /\ clock - last.light >= LightInterval
             /\ light = clock /\ lights = past.light \cup {clock}
          \/ /\ ~(clock - last.light >= LightInterval)
             /\ light = last.light /\ lights = past.light
      BY <2>2, <2>3, <2>6 DEF LightDue, If
    <3> QED
      BY <2>1, <2>2, <2>3, <2>4, <2>5, <3>1, CadenceStep, CaptureAssumption
  <2>8. BaseOf(heavy, heavies)' /\ Exact(heavies, HeavyInterval)'
    <3>1. \/ /\ clock - last.heavy >= HeavyInterval
             /\ heavy = clock /\ heavies = past.heavy \cup {clock}
          \/ /\ ~(clock - last.heavy >= HeavyInterval)
             /\ heavy = last.heavy /\ heavies = past.heavy
      BY <2>2, <2>3, <2>6 DEF HeavyDue, If
    <3> QED
      BY <2>1, <2>2, <2>3, <2>4, <2>5, <3>1, CadenceStep, CaptureAssumption
  <2>9. TimesInv'
    <3>1. \A t \in past.frames \cup {clock} : past.begun < t /\ t <= clock
      <4>1. \A t \in past.frames : t \in Nat
        BY <1>0, CaptureAssumption DEF Past, Time
      <4>2. past.begun \in Nat /\ past.begun <= last.frame
        BY <1>0, <2>5, CaptureAssumption DEF Past, Time, BaseOf
      <4> QED
        BY <1>0, <2>1, <4>1, <4>2 DEF TimesInv
    <3> QED
      BY <1>0, <2>1, <2>2, <2>3, <2>6, <2>7, <2>8, <3>1 DEF TimesInv, BaseOf
  <2>10. CadenceExact'
    BY <2>6, <2>7, <2>8 DEF CadenceExact, Exact
  <2> QED
    BY <2>9, <2>10
<1> QED
  BY <1>2, <1>3, <1>4, <1>5, <1>6, <1>8, <1>9 DEF Next

-----------------------------------------------------------------------------
(* The invariant holds throughout.                                         *)
LEMMA CaptureAlways == Spec => []CaptureInv
<1>1. CaptureInv /\ [Next]_vars => CaptureInv'
  BY TypeKept, LifeKept, TimesKept DEF CaptureInv
<1> QED
  BY <1>1, CaptureInit, PTL DEF Spec

(* The loop's state keeps its types for every session.                     *)
THEOREM CaptureTypeCorrect == Spec => []CaptureTypeOK
<1>1. CaptureInv => CaptureTypeOK
  BY DEF CaptureInv
<1> QED
  BY <1>1, CaptureAlways, PTL

(* Light and heavy telemetry fall due on exactly the frames at which their *)
(* interval has passed, for every frame rate and pair of intervals         *)
(* (processFrame).                                                         *)
THEOREM CadenceKept == Spec => []CadenceExact
<1>1. CaptureInv => CadenceExact
  BY DEF CaptureInv
<1> QED
  BY <1>1, CaptureAlways, PTL

(* A running loop has its next frame scheduled unless the detector raised  *)
(* or a stop() during start() took the camera, in every interleaving.      *)
THEOREM RunningScheduled == Spec => []RunningLoopIsScheduled
<1>1. CaptureInv => RunningLoopIsScheduled
  BY DEF CaptureInv
<1> QED
  BY <1>1, CaptureAlways, PTL

(* stop() after start() has settled turns everything off for good, but for *)
(* the stream a metadata timeout abandons.                                 *)
THEOREM StoppedOff == Spec => []StoppedIsOff
<1>1. CaptureInv => StoppedIsOff
  BY DEF CaptureInv
<1> QED
  BY <1>1, CaptureAlways, PTL

-----------------------------------------------------------------------------
(* The connection (TelemetryConnection). *)


IsSeq(s) == \E T : s \in Seq(T)

(* Every acknowledgement in a connection's queue is for a locked flag.     *)
TellsTruth(s) ==
    \A i \in 1 .. Len(s) : s[i].t = "kill_switch_ack" => s[i].flag \in handled

AcksTellTruth == \A k \in Attempts : IsSeq(c2s[k]) /\ TellsTruth(c2s[k])

LockedIsTerminal == handled # {} => isTerminal

ConnInv ==
    /\ DOMAIN c2s = Attempts
    /\ DOMAIN acked = Attempts
    /\ DOMAIN pending = Attempts
    /\ AcksTellTruth
    /\ AckMeansLocked
    /\ LockedIsTerminal

(* Appending and dequeuing keep a queue a sequence.                        *)
LEMMA AppendSeq ==
    ASSUME NEW s, IsSeq(s), NEW x
    PROVE  /\ IsSeq(Append(s, x))
           /\ Len(s) \in Nat /\ Len(Append(s, x)) = Len(s) + 1
           /\ \A i \in 1 .. Len(s) : Append(s, x)[i] = s[i]
           /\ Append(s, x)[Len(s) + 1] = x
<1>0. PICK T : s \in Seq(T)
  BY DEF IsSeq
<1>1. s \in Seq(T \cup {x}) /\ x \in T \cup {x}
  BY <1>0
<1> QED
  BY <1>1, AppendProperties DEF IsSeq

(* The rest of a sequence is one, shifted by one.                          *)
LEMMA TailSeq ==
    ASSUME NEW s, IsSeq(s), s # <<>>
    PROVE  /\ IsSeq(Tail(s))
           /\ Len(s) \in Nat \ {0} /\ Len(Tail(s)) = Len(s) - 1
           /\ \A i \in 1 .. Len(Tail(s)) : Tail(s)[i] = s[i + 1]
<1>0. PICK T : s \in Seq(T)
  BY DEF IsSeq
<1>1. Tail(s) \in Seq(T)
  BY <1>0, HeadTailProperties
<1> QED
  BY <1>0, <1>1, HeadTailProperties DEF IsSeq

(* A step that appends at most one message to one queue keeps what the     *)
(* acknowledgements say, if that message is true and nothing is unlocked.  *)
LEMMA AppendKeepsTruth ==
    ASSUME ConnInv, handled \subseteq handled', NEW x,
           c2s' = [c2s EXCEPT ![ws] = Append(@, x)],
           x.t = "kill_switch_ack" => x.flag \in handled'
    PROVE  AcksTellTruth' /\ DOMAIN c2s' = Attempts
<1>0. DOMAIN c2s = Attempts /\ DOMAIN c2s' = Attempts
  BY DEF ConnInv
<1>1. ASSUME NEW k \in Attempts PROVE IsSeq(c2s'[k]) /\ TellsTruth(c2s[k])'
  <2>0. IsSeq(c2s[k]) /\ TellsTruth(c2s[k])
    BY DEF ConnInv, AcksTellTruth
  <2>1. CASE k = ws
    <3>1. c2s'[k] = Append(c2s[k], x)
      BY <1>0, <2>1
    <3>2. /\ IsSeq(c2s'[k])
          /\ Len(c2s[k]) \in Nat /\ Len(c2s'[k]) = Len(c2s[k]) + 1
          /\ \A i \in 1 .. Len(c2s[k]) : c2s'[k][i] = c2s[k][i]
          /\ c2s'[k][Len(c2s[k]) + 1] = x
      BY <2>0, <3>1, AppendSeq
    <3> QED
      BY <2>0, <3>2 DEF TellsTruth
  <2>2. CASE k # ws
    <3>1. c2s'[k] = c2s[k]
      BY <1>0, <2>2
    <3> QED
      BY <2>0, <3>1 DEF TellsTruth
  <2> QED
    BY <2>1, <2>2
<1> QED
  BY <1>0, <1>1 DEF AcksTellTruth

(* The initial state has no acknowledgement and no lock.                   *)
LEMMA InitConnInv == ConnInit => ConnInv
<1> SUFFICES ASSUME ConnInit PROVE ConnInv
  OBVIOUS
<1>1. <<>> \in Seq({})
  OBVIOUS
<1>2. AcksTellTruth
  BY <1>1 DEF ConnInit, AcksTellTruth, IsSeq, TellsTruth
<1>3. AckMeansLocked
  BY Zenon DEF ConnInit, AckMeansLocked
<1> QED
  BY <1>2, <1>3 DEF ConnInit, ConnInv, LockedIsTerminal

(* A step that leaves queues, delivery state and locks alone and does not  *)
(* revive a terminal page keeps the invariant.                             *)
LEMMA FrameStep ==
    ASSUME ConnInv, UNCHANGED <<c2s, acked, pending, handled>>,
           isTerminal => isTerminal'
    PROVE  ConnInv'
  BY DEF ConnInv, AcksTellTruth, TellsTruth, IsSeq, AckMeansLocked, LockedIsTerminal

(* Every step of the page, the server and the transport keeps the          *)
(* invariant.                                                              *)
LEMMA StepConnInv == ConnInv /\ [ConnNext]_connVars => ConnInv'
<1> SUFFICES ASSUME ConnInv, [ConnNext]_connVars PROVE ConnInv'
  OBVIOUS
<1> USE DEF clientVars, netVars, serverVars, counters
<1>1. CASE UNCHANGED connVars
  BY <1>1, FrameStep DEF connVars
<1>2. CASE Connect \/ EndSession
  BY <1>2, FrameStep DEF Connect, EndSession
<1>3. ASSUME NEW k \in Attempts,
             \/ Accept(k) \/ ServerPing(k) \/ HeartbeatTimeout(k)
             \/ ServerNoticesLoss(k) \/ \E f \in Flags : OnKillSwitch(k, f)
      PROVE  ConnInv'
  BY <1>3, FrameStep DEF Accept, ServerPing, HeartbeatTimeout, ServerNoticesLoss,
                         OnKillSwitch
<1>4. CASE ClientNoticesLoss
  BY <1>4, FrameStep DEF ClientNoticesLoss, HandleClose
<1>5. CASE Send \/ ClientPing
  <2>1. /\ \E x : /\ c2s' = [c2s EXCEPT ![ws] = Append(@, x)]
                  /\ x.t # "kill_switch_ack"
        /\ UNCHANGED <<acked, pending, handled, isTerminal>>
    BY <1>5 DEF Send, ClientPing, Msg
  <2>2. AcksTellTruth' /\ DOMAIN c2s' = Attempts
    BY <2>1, AppendKeepsTruth
  <2> QED
    BY <2>1, <2>2 DEF ConnInv, AckMeansLocked, LockedIsTerminal
<1>6. CASE ClientReceive
  <2>0. UNCHANGED <<acked, pending>>
    BY <1>6 DEF ClientReceive
  <2>1. \/ HandleOpen \/ HandlePing \/ (\E n : HandleAck(n))
        \/ (\E f : HandleKillSwitch(f)) \/ (HandleClose("app") /\ UNCHANGED c2s)
    BY <1>6 DEF ClientReceive
  <2>2. CASE \/ HandleOpen \/ (\E n : HandleAck(n))
             \/ (HandleClose("app") /\ UNCHANGED c2s)
    <3>1. UNCHANGED <<c2s, handled>>
      BY <2>2 DEF HandleOpen, HandleAck, HandleClose
    <3>2. CASE HandleOpen
      BY <2>0, <3>1, <3>2, FrameStep DEF HandleOpen
    <3>3. CASE \E n : HandleAck(n)
      BY <2>0, <3>1, <3>3, FrameStep DEF HandleAck
    <3>4. CASE HandleClose("app")
      BY <2>0, <3>1, <3>4, FrameStep DEF HandleClose
    <3> QED
      BY <2>2, <3>2, <3>3, <3>4
  <2>3. CASE HandlePing
    <3>1. /\ c2s' = [c2s EXCEPT ![ws] = Append(@, Msg("pong"))]
          /\ UNCHANGED <<handled, isTerminal>>
      BY <2>3 DEF HandlePing
    <3>2. Msg("pong").t # "kill_switch_ack"
      BY DEF Msg
    <3>3. AcksTellTruth' /\ DOMAIN c2s' = Attempts
      BY <3>1, <3>2, AppendKeepsTruth
    <3> QED
      BY <2>0, <3>1, <3>3 DEF ConnInv, AckMeansLocked, LockedIsTerminal
  <2>4. ASSUME NEW f, HandleKillSwitch(f) PROVE ConnInv'
    <3>1. /\ c2s' = [c2s EXCEPT ![ws] = Append(@, KillSwitchAck(f))]
          /\ handled' = handled \cup {f}
          /\ isTerminal'
      BY <2>4 DEF HandleKillSwitch
    <3>2. KillSwitchAck(f).flag = f
      BY DEF KillSwitchAck
    <3>3. AcksTellTruth' /\ DOMAIN c2s' = Attempts
      BY <3>1, <3>2, AppendKeepsTruth
    <3> QED
      BY <2>0, <3>1, <3>3 DEF ConnInv, AckMeansLocked, LockedIsTerminal
  <2> QED
    BY <2>1, <2>2, <2>3, <2>4
<1>7. ASSUME NEW k \in Attempts, Receive(k) PROVE ConnInv'
  <2>0. /\ c2s[k] # <<>> /\ c2s' = [c2s EXCEPT ![k] = Tail(@)]
        /\ UNCHANGED <<handled, isTerminal, pending>>
        /\ DOMAIN c2s = Attempts
        /\ IsSeq(c2s[k]) /\ TellsTruth(c2s[k])
    BY <1>7 DEF Receive, ConnInv, AcksTellTruth
  <2>1. /\ IsSeq(Tail(c2s[k])) /\ Len(c2s[k]) \in Nat \ {0}
        /\ Len(Tail(c2s[k])) = Len(c2s[k]) - 1
        /\ \A i \in 1 .. Len(Tail(c2s[k])) : Tail(c2s[k])[i] = c2s[k][i + 1]
    BY <2>0, TailSeq
  <2>2. TellsTruth(Tail(c2s[k]))
    BY <2>0, <2>1 DEF TellsTruth
  <2>3. AcksTellTruth' /\ DOMAIN c2s' = Attempts
    <3>1. ASSUME NEW j \in Attempts PROVE IsSeq(c2s'[j]) /\ TellsTruth(c2s[j])'
      <4>1. c2s'[j] = IF j = k THEN Tail(c2s[k]) ELSE c2s[j]
        BY <2>0
      <4>2. IsSeq(c2s[j]) /\ TellsTruth(c2s[j])
        BY DEF ConnInv, AcksTellTruth
      <4> QED
        BY <2>0, <2>1, <2>2, <4>1, <4>2 DEF TellsTruth
    <3> QED
      BY <2>0, <3>1 DEF AcksTellTruth
  <2>4. ASSUME NEW j \in Attempts, acked'[j] PROVE pending[j] \in handled
    <3>1. CASE acked[j]
      BY <3>1 DEF ConnInv, AckMeansLocked
    <3>2. CASE ~acked[j]
      <4>1. j = k /\ Head(c2s[k]).t = "kill_switch_ack"
               /\ RecordKillSwitchAck(k, Head(c2s[k]).flag)
        BY <1>7, <2>4, <3>2 DEF Receive, ConnInv
      <4>2. Head(c2s[k]) = c2s[k][1] /\ 1 \in 1 .. Len(c2s[k])
        BY <2>0, <2>1, HeadTailProperties DEF IsSeq
      <4>3. c2s[k][1].flag \in handled
        BY <2>0, <4>1, <4>2 DEF TellsTruth
      <4> QED
        BY <4>1, <4>2, <4>3 DEF RecordKillSwitchAck
    <3> QED
      BY <3>1, <3>2
  <2>5. DOMAIN acked' = Attempts
    BY <1>7 DEF Receive, ConnInv
  <2> QED
    BY <2>0, <2>3, <2>4, <2>5 DEF ConnInv, AckMeansLocked, LockedIsTerminal
<1>8. ASSUME NEW k \in Attempts, DrainKillSwitch(k) PROVE ConnInv'
  <2>1. /\ UNCHANGED <<c2s, handled, isTerminal>>
        /\ DOMAIN acked' = Attempts /\ DOMAIN pending' = Attempts
    BY <1>8 DEF DrainKillSwitch, ConnInv
  <2>2. ASSUME NEW j \in Attempts, acked'[j] PROVE pending'[j] \in handled
    <3>1. acked[j] /\ pending'[j] = pending[j]
      BY <1>8, <2>2 DEF DrainKillSwitch, ConnInv
    <3> QED
      BY <3>1 DEF ConnInv, AckMeansLocked
  <2> QED
    BY <2>1, <2>2 DEF ConnInv, AcksTellTruth, TellsTruth, IsSeq, AckMeansLocked,
                      LockedIsTerminal
<1>9. ASSUME NEW k \in Attempts, LoseTransport(k) PROVE ConnInv'
  <2>1. /\ UNCHANGED <<acked, pending, handled, isTerminal>>
        /\ c2s' = [c2s EXCEPT ![k] = <<>>] /\ DOMAIN c2s = Attempts
    BY <1>9 DEF LoseTransport, ConnInv
  <2>2. IsSeq(<<>>) /\ TellsTruth(<<>>)
    <3>1. <<>> \in Seq({})
      OBVIOUS
    <3> QED
      BY <3>1 DEF IsSeq, TellsTruth
  <2>3. AcksTellTruth'
    <3>1. ASSUME NEW j \in Attempts PROVE IsSeq(c2s'[j]) /\ TellsTruth(c2s[j])'
      <4>1. c2s'[j] = IF j = k THEN <<>> ELSE c2s[j]
        BY <2>1
      <4>2. IsSeq(c2s[j]) /\ TellsTruth(c2s[j])
        BY DEF ConnInv, AcksTellTruth
      <4> QED
        BY <2>1, <2>2, <4>1, <4>2 DEF TellsTruth
    <3> QED
      BY <3>1 DEF AcksTellTruth
  <2> QED
    BY <2>1, <2>3 DEF ConnInv, AckMeansLocked, LockedIsTerminal
<1> QED
  BY <1>1, <1>2, <1>3, <1>4, <1>5, <1>6, <1>7, <1>8, <1>9
  DEF ConnNext, ClientStep, ServerStep

(* For any number of flags, reconnects, losses and messages in flight, a   *)
(* kill-switch the server counts as acknowledged has locked the page for   *)
(* that flag (record_kill_switch_ack, handleKillSwitch).                   *)
THEOREM AckLocked == ConnSpec => []AckMeansLocked
  BY InitConnInv, StepConnInv, PTL DEF ConnSpec, ConnInv

(* For any number of flags, reconnects and losses, a page that has handled *)
(* a kill-switch opens no further connection (ws-client.ts connect).       *)
THEOREM KilledStaysDown == ConnSpec => KilledClientStaysDown
<1>1. ConnInv /\ [ConnNext]_connVars =>
        [handled # {} => attempts' = attempts]_connVars
  <2> SUFFICES ASSUME ConnInv, ConnNext, handled # {} PROVE attempts' = attempts
    OBVIOUS
  <2>1. isTerminal
    BY DEF ConnInv, LockedIsTerminal
  <2>2. CASE Connect
    BY <2>1, <2>2 DEF Connect
  <2>3. CASE \/ ClientReceive \/ ClientNoticesLoss \/ Send \/ ClientPing
             \/ EndSession
             \/ \E k \in Attempts :
                   \/ Accept(k) \/ Receive(k) \/ DrainKillSwitch(k)
                   \/ ServerPing(k) \/ HeartbeatTimeout(k)
                   \/ ServerNoticesLoss(k) \/ LoseTransport(k)
                   \/ \E f \in Flags : OnKillSwitch(k, f)
    BY <2>3 DEF ClientReceive, ClientNoticesLoss, Send, ClientPing, EndSession,
                Accept, Receive, DrainKillSwitch, ServerPing, HeartbeatTimeout,
                ServerNoticesLoss, LoseTransport, OnKillSwitch
  <2> QED
    BY <2>2, <2>3 DEF ConnNext, ClientStep, ServerStep
<1> QED
  BY InitConnInv, StepConnInv, <1>1, PTL DEF ConnSpec, KilledClientStaysDown

-----------------------------------------------------------------------------
(* One kill-switch in flight.  The server's own state decides whether a    *)
(* second one may be sent, so the invariant relates it to both queues: a   *)
(* switch or acknowledgement under way is for the pending flag, and there  *)
(* is none once nothing is pending or the pending one is acknowledged.     *)
AtMostOne(s, t) == \A i, j \in 1 .. Len(s) : s[i].t = t /\ s[j].t = t => i = j
None(s, t) == \A i \in 1 .. Len(s) : s[i].t # t
AllCarry(s, t, f) == \A i \in 1 .. Len(s) : s[i].t = t => s[i].flag = f

(* Queue down leads to the client, queue back to the server.               *)
Flight(down, back, f) ==
    /\ IsSeq(down) /\ IsSeq(back)
    /\ AtMostOne(down, "kill_switch") /\ AtMostOne(back, "kill_switch_ack")
    /\ AllCarry(down, "kill_switch", f) /\ AllCarry(back, "kill_switch_ack", f)
    /\ None(down, "kill_switch") \/ None(back, "kill_switch_ack")

Quiet(down, back) == None(down, "kill_switch") /\ None(back, "kill_switch_ack")

FlightAt(k) ==
    /\ Flight(s2c[k], c2s[k], pending[k])
    /\ pending[k] = NoFlag \/ acked[k] => Quiet(s2c[k], c2s[k])
    /\ kills[k] \in Seq(Flags)

FlightInv ==
    /\ DOMAIN s2c = Attempts /\ DOMAIN c2s = Attempts /\ DOMAIN kills = Attempts
    /\ DOMAIN acked = Attempts /\ DOMAIN pending = Attempts
    /\ \A k \in Attempts : FlightAt(k)

(* A message of another type may be added to the queue to the client.      *)
LEMMA FlightAppendDown ==
    ASSUME NEW a, NEW b, NEW f, Flight(a, b, f), NEW x, x.t # "kill_switch"
    PROVE  /\ Flight(Append(a, x), b, f)
           /\ Quiet(a, b) => Quiet(Append(a, x), b)
<1>1. /\ IsSeq(Append(a, x))
      /\ Len(a) \in Nat /\ Len(Append(a, x)) = Len(a) + 1
      /\ \A i \in 1 .. Len(a) : Append(a, x)[i] = a[i]
      /\ Append(a, x)[Len(a) + 1] = x
  BY AppendSeq DEF Flight
<1>2. \A i \in 1 .. Len(Append(a, x)) : Append(a, x)[i].t = "kill_switch" =>
         i \in 1 .. Len(a) /\ Append(a, x)[i] = a[i]
  BY <1>1
<1> QED
  BY <1>1, <1>2 DEF Flight, Quiet, AtMostOne, None, AllCarry

(* The same towards the server.                                            *)
LEMMA FlightAppendBack ==
    ASSUME NEW a, NEW b, NEW f, Flight(a, b, f), NEW x, x.t # "kill_switch_ack"
    PROVE  /\ Flight(a, Append(b, x), f)
           /\ Quiet(a, b) => Quiet(a, Append(b, x))
<1>1. /\ IsSeq(Append(b, x))
      /\ Len(b) \in Nat /\ Len(Append(b, x)) = Len(b) + 1
      /\ \A i \in 1 .. Len(b) : Append(b, x)[i] = b[i]
      /\ Append(b, x)[Len(b) + 1] = x
  BY AppendSeq DEF Flight
<1>2. \A i \in 1 .. Len(Append(b, x)) : Append(b, x)[i].t = "kill_switch_ack" =>
         i \in 1 .. Len(b) /\ Append(b, x)[i] = b[i]
  BY <1>1
<1> QED
  BY <1>1, <1>2 DEF Flight, Quiet, AtMostOne, None, AllCarry

(* What is true of the messages of one type in a queue stays true when its *)
(* head is taken, and if the head was of that type no other is left.       *)
LEMMA TailKeeps ==
    ASSUME NEW s, IsSeq(s), s # <<>>, NEW t, NEW f
    PROVE  /\ IsSeq(Tail(s))
           /\ AtMostOne(s, t) => AtMostOne(Tail(s), t)
           /\ AllCarry(s, t, f) => AllCarry(Tail(s), t, f)
           /\ None(s, t) => None(Tail(s), t)
           /\ Head(s).t = t => ~None(s, t)
           /\ AtMostOne(s, t) /\ Head(s).t = t => None(Tail(s), t)
           /\ AllCarry(s, t, f) /\ Head(s).t = t => Head(s).flag = f
<1>1. /\ IsSeq(Tail(s)) /\ Len(s) \in Nat \ {0} /\ Len(Tail(s)) = Len(s) - 1
      /\ \A i \in 1 .. Len(Tail(s)) : Tail(s)[i] = s[i + 1]
  BY TailSeq
<1>2. \A i \in 1 .. Len(Tail(s)) : i + 1 \in 1 .. Len(s) /\ i + 1 # 1
  BY <1>1
<1>3. Head(s) = s[1] /\ 1 \in 1 .. Len(s)
  BY <1>1, HeadTailProperties DEF IsSeq
<1>4. ASSUME AtMostOne(s, t) PROVE AtMostOne(Tail(s), t)
  <2>1. ASSUME NEW i \in 1 .. Len(Tail(s)), NEW j \in 1 .. Len(Tail(s)),
               Tail(s)[i].t = t, Tail(s)[j].t = t
        PROVE  i = j
    <3>1. i + 1 = j + 1
      BY <1>1, <1>2, <1>4, <2>1 DEF AtMostOne
    <3> QED BY <1>1, <3>1
  <2> QED BY <2>1 DEF AtMostOne
<1>5. AllCarry(s, t, f) => AllCarry(Tail(s), t, f)
  BY <1>1, <1>2 DEF AllCarry
<1>6. None(s, t) => None(Tail(s), t)
  BY <1>1, <1>2 DEF None
<1>7. Head(s).t = t => ~None(s, t)
  BY <1>3 DEF None
<1>8. AtMostOne(s, t) /\ Head(s).t = t => None(Tail(s), t)
  BY <1>1, <1>2, <1>3 DEF AtMostOne, None
<1>9. AllCarry(s, t, f) /\ Head(s).t = t => Head(s).flag = f
  BY <1>3 DEF AllCarry
<1> QED
  BY <1>1, <1>4, <1>5, <1>6, <1>7, <1>8, <1>9

(* The client may take the head of its queue.                              *)
LEMMA FlightTailDown ==
    ASSUME NEW a, NEW b, NEW f, Flight(a, b, f), a # <<>>
    PROVE  /\ Flight(Tail(a), b, f)
           /\ Quiet(a, b) => Quiet(Tail(a), b)
  BY TailKeeps DEF Flight, Quiet

(* The server may too; if it is an acknowledgement, nothing else is under  *)
(* way.                                                                    *)
LEMMA FlightTailBack ==
    ASSUME NEW a, NEW b, NEW f, Flight(a, b, f), b # <<>>
    PROVE  /\ Flight(a, Tail(b), f)
           /\ Quiet(a, b) => Quiet(a, Tail(b))
           /\ Head(b).t = "kill_switch_ack" =>
                 ~Quiet(a, b) /\ Head(b).flag = f /\ Quiet(a, Tail(b))
  BY TailKeeps DEF Flight, Quiet

(* The client turns the kill-switch into its acknowledgement.              *)
LEMMA FlightTurns ==
    ASSUME NEW a, NEW b, NEW f, Flight(a, b, f), a # <<>>,
           Head(a).t = "kill_switch"
    PROVE  /\ Flight(Tail(a), Append(b, KillSwitchAck(Head(a).flag)), f)
           /\ ~Quiet(a, b)
<1> DEFINE x == KillSwitchAck(Head(a).flag)
<1>1. /\ IsSeq(Tail(a)) /\ None(Tail(a), "kill_switch") /\ Head(a).flag = f
      /\ None(b, "kill_switch_ack") /\ IsSeq(b) /\ ~None(a, "kill_switch")
  BY TailKeeps DEF Flight
<1>2. x.t = "kill_switch_ack" /\ x.flag = f
  BY <1>1 DEF KillSwitchAck
<1> HIDE DEF x
<1>3. /\ IsSeq(Append(b, x))
      /\ Len(b) \in Nat /\ Len(Append(b, x)) = Len(b) + 1
      /\ \A i \in 1 .. Len(b) : Append(b, x)[i] = b[i]
      /\ Append(b, x)[Len(b) + 1] = x
  BY <1>1, AppendSeq
<1>4. \A i \in 1 .. Len(Append(b, x)) : Append(b, x)[i].t = "kill_switch_ack" =>
         i = Len(b) + 1
  BY <1>1, <1>3 DEF None
<1>5. /\ AtMostOne(Append(b, x), "kill_switch_ack")
      /\ AllCarry(Append(b, x), "kill_switch_ack", f)
  BY <1>2, <1>3, <1>4 DEF AtMostOne, AllCarry
<1>6. /\ AtMostOne(Tail(a), "kill_switch")
      /\ AllCarry(Tail(a), "kill_switch", f)
  BY <1>1 DEF AtMostOne, AllCarry, None
<1>7. Flight(Tail(a), Append(b, x), f)
  BY <1>1, <1>3, <1>5, <1>6 DEF Flight
<1> QED
  BY <1>1, <1>7 DEF Quiet, x

(* A kill-switch sent when nothing is under way is the only one.           *)
LEMMA FlightDeparts ==
    ASSUME NEW a, NEW b, NEW e, Flight(a, b, e), Quiet(a, b), NEW f
    PROVE  /\ Flight(Append(a, KillSwitch(f)), b, f)
           /\ Flight(a, b, f)
<1> DEFINE x == KillSwitch(f)
<1>1. x.t = "kill_switch" /\ x.flag = f
  BY DEF KillSwitch
<1> HIDE DEF x
<1>2. /\ IsSeq(Append(a, x))
      /\ Len(a) \in Nat /\ Len(Append(a, x)) = Len(a) + 1
      /\ \A i \in 1 .. Len(a) : Append(a, x)[i] = a[i]
      /\ Append(a, x)[Len(a) + 1] = x
  BY AppendSeq DEF Flight
<1>3. \A i \in 1 .. Len(Append(a, x)) : Append(a, x)[i].t = "kill_switch" =>
         i = Len(a) + 1
  BY <1>2 DEF Quiet, None
<1>4. /\ AtMostOne(Append(a, x), "kill_switch")
      /\ AllCarry(Append(a, x), "kill_switch", f)
  BY <1>1, <1>2, <1>3 DEF AtMostOne, AllCarry
<1>5. /\ AllCarry(b, "kill_switch_ack", f) /\ AllCarry(a, "kill_switch", f)
      /\ None(b, "kill_switch_ack")
  BY DEF Quiet, None, AllCarry
<1>6. Flight(a, b, f)
  BY <1>5 DEF Flight
<1>7. Flight(Append(a, x), b, f)
  BY <1>2, <1>4, <1>5 DEF Flight
<1> QED
  BY <1>6, <1>7 DEF x

(* A queue of nothing but accept and close messages is quiet.              *)
LEMMA FlightFresh ==
    ASSUME NEW b, IsSeq(b), NEW f,
           AtMostOne(b, "kill_switch_ack"), AllCarry(b, "kill_switch_ack", f)
    PROVE  \A a \in {<<>>, <<Msg("accept")>>, <<Msg("accept"), Msg("close")>>} :
              /\ Flight(a, b, f)
              /\ None(b, "kill_switch_ack") => Quiet(a, b)
<1>1. ASSUME NEW a \in {<<>>, <<Msg("accept")>>, <<Msg("accept"), Msg("close")>>}
      PROVE  IsSeq(a) /\ None(a, "kill_switch")
  <2>0. ASSUME NEW x, NEW y
        PROVE  /\ <<>> \in Seq({x, y}) /\ <<x>> \in Seq({x, y})
               /\ <<x, y>> \in Seq({x, y})
    OBVIOUS
  <2>1. a \in Seq({Msg("accept"), Msg("close")})
    BY <1>1, <2>0
  <2>2. Msg("accept").t # "kill_switch" /\ Msg("close").t # "kill_switch"
    BY DEF Msg
  <2>3. \A i \in 1 .. Len(a) : a[i] \in {Msg("accept"), Msg("close")}
    BY <2>1
  <2> QED
    BY <2>1, <2>2, <2>3 DEF IsSeq, None
<1> QED
  BY <1>1 DEF Flight, Quiet, None, AtMostOne, AllCarry

(* What concerns one connection is settled there.                          *)
LEMMA FlightLocal ==
    ASSUME FlightInv, NEW k,
           DOMAIN s2c' = Attempts, DOMAIN c2s' = Attempts, DOMAIN kills' = Attempts,
           DOMAIN acked' = Attempts, DOMAIN pending' = Attempts,
           \A j \in Attempts : j # k =>
              /\ s2c'[j] = s2c[j] /\ c2s'[j] = c2s[j] /\ kills'[j] = kills[j]
              /\ acked'[j] = acked[j] /\ pending'[j] = pending[j],
           k \in Attempts => FlightAt(k)'
    PROVE  FlightInv'
<1>1. ASSUME NEW j \in Attempts, j # k PROVE FlightAt(j)'
  BY <1>1 DEF FlightInv, FlightAt
<1> QED
  BY <1>1 DEF FlightInv

(* At the start nothing is under way.                                      *)
LEMMA InitFlightInv == ConnInit => FlightInv
<1> SUFFICES ASSUME ConnInit PROVE FlightInv
  OBVIOUS
<1>1. <<>> \in Seq({}) /\ <<>> \in Seq(Flags)
  OBVIOUS
<1>2. Flight(<<>>, <<>>, NoFlag) /\ Quiet(<<>>, <<>>)
  BY <1>1 DEF Flight, Quiet, IsSeq, AtMostOne, None, AllCarry
<1>3. \A k \in Attempts : /\ s2c[k] = <<>> /\ c2s[k] = <<>> /\ kills[k] = <<>>
                          /\ pending[k] = NoFlag
  BY DEF ConnInit
<1>4. \A k \in Attempts : FlightAt(k)
  BY <1>1, <1>2, <1>3 DEF FlightAt
<1> QED
  BY <1>4 DEF ConnInit, FlightInv

(* The page takes a message off the connection it uses: it answers a ping, *)
(* acknowledges a kill-switch, and sends nothing else.                     *)
LEMMA ClientReceiveFlight ==
    ASSUME FlightInv, ClientReceive, NEW k, k = ws
    PROVE  FlightInv'
<1>0. /\ s2c[k] # <<>> /\ s2c' = [s2c EXCEPT ![k] = Tail(@)]
      /\ UNCHANGED <<pending, acked, kills>>
  BY DEF ClientReceive, serverVars
<1>1. DOMAIN s2c = Attempts /\ DOMAIN c2s = Attempts
  BY DEF FlightInv
<1> DEFINE m == Head(s2c[k])
<1>2. \/ c2s' = c2s
      \/ c2s' = [c2s EXCEPT ![k] = Append(@, Msg("pong"))]
      \/ m.t = "kill_switch"
         /\ c2s' = [c2s EXCEPT ![k] = Append(@, KillSwitchAck(m.flag))]
  BY DEF ClientReceive, HandleOpen, HandlePing, HandleAck, HandleKillSwitch
<1>3. ASSUME k \in Attempts PROVE FlightAt(k)'
  <2>0. s2c'[k] = Tail(s2c[k]) /\ FlightAt(k)
    BY <1>0, <1>1, <1>3 DEF FlightInv
  <2>1. Flight(s2c[k], c2s[k], pending[k])
    BY <2>0 DEF FlightAt
  <2>2. /\ Flight(Tail(s2c[k]), c2s[k], pending[k])
        /\ Quiet(s2c[k], c2s[k]) => Quiet(Tail(s2c[k]), c2s[k])
    BY <1>0, <2>1, FlightTailDown
  <2>3. CASE c2s' = c2s
    BY <1>0, <2>0, <2>2, <2>3 DEF FlightAt
  <2>4. CASE c2s' = [c2s EXCEPT ![k] = Append(@, Msg("pong"))]
    <3>1. c2s'[k] = Append(c2s[k], Msg("pong")) /\ Msg("pong").t # "kill_switch_ack"
      BY <1>1, <1>3, <2>4 DEF Msg
    <3>2. /\ Flight(Tail(s2c[k]), c2s'[k], pending[k])
          /\ Quiet(Tail(s2c[k]), c2s[k]) => Quiet(Tail(s2c[k]), c2s'[k])
      BY <2>2, <3>1, FlightAppendBack
    <3> QED
      BY <1>0, <2>0, <2>2, <3>2 DEF FlightAt
  <2>5. CASE /\ m.t = "kill_switch"
             /\ c2s' = [c2s EXCEPT ![k] = Append(@, KillSwitchAck(m.flag))]
    <3>1. c2s'[k] = Append(c2s[k], KillSwitchAck(Head(s2c[k]).flag))
      BY <1>1, <1>3, <2>5
    <3>2. Flight(Tail(s2c[k]), c2s'[k], pending[k]) /\ ~Quiet(s2c[k], c2s[k])
      BY <1>0, <2>1, <2>5, <3>1, FlightTurns
    <3> QED
      BY <1>0, <2>0, <3>2 DEF FlightAt
  <2> QED BY <1>2, <2>3, <2>4, <2>5
<1>4. /\ DOMAIN s2c' = Attempts /\ DOMAIN c2s' = Attempts
      /\ \A j \in Attempts : j # k => s2c'[j] = s2c[j] /\ c2s'[j] = c2s[j]
  BY <1>0, <1>1, <1>2
<1>5. /\ DOMAIN kills' = Attempts /\ DOMAIN acked' = Attempts
      /\ DOMAIN pending' = Attempts
      /\ \A j \in Attempts : /\ kills'[j] = kills[j] /\ acked'[j] = acked[j]
                             /\ pending'[j] = pending[j]
  BY <1>0 DEF FlightInv
<1> QED
  BY <1>3, <1>4, <1>5, FlightLocal

(* The handler takes a message: an acknowledgement can only be the one     *)
(* under way, and it settles the pending flag.                             *)
LEMMA ReceiveFlight ==
    ASSUME FlightInv, NEW k \in Attempts, Receive(k)
    PROVE  FlightInv'
<1> DEFINE m == Head(c2s[k])
<1>0. /\ c2s[k] # <<>> /\ c2s' = [c2s EXCEPT ![k] = Tail(@)]
      /\ UNCHANGED pending
      /\ \/ s2c' = s2c
         \/ \E x : x.t # "kill_switch" /\ s2c' = [s2c EXCEPT ![k] = Append(@, x)]
      /\ \/ kills' = kills
         \/ kills' = [kills EXCEPT ![k] = <<>>]
      /\ \/ acked' = acked /\ m.t # "kill_switch_ack"
         \/ acked' = [acked EXCEPT ![k] = @ \/ (m.t = "kill_switch_ack" /\
                                                RecordKillSwitchAck(k, m.flag))]
  BY DEF Receive, Sent, Msg, NextAck, Ack
<1>1. /\ DOMAIN s2c = Attempts /\ DOMAIN c2s = Attempts /\ DOMAIN kills = Attempts
      /\ DOMAIN acked = Attempts /\ DOMAIN pending = Attempts
      /\ FlightAt(k)
  BY DEF FlightInv
<1>2. /\ DOMAIN s2c' = Attempts /\ DOMAIN c2s' = Attempts /\ DOMAIN kills' = Attempts
      /\ DOMAIN acked' = Attempts /\ DOMAIN pending' = Attempts
  BY <1>0, <1>1
<1>3. ASSUME NEW j \in Attempts, j # k
      PROVE  /\ s2c'[j] = s2c[j] /\ c2s'[j] = c2s[j] /\ kills'[j] = kills[j]
             /\ acked'[j] = acked[j] /\ pending'[j] = pending[j]
  BY <1>0, <1>1, <1>3
<1>4. Flight(s2c[k], c2s[k], pending[k])
  BY <1>1 DEF FlightAt
<1>5. /\ Flight(s2c[k], Tail(c2s[k]), pending[k])
      /\ Quiet(s2c[k], c2s[k]) => Quiet(s2c[k], Tail(c2s[k]))
      /\ m.t = "kill_switch_ack" => Quiet(s2c[k], Tail(c2s[k]))
  BY <1>0, <1>4, FlightTailBack
<1>6. /\ Flight(s2c'[k], Tail(c2s[k]), pending[k])
      /\ Quiet(s2c[k], Tail(c2s[k])) => Quiet(s2c'[k], Tail(c2s[k]))
  <2>1. CASE s2c' = s2c
    BY <1>5, <2>1
  <2>2. ASSUME NEW x, x.t # "kill_switch", s2c' = [s2c EXCEPT ![k] = Append(@, x)]
        PROVE  /\ Flight(s2c'[k], Tail(c2s[k]), pending[k])
               /\ Quiet(s2c[k], Tail(c2s[k])) => Quiet(s2c'[k], Tail(c2s[k]))
    <3>1. s2c'[k] = Append(s2c[k], x)
      BY <1>1, <2>2
    <3> QED
      BY <1>5, <2>2, <3>1, FlightAppendDown
  <2> QED BY <1>0, <2>1, <2>2
<1>7. c2s'[k] = Tail(c2s[k]) /\ pending'[k] = pending[k] /\ kills'[k] \in Seq(Flags)
  <2>1. c2s'[k] = Tail(c2s[k]) /\ pending'[k] = pending[k]
    BY <1>0, <1>1
  <2>2. kills[k] \in Seq(Flags) /\ <<>> \in Seq(Flags)
    BY <1>1 DEF FlightAt
  <2>3. kills'[k] = kills[k] \/ kills'[k] = <<>>
    BY <1>0, <1>1
  <2> QED BY <2>1, <2>2, <2>3
<1>8. m.t # "kill_switch_ack" => (acked'[k] => acked[k])
  BY <1>0, <1>1
<1>9. pending'[k] = NoFlag \/ acked'[k] => Quiet(s2c'[k], Tail(c2s[k]))
  BY <1>1, <1>5, <1>6, <1>7, <1>8 DEF FlightAt
<1>10. FlightAt(k)'
  BY <1>6, <1>7, <1>9 DEF FlightAt
<1> QED
  BY <1>2, <1>3, <1>10, FlightLocal

(* The handler sends a queued kill-switch only when none is under way.     *)
LEMMA DrainFlight ==
    ASSUME FlightInv, NEW k \in Attempts, DrainKillSwitch(k)
    PROVE  FlightInv'
<1> DEFINE f == Head(kills[k])
<1>1. /\ DOMAIN s2c = Attempts /\ DOMAIN c2s = Attempts /\ DOMAIN kills = Attempts
      /\ DOMAIN acked = Attempts /\ DOMAIN pending = Attempts
      /\ FlightAt(k)
  BY DEF FlightInv
<1>2. /\ kills[k] # <<>> /\ kills[k] \in Seq(Flags)
      /\ kills' = [kills EXCEPT ![k] = Tail(@)] /\ c2s' = c2s
  BY <1>1 DEF DrainKillSwitch, FlightAt
<1>3. f \in Flags /\ f # NoFlag /\ kills'[k] \in Seq(Flags) /\ DOMAIN kills' = Attempts
  BY <1>1, <1>2, FlagAssumption
<1>4. CASE CanPrepare(k)
  <2>1. /\ pending' = [pending EXCEPT ![k] = f]
        /\ acked' = [acked EXCEPT ![k] = FALSE]
        /\ \/ s2c' = s2c
           \/ s2c' = [s2c EXCEPT ![k] = Append(@, KillSwitch(f))]
    BY <1>4 DEF DrainKillSwitch, Sent
  <2>2. Flight(s2c[k], c2s[k], pending[k]) /\ Quiet(s2c[k], c2s[k])
    BY <1>1, <1>4 DEF FlightAt, CanPrepare
  <2>3. Flight(Append(s2c[k], KillSwitch(f)), c2s[k], f) /\ Flight(s2c[k], c2s[k], f)
    BY <2>2, FlightDeparts
  <2>4. pending'[k] = f /\ ~acked'[k]
    BY <1>1, <2>1
  <2>5. Flight(s2c'[k], c2s'[k], f)
    BY <1>1, <1>2, <2>1, <2>3
  <2>6. FlightAt(k)'
    BY <1>3, <2>4, <2>5 DEF FlightAt
  <2>7. /\ DOMAIN s2c' = Attempts /\ DOMAIN c2s' = Attempts
        /\ DOMAIN acked' = Attempts /\ DOMAIN pending' = Attempts
    BY <1>1, <1>2, <2>1
  <2>8. ASSUME NEW j \in Attempts, j # k
        PROVE  /\ s2c'[j] = s2c[j] /\ c2s'[j] = c2s[j] /\ kills'[j] = kills[j]
               /\ acked'[j] = acked[j] /\ pending'[j] = pending[j]
    BY <1>1, <1>2, <2>1, <2>8
  <2> QED
    BY <1>3, <2>6, <2>7, <2>8, FlightLocal
<1>5. CASE ~CanPrepare(k)
  <2>1. UNCHANGED <<pending, acked, s2c>>
    BY <1>5 DEF DrainKillSwitch
  <2>2. FlightAt(k)'
    BY <1>1, <1>2, <1>3, <2>1 DEF FlightAt
  <2>3. ASSUME NEW j \in Attempts, j # k
        PROVE  kills'[j] = kills[j]
    BY <1>1, <1>2, <2>3
  <2> QED
    BY <1>1, <1>2, <1>3, <2>1, <2>2, <2>3, FlightLocal
<1> QED
  BY <1>4, <1>5

(* The remaining steps send at most one other message, or lose them all.   *)
LEMMA StepFlightInv == FlightInv /\ [ConnNext]_connVars => FlightInv'
<1> SUFFICES ASSUME FlightInv, [ConnNext]_connVars PROVE FlightInv'
  OBVIOUS
<1> USE DEF clientVars, netVars, serverVars, counters
<1>0. /\ DOMAIN s2c = Attempts /\ DOMAIN c2s = Attempts /\ DOMAIN kills = Attempts
      /\ DOMAIN acked = Attempts /\ DOMAIN pending = Attempts
      /\ \A k \in Attempts : /\ Flight(s2c[k], c2s[k], pending[k])
                             /\ kills[k] \in Seq(Flags)
  BY DEF FlightInv, FlightAt
<1>1. ASSUME UNCHANGED <<s2c, c2s, kills, acked, pending>> PROVE FlightInv'
  BY <1>1 DEF FlightInv, FlightAt
<1>2. CASE UNCHANGED connVars
  BY <1>1, <1>2 DEF connVars
<1>3. CASE Connect \/ EndSession \/ ClientNoticesLoss
  BY <1>1, <1>3 DEF Connect, EndSession, ClientNoticesLoss
<1>4. CASE Send \/ ClientPing
  <2>0. PICK k : k = ws
    OBVIOUS
  <2>1. PICK x : /\ c2s' = [c2s EXCEPT ![k] = Append(@, x)]
                 /\ x.t # "kill_switch_ack"
    BY <1>4, <2>0 DEF Send, ClientPing, Msg
  <2>2. UNCHANGED <<s2c, kills, acked, pending>>
    BY <1>4 DEF Send, ClientPing
  <2>3. ASSUME k \in Attempts PROVE FlightAt(k)'
    <3>1. c2s'[k] = Append(c2s[k], x)
      BY <1>0, <2>1, <2>3
    <3>2. /\ Flight(s2c[k], c2s'[k], pending[k])
          /\ Quiet(s2c[k], c2s[k]) => Quiet(s2c[k], c2s'[k])
      BY <1>0, <2>1, <2>3, <3>1, FlightAppendBack
    <3>3. FlightAt(k)
      BY <2>3 DEF FlightInv
    <3> QED
      BY <2>2, <3>2, <3>3 DEF FlightAt
  <2>4. DOMAIN c2s' = Attempts /\ \A j \in Attempts : j # k => c2s'[j] = c2s[j]
    BY <1>0, <2>1
  <2> QED
    BY <1>0, <2>2, <2>3, <2>4, FlightLocal
<1>5. ASSUME NEW k \in Attempts, ServerPing(k) PROVE FlightInv'
  <2>1. /\ s2c' = s2c \/ s2c' = [s2c EXCEPT ![k] = Append(@, Msg("ping"))]
        /\ UNCHANGED <<c2s, kills, acked, pending>>
    BY <1>5 DEF ServerPing, Sent
  <2>2. CASE s2c' = s2c
    BY <1>1, <2>1, <2>2
  <2>3. CASE s2c' = [s2c EXCEPT ![k] = Append(@, Msg("ping"))]
    <3>1. s2c'[k] = Append(s2c[k], Msg("ping")) /\ Msg("ping").t # "kill_switch"
      BY <1>0, <2>3 DEF Msg
    <3>2. /\ Flight(s2c'[k], c2s[k], pending[k])
          /\ Quiet(s2c[k], c2s[k]) => Quiet(s2c'[k], c2s[k])
      BY <1>0, <3>1, FlightAppendDown
    <3>3. FlightAt(k)
      BY DEF FlightInv
    <3>4. FlightAt(k)'
      BY <2>1, <3>2, <3>3 DEF FlightAt
    <3>5. DOMAIN s2c' = Attempts /\ \A j \in Attempts : j # k => s2c'[j] = s2c[j]
      BY <1>0, <2>3
    <3> QED
      BY <1>0, <2>1, <3>4, <3>5, FlightLocal
  <2> QED BY <2>1, <2>2, <2>3
<1>6. ASSUME NEW k \in Attempts, Accept(k) PROVE FlightInv'
  <2>1. /\ UNCHANGED <<c2s, kills, acked, pending>>
        /\ \E a \in {<<>>, <<Msg("accept")>>, <<Msg("accept"), Msg("close")>>} :
              s2c' = [s2c EXCEPT ![k] = a]
    BY <1>6 DEF Accept
  <2>2. s2c'[k] \in {<<>>, <<Msg("accept")>>, <<Msg("accept"), Msg("close")>>}
    BY <1>0, <2>1
  <2>3. /\ Flight(s2c'[k], c2s[k], pending[k])
        /\ None(c2s[k], "kill_switch_ack") => Quiet(s2c'[k], c2s[k])
    BY <1>0, <2>2, FlightFresh DEF Flight
  <2>4. FlightAt(k)
    BY DEF FlightInv
  <2>5. FlightAt(k)'
    BY <2>1, <2>3, <2>4 DEF FlightAt, Quiet
  <2>6. DOMAIN s2c' = Attempts /\ \A j \in Attempts : j # k => s2c'[j] = s2c[j]
    BY <1>0, <2>1
  <2> QED
    BY <1>0, <2>1, <2>5, <2>6, FlightLocal
<1>7. ASSUME NEW k \in Attempts,
             ServerNoticesLoss(k) \/ \E f \in Flags : OnKillSwitch(k, f)
      PROVE  FlightInv'
  <2>1. /\ UNCHANGED <<s2c, c2s, acked, pending>>
        /\ \/ kills' = [kills EXCEPT ![k] = <<>>]
           \/ \E f \in Flags : kills' = [kills EXCEPT ![k] = Append(@, f)]
    BY <1>7 DEF ServerNoticesLoss, OnKillSwitch
  <2>2. /\ kills'[k] \in Seq(Flags) /\ DOMAIN kills' = Attempts
        /\ \A j \in Attempts : j # k => kills'[j] = kills[j]
    <3>1. DOMAIN kills' = Attempts /\ \A j \in Attempts : j # k => kills'[j] = kills[j]
      BY <1>0, <2>1
    <3>2. kills'[k] = <<>> \/ \E f \in Flags : kills'[k] = Append(kills[k], f)
      BY <1>0, <2>1
    <3>3. kills[k] \in Seq(Flags) /\ <<>> \in Seq(Flags)
      BY <1>0
    <3>4. \A f \in Flags : Append(kills[k], f) \in Seq(Flags)
      BY <3>3, AppendProperties
    <3> QED BY <3>1, <3>2, <3>3, <3>4
  <2>3. FlightAt(k)
    BY DEF FlightInv
  <2>4. FlightAt(k)'
    BY <2>1, <2>2, <2>3 DEF FlightAt
  <2> QED
    BY <1>0, <2>1, <2>2, <2>4, FlightLocal
<1>8. ASSUME NEW k \in Attempts, HeartbeatTimeout(k) PROVE FlightInv'
  <2>1. /\ s2c' = s2c \/ s2c' = [s2c EXCEPT ![k] = Append(@, Msg("close"))]
        /\ kills' = [kills EXCEPT ![k] = <<>>]
        /\ UNCHANGED <<c2s, acked, pending>>
    BY <1>8 DEF HeartbeatTimeout, Sent
  <2>2. /\ DOMAIN s2c' = Attempts /\ \A j \in Attempts : j # k => s2c'[j] = s2c[j]
        /\ DOMAIN kills' = Attempts /\ \A j \in Attempts : j # k => kills'[j] = kills[j]
        /\ kills'[k] \in Seq(Flags)
    BY <1>0, <2>1
  <2>3. s2c'[k] = s2c[k] \/ s2c'[k] = Append(s2c[k], Msg("close"))
    BY <1>0, <2>1
  <2>4. FlightAt(k)
    BY DEF FlightInv
  <2>5. /\ Flight(s2c'[k], c2s[k], pending[k])
        /\ Quiet(s2c[k], c2s[k]) => Quiet(s2c'[k], c2s[k])
    <3>1. CASE s2c'[k] = s2c[k]
      BY <2>4, <3>1 DEF FlightAt
    <3>2. CASE s2c'[k] = Append(s2c[k], Msg("close"))
      <4>1. Msg("close").t # "kill_switch"
        BY DEF Msg
      <4> QED
        BY <1>0, <3>2, <4>1, FlightAppendDown
    <3> QED
      BY <2>3, <3>1, <3>2
  <2>6. FlightAt(k)'
    BY <2>1, <2>2, <2>4, <2>5 DEF FlightAt
  <2> QED
    BY <1>0, <2>1, <2>2, <2>6, FlightLocal
<1>9. ASSUME NEW k \in Attempts, LoseTransport(k) PROVE FlightInv'
  <2>1. /\ UNCHANGED <<acked, pending, kills>>
        /\ c2s' = [c2s EXCEPT ![k] = <<>>] /\ s2c' = [s2c EXCEPT ![k] = <<>>]
    BY <1>9 DEF LoseTransport
  <2>2. c2s'[k] = <<>> /\ s2c'[k] = <<>>
    BY <1>0, <2>1
  <2>3. <<>> \in Seq({})
    OBVIOUS
  <2>4. Flight(<<>>, <<>>, pending[k]) /\ Quiet(<<>>, <<>>)
    BY <2>3 DEF Flight, Quiet, IsSeq, AtMostOne, None, AllCarry
  <2>5. FlightAt(k)'
    BY <1>0, <2>1, <2>2, <2>4 DEF FlightAt
  <2>6. /\ DOMAIN s2c' = Attempts /\ DOMAIN c2s' = Attempts
        /\ \A j \in Attempts : j # k => s2c'[j] = s2c[j] /\ c2s'[j] = c2s[j]
    BY <1>0, <2>1
  <2> QED
    BY <1>0, <2>1, <2>5, <2>6, FlightLocal
<1> QED
  BY <1>2, <1>3, <1>4, <1>5, <1>6, <1>7, <1>8, <1>9,
     ClientReceiveFlight, ReceiveFlight, DrainFlight
  DEF ConnNext, ClientStep, ServerStep

(* Positions of which any two are equal are at most one.                   *)
LEMMA UniquePositions ==
    ASSUME NEW s, IsSeq(s), NEW t, AtMostOne(s, t)
    PROVE  /\ Cardinality({i \in 1 .. Len(s) : s[i].t = t}) \in {0, 1}
           /\ None(s, t) => Cardinality({i \in 1 .. Len(s) : s[i].t = t}) = 0
<1> DEFINE P == {i \in 1 .. Len(s) : s[i].t = t}
<1>1. CASE P = {}
  BY <1>1, FS_EmptySet
<1>2. CASE P # {}
  <2>1. PICK i : P = {i}
    BY <1>2, ZenonT(60) DEF AtMostOne
  <2>2. Cardinality({i}) = 1
    BY FS_Singleton
  <2> HIDE DEF P
  <2>3. Cardinality(P) = 1
    BY <2>1, <2>2
  <2> QED
    BY <1>2, <2>3 DEF P, None
<1> QED
  BY <1>1, <1>2

(* For any number of flags, reconnects, losses and messages in flight, at  *)
(* most one kill-switch or its acknowledgement is under way on a           *)
(* connection (prepare_kill_switch).                                       *)
THEOREM OneInFlight == ConnSpec => []OneKillSwitchInFlight
<1>1. FlightInv => OneKillSwitchInFlight
  <2> SUFFICES ASSUME FlightInv, NEW k \in Attempts
               PROVE  Cardinality({i \in 1 .. Len(s2c[k]) : s2c[k][i].t = "kill_switch"})
                      + Cardinality({i \in 1 .. Len(c2s[k]) :
                                        c2s[k][i].t = "kill_switch_ack"}) =< 1
    BY DEF OneKillSwitchInFlight
  <2> DEFINE down == Cardinality({i \in 1 .. Len(s2c[k]) : s2c[k][i].t = "kill_switch"})
             back == Cardinality({i \in 1 .. Len(c2s[k]) :
                                      c2s[k][i].t = "kill_switch_ack"})
  <2>1. Flight(s2c[k], c2s[k], pending[k])
    BY DEF FlightInv, FlightAt
  <2>2. /\ down \in {0, 1} /\ back \in {0, 1}
        /\ None(s2c[k], "kill_switch") => down = 0
        /\ None(c2s[k], "kill_switch_ack") => back = 0
    BY <2>1, UniquePositions DEF Flight
  <2>3. down = 0 \/ back = 0
    BY <2>1, <2>2 DEF Flight
  <2> HIDE DEF down, back
  <2>4. down + back =< 1
    BY <2>2, <2>3
  <2> QED
    BY <2>4 DEF down, back
<1> QED
  BY <1>1, InitFlightInv, StepFlightInv, PTL DEF ConnSpec

=============================================================================
