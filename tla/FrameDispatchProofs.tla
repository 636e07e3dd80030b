------------------------- MODULE FrameDispatchProofs -------------------------
(***************************************************************************)
(* What holds of one dispatcher for every configuration, frame size, chunk *)
(* and number of events.                                                   *)
(*                                                                         *)
(* SamplingExact speaks of finished frames only and is not inductive:      *)
(* StageInv says, for each place the thread may be at within a heavy       *)
(* frame, which results it can have fed by then.  The crop and the split   *)
(* of a chunk are arithmetic; each has its own lemma (SideCovers,          *)
(* SplitKeepsSamples).                                                     *)
(***************************************************************************)
EXTENDS FrameDispatch, FiniteSetTheorems, SequenceTheorems, TLAPS

-----------------------------------------------------------------------------
(* Integer division. *)

(* Quotient and remainder.                                                 *)
LEMMA DivMod ==
    ASSUME NEW n \in Nat, NEW d \in Nat \ {0}
    PROVE  /\ n \div d \in Nat
           /\ n % d \in 0 .. d - 1
           /\ n = (n \div d) * d + (n % d)
  OBVIOUS

(* A product of naturals is one.                                           *)
LEMMA TimesNat == ASSUME NEW a \in Nat, NEW b \in Nat PROVE a * b \in Nat
  OBVIOUS

(* A larger factor gives a larger product.                                 *)
LEMMA TimesMonotone ==
    ASSUME NEW a \in Nat, NEW b \in Nat, NEW c \in Nat, a <= b
    PROVE  a * c <= b * c
<1>1. PICK e \in Nat : b = a + e
  <2>1. b - a \in Nat /\ b = a + (b - a)
    OBVIOUS
  <2> QED
    BY <2>1
<1>2. b * c = a * c + e * c
  BY <1>1
<1>3. a * c \in Nat /\ e * c \in Nat
  BY <1>1, TimesNat
<1> QED
  BY <1>2, <1>3

(* The quotient is what it is multiplied back.                             *)
LEMMA QuotientIs ==
    ASSUME NEW q \in Nat, NEW r \in Nat, NEW d \in Nat \ {0}, r < d
    PROVE  (q * d + r) \div d = q /\ (q * d + r) % d = r
<1> DEFINE n == q * d + r
           p == n \div d
           s == n % d
<1>1. n \in Nat
  BY TimesNat
<1>2. p \in Nat /\ s \in Nat /\ s < d /\ n = p * d + s
  BY <1>1, DivMod
<1> HIDE DEF p, s
<1>3. ~(p < q)
  <2> SUFFICES ASSUME p < q PROVE FALSE
    OBVIOUS
  <2>1. (p + 1) * d <= q * d
    BY <1>2, TimesMonotone
  <2>2. (p + 1) * d = p * d + d
    BY <1>2
  <2>3. p * d \in Nat /\ q * d \in Nat
    BY <1>2, TimesNat
  <2> QED
    BY <1>2, <2>1, <2>2, <2>3
<1>4. ~(q < p)
  <2> SUFFICES ASSUME q < p PROVE FALSE
    OBVIOUS
  <2>1. (q + 1) * d <= p * d
    BY <1>2, TimesMonotone
  <2>2. (q + 1) * d = q * d + d
    OBVIOUS
  <2>3. p * d \in Nat /\ q * d \in Nat
    BY <1>2, TimesNat
  <2> QED
    BY <1>2, <2>1, <2>2, <2>3
<1>5. p = q
  BY <1>2, <1>3, <1>4
<1>6. s = r
  <2>1. q * d \in Nat
    BY TimesNat
  <2> QED
    BY <1>2, <1>5, <2>1
<1> QED
  BY <1>5, <1>6 DEF p, s

(* Division does not reorder its numerators.                               *)
LEMMA DivMonotone ==
    ASSUME NEW a \in Nat, NEW b \in Nat, NEW d \in Nat \ {0}, a <= b
    PROVE  a \div d <= b \div d
<1> DEFINE p == a \div d
           q == b \div d
<1>1. /\ p \in Nat /\ q \in Nat
      /\ a % d \in 0 .. d - 1 /\ a = p * d + (a % d)
      /\ b % d \in 0 .. d - 1 /\ b = q * d + (b % d)
  BY DivMod
<1> HIDE DEF p, q
<1> SUFFICES ASSUME q < p PROVE FALSE
  BY <1>1 DEF p, q
<1>2. (q + 1) * d <= p * d
  BY <1>1, TimesMonotone
<1>3. (q + 1) * d = q * d + d
  BY <1>1
<1>4. p * d \in Nat /\ q * d \in Nat
  BY <1>1, TimesNat
<1> QED
  BY <1>1, <1>2, <1>3, <1>4

-----------------------------------------------------------------------------
(* The face crop. *)

(* The pixel of a coordinate.                                              *)
LEMMA PixelFacts ==
    ASSUME NEW c \in 0 .. Grid
    PROVE  /\ Truncate(c * Size, Grid) = (c * Size) \div Grid
           /\ (c * Size) \div Grid \in 0 .. Size
           /\ \A b \in 0 .. Grid : c <= b => (c * Size) \div Grid <= (b * Size) \div Grid
<1>1. Grid \in Nat \ {0} /\ Size \in Nat \ {0}
  BY DispatchAssumption
<1>2. \A b \in 0 .. Grid : b \in Nat /\ b * Size \in Nat
  BY <1>1, TimesNat
<1>3. \A b \in 0 .. Grid : c <= b => c * Size <= b * Size
  BY <1>1, <1>2, TimesMonotone
<1>4. \A b \in 0 .. Grid : c <= b => (c * Size) \div Grid <= (b * Size) \div Grid
  <2> SUFFICES ASSUME NEW b \in 0 .. Grid, c <= b
               PROVE  (c * Size) \div Grid <= (b * Size) \div Grid
    OBVIOUS
  <2>1. c * Size \in Nat /\ b * Size \in Nat /\ c * Size <= b * Size
    BY <1>2, <1>3
  <2> QED
    BY <1>1, <2>1, DivMonotone
<1>5. (Grid * Size) \div Grid = Size
  <2>1. (Size * Grid + 0) \div Grid = Size
    BY <1>1, QuotientIs
  <2>2. Size * Grid + 0 = Grid * Size
    BY <1>1
  <2> QED
    BY <2>1, <2>2
<1>6. (c * Size) \div Grid \in Nat
  BY <1>1, <1>2, DivMod
<1>7. (c * Size) \div Grid <= Size
  <2>1. Grid \in 0 .. Grid /\ c <= Grid
    BY <1>1
  <2> QED
    BY <1>4, <1>5, <2>1
<1>8. Truncate(c * Size, Grid) = (c * Size) \div Grid
  <2>1. c * Size >= 0
    BY <1>2
  <2> QED
    BY <2>1 DEF Truncate
<1> QED
  BY <1>1, <1>4, <1>6, <1>7, <1>8

(* One side of the crop: it is not empty, and it contains the pixel of     *)
(* each end that lies in the picture (_extract_face_bbox_pixel_coords).    *)
LEMMA SideCovers ==
    ASSUME NEW lo \in Int, NEW hi \in Int, lo <= hi, lo <= Grid, hi >= 0
    PROVE  /\ BboxSide(lo, hi)[1] < BboxSide(lo, hi)[2]
           /\ BboxSide(lo, hi)[1] \in Int /\ BboxSide(lo, hi)[2] \in Int
           /\ BboxSide(lo, hi) \in Int \X Int
           /\ \A c \in {lo, hi} \cap 0 .. Grid :
                 LET pixel == Smaller(Size - 1, (c * Size) \div Grid)
                 IN  BboxSide(lo, hi)[1] <= pixel /\ pixel < BboxSide(lo, hi)[2]
<1>1. Grid \in Nat \ {0} /\ Size \in Nat \ {0}
  BY DispatchAssumption
<1>2. PICK a : a = Larger(0, lo)
  OBVIOUS
<1>3. PICK b : b = Smaller(Grid, hi)
  OBVIOUS
<1>4. a \in 0 .. Grid /\ b \in 0 .. Grid /\ a <= b /\ (lo >= 0 => a = lo) /\ (hi <= Grid => b = hi)
  BY <1>1, <1>2, <1>3 DEF Larger, Smaller
<1>5. PICK p : p = (a * Size) \div Grid
  OBVIOUS
<1>6. PICK q : q = (b * Size) \div Grid
  OBVIOUS
<1>7. /\ p = Truncate(a * Size, Grid) /\ q = Truncate(b * Size, Grid)
      /\ p \in 0 .. Size /\ q \in 0 .. Size /\ p <= q
  BY <1>4, <1>5, <1>6, PixelFacts
<1>8. PICK pad : pad = Padding(q - p)
  OBVIOUS
<1>9. pad \in Nat /\ pad >= 1
  <2>1. 3 * (q - p) \in Nat
    BY <1>1, <1>7
  <2>2. Truncate(3 * (q - p), 10) \in Nat
    BY <2>1, DivMod DEF Truncate
  <2> QED
    BY <1>8, <2>2 DEF Padding, Larger
<1>10. /\ BboxSide(lo, hi) = <<Larger(0, p - pad), Smaller(Size, q + pad)>>
       /\ BboxSide(lo, hi)[1] = Larger(0, p - pad)
       /\ BboxSide(lo, hi)[2] = Smaller(Size, q + pad)
  BY <1>2, <1>3, <1>7, <1>8 DEF BboxSide
<1>11. /\ BboxSide(lo, hi)[1] < BboxSide(lo, hi)[2]
       /\ BboxSide(lo, hi)[1] \in Int /\ BboxSide(lo, hi)[2] \in Int
       /\ BboxSide(lo, hi) \in Int \X Int
  BY <1>1, <1>7, <1>9, <1>10 DEF Larger, Smaller
<1>12. ASSUME NEW c \in {lo, hi} \cap 0 .. Grid
       PROVE  LET pixel == Smaller(Size - 1, (c * Size) \div Grid)
              IN  BboxSide(lo, hi)[1] <= pixel /\ pixel < BboxSide(lo, hi)[2]
  <2>1. c = a \/ c = b
    BY <1>1, <1>4, <1>12
  <2>2. PICK x : x = (c * Size) \div Grid
    OBVIOUS
  <2>3. x = p \/ x = q
    BY <1>5, <1>6, <2>1, <2>2
  <2>4. /\ BboxSide(lo, hi)[1] <= Smaller(Size - 1, x)
        /\ Smaller(Size - 1, x) < BboxSide(lo, hi)[2]
    BY <1>1, <1>7, <1>9, <1>10, <2>3 DEF Larger, Smaller
  <2> QED
    BY <2>2, <2>4
<1> QED
  BY <1>11, <1>12

(* What FaceBoxCoversFace says of one face.                                *)
LEMMA CropCovers ==
    ASSUME NEW face \in Faces,
           face.x[1] <= Grid, face.x[2] >= 0, face.y[1] <= Grid, face.y[2] >= 0
    PROVE  /\ Bbox(face) # None
           /\ Bbox(face)[1] = BboxSide(face.x[1], face.x[2])
           /\ Bbox(face)[2] = BboxSide(face.y[1], face.y[2])
<1>1. /\ face # None /\ face # Absent
      /\ face.x[1] \in Int /\ face.x[2] \in Int /\ face.x[1] <= face.x[2]
      /\ face.y[1] \in Int /\ face.y[2] \in Int /\ face.y[1] <= face.y[2]
  BY FaceAssumption
<1>2. PICK x : x = BboxSide(face.x[1], face.x[2])
  OBVIOUS
<1>3. PICK y : y = BboxSide(face.y[1], face.y[2])
  OBVIOUS
<1>4. ~(x[2] <= x[1]) /\ ~(y[2] <= y[1])
  <2>1. x[1] < x[2] /\ x[1] \in Int /\ x[2] \in Int
    BY <1>1, <1>2, SideCovers
  <2>2. y[1] < y[2] /\ y[1] \in Int /\ y[2] \in Int
    BY <1>1, <1>3, SideCovers
  <2> QED
    BY <2>1, <2>2
<1>5. Bbox(face) = <<x, y>>
  BY <1>1, <1>2, <1>3, <1>4, Zenon DEF Bbox
<1>6. x \in Int \X Int /\ y \in Int \X Int
  BY <1>1, <1>2, <1>3, SideCovers
<1>7. Bbox(face) # None
  BY <1>5, <1>6, FaceAssumption
<1> QED
  BY <1>2, <1>3, <1>5, <1>7

-----------------------------------------------------------------------------
(* The frames of a chunk. *)

(* A function on 1 .. n is a sequence of length n.                         *)
LEMMA FunctionIsSeq ==
    ASSUME NEW n \in Nat, NEW T, NEW f \in [1 .. n -> T]
    PROVE  f \in Seq(T) /\ Len(f) = n
<1>1. f \in Seq(T)
  BY SeqDef
<1>2. Len(f) \in Nat /\ DOMAIN f = 1 .. Len(f)
  BY <1>1, LenProperties
<1>3. \A i : i \in 1 .. n <=> i \in 1 .. Len(f)
  BY <1>2
<1>4. Len(f) = n
  BY <1>2, <1>3
<1> QED
  BY <1>1, <1>4

(* The frames hold the samples in order, each once, and then silence; less *)
(* than a frame of it (split_into_vad_frames).                             *)
LEMMA SplitKeepsSamples ==
    ASSUME NEW samples \in Seq(Int)
    PROVE  LET S == SamplesPerFrame
               n == Len(samples)
               frames == split_into_vad_frames(samples)
               total == Len(frames)
           IN  /\ total \in Nat
               /\ \A i \in 1 .. total : Len(frames[i]) = S
               /\ total * S - n \in 0 .. S - 1
               /\ \A k \in 1 .. total * S :
                     frames[(k - 1) \div S + 1][((k - 1) % S) + 1]
                        = IF k <= n THEN samples[k] ELSE 0
<1> DEFINE S == SamplesPerFrame
           n == Len(samples)
           q == n \div S
           t == n % S
           total == q + (IF t > 0 THEN 1 ELSE 0)
           at(i, k) == (i - 1) * S + k
           Frame(i) == [k \in 1 .. S |-> IF at(i, k) <= n THEN samples[at(i, k)] ELSE 0]
           frames == [i \in 1 .. total |-> Frame(i)]
<1>1. S \in Nat \ {0} /\ n \in Nat
  BY DispatchAssumption
<1>2. q \in Nat /\ t \in 0 .. S - 1 /\ n = q * S + t
  BY <1>1, DivMod
<1>3. split_into_vad_frames(samples) = frames
  BY Zenon DEF split_into_vad_frames
<1> HIDE DEF q, t
<1>4. total \in Nat
  BY <1>2
<1>5. ASSUME NEW i \in 1 .. total PROVE Frame(i) \in [1 .. S -> Int]
  <2>1. \A k \in 1 .. S : at(i, k) \in Nat \ {0}
    <3>1. (i - 1) * S \in Nat
      BY <1>1, <1>4, TimesNat
    <3> QED
      BY <1>1, <3>1
  <2>2. \A k \in 1 .. S : at(i, k) <= n => samples[at(i, k)] \in Int
    <3>1. \A j \in 1 .. n : samples[j] \in Int
      BY <1>1
    <3> HIDE DEF at
    <3> QED
      BY <1>1, <2>1, <3>1
  <2> HIDE DEF at
  <2> QED
    BY <2>2
<1>6. \A i \in 1 .. total : Len(Frame(i)) = S
  <2> HIDE DEF Frame, total
  <2> QED
    BY <1>1, <1>5, FunctionIsSeq
<1>7. frames \in [1 .. total -> Seq(Int)]
  <2>1. \A i \in 1 .. total : Frame(i) \in Seq(Int)
    <3> HIDE DEF Frame, total
    <3> QED
      BY <1>1, <1>5, FunctionIsSeq
  <2> HIDE DEF Frame, total
  <2> QED
    BY <2>1
<1>8. Len(frames) = total
  <2> HIDE DEF frames, total
  <2> QED
    BY <1>4, <1>7, FunctionIsSeq
<1>9. total * S - n \in 0 .. S - 1
  <2>1. q * S \in Nat
    BY <1>1, <1>2, TimesNat
  <2>2. CASE t > 0
    <3>1. total * S = q * S + S
      BY <1>1, <1>2, <2>2
    <3> QED
      BY <1>1, <1>2, <2>1, <2>2, <3>1
  <2>3. CASE ~(t > 0)
    <3>1. total * S = q * S /\ t = 0
      BY <1>1, <1>2, <2>3
    <3> QED
      BY <1>1, <1>2, <2>1, <3>1
  <2> QED
    BY <2>2, <2>3
<1>10. ASSUME NEW k \in 1 .. total * S
       PROVE  frames[(k - 1) \div S + 1][((k - 1) % S) + 1]
                 = IF k <= n THEN samples[k] ELSE 0
  <2> DEFINE i == (k - 1) \div S + 1
             j == ((k - 1) % S) + 1
  <2>1. total * S \in Nat
    BY <1>1, <1>4, TimesNat
  <2>2. k - 1 \in Nat /\ k - 1 < total * S
    BY <2>1
  <2>3. i - 1 \in Nat /\ i \in Int /\ j \in 1 .. S /\ k - 1 = (i - 1) * S + (j - 1)
    <3>1. PICK u : u = (k - 1) \div S
      OBVIOUS
    <3>2. PICK v : v = (k - 1) % S
      OBVIOUS
    <3>3. u \in Nat /\ v \in 0 .. S - 1 /\ k - 1 = u * S + v
      BY <1>1, <2>2, <3>1, <3>2, DivMod
    <3>4. i - 1 = u /\ j - 1 = v /\ i \in Int /\ j \in 1 .. S
      BY <1>1, <3>1, <3>2, <3>3
    <3> QED
      BY <3>3, <3>4
  <2> HIDE DEF i, j
  <2>4. at(i, j) = k
    <3>1. (i - 1) * S \in Nat
      BY <1>1, <2>3, TimesNat
    <3> QED
      BY <2>3, <3>1
  <2>5. i \in 1 .. total
    <3> SUFFICES ASSUME ~(i <= total) PROVE FALSE
      BY <1>4, <2>3
    <3>1. total <= i - 1
      BY <1>4, <2>3
    <3>2. total * S <= (i - 1) * S
      BY <1>1, <1>4, <2>3, <3>1, TimesMonotone
    <3>3. (i - 1) * S \in Nat
      BY <1>1, <2>3, TimesNat
    <3> QED
      BY <2>1, <2>2, <2>3, <3>2, <3>3
  <2>6. frames[i] = Frame(i)
    BY <2>5, Zenon
  <2>7. Frame(i)[j] = IF at(i, j) <= n THEN samples[at(i, j)] ELSE 0
    BY <2>3, Zenon
  <2> HIDE DEF frames, Frame, at
  <2>8. frames[i][j] = IF k <= n THEN samples[k] ELSE 0
    BY <2>4, <2>6, <2>7, Zenon
  <2> QED
    BY <2>8 DEF i, j
<1>11. \A i \in 1 .. total : Len(frames[i]) = S
  BY <1>6, Zenon
<1> HIDE DEF frames, total
<1>12. /\ Len(frames) \in Nat
       /\ \A i \in 1 .. Len(frames) : Len(frames[i]) = S
       /\ Len(frames) * S - n \in 0 .. S - 1
       /\ \A k \in 1 .. Len(frames) * S :
             frames[(k - 1) \div S + 1][((k - 1) % S) + 1]
                = IF k <= n THEN samples[k] ELSE 0
  BY <1>4, <1>8, <1>9, <1>10, <1>11, Zenon
<1> QED
  BY <1>3, <1>12, Zenon

-----------------------------------------------------------------------------
(* The dispatcher's life. *)

(* A dispatcher whose thread ended before stop gave up waiting leaves no   *)
(* landmarker open, whatever was configured and dispatched (stop,          *)
(* _close_runners).                                                        *)
THEOREM LandmarkerIsReleased == Spec => []LandmarkerReleased
<1>1. Init => LandmarkerReleased
  BY DEF Init, LandmarkerReleased
<1>2. ASSUME LandmarkerReleased, [Next]_vars PROVE LandmarkerReleased'
  <2> USE DEF LandmarkerReleased
  <2>1. CASE UNCHANGED vars
    BY <1>2, <2>1 DEF vars
  <2>2. CASE start \/ stop
    BY <1>2, <2>2 DEF start, stop
  <2>3. CASE _close_runners
    BY <1>2, <2>3 DEF _close_runners, Joined
  <2>4. CASE _run_loop
    BY <1>2, <2>4 DEF _run_loop, NextEvent, ExitLoop
  <2>5. ASSUME NEW next, NEW to, Take(next, to) PROVE LandmarkerReleased'
    BY <1>2, <2>5 DEF Take
  <2>6. CASE _dispatch_event
    BY <2>5, <2>6, Zenon DEF _dispatch_event, DecodeFails, _dispatch_heavy_frame,
       DecodePcmFails, VadFails, _dispatch_audio_chunk, _dispatch_light,
       _dispatch_browser_event
  <2>7. CASE RunnerStep
    <3>1. thread # "exited" /\ handler' = handler /\ timed_out' = timed_out
      BY <2>7 DEF RunnerStep, RunLandmarker, RunDetector, RunIdentity, RunLiveness, Move
    <3> QED
      BY <1>2, <3>1
  <2> QED
    BY <1>2, <2>1, <2>2, <2>3, <2>4, <2>6, <2>7 DEF Next
<1> QED
  BY <1>1, <1>2, PTL DEF Spec

-----------------------------------------------------------------------------
(* One heavy frame on its way through the runners. *)

Stages == {"landmarker", "detector", "identity", "liveness"}

Failures == {"build_landmarker", "landmarker", "build_detector", "detector",
             "identity", "liveness"}

Results == {"no_landmarks", "off_screen", "on_screen", "book", "cup",
            "identity_match", "identity_mismatch", "liveness_real",
            "liveness_spoof"}

HeavyEvent ==
    [kind : {"heavy"}, seq : Nat, landmarks : Faces \cup {None, Absent},
     fed : SUBSET (Modalities \X Results), failed : SUBSET Failures]

(* The modalities fed so far, and those the scheduler chose.               *)
NamesIn(results) == {r[1] : r \in results}
Names(e) == NamesIn(e.fed)
DueAt(m, e, c) == e.seq % c.periods[m] = 0

Unbuilt(e) == e.failed \cap {"build_landmarker", "build_detector"}

GazeFed(e, c) == "gaze" \in Names(e) <=> DueAt("gaze", e, c) /\ e.landmarks # None

(* What a frame has behind it at each place, and at the end.               *)
AtLandmarker(e) == e.landmarks = None /\ e.fed = {} /\ e.failed = {}

AtDetector(e, c) ==
    /\ GazeFed(e, c)
    /\ Names(e) \subseteq {"gaze"}
    /\ Unbuilt(e) = {} /\ "identity" \notin e.failed /\ "liveness" \notin e.failed

AtIdentity(e, c) ==
    /\ GazeFed(e, c)
    /\ Names(e) \subseteq {"gaze", "object"}
    /\ "object" \in Names(e) => DueAt("object", e, c)
    /\ Unbuilt(e) = {} /\ "identity" \notin e.failed /\ "liveness" \notin e.failed

AtLiveness(e, c) ==
    /\ GazeFed(e, c)
    /\ Names(e) \subseteq {"gaze", "object", "identity"}
    /\ "object" \in Names(e) => DueAt("object", e, c)
    /\ "identity" \in Names(e) <=> DueAt("identity", e, c)
    /\ "identity" \in Names(e) => c.enrolled /\ Bbox(e.landmarks) # None
    /\ Unbuilt(e) = {} /\ "identity" \notin e.failed /\ "liveness" \notin e.failed

Sampled(e, c) ==
    LET usable == Bbox(e.landmarks) # None /\ Unbuilt(e) = {}
    IN  /\ GazeFed(e, c)
        /\ "object" \in Names(e) => DueAt("object", e, c) /\ Unbuilt(e) = {}
        /\ "identity" \in Names(e) <=> /\ DueAt("identity", e, c) /\ usable
                                       /\ c.enrolled
                                       /\ "identity" \notin e.failed
        /\ "liveness" \in Names(e) <=>
              /\ DueAt("liveness", e, c) /\ usable
              /\ c.liveness_runner
              /\ "liveness" \notin e.failed
              /\ DueAt("identity", e, c) => "identity" \in Names(e)

(* How a frame's record changes when a runner fails or gives results.      *)
LEMMA FailedFacts ==
    ASSUME NEW e \in HeavyEvent, NEW what \in Failures, NEW d,
           d = [e EXCEPT !.failed = @ \cup {what}]
    PROVE  /\ d \in HeavyEvent
           /\ d.seq = e.seq /\ d.landmarks = e.landmarks /\ d.fed = e.fed
           /\ d.failed = e.failed \cup {what}
  BY DEF HeavyEvent

(* Results fed on a frame add their names and change nothing else.         *)
LEMMA FedFacts ==
    ASSUME NEW e \in HeavyEvent, NEW results \in SUBSET (Modalities \X Results),
           NEW d, d = [e EXCEPT !.fed = @ \cup results]
    PROVE  /\ d \in HeavyEvent
           /\ d.seq = e.seq /\ d.landmarks = e.landmarks /\ d.failed = e.failed
           /\ d.fed = e.fed \cup results
           /\ Names(d) = Names(e) \cup NamesIn(results)
<1>1. /\ d \in HeavyEvent
      /\ d.seq = e.seq /\ d.landmarks = e.landmarks /\ d.failed = e.failed
      /\ d.fed = e.fed \cup results
  BY DEF HeavyEvent
<1>2. Names(d) = Names(e) \cup NamesIn(results)
  BY <1>1, Zenon DEF Names, NamesIn
<1> QED
  BY <1>1, <1>2

(* The landmarks found on a frame change only that field.                  *)
LEMMA LandmarksFacts ==
    ASSUME NEW e \in HeavyEvent, NEW face \in Faces \cup {None, Absent},
           NEW d, d = [e EXCEPT !.landmarks = face]
    PROVE  /\ d \in HeavyEvent
           /\ d.seq = e.seq /\ d.landmarks = face /\ d.failed = e.failed
           /\ d.fed = e.fed
  BY DEF HeavyEvent

(* A failure noted on a frame changes nothing but the note.                *)
LEMMA FailedNames ==
    ASSUME NEW e \in HeavyEvent, NEW what \in Failures, NEW d,
           d = [e EXCEPT !.failed = @ \cup {what}]
    PROVE  /\ Names(d) = Names(e)
           /\ \A m, c : DueAt(m, d, c) <=> DueAt(m, e, c)
           /\ \A c : GazeFed(d, c) <=> GazeFed(e, c)
<1>1. d.seq = e.seq /\ d.landmarks = e.landmarks /\ d.fed = e.fed
  BY FailedFacts
<1>2. Names(d) = Names(e)
  BY <1>1, Zenon DEF Names
<1>3. \A m, c : DueAt(m, d, c) <=> DueAt(m, e, c)
  BY <1>1, Zenon DEF DueAt
<1> QED
  BY <1>1, <1>2, <1>3, Zenon DEF GazeFed

(* A crop needs landmarks.                                                 *)
LEMMA NoLandmarksNoCrop == Bbox(None) = None /\ Bbox(Absent) = None
  BY DEF Bbox

(* Where the frame being dispatched has got to.                            *)
StageInv ==
    /\ config \in Configs
    /\ decoded \in Nat /\ heavy_frame_seq = decoded
    /\ thread \in Stages => event.kind = "heavy"
    /\ event.kind = "heavy" => event \in HeavyEvent /\ event.seq = decoded - 1
    /\ thread = "landmarker" => AtLandmarker(event)
    /\ thread = "detector" => AtDetector(event, config)
    /\ thread = "identity" => AtIdentity(event, config)
    /\ thread = "liveness" => AtLiveness(event, config)
    /\ thread = "done" /\ event.kind = "heavy" => Sampled(event, config)

(* A step of the thread within a frame keeps StageInv if the record it     *)
(* leaves is one the next place may have.                                  *)
LEMMA MoveKeeps ==
    ASSUME StageInv, thread \in Stages, NEW d \in HeavyEvent, d.seq = event.seq,
           NEW to, Move(d, to),
           \/ to = "detector" /\ AtDetector(d, config)
           \/ to = "identity" /\ AtIdentity(d, config)
           \/ to = "liveness" /\ AtLiveness(d, config)
           \/ to = "done" /\ Sampled(d, config)
    PROVE  StageInv'
<1>1. /\ event' = d /\ thread' = to /\ config' = config
      /\ heavy_frame_seq' = heavy_frame_seq /\ decoded' = decoded
  BY DEF Move
<1>2. d.kind = "heavy" /\ d.seq = decoded - 1
  BY DEF StageInv, HeavyEvent
<1>3. /\ to = "detector" => AtDetector(d, config)
      /\ to = "identity" => AtIdentity(d, config)
      /\ to = "liveness" => AtLiveness(d, config)
      /\ to = "done" => Sampled(d, config)
      /\ to # "landmarker"
  OBVIOUS
<1> QED
  BY <1>1, <1>2, <1>3, Zenon DEF StageInv

(* The landmarker and the gaze result (_dispatch_heavy_frame).             *)
LEMMA LandmarkerStage ==
    ASSUME StageInv, RunLandmarker
    PROVE  StageInv'
<1>1. /\ event \in HeavyEvent /\ AtLandmarker(event) /\ thread \in Stages
      /\ Names(event) = {}
  BY DEF StageInv, RunLandmarker, Stages, AtLandmarker, Names, NamesIn
<1>2. \A m : ShouldRun(m) <=> DueAt(m, event, config)
  BY Zenon DEF ShouldRun, DueAt
<1>3. CASE Move(event, "detector") /\ ~ShouldRun("gaze")
  <2>1. AtDetector(event, config)
    BY <1>1, <1>2, <1>3, Zenon DEF AtLandmarker, AtDetector, GazeFed, Unbuilt
  <2> QED
    BY <1>1, <1>3, <2>1, MoveKeeps
<1>4. CASE Move(Failed("build_landmarker"), "done")
  <2>1. PICK d : d = Failed("build_landmarker")
    OBVIOUS
  <2>2. /\ d \in HeavyEvent /\ d.seq = event.seq /\ d.landmarks = None
        /\ Names(d) = {}
    BY <1>1, <2>1, FailedFacts, FailedNames DEF Failed, Failures, AtLandmarker
  <2>3. Bbox(d.landmarks) = None
    BY <2>2, NoLandmarksNoCrop
  <2>4. Sampled(d, config)
    BY <2>2, <2>3, Zenon DEF Sampled, GazeFed
  <2> QED
    BY <1>1, <1>4, <2>1, <2>2, <2>4, MoveKeeps
<1>5. CASE Move(Failed("landmarker"), "detector")
  <2>1. PICK d : d = Failed("landmarker")
    OBVIOUS
  <2>2. /\ d \in HeavyEvent /\ d.seq = event.seq /\ d.landmarks = None
        /\ Names(d) = {} /\ d.failed = {"landmarker"}
    BY <1>1, <2>1, FailedFacts, FailedNames DEF Failed, Failures, AtLandmarker
  <2>3. Unbuilt(d) = {} /\ "identity" \notin d.failed /\ "liveness" \notin d.failed
    BY <2>2 DEF Unbuilt
  <2>4. AtDetector(d, config)
    BY <2>2, <2>3, Zenon DEF AtDetector, GazeFed
  <2> QED
    BY <1>1, <1>5, <2>1, <2>2, <2>4, MoveKeeps
<1>6. ASSUME NEW face \in Faces \cup {Absent},
             Move([Fed(IF ShouldRun("gaze") THEN {<<"gaze", GazeVerdict(face)>>} ELSE {})
                   EXCEPT !.landmarks = face], "detector")
      PROVE  StageInv'
  <2> DEFINE results == IF ShouldRun("gaze") THEN {<<"gaze", GazeVerdict(face)>>} ELSE {}
  <2>1. results \in SUBSET (Modalities \X Results)
    <3>1. GazeVerdict(face) \in Results
      BY DEF GazeVerdict, Results
    <3> QED
      BY <3>1 DEF Modalities
  <2>2. NamesIn(results) = IF ShouldRun("gaze") THEN {"gaze"} ELSE {}
    <3>1. CASE ShouldRun("gaze")
      <4>1. results = {<<"gaze", GazeVerdict(face)>>}
        BY <3>1
      <4> HIDE DEF results
      <4> QED
        BY <3>1, <4>1 DEF NamesIn
    <3>2. CASE ~ShouldRun("gaze")
      <4>1. results = {}
        BY <3>2
      <4> HIDE DEF results
      <4> QED
        BY <3>2, <4>1 DEF NamesIn
    <3> QED
      BY <3>1, <3>2
  <2> HIDE DEF results
  <2>3. PICK a : a = Fed(results)
    OBVIOUS
  <2>4. /\ a \in HeavyEvent /\ a.seq = event.seq /\ a.failed = {}
        /\ Names(a) = IF ShouldRun("gaze") THEN {"gaze"} ELSE {}
    <3>1. a = [event EXCEPT !.fed = @ \cup results]
      BY <2>3 DEF Fed
    <3>2. /\ a \in HeavyEvent /\ a.seq = event.seq /\ a.failed = event.failed
          /\ Names(a) = Names(event) \cup NamesIn(results)
      <4>1. PICK given \in SUBSET (Modalities \X Results), e \in HeavyEvent :
               given = results /\ e = event
        BY <1>1, <2>1
      <4>2. a = [e EXCEPT !.fed = @ \cup given]
        BY <3>1, <4>1
      <4>3. /\ a \in HeavyEvent /\ a.seq = e.seq /\ a.failed = e.failed
            /\ Names(a) = Names(e) \cup NamesIn(given)
        BY <4>2, FedFacts
      <4> QED
        BY <4>1, <4>3
    <3>3. event.failed = {}
      BY <1>1 DEF AtLandmarker
    <3>4. Names(a) = NamesIn(results)
      BY <1>1, <3>2
    <3> QED
      BY <2>2, <3>2, <3>3, <3>4, Zenon
  <2>5. PICK d : d = [a EXCEPT !.landmarks = face]
    OBVIOUS
  <2>6. /\ d \in HeavyEvent /\ d.seq = event.seq /\ d.failed = {} /\ d.landmarks = face
        /\ d.fed = a.fed
    BY <2>4, <2>5, LandmarksFacts
  <2>7. Names(d) = IF ShouldRun("gaze") THEN {"gaze"} ELSE {}
    BY <2>4, <2>6, Zenon DEF Names
  <2>8. face # None
    BY FaceAssumption
  <2>9. DueAt("gaze", d, config) <=> ShouldRun("gaze")
    BY <2>6, Zenon DEF DueAt, ShouldRun
  <2>10. Unbuilt(d) = {} /\ "identity" \notin d.failed /\ "liveness" \notin d.failed
    BY <2>6 DEF Unbuilt
  <2>11. AtDetector(d, config)
    BY <2>6, <2>7, <2>8, <2>9, <2>10, Zenon DEF AtDetector, GazeFed
  <2>12. Move(d, "detector")
    BY <1>6, <2>3, <2>5, Zenon DEF results
  <2> QED
    BY <1>1, <2>6, <2>11, <2>12, MoveKeeps
<1> QED
  BY <1>3, <1>4, <1>5, <1>6, Zenon DEF RunLandmarker

(* The object detector and the denylist.                                   *)
LEMMA DetectorStage ==
    ASSUME StageInv, RunDetector
    PROVE  StageInv'
<1>1. event \in HeavyEvent /\ AtDetector(event, config) /\ thread \in Stages
  BY DEF StageInv, RunDetector, Stages
<1>2. \A m : ShouldRun(m) <=> DueAt(m, event, config)
  BY Zenon DEF ShouldRun, DueAt
<1>3. "object" \notin Names(event) /\ "identity" \notin Names(event)
      /\ "liveness" \notin Names(event)
  BY <1>1 DEF AtDetector
<1>4. CASE Move(event, "identity")
  <2>1. AtIdentity(event, config)
    BY <1>1, <1>3 DEF AtDetector, AtIdentity
  <2> QED
    BY <1>1, <1>4, <2>1, MoveKeeps
<1>5. CASE Move(Failed("build_detector"), "done")
  <2>1. PICK d : d = Failed("build_detector")
    OBVIOUS
  <2>2. /\ d \in HeavyEvent /\ d.seq = event.seq
        /\ d.failed = event.failed \cup {"build_detector"}
        /\ Names(d) = Names(event) /\ (GazeFed(d, config) <=> GazeFed(event, config))
    BY <1>1, <2>1, FailedFacts, FailedNames DEF Failed, Failures
  <2>3. Unbuilt(d) # {}
    BY <2>2 DEF Unbuilt
  <2>4. Sampled(d, config)
    BY <1>1, <1>3, <2>2, <2>3, Zenon DEF Sampled, AtDetector
  <2> QED
    BY <1>1, <1>5, <2>1, <2>2, <2>4, MoveKeeps
<1>6. CASE Move(Failed("detector"), "identity")
  <2>1. PICK d : d = Failed("detector")
    OBVIOUS
  <2>2. /\ d \in HeavyEvent /\ d.seq = event.seq
        /\ d.failed = event.failed \cup {"detector"}
        /\ Names(d) = Names(event) /\ (GazeFed(d, config) <=> GazeFed(event, config))
    BY <1>1, <2>1, FailedFacts, FailedNames DEF Failed, Failures
  <2>3. Unbuilt(d) = {} /\ "identity" \notin d.failed /\ "liveness" \notin d.failed
    BY <1>1, <2>2 DEF Unbuilt, AtDetector
  <2>4. AtIdentity(d, config)
    BY <1>1, <1>3, <2>2, <2>3 DEF AtIdentity, AtDetector
  <2> QED
    BY <1>1, <1>6, <2>1, <2>2, <2>4, MoveKeeps
<1>7. ASSUME ShouldRun("object"), NEW seen \in SUBSET {"book", "cup"},
             Move(Fed({<<"object", c>> : c \in filter_denylist_detections(seen)}),
                  "identity")
      PROVE  StageInv'
  <2> DEFINE results == {<<"object", c>> : c \in filter_denylist_detections(seen)}
  <2>1. results \in SUBSET (Modalities \X Results)
    BY DEF filter_denylist_detections, Modalities, Results
  <2>2. NamesIn(results) \subseteq {"object"}
    BY DEF NamesIn
  <2> HIDE DEF results
  <2>3. PICK d : d = Fed(results)
    OBVIOUS
  <2>4. /\ d \in HeavyEvent /\ d.seq = event.seq /\ d.failed = event.failed
        /\ d.landmarks = event.landmarks
        /\ Names(d) = Names(event) \cup NamesIn(results)
    BY <1>1, <2>1, <2>3, FedFacts DEF Fed
  <2>5. \A m : DueAt(m, d, config) <=> DueAt(m, event, config)
    BY <2>4, Zenon DEF DueAt
  <2>6. GazeFed(d, config) /\ Unbuilt(d) = {}
    BY <1>1, <2>2, <2>4, <2>5 DEF GazeFed, AtDetector, Unbuilt
  <2>7. AtIdentity(d, config)
    BY <1>1, <1>2, <1>7, <2>2, <2>4, <2>5, <2>6 DEF AtIdentity, AtDetector
  <2>8. Move(d, "identity")
    BY <1>7, <2>3, Zenon DEF results
  <2> QED
    BY <1>1, <2>4, <2>7, <2>8, MoveKeeps
<1> QED
  BY <1>4, <1>5, <1>6, <1>7, Zenon DEF RunDetector

(* The identity branch, whose early ways out end the frame.                *)
LEMMA IdentityStage ==
    ASSUME StageInv, RunIdentity
    PROVE  StageInv'
<1>1. event \in HeavyEvent /\ AtIdentity(event, config) /\ thread \in Stages
  BY DEF StageInv, RunIdentity, Stages
<1>2. \A m : ShouldRun(m) <=> DueAt(m, event, config)
  BY Zenon DEF ShouldRun, DueAt
<1>3. "identity" \notin Names(event) /\ "liveness" \notin Names(event)
  BY <1>1 DEF AtIdentity
<1>4. CASE ~ShouldRun("identity") /\ Move(event, "liveness")
  <2>1. AtLiveness(event, config)
    BY <1>1, <1>2, <1>3, <1>4 DEF AtIdentity, AtLiveness
  <2> QED
    BY <1>1, <1>4, <2>1, MoveKeeps
<1>5. CASE /\ ShouldRun("identity") /\ Move(event, "done")
           /\ ~config.enrolled \/ Bbox(event.landmarks) = None
  <2>1. Sampled(event, config)
    BY <1>1, <1>2, <1>3, <1>5, Zenon DEF AtIdentity, Sampled
  <2> QED
    BY <1>1, <1>5, <2>1, MoveKeeps
<1>6. CASE ShouldRun("identity") /\ Move(Failed("identity"), "done")
  <2>1. PICK d : d = Failed("identity")
    OBVIOUS
  <2>2. /\ d \in HeavyEvent /\ d.seq = event.seq
        /\ d.failed = event.failed \cup {"identity"}
        /\ Names(d) = Names(event) /\ (GazeFed(d, config) <=> GazeFed(event, config))
        /\ \A m : DueAt(m, d, config) <=> DueAt(m, event, config)
    BY <1>1, <2>1, FailedFacts, FailedNames DEF Failed, Failures
  <2>3. Unbuilt(d) = {} /\ "identity" \in d.failed
    BY <1>1, <2>2 DEF Unbuilt, AtIdentity
  <2>4. Sampled(d, config)
    BY <1>1, <1>2, <1>3, <1>6, <2>2, <2>3, Zenon DEF Sampled, AtIdentity
  <2> QED
    BY <1>1, <1>6, <2>1, <2>2, <2>4, MoveKeeps
<1>7. ASSUME ShouldRun("identity"), config.enrolled, Bbox(event.landmarks) # None,
             NEW similarity \in Similarities,
             Move(Fed({<<"identity", IdentityVerdict(similarity)>>}), "liveness")
      PROVE  StageInv'
  <2> DEFINE results == {<<"identity", IdentityVerdict(similarity)>>}
  <2>1. results \in SUBSET (Modalities \X Results)
    <3>1. IdentityVerdict(similarity) \in Results
      BY DEF IdentityVerdict, Results
    <3> QED
      BY <3>1 DEF Modalities
  <2>2. NamesIn(results) = {"identity"}
    BY DEF NamesIn
  <2> HIDE DEF results
  <2>3. PICK d : d = Fed(results)
    OBVIOUS
  <2>4. /\ d \in HeavyEvent /\ d.seq = event.seq /\ d.failed = event.failed
        /\ d.landmarks = event.landmarks
        /\ Names(d) = Names(event) \cup {"identity"}
    BY <1>1, <2>1, <2>2, <2>3, FedFacts DEF Fed
  <2>5. \A m : DueAt(m, d, config) <=> DueAt(m, event, config)
    BY <2>4, Zenon DEF DueAt
  <2>6. GazeFed(d, config) /\ Unbuilt(d) = {}
    BY <1>1, <2>4, <2>5 DEF GazeFed, AtIdentity, Unbuilt
  <2>7. AtLiveness(d, config)
    BY <1>1, <1>2, <1>7, <2>4, <2>5, <2>6 DEF AtIdentity, AtLiveness
  <2>8. Move(d, "liveness")
    BY <1>7, <2>3, Zenon DEF results
  <2> QED
    BY <1>1, <2>4, <2>7, <2>8, MoveKeeps
<1> QED
  BY <1>4, <1>5, <1>6, <1>7, Zenon DEF RunIdentity

(* The liveness branch, the last of a frame.                               *)
LEMMA LivenessStage ==
    ASSUME StageInv, RunLiveness
    PROVE  StageInv'
<1>1. event \in HeavyEvent /\ AtLiveness(event, config) /\ thread \in Stages
  BY DEF StageInv, RunLiveness, Stages
<1>2. \A m : ShouldRun(m) <=> DueAt(m, event, config)
  BY Zenon DEF ShouldRun, DueAt
<1>3. "liveness" \notin Names(event)
  BY <1>1 DEF AtLiveness
<1>4. CASE /\ Move(event, "done")
           /\ \/ ~ShouldRun("liveness") \/ ~config.liveness_runner
              \/ Bbox(event.landmarks) = None
  <2>1. Sampled(event, config)
    BY <1>1, <1>2, <1>3, <1>4, Zenon DEF AtLiveness, Sampled
  <2> QED
    BY <1>1, <1>4, <2>1, MoveKeeps
<1>5. CASE Move(Failed("liveness"), "done")
  <2>1. PICK d : d = Failed("liveness")
    OBVIOUS
  <2>2. /\ d \in HeavyEvent /\ d.seq = event.seq /\ d.landmarks = event.landmarks
        /\ d.failed = event.failed \cup {"liveness"}
        /\ Names(d) = Names(event) /\ (GazeFed(d, config) <=> GazeFed(event, config))
        /\ \A m : DueAt(m, d, config) <=> DueAt(m, event, config)
    BY <1>1, <2>1, FailedFacts, FailedNames DEF Failed, Failures
  <2>3. Unbuilt(d) = {} /\ "identity" \notin d.failed /\ "liveness" \in d.failed
    BY <1>1, <2>2 DEF Unbuilt, AtLiveness
  <2>4. Sampled(d, config)
    BY <1>1, <1>2, <1>3, <2>2, <2>3, Zenon DEF Sampled, AtLiveness
  <2> QED
    BY <1>1, <1>5, <2>1, <2>2, <2>4, MoveKeeps
<1>6. ASSUME ShouldRun("liveness"), config.liveness_runner,
             Bbox(event.landmarks) # None,
             NEW model_is_real \in BOOLEAN, NEW confident \in BOOLEAN,
             Move(Fed({<<"liveness", LivenessVerdict(model_is_real, confident)>>}), "done")
      PROVE  StageInv'
  <2> DEFINE results == {<<"liveness", LivenessVerdict(model_is_real, confident)>>}
  <2>1. results \in SUBSET (Modalities \X Results)
    <3>1. LivenessVerdict(model_is_real, confident) \in Results
      BY DEF LivenessVerdict, Results
    <3> QED
      BY <3>1 DEF Modalities
  <2>2. NamesIn(results) = {"liveness"}
    BY DEF NamesIn
  <2> HIDE DEF results
  <2>3. PICK d : d = Fed(results)
    OBVIOUS
  <2>4. /\ d \in HeavyEvent /\ d.seq = event.seq /\ d.failed = event.failed
        /\ d.landmarks = event.landmarks
        /\ Names(d) = Names(event) \cup {"liveness"}
    BY <1>1, <2>1, <2>2, <2>3, FedFacts DEF Fed
  <2>5. \A m : DueAt(m, d, config) <=> DueAt(m, event, config)
    BY <2>4, Zenon DEF DueAt
  <2>6. GazeFed(d, config) /\ Unbuilt(d) = {}
    BY <1>1, <2>4, <2>5 DEF GazeFed, AtLiveness, Unbuilt
  <2>7. Sampled(d, config)
    BY <1>1, <1>2, <1>6, <2>4, <2>5, <2>6 DEF AtLiveness, Sampled
  <2>8. Move(d, "done")
    BY <1>6, <2>3, Zenon DEF results
  <2> QED
    BY <1>1, <2>4, <2>7, <2>8, MoveKeeps
<1> QED
  BY <1>4, <1>5, <1>6, Zenon DEF RunLiveness

(* A new event that is not a heavy frame.                                  *)
LEMMA TakeKeeps ==
    ASSUME StageInv, NEW next, next.kind # "heavy", Take(next, "done"),
           UNCHANGED <<heavy_frame_seq, decoded>>
    PROVE  StageInv'
<1>1. /\ event' = next /\ thread' = "done" /\ config' = config
      /\ heavy_frame_seq' = heavy_frame_seq /\ decoded' = decoded
  BY DEF Take
<1>2. "done" \notin Stages
  BY DEF Stages
<1>3. /\ "done" # "landmarker" /\ "done" # "detector" /\ "done" # "identity"
      /\ "done" # "liveness"
  OBVIOUS
<1> QED
  BY <1>1, <1>2, <1>3, Zenon DEF StageInv

(* A decoded heavy frame takes the next number.                            *)
LEMMA HeavyTaken ==
    ASSUME StageInv, _dispatch_heavy_frame
    PROVE  StageInv'
<1>1. /\ event' = HeavyFrame /\ thread' = "landmarker" /\ config' = config
      /\ heavy_frame_seq' = heavy_frame_seq + 1 /\ decoded' = decoded + 1
  BY DEF _dispatch_heavy_frame, Take
<1>2. heavy_frame_seq = decoded /\ decoded \in Nat /\ config \in Configs
  BY DEF StageInv
<1>3. /\ HeavyFrame \in HeavyEvent /\ HeavyFrame.kind = "heavy"
      /\ HeavyFrame.seq = (decoded + 1) - 1 /\ AtLandmarker(HeavyFrame)
  BY <1>2 DEF HeavyFrame, HeavyEvent, AtLandmarker
<1>4. decoded' \in Nat /\ heavy_frame_seq' = decoded' /\ HeavyFrame.seq = decoded' - 1
  BY <1>1, <1>2, <1>3
<1>5. /\ thread' # "detector" /\ thread' # "identity" /\ thread' # "liveness"
      /\ thread' # "done"
  BY <1>1
<1> HIDE DEF HeavyFrame
<1> QED
  BY <1>1, <1>2, <1>3, <1>4, <1>5, Zenon DEF StageInv

(* No frame has been taken yet.                                            *)
LEMMA StageInit == Init => StageInv
  BY DEF Init, StageInv, NoEvent, Stages

(* Every step of handler and thread keeps StageInv.                        *)
LEMMA StageStep ==
    ASSUME StageInv, [Next]_vars
    PROVE  StageInv'
<1>1. CASE UNCHANGED vars
  BY <1>1, Zenon DEF vars, StageInv
<1>2. CASE start
  <2>1. /\ thread' = "idle" /\ config' = config /\ event' = event
        /\ heavy_frame_seq' = heavy_frame_seq /\ decoded' = decoded
    BY <1>2 DEF start
  <2> QED
    BY <2>1 DEF StageInv, Stages
<1>3. CASE stop \/ _close_runners
  <2>1. /\ thread' = thread /\ config' = config /\ event' = event
        /\ heavy_frame_seq' = heavy_frame_seq /\ decoded' = decoded
    BY <1>3 DEF stop, _close_runners
  <2> QED
    BY <2>1, Zenon DEF StageInv
<1>4. CASE _run_loop
  <2>1. /\ thread' \in {"idle", "exited"} /\ config' = config
        /\ event' = event \/ event' = NoEvent
        /\ heavy_frame_seq' = heavy_frame_seq /\ decoded' = decoded
    BY <1>4 DEF _run_loop, NextEvent, ExitLoop
  <2> QED
    BY <2>1 DEF StageInv, Stages, NoEvent
<1>5. CASE _dispatch_event
  <2>1. CASE DecodeFails \/ DecodePcmFails
    <3>1. [kind |-> "undecodable"].kind # "heavy"
      OBVIOUS
    <3> QED
      BY <2>1, <3>1, TakeKeeps DEF DecodeFails, DecodePcmFails
  <2>2. CASE _dispatch_heavy_frame
    BY <2>2, HeavyTaken
  <2>3. CASE VadFails
    <3>1. [kind |-> "vad_failed"].kind # "heavy"
      OBVIOUS
    <3> QED
      BY <2>3, <3>1, TakeKeeps DEF VadFails
  <2>4. ASSUME NEW samples \in Chunks, NEW loud \in BOOLEAN,
               _dispatch_audio_chunk(samples, loud)
        PROVE  StageInv'
    <3>1. PICK next : /\ next.kind = "audio" /\ Take(next, "done")
                      /\ UNCHANGED <<heavy_frame_seq, decoded>>
      BY <2>4 DEF _dispatch_audio_chunk
    <3> QED
      BY <3>1, TakeKeeps
  <2>5. ASSUME NEW face_count \in 0 .. 2, _dispatch_light(face_count)
        PROVE  StageInv'
    <3>1. PICK next : /\ next.kind = "light" /\ Take(next, "done")
                      /\ UNCHANGED <<heavy_frame_seq, decoded>>
      BY <2>5 DEF _dispatch_light
    <3> QED
      BY <3>1, TakeKeeps
  <2>6. ASSUME NEW event_type \in {"blur", "copy"}, _dispatch_browser_event(event_type)
        PROVE  StageInv'
    <3>1. PICK next : /\ next.kind = "browser" /\ Take(next, "done")
                      /\ UNCHANGED <<heavy_frame_seq, decoded>>
      BY <2>6 DEF _dispatch_browser_event
    <3> QED
      BY <3>1, TakeKeeps
  <2> QED
    BY <1>5, <2>1, <2>2, <2>3, <2>4, <2>5, <2>6, Zenon DEF _dispatch_event
<1>6. CASE RunnerStep
  BY <1>6, LandmarkerStage, DetectorStage, IdentityStage, LivenessStage DEF RunnerStep
<1> QED
  BY <1>1, <1>2, <1>3, <1>4, <1>5, <1>6, Zenon DEF Next

(* StageInv holds in every state.                                          *)
LEMMA StageInvHolds == Spec => []StageInv
  BY StageInit, StageStep, PTL DEF Spec

(* For every configuration, the results of a decoded frame that reach the  *)
(* aggregator are those its number and its failures call for               *)
(* (_dispatch_heavy_frame, decide_for_frame).                              *)
THEOREM SamplingIsExact == Spec => []SamplingExact
<1>1. ASSUME StageInv PROVE SamplingExact
  <2> SUFFICES ASSUME event.kind = "heavy", thread = "done" PROVE SamplingExact
    BY Zenon DEF SamplingExact
  <2>1. Sampled(event, config) /\ event.seq = decoded - 1
    BY <1>1, Zenon DEF StageInv
  <2>2. \A m : DueAt(m, event, config) <=> (decoded - 1) % config.periods[m] = 0
    BY <2>1, Zenon DEF DueAt
  <2> QED
    BY <2>1, <2>2, Zenon DEF SamplingExact, Sampled, GazeFed, Unbuilt, Names, NamesIn
<1> QED
  BY <1>1, StageInvHolds, PTL

(* For every frame size and every face, the crop that identity match and   *)
(* liveness are given contains each end of the face that lies in the       *)
(* picture (_extract_face_bbox_pixel_coords).                              *)
THEOREM CropCoversFace == Spec => []FaceBoxCoversFace
<1>1. ASSUME StageInv PROVE FaceBoxCoversFace
  <2> DEFINE face == event.landmarks
  <2> SUFFICES ASSUME event.kind = "heavy", face \notin {None, Absent},
                      face.x[1] <= Grid, face.x[2] >= 0,
                      face.y[1] <= Grid, face.y[2] >= 0
               PROVE  /\ Bbox(face) # None
                      /\ \A c \in {face.x[1], face.x[2]} \cap 0 .. Grid :
                            /\ Bbox(face)[1][1] <= Smaller(Size - 1, (c * Size) \div Grid)
                            /\ Smaller(Size - 1, (c * Size) \div Grid) < Bbox(face)[1][2]
                      /\ \A c \in {face.y[1], face.y[2]} \cap 0 .. Grid :
                            /\ Bbox(face)[2][1] <= Smaller(Size - 1, (c * Size) \div Grid)
                            /\ Smaller(Size - 1, (c * Size) \div Grid) < Bbox(face)[2][2]
    BY Zenon DEF FaceBoxCoversFace
  <2>1. face \in Faces
    BY <1>1 DEF StageInv, HeavyEvent
  <2>2. /\ face.x[1] \in Int /\ face.x[2] \in Int /\ face.x[1] <= face.x[2]
        /\ face.y[1] \in Int /\ face.y[2] \in Int /\ face.y[1] <= face.y[2]
    BY <2>1, FaceAssumption
  <2> HIDE DEF face
  <2>3. /\ Bbox(face) # None
        /\ Bbox(face)[1] = BboxSide(face.x[1], face.x[2])
        /\ Bbox(face)[2] = BboxSide(face.y[1], face.y[2])
    BY <2>1, CropCovers
  <2>4. \A c \in {face.x[1], face.x[2]} \cap 0 .. Grid :
           /\ BboxSide(face.x[1], face.x[2])[1] <= Smaller(Size - 1, (c * Size) \div Grid)
           /\ Smaller(Size - 1, (c * Size) \div Grid) < BboxSide(face.x[1], face.x[2])[2]
    BY <2>2, SideCovers
  <2>5. \A c \in {face.y[1], face.y[2]} \cap 0 .. Grid :
           /\ BboxSide(face.y[1], face.y[2])[1] <= Smaller(Size - 1, (c * Size) \div Grid)
           /\ Smaller(Size - 1, (c * Size) \div Grid) < BboxSide(face.y[1], face.y[2])[2]
    BY <2>2, SideCovers
  <2> QED
    BY <2>3, <2>4, <2>5, Zenon
<1> QED
  BY <1>1, StageInvHolds, PTL

(* What ChunkVerdictExact says of an audio event e under configuration c.  *)
ChunkHeard(e, c) ==
    LET n == Len(e.samples)
        total == Len(e.frames)
    IN  /\ \A i \in 1..total : Len(e.frames[i]) = SamplesPerFrame
        /\ total * SamplesPerFrame - n \in 0..SamplesPerFrame - 1
        /\ \A k \in 1..total * SamplesPerFrame :
              e.frames[(k - 1) \div SamplesPerFrame + 1]
                      [((k - 1) % SamplesPerFrame) + 1]
              = IF k <= n THEN e.samples[k] ELSE 0
        /\ e.fed = {} <=>
              \/ n = 0
              \/ /\ ~e.loud
                 /\ 10 * Cardinality(e.speech) < c.speech_tenths * total

(* The runner passes a chunk over exactly if it is empty or neither loud   *)
(* nor speech.                                                             *)
LEMMA SilencePassedOver ==
    ASSUME NEW speech \in Nat, NEW total \in Nat, NEW loud \in BOOLEAN,
           config \in Configs
    PROVE  AudioVerdict(speech, total, loud) = "silence"
              <=> \/ total = 0
                  \/ ~loud /\ 10 * speech < config.speech_tenths * total
<1>1. config.speech_tenths \in Nat
  BY DispatchAssumption
<1>2. PICK share : share = config.speech_tenths * total
  OBVIOUS
<1>3. share \in Nat
  BY <1>1, <1>2, TimesNat
<1>4. (10 * speech >= share) <=> ~(10 * speech < share)
  BY <1>3
<1> QED
  BY <1>2, <1>4, Zenon DEF AudioVerdict

(* What the dispatcher makes of one chunk.                                 *)
LEMMA ChunkTaken ==
    ASSUME config \in Configs, NEW samples \in Chunks, NEW loud \in BOOLEAN,
           loud => MayBeLoud(samples),
           NEW frames, frames = split_into_vad_frames(samples),
           NEW speech \in SUBSET (1 .. Len(frames)),
           NEW verdict,
           verdict = AudioVerdict(Cardinality(speech), Len(frames), loud),
           NEW e,
           e = [kind |-> "audio", samples |-> samples, frames |-> frames,
                speech |-> speech, loud |-> loud,
                fed |-> IF verdict = "silence" THEN {} ELSE {<<"audio", verdict>>}]
    PROVE  ChunkHeard(e, config)
<1>1. /\ e.samples = samples /\ e.frames = frames /\ e.speech = speech
      /\ e.loud = loud /\ e.fed = {} <=> verdict = "silence"
  OBVIOUS
<1>2. samples \in Seq(Int) /\ SamplesPerFrame \in Nat \ {0}
  BY DispatchAssumption
<1> DEFINE n == Len(samples)
           total == Len(frames)
<1>3. /\ total \in Nat
      /\ \A i \in 1 .. total : Len(frames[i]) = SamplesPerFrame
      /\ total * SamplesPerFrame - n \in 0 .. SamplesPerFrame - 1
      /\ \A k \in 1 .. total * SamplesPerFrame :
            frames[(k - 1) \div SamplesPerFrame + 1][((k - 1) % SamplesPerFrame) + 1]
               = IF k <= n THEN samples[k] ELSE 0
  BY <1>2, SplitKeepsSamples, Zenon
<1>4. Cardinality(speech) \in Nat
  <2>1. IsFiniteSet(1 .. total)
    BY <1>3, FS_Interval
  <2> QED
    BY <2>1, FS_Subset, FS_CardinalityType
<1>5. n \in Nat
  BY <1>2
<1> HIDE DEF n, total
<1>6. total = 0 <=> n = 0
  <2>1. CASE total = 0
    <3>1. total * SamplesPerFrame = 0
      BY <1>2, <2>1
    <3> QED
      BY <1>2, <1>3, <1>5, <2>1, <3>1
  <2>2. CASE total # 0
    <3>1. PICK m \in Nat : total = m + 1
      <4>1. total - 1 \in Nat /\ total = (total - 1) + 1
        BY <1>3, <2>2
      <4> QED
        BY <4>1
    <3>2. total * SamplesPerFrame = m * SamplesPerFrame + SamplesPerFrame
      BY <1>2, <3>1
    <3>3. m * SamplesPerFrame \in Nat
      BY <1>2, <3>1, TimesNat
    <3>4. PICK padded, rest : padded = total * SamplesPerFrame /\ rest = m * SamplesPerFrame
      OBVIOUS
    <3>5. padded = rest + SamplesPerFrame /\ rest \in Nat
      BY <3>2, <3>3, <3>4
    <3>6. padded - n < SamplesPerFrame
      BY <1>2, <1>3, <1>5, <3>4, <3>5
    <3> QED
      BY <1>2, <1>5, <2>2, <3>5, <3>6
  <2> QED
    BY <2>1, <2>2
<1>7. verdict = "silence" <=> \/ total = 0
                             \/ /\ ~loud
                                /\ 10 * Cardinality(speech)
                                      < config.speech_tenths * total
  BY <1>3, <1>4, SilencePassedOver, Zenon DEF total
<1> QED
  BY <1>1, <1>3, <1>6, <1>7, Zenon DEF ChunkHeard, n, total

(* For every frame size, chunk, speech threshold and answer of the VAD, no *)
(* sample is lost on the way and a chunk is passed over only if it is      *)
(* empty or neither loud nor speech (_dispatch_audio_chunk,                *)
(* split_into_vad_frames, AudioVadRunner.run).                             *)
THEOREM ChunkVerdictIsExact == Spec => []ChunkVerdictExact
<1> DEFINE Heard == event.kind = "audio" => ChunkHeard(event, config)
<1>1. ASSUME Init PROVE Heard
  BY <1>1 DEF Init, NoEvent
<1>2. ASSUME StageInv, Heard, [Next]_vars PROVE Heard'
  <2>1. config' = config
    BY <1>2 DEF Next, vars, start, stop, _close_runners, _run_loop, NextEvent,
      ExitLoop, _dispatch_event, DecodeFails, _dispatch_heavy_frame, DecodePcmFails,
      VadFails, _dispatch_audio_chunk, _dispatch_light, _dispatch_browser_event,
      Take, RunnerStep, RunLandmarker, RunDetector, RunIdentity, RunLiveness, Move
  <2>2. CASE UNCHANGED vars \/ start \/ stop \/ _close_runners \/ _run_loop
    <3>1. event' = event \/ event' = NoEvent
      BY <2>2 DEF vars, start, stop, _close_runners, _run_loop, NextEvent, ExitLoop
    <3>2. NoEvent.kind # "audio"
      BY DEF NoEvent
    <3> QED
      BY <1>2, <2>1, <3>1, <3>2, Zenon
  <2>3. CASE _dispatch_event
    <3>1. ASSUME NEW samples \in Chunks, NEW loud \in BOOLEAN,
                 _dispatch_audio_chunk(samples, loud)
          PROVE  Heard'
      <4>1. PICK frames : frames = split_into_vad_frames(samples)
        OBVIOUS
      <4>2. PICK speech \in SUBSET (1 .. Len(frames)) :
               LET verdict == AudioVerdict(Cardinality(speech), Len(frames), loud)
               IN  /\ loud => MayBeLoud(samples)
                   /\ event' = [kind |-> "audio", samples |-> samples,
                                frames |-> frames, speech |-> speech, loud |-> loud,
                                fed |-> IF verdict = "silence" THEN {}
                                        ELSE {<<"audio", verdict>>}]
        BY <3>1, <4>1, Zenon DEF _dispatch_audio_chunk, Take
      <4>3. PICK verdict : verdict = AudioVerdict(Cardinality(speech), Len(frames), loud)
        OBVIOUS
      <4>4. PICK e : e = event'
        OBVIOUS
      <4>5. ChunkHeard(e, config)
        <5>1. e = [kind |-> "audio", samples |-> samples, frames |-> frames,
                   speech |-> speech, loud |-> loud,
                   fed |-> IF verdict = "silence" THEN {} ELSE {<<"audio", verdict>>}]
          BY <4>2, <4>3, <4>4, Zenon
        <5>2. config \in Configs /\ (loud => MayBeLoud(samples))
          BY <1>2, <4>2, Zenon DEF StageInv
        <5> QED
          BY <4>1, <4>3, <5>1, <5>2, ChunkTaken
      <4> QED
        BY <2>1, <4>4, <4>5, Zenon
    <3>2. CASE ~\E samples \in Chunks, loud \in BOOLEAN :
                 _dispatch_audio_chunk(samples, loud)
      <4>1. event'.kind # "audio"
        BY <2>3, <3>2 DEF _dispatch_event, DecodeFails, _dispatch_heavy_frame,
          DecodePcmFails, VadFails, _dispatch_light, _dispatch_browser_event, Take,
          HeavyFrame
      <4> QED
        BY <4>1
    <3> QED
      BY <3>1, <3>2
  <2>4. CASE RunnerStep
    <3>1. event \in HeavyEvent
      BY <1>2, <2>4 DEF StageInv, Stages, RunnerStep, RunLandmarker, RunDetector,
        RunIdentity, RunLiveness
    <3>2. /\ event.kind = "heavy"
          /\ \A what : Failed(what).kind = "heavy"
          /\ \A results : Fed(results).kind = "heavy"
          /\ \A results, face : [Fed(results) EXCEPT !.landmarks = face].kind = "heavy"
      BY <3>1 DEF HeavyEvent, Failed, Fed
    <3>3. \A next, to : Move(next, to) => event' = next
      BY DEF Move
    <3>4. event'.kind = "heavy"
      BY <2>4, <3>2, <3>3, ZenonT(60) DEF RunnerStep, RunLandmarker, RunDetector,
        RunIdentity, RunLiveness
    <3> QED
      BY <3>4
  <2> QED
    BY <1>2, <2>2, <2>3, <2>4, Zenon DEF Next
<1>3. Heard => ChunkVerdictExact
  BY Zenon DEF ChunkVerdictExact, ChunkHeard
<1> QED
  BY <1>1, <1>2, <1>3, StageInvHolds, PTL DEF Spec

=============================================================================
