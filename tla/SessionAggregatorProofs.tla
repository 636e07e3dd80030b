----------------------- MODULE SessionAggregatorProofs -----------------------
(***************************************************************************)
(* What SessionAggregator computes, for every policy, context and number   *)
(* of results: types, the three confirmation windows, the gaze ladder, the *)
(* score and the threshold flag.                                           *)
(***************************************************************************)
EXTENDS SessionAggregator, SumLemmas, SequenceTheorems

(* The fields of the session's policy that the proofs use.                 *)
PolicyFields ==
    /\ Policy.terminate_on_second_face \in BOOLEAN
    /\ Policy.second_face_confirmation_frames \in Nat1
    /\ Policy.gaze_min_duration_ms \in Nat
    /\ Policy.gaze_window_ms \in Nat1
    /\ Policy.gaze_warning_limit \in Nat
    /\ Policy.gaze_termination_limit \in Nat1
    /\ Policy.medium_score_termination_threshold \in Nat
    /\ Policy.liveness_confirmation_frames \in Nat1
    /\ Policy.identity_confirmation_frames \in Nat1
    /\ \A rule \in ScoredRules : WeightFor(rule) \in Nat
    /\ MaxTime \in Nat

(* A session's policy is one of the assumed policies.                      *)
LEMMA PolicyTypes == ASSUME scenario \in Scenarios PROVE PolicyFields
<1>1. Policy \in PolicySnapshot
  BY PolicyAssumption DEF Policy
<1>2. MaxTime \in Nat
  BY BoundAssumption DEF MaxTime
<1>3. \A rule \in ScoredRules : WeightFor(rule) \in Nat
  BY <1>1 DEF PolicySnapshot, WeightFor
<1> QED
  BY <1>1, <1>2, <1>3 DEF PolicySnapshot, PolicyFields

-----------------------------------------------------------------------------
(* The three things a step may do with its output: nothing, one decision,  *)
(* or a scored decision and perhaps the threshold's.                       *)

(* Appending one value to a sequence.                                      *)
LEMMA AppendFacts ==
    ASSUME NEW T, NEW s \in Seq(T), NEW x \in T
    PROVE  /\ Append(s, x) \in Seq(T)
           /\ Len(Append(s, x)) = Len(s) + 1
           /\ \A i \in 1 .. Len(s) : Append(s, x)[i] = s[i]
           /\ Append(s, x)[Len(s) + 1] = x
           /\ Len(s) \in Nat
  OBVIOUS

(* A decision without a score.                                             *)
LEMMA EmitFacts ==
    ASSUME emitted \in Seq(FlagDecision), accumulated_score \in Nat,
           NEW d \in FlagDecision, Emit(d)
    PROVE  /\ emitted' \in Seq(FlagDecision)
           /\ Len(emitted') = Len(emitted) + 1
           /\ \A i \in 1 .. Len(emitted) : emitted'[i] = emitted[i]
           /\ emitted'[Len(emitted) + 1] = d
           /\ accumulated_score' = accumulated_score
<1>1. emitted' = Append(emitted, d) /\ accumulated_score' = accumulated_score
  BY DEF Emit
<1> QED
  BY <1>1, AppendFacts

(* The threshold's decision.                                               *)
LEMMA DecisionTypes ==
    ASSUME NEW ids \in SUBSET EventIds
    PROVE  /\ \A rule \in Rules : Terminating(rule, ids) \in FlagDecision
           /\ \A rule \in Rules, delta \in Nat :
                 Medium(rule, ids, delta) \in FlagDecision
           /\ \A rule \in Rules, delta \in Nat :
                 [Medium(rule, ids, delta) EXCEPT !.severity = "low"]
                     \in FlagDecision
  BY DEF Terminating, Medium, FlagDecision

(* The score reaches the threshold of a policy that has one.               *)
Over(score) == /\ Policy.medium_score_termination_threshold > 0
               /\ score >= Policy.medium_score_termination_threshold

(* What the threshold's decision says, when there is one.                  *)
IsThresholdFlag(d, ids) ==
    /\ d \in FlagDecision
    /\ d.rule_code = RULE_ACCUMULATED_SCORE
    /\ d.severity = "critical"
    /\ d.contributing_event_ids = ids
    /\ d.score_delta = 0
    /\ d.triggered_termination <=> Policy.medium_score_action = "auto_terminate"

(* CheckAccumulatedThreshold adds one flag exactly if the score is over.   *)
LEMMA ThresholdFacts ==
    ASSUME PolicyFields, NEW score \in Nat, NEW ids \in SUBSET EventIds
    PROVE  \/ /\ ~Over(score)
              /\ CheckAccumulatedThreshold(score, ids) = <<>>
           \/ /\ Over(score)
              /\ \E d : /\ IsThresholdFlag(d, ids)
                        /\ CheckAccumulatedThreshold(score, ids) = <<d>>
<1> DEFINE auto == Policy.medium_score_action = "auto_terminate"
           d == [Terminating(RULE_ACCUMULATED_SCORE, ids) EXCEPT
                    !.triggered_termination = auto]
<1>1. Terminating(RULE_ACCUMULATED_SCORE, ids) \in FlagDecision
  BY DecisionTypes DEF Rules
<1>2. d = [rule_code |-> RULE_ACCUMULATED_SCORE, severity |-> "critical",
           triggered_termination |-> auto, contributing_event_ids |-> ids,
           score_delta |-> 0]
  <2>1. \A b : [Terminating(RULE_ACCUMULATED_SCORE, ids) EXCEPT
                    !.triggered_termination = b]
                = [rule_code |-> RULE_ACCUMULATED_SCORE, severity |-> "critical",
                   triggered_termination |-> b, contributing_event_ids |-> ids,
                   score_delta |-> 0]
    BY SMT DEF Terminating
  <2> QED
    BY <2>1, Zenon
<1>3. IsThresholdFlag(d, ids)
  <2> HIDE DEF auto
  <2>1. auto \in BOOLEAN
    BY Zenon DEF auto
  <2>2. RULE_ACCUMULATED_SCORE \in Rules
    BY DEF Rules
  <2>3. d \in FlagDecision
    BY <1>2, <2>1, <2>2 DEF FlagDecision
  <2>4. /\ d.rule_code = RULE_ACCUMULATED_SCORE
        /\ d.severity = "critical"
        /\ d.contributing_event_ids = ids
        /\ d.score_delta = 0
        /\ d.triggered_termination = auto
    BY <1>2, Zenon
  <2> QED
    BY <2>3, <2>4, Zenon DEF IsThresholdFlag, auto
<1>4. CASE Over(score)
  <2>1. CheckAccumulatedThreshold(score, ids) = <<d>>
    <3>1. ~(\/ Policy.medium_score_termination_threshold = 0
            \/ score < Policy.medium_score_termination_threshold)
      BY <1>4 DEF Over, PolicyFields
    <3> QED
      BY <3>1, Zenon DEF CheckAccumulatedThreshold
  <2> QED
    BY <1>3, <1>4, <2>1, Zenon
<1>5. CASE ~Over(score)
  BY <1>5 DEF Over, PolicyFields, CheckAccumulatedThreshold
<1> QED
  BY <1>4, <1>5

(* A scored decision.                                                      *)
LEMMA AccumulateFacts ==
    ASSUME emitted \in Seq(FlagDecision), accumulated_score \in Nat,
           PolicyFields, NEW rule \in ScoredRules, NEW ids \in SUBSET EventIds,
           Accumulate(rule, ids)
    PROVE  /\ emitted' \in Seq(FlagDecision)
           /\ accumulated_score' = accumulated_score + WeightFor(rule)
           /\ accumulated_score' \in Nat
           /\ \A i \in 1 .. Len(emitted) : emitted'[i] = emitted[i]
           /\ emitted'[Len(emitted) + 1] = Medium(rule, ids, WeightFor(rule))
           /\ ~Over(accumulated_score') => Len(emitted') = Len(emitted) + 1
           /\ Over(accumulated_score') =>
                 /\ Len(emitted') = Len(emitted) + 2
                 /\ IsThresholdFlag(emitted'[Len(emitted) + 2], ids)
<1> DEFINE m == Medium(rule, ids, WeightFor(rule))
           t == Append(emitted, m)
<1>1. /\ accumulated_score' = accumulated_score + WeightFor(rule)
      /\ emitted' = t \o CheckAccumulatedThreshold(accumulated_score', ids)
  BY Zenon DEF Accumulate
<1>2. WeightFor(rule) \in Nat
  BY DEF PolicyFields
<1>3. accumulated_score' \in Nat
  BY <1>1, <1>2
<1>4. m \in FlagDecision
  BY <1>2, DecisionTypes DEF Rules
<1> HIDE DEF m
<1>5. /\ t \in Seq(FlagDecision)
      /\ Len(t) = Len(emitted) + 1
      /\ \A i \in 1 .. Len(emitted) : t[i] = emitted[i]
      /\ t[Len(emitted) + 1] = m
      /\ Len(emitted) \in Nat
  BY <1>4, AppendFacts
<1> HIDE DEF t
<1>6. PICK score \in Nat : score = accumulated_score'
  BY <1>3
<1>7. CASE ~Over(score)
  <2>1. emitted' = t
    BY <1>1, <1>5, <1>6, <1>7, ThresholdFacts, ConcatEmptySeq
  <2>2. ~Over(accumulated_score')
    BY <1>6, <1>7
  <2> QED
    BY <1>1, <1>3, <1>5, <2>1, <2>2 DEF m
<1>8. CASE Over(score)
  <2>1. PICK d : IsThresholdFlag(d, ids) /\ emitted' = t \o <<d>>
    BY <1>1, <1>6, <1>8, ThresholdFacts
  <2>2. d \in FlagDecision
    BY <2>1 DEF IsThresholdFlag
  <2>3. t \o <<d>> = Append(t, d)
    BY <1>5, <2>2
  <2>4. /\ emitted' \in Seq(FlagDecision)
        /\ Len(emitted') = Len(t) + 1
        /\ \A i \in 1 .. Len(t) : emitted'[i] = t[i]
        /\ emitted'[Len(t) + 1] = d
    BY <1>5, <2>1, <2>2, <2>3, AppendFacts
  <2>5. Len(t) + 1 = Len(emitted) + 2
    BY <1>5
  <2>6. Over(accumulated_score')
    BY <1>6, <1>8
  <2>7. IsThresholdFlag(emitted'[Len(emitted) + 2], ids)
    BY <2>1, <2>4, <2>5
  <2>8. \A i \in 1 .. Len(emitted) + 1 : emitted'[i] = t[i]
    BY <1>5, <2>4
  <2>9. \A i \in 1 .. Len(emitted) : emitted'[i] = emitted[i]
    BY <1>5, <2>8
  <2>10. emitted'[Len(emitted) + 1] = m
    BY <1>5, <2>8
  <2> QED
    BY <1>1, <1>3, <2>4, <2>5, <2>6, <2>7, <2>9, <2>10 DEF m
<1> QED
  BY <1>7, <1>8

(* The rolling deque keeps its newest elements, at most size of them.      *)
LEMMA SlideFacts ==
    ASSUME NEW T, NEW w \in Seq(T), NEW x \in T, NEW size \in Nat1,
           Len(w) =< size
    PROVE  /\ Slide(w, x, size) \in Seq(T)
           /\ Len(Slide(w, x, size)) =
                  IF Len(w) < size THEN Len(w) + 1 ELSE size
           /\ Slide(w, x, size)[Len(Slide(w, x, size))] = x
           /\ \A i \in 1 .. Len(Slide(w, x, size)) - 1 :
                 Slide(w, x, size)[i] = IF Len(w) < size THEN w[i] ELSE w[i + 1]
<1>1. CASE Len(w) < size
  BY <1>1, AppendFacts DEF Slide
<1>2. CASE Len(w) = size
  <2>1. w # <<>> /\ Len(w) >= 1 /\ Len(w) \in Nat
    BY <1>2 DEF Nat1
  <2>2. /\ Tail(w) \in Seq(T)
        /\ Len(Tail(w)) = Len(w) - 1
        /\ \A i \in 1 .. Len(w) - 1 : Tail(w)[i] = w[i + 1]
    BY <2>1, HeadTailProperties
  <2>3. Slide(w, x, size) = Append(Tail(w), x)
    BY <1>2 DEF Slide, Nat1
  <2>4. PICK t \in Seq(T) : t = Tail(w)
    BY <2>2
  <2>5. /\ Append(t, x) \in Seq(T)
        /\ Len(Append(t, x)) = Len(t) + 1
        /\ \A i \in 1 .. Len(t) : Append(t, x)[i] = t[i]
        /\ Append(t, x)[Len(t) + 1] = x
    BY AppendFacts
  <2> QED
    BY <1>2, <2>1, <2>2, <2>3, <2>4, <2>5
<1> QED
  BY <1>1, <1>2 DEF Nat1

(* The first event that has not expired exists, or the deque empties.      *)
LEMMA FirstLiveFacts ==
    ASSUME NEW events \in Seq(GazeAwayEvent), NEW ws \in Int
    PROVE  /\ FirstLive(events, ws) \in 1 .. Len(events) + 1
           /\ \A i \in 1 .. FirstLive(events, ws) - 1 :
                 events[i].ended_at_ms < ws
           /\ FirstLive(events, ws) =< Len(events) =>
                 events[FirstLive(events, ws)].ended_at_ms >= ws
<1> DEFINE n == Len(events)
           Live == {k \in 1 .. n + 1 :
                       k =< n => events[k].ended_at_ms >= ws}
<1>1. n \in Nat /\ \A i \in 1 .. n : events[i].ended_at_ms \in Nat
  <2>1. n \in Nat /\ \A i \in 1 .. n : events[i] \in GazeAwayEvent
    OBVIOUS
  <2>2. \A v \in GazeAwayEvent : v.ended_at_ms \in Nat
    BY DEF GazeAwayEvent
  <2> QED
    BY <2>1, <2>2
<1>2. n + 1 \in Live /\ Live \in SUBSET Nat
  BY <1>1
<1>3. PICK k \in Live : \A m \in Live : k <= m
  BY <1>2, LeastNat
<1>4. \A i \in 1 .. k - 1 : events[i].ended_at_ms < ws
  <2> SUFFICES ASSUME NEW i \in 1 .. k - 1, ~(events[i].ended_at_ms < ws)
               PROVE  FALSE
    OBVIOUS
  <2>1. i \in 1 .. n /\ i < k
    BY <1>1, <1>3
  <2>2. i \in Live
    BY <1>1, <2>1
  <2> QED
    BY <1>1, <1>3, <2>1, <2>2
<1>5. \E j \in 1 .. n + 1 :
         /\ \A i \in 1 .. j - 1 : events[i].ended_at_ms < ws
         /\ j =< n => events[j].ended_at_ms >= ws
  BY <1>3, <1>4
<1> QED
  BY <1>5, Zenon DEF FirstLive

(* What a sweep of the gaze deque leaves is a deque.                       *)
LEMMA UnexpiredType ==
    ASSUME NEW events \in Seq(GazeAwayEvent), NEW ws \in Int
    PROVE  Unexpired(events, ws) \in Seq(GazeAwayEvent)
<1>1. PICK k \in 1 .. Len(events) + 1 : k = FirstLive(events, ws)
  BY FirstLiveFacts
<1>2. \A i \in k .. Len(events) : events[i] \in GazeAwayEvent
  BY <1>1
<1>3. SubSeq(events, k, Len(events)) \in Seq(GazeAwayEvent)
  BY <1>1, <1>2, SubSeqProperties
<1> QED
  BY <1>1, <1>3 DEF Unexpired

-----------------------------------------------------------------------------
(* Type correctness. *)

TypeInv == TypeOK /\ scenario \in Scenarios

(* The types of the output, which every step extends.                      *)
OutType == accumulated_score \in Nat /\ emitted \in Seq(FlagDecision)

(* What a step of a path that raises these rules does with the output.     *)
Outcome(rules) ==
    \/ UNCHANGED outVars
    \/ \E d \in FlagDecision :
          /\ d.rule_code \in rules
          /\ d.score_delta = 0
          /\ d.severity = "medium" => d.rule_code = RULE_BROWSER_EVENT
          /\ Emit(d)
    \/ \E rule \in rules \cap ScoredRules, ids \in SUBSET EventIds :
          Accumulate(rule, ids)

(* The output keeps its type and what it holds, and grows by flags of the  *)
(* path's rules and of the threshold only.                                 *)
LEMMA OutcomeExtends ==
    ASSUME OutType, PolicyFields, NEW rules, Outcome(rules)
    PROVE  /\ OutType'
           /\ Len(emitted) =< Len(emitted')
           /\ \A i \in 1 .. Len(emitted) : emitted'[i] = emitted[i]
           /\ \A i \in Len(emitted) + 1 .. Len(emitted') :
                 emitted'[i].rule_code \in rules \cup {RULE_ACCUMULATED_SCORE}
<1>1. emitted \in Seq(FlagDecision) /\ accumulated_score \in Nat
      /\ Len(emitted) \in Nat
  BY DEF OutType
<1>2. CASE UNCHANGED outVars
  BY <1>1, <1>2 DEF OutType, outVars
<1>3. ASSUME NEW d \in FlagDecision, d.rule_code \in rules, Emit(d)
      PROVE  /\ OutType'
             /\ Len(emitted) =< Len(emitted')
             /\ \A i \in 1 .. Len(emitted) : emitted'[i] = emitted[i]
             /\ \A i \in Len(emitted) + 1 .. Len(emitted') :
                   emitted'[i].rule_code \in rules
  <2>1. /\ emitted' \in Seq(FlagDecision)
        /\ Len(emitted') = Len(emitted) + 1
        /\ \A i \in 1 .. Len(emitted) : emitted'[i] = emitted[i]
        /\ emitted'[Len(emitted) + 1] = d
        /\ accumulated_score' = accumulated_score
    BY <1>1, <1>3, EmitFacts
  <2>2. OutType'
    BY <1>1, <2>1 DEF OutType
  <2>3. \A i \in Len(emitted) + 1 .. Len(emitted') : i = Len(emitted) + 1
    BY <1>1, <2>1
  <2> QED
    BY <1>1, <1>3, <2>1, <2>2, <2>3
<1>4. ASSUME NEW rule \in rules \cap ScoredRules, NEW ids \in SUBSET EventIds,
             Accumulate(rule, ids)
      PROVE  /\ OutType'
             /\ Len(emitted) =< Len(emitted')
             /\ \A i \in 1 .. Len(emitted) : emitted'[i] = emitted[i]
             /\ \A i \in Len(emitted) + 1 .. Len(emitted') :
                   emitted'[i].rule_code \in rules \cup {RULE_ACCUMULATED_SCORE}
  <2>1. /\ emitted' \in Seq(FlagDecision)
        /\ accumulated_score' \in Nat
        /\ \A i \in 1 .. Len(emitted) : emitted'[i] = emitted[i]
        /\ emitted'[Len(emitted) + 1] = Medium(rule, ids, WeightFor(rule))
        /\ ~Over(accumulated_score') => Len(emitted') = Len(emitted) + 1
        /\ Over(accumulated_score') =>
              /\ Len(emitted') = Len(emitted) + 2
              /\ IsThresholdFlag(emitted'[Len(emitted) + 2], ids)
    BY <1>1, <1>4, AccumulateFacts
  <2>2. OutType'
    BY <2>1 DEF OutType
  <2>3. emitted'[Len(emitted) + 1].rule_code = rule
    BY <2>1 DEF Medium
  <2>4. Over(accumulated_score') =>
           emitted'[Len(emitted) + 2].rule_code = RULE_ACCUMULATED_SCORE
    BY <2>1, Zenon DEF IsThresholdFlag
  <2>5. \A i \in Len(emitted) + 1 .. Len(emitted') :
           \/ i = Len(emitted) + 1
           \/ i = Len(emitted) + 2 /\ Over(accumulated_score')
    BY <1>1, <2>1
  <2>6. Len(emitted) =< Len(emitted')
    BY <1>1, <2>1
  <2> QED
    BY <2>1, <2>2, <2>3, <2>4, <2>5, <2>6, Zenon
<1> QED
  BY <1>2, <1>3, <1>4, Zenon DEF Outcome

(* A terminating flag is one outcome of its rule.                          *)
LEMMA TerminatingOutcome ==
    ASSUME NEW rule \in Rules, NEW ids \in SUBSET EventIds,
           Emit(Terminating(rule, ids))
    PROVE  Outcome({rule})
<1>1. Terminating(rule, ids) \in FlagDecision
  BY DecisionTypes
<1>2. /\ Terminating(rule, ids).rule_code = rule
      /\ Terminating(rule, ids).score_delta = 0
      /\ Terminating(rule, ids).severity # "medium"
  BY DEF Terminating
<1> QED
  BY <1>1, <1>2, Zenon DEF Outcome

(* So is a scored one, with the threshold flag it may bring.               *)
LEMMA AccumulateOutcome ==
    ASSUME NEW rule \in ScoredRules, NEW ids \in SUBSET EventIds,
           Accumulate(rule, ids)
    PROVE  Outcome({rule})
  BY Zenon DEF Outcome

(* So the flags of any other rule are what they were.                      *)
LEMMA OtherFlagsKept ==
    ASSUME OutType, PolicyFields, NEW rules, Outcome(rules),
           NEW rule, rule \notin rules, rule # RULE_ACCUMULATED_SCORE
    PROVE  FlagsOf(rule)' = FlagsOf(rule)
<1>1. /\ Len(emitted) \in Nat /\ Len(emitted') \in Nat
      /\ Len(emitted) =< Len(emitted')
      /\ \A i \in 1 .. Len(emitted) : emitted'[i] = emitted[i]
      /\ \A i \in Len(emitted) + 1 .. Len(emitted') : emitted'[i].rule_code # rule
  BY OutcomeExtends DEF OutType
<1>2. FlagsOf(rule)' = {i \in 1 .. Len(emitted') : emitted'[i].rule_code = rule}
  BY DEF FlagsOf
<1>3. ASSUME NEW i \in 1 .. Len(emitted'), emitted'[i].rule_code = rule
      PROVE  i \in 1 .. Len(emitted)
  BY <1>1, <1>3
<1> QED
  BY <1>1, <1>2, <1>3 DEF FlagsOf

(* The parts of the type invariant, one per path.                          *)
FaceType == /\ consecutive_second_person_frames \in Nat
            /\ second_person_event_ids \in SUBSET EventIds
            /\ second_person_fired \in BOOLEAN
            /\ faceLog \in Seq(0 .. 2)

GazeType == /\ gaze_off_start_ms \in Nat \cup {None}
            /\ gaze_off_event_ids \in SUBSET EventIds
            /\ gaze_away_events \in Seq(GazeAwayEvent)
            /\ gaze_termination_fired \in BOOLEAN
            /\ gazeLog \in Seq([off_screen : {"on", "off", "no_landmarks"},
                                ts : Nat])

LivenessType == /\ liveness_window \in Seq([is_real : BOOLEAN, id : EventIds])
                /\ Len(liveness_window) =< Policy.liveness_confirmation_frames
                /\ liveness_spoof_run_length \in Nat
                /\ livenessLog \in Seq(BOOLEAN)

IdentityType == /\ identity_window \in Seq([matches : BOOLEAN, id : EventIds])
                /\ Len(identity_window) =< Policy.identity_confirmation_frames
                /\ identity_mismatch_fired \in BOOLEAN
                /\ identityLog \in Seq(BOOLEAN)

SingleType == /\ objectLog \in Seq([class : {"book", "cell_phone"}, now : Nat])
              /\ browserLog \in Seq({"blur", "copy"})
              /\ audioLog \in Seq({"silence", "speech_detected"})

(* TypeOK, one part per group of variables.                                *)
LEMMA TypeParts ==
    TypeOK <=> /\ FaceType /\ GazeType /\ LivenessType /\ IdentityType
               /\ SingleType /\ OutType
  BY Zenon DEF TypeOK, FaceType, GazeType, LivenessType, IdentityType,
               SingleType, OutType

(* A new aggregator has the types.                                         *)
LEMMA TypeInit == Init => TypeInv
<1> SUFFICES ASSUME Init PROVE TypeInv
  OBVIOUS
<1>1. scenario \in Scenarios
  BY DEF Init
<1>2. PolicyFields
  BY <1>1, PolicyTypes
<1>3. /\ \A T : <<>> \in Seq(T)
      /\ Len(<<>>) = 0
      /\ 0 \in Nat
      /\ 0 =< Policy.liveness_confirmation_frames
      /\ 0 =< Policy.identity_confirmation_frames
  BY <1>2 DEF PolicyFields, Nat1
<1>4. FaceType /\ OutType /\ GazeType
  BY <1>3, Zenon DEF Init, FaceType, OutType, GazeType
<1>5. LivenessType /\ IdentityType
  BY <1>3, Zenon DEF Init, LivenessType, IdentityType
<1>6. SingleType
  BY <1>3, Zenon DEF Init, SingleType
<1> QED
  BY <1>1, <1>4, <1>5, <1>6, TypeParts DEF TypeInv

(* The id of the next result of a path.                                    *)
LEMMA NextId ==
    ASSUME NEW path \in Paths, NEW T, NEW log \in Seq(T)
    PROVE  <<path, Len(log) + 1>> \in EventIds
  BY DEF EventIds, Nat1

(* A step that leaves a path alone keeps its type.                         *)
LEMMA TypesKept ==
    ASSUME scenario' = scenario
    PROVE  /\ FaceType /\ UNCHANGED faceVars => FaceType'
           /\ GazeType /\ UNCHANGED gazeVars => GazeType'
           /\ LivenessType /\ UNCHANGED livenessVars => LivenessType'
           /\ IdentityType /\ UNCHANGED identityVars => IdentityType'
           /\ SingleType /\ UNCHANGED singleLogs => SingleType'
           /\ OutType /\ UNCHANGED outVars => OutType'
<1>1. FaceType /\ UNCHANGED faceVars => FaceType'
  BY DEF FaceType, faceVars
<1>2. GazeType /\ UNCHANGED gazeVars => GazeType'
  BY DEF GazeType, gazeVars
<1>3. LivenessType /\ UNCHANGED livenessVars => LivenessType'
  BY DEF LivenessType, livenessVars, Policy
<1>4. IdentityType /\ UNCHANGED identityVars => IdentityType'
  BY DEF IdentityType, identityVars, Policy
<1>5. SingleType /\ UNCHANGED singleLogs => SingleType'
  BY DEF SingleType, singleLogs
<1>6. OutType /\ UNCHANGED outVars => OutType'
  BY DEF OutType, outVars
<1> QED
  BY <1>1, <1>2, <1>3, <1>4, <1>5, <1>6

(* process_face_presence keeps the types and emits only its own rule.      *)
LEMMA FaceTyped ==
    ASSUME TypeInv, NEW n \in 0 .. 2, ProcessFacePresence(n), scenario' = scenario
    PROVE  FaceType' /\ Outcome({RULE_SECOND_PERSON})
<1> USE DEF TypeInv
<1> DEFINE id == <<"face", Len(faceLog) + 1>>
           ids == second_person_event_ids \cup {id}
<1>1. FaceType /\ OutType
  BY TypeParts
<1>2. id \in EventIds
  BY <1>1, NextId DEF FaceType, Paths
<1>3. ids \in SUBSET EventIds
  BY <1>1, <1>2 DEF FaceType
<1>4. faceLog' \in Seq(0 .. 2)
  BY <1>1 DEF FaceType, ProcessFacePresence
<1>5. RULE_SECOND_PERSON \in Rules
  BY DEF Rules
<1>6. CASE /\ FaceIgnored
           /\ UNCHANGED <<consecutive_second_person_frames,
                          second_person_event_ids, second_person_fired, outVars>>
  BY <1>1, <1>4, <1>6, Zenon DEF FaceType, Outcome, outVars
<1>7. CASE /\ ~FaceIgnored
           /\ consecutive_second_person_frames' =
                  consecutive_second_person_frames + 1
           /\ second_person_event_ids' = ids
           /\ second_person_fired' =
                  (consecutive_second_person_frames + 1
                       >= Policy.second_face_confirmation_frames)
           /\ IF second_person_fired'
              THEN Emit(Terminating(RULE_SECOND_PERSON, ids))
              ELSE UNCHANGED outVars
  <2>1. FaceType'
    <3>1. second_person_fired' \in BOOLEAN
      <4>1. (consecutive_second_person_frames + 1
                >= Policy.second_face_confirmation_frames) \in BOOLEAN
        OBVIOUS
      <4> QED
        BY <1>7, <4>1, Zenon
    <3>2. consecutive_second_person_frames' \in Nat
      BY <1>1, <1>7 DEF FaceType
    <3> QED
      BY <1>3, <1>4, <1>7, <3>1, <3>2, Zenon DEF FaceType
  <2>2. Outcome({RULE_SECOND_PERSON})
    <3>1. CASE second_person_fired'
      <4>1. Emit(Terminating(RULE_SECOND_PERSON, ids))
        BY <1>7, <3>1, Zenon
      <4> QED
        BY <1>3, <1>5, <4>1, TerminatingOutcome, Zenon
    <3>2. CASE ~second_person_fired'
      BY <1>7, <3>2, Zenon DEF Outcome
    <3> QED
      BY <3>1, <3>2
  <2> QED
    BY <2>1, <2>2
<1>8. CASE FaceStreakBroken /\ UNCHANGED <<second_person_fired, outVars>>
  BY <1>1, <1>4, <1>8 DEF FaceType, Outcome, FaceStreakBroken
<1> QED
  BY <1>6, <1>7, <1>8, Zenon DEF ProcessFacePresence

(* The ids in a window of results.                                         *)
LEMMA LivenessIds ==
    ASSUME NEW w \in Seq([is_real : BOOLEAN, id : EventIds])
    PROVE  Ids(w) \in SUBSET EventIds
<1> DEFINE T == [is_real : BOOLEAN, id : EventIds]
<1>1. \A x \in T : x.id \in EventIds
  OBVIOUS
<1>2. w \in Seq(T)
  OBVIOUS
<1> HIDE DEF T
<1>3. \A i \in 1 .. Len(w) : w[i] \in T
  BY <1>2
<1> QED
  BY <1>1, <1>3 DEF Ids

(* The ids in an identity window are event ids.                            *)
LEMMA IdentityIds ==
    ASSUME NEW w \in Seq([matches : BOOLEAN, id : EventIds])
    PROVE  Ids(w) \in SUBSET EventIds
<1> DEFINE T == [matches : BOOLEAN, id : EventIds]
<1>1. \A x \in T : x.id \in EventIds
  OBVIOUS
<1>2. w \in Seq(T)
  OBVIOUS
<1> HIDE DEF T
<1>3. \A i \in 1 .. Len(w) : w[i] \in T
  BY <1>2
<1> QED
  BY <1>1, <1>3 DEF Ids

(* process_liveness keeps the types and emits only its own rule.           *)
LEMMA LivenessTyped ==
    ASSUME TypeInv, NEW is_real \in BOOLEAN, ProcessLiveness(is_real),
           scenario' = scenario
    PROVE  LivenessType' /\ Outcome({RULE_LIVENESS_CHECK_FAILED})
<1> USE DEF TypeInv
<1> DEFINE id == <<"liveness", Len(livenessLog) + 1>>
           x == [is_real |-> is_real, id |-> id]
           size == Policy.liveness_confirmation_frames
           window == Slide(liveness_window, x, size)
           run == IF is_real THEN 0 ELSE liveness_spoof_run_length + 1
<1>1. LivenessType /\ OutType /\ PolicyFields
  BY TypeParts, PolicyTypes
<1>2. id \in EventIds
  BY <1>1, NextId DEF LivenessType, Paths
<1>3. x \in [is_real : BOOLEAN, id : EventIds]
  BY <1>2
<1>4. size \in Nat1
  BY <1>1 DEF PolicyFields
<1>5. /\ window \in Seq([is_real : BOOLEAN, id : EventIds])
      /\ Len(window) =< size
  <2>1. /\ liveness_window \in Seq([is_real : BOOLEAN, id : EventIds])
        /\ Len(liveness_window) =< size
    BY <1>1 DEF LivenessType
  <2> DEFINE T == [is_real : BOOLEAN, id : EventIds]
  <2>3. x \in T /\ liveness_window \in Seq(T)
    BY <1>3, <2>1
  <2> HIDE DEF x, size, T
  <2>2. /\ window \in Seq(T)
        /\ Len(window) = IF Len(liveness_window) < size
                         THEN Len(liveness_window) + 1 ELSE size
    BY <1>4, <2>1, <2>3, SlideFacts
  <2> QED
    BY <1>4, <2>1, <2>2 DEF Nat1, T
<1>6. Ids(window) \in SUBSET EventIds
  BY <1>5, LivenessIds
<1>7. /\ livenessLog' = Append(livenessLog, is_real)
      /\ liveness_window' = window
      /\ liveness_spoof_run_length' = run
      /\ \/ UNCHANGED outVars
         \/ Emit(Terminating(RULE_LIVENESS_CHECK_FAILED, Ids(window)))
         \/ Accumulate(RULE_LIVENESS_CHECK_FAILED, Ids(window))
  BY Zenon DEF ProcessLiveness
<1>8. LivenessType'
  <2>1. livenessLog' \in Seq(BOOLEAN)
    BY <1>1, <1>7 DEF LivenessType
  <2>2. run \in Nat
    BY <1>1 DEF LivenessType
  <2>3. size' = size
    BY DEF Policy
  <2> HIDE DEF window, run, size
  <2>4. liveness_window' \in Seq([is_real : BOOLEAN, id : EventIds])
        /\ Len(liveness_window') =< size' /\ liveness_spoof_run_length' \in Nat
    BY <1>5, <1>7, <2>2, <2>3
  <2> QED
    BY <2>1, <2>4, Zenon DEF LivenessType, size
<1>9. Outcome({RULE_LIVENESS_CHECK_FAILED})
  <2>1. RULE_LIVENESS_CHECK_FAILED \in Rules \cap ScoredRules
    BY DEF Rules, ScoredRules
  <2>2. Terminating(RULE_LIVENESS_CHECK_FAILED, Ids(window)) \in FlagDecision
    BY <1>6, <2>1, DecisionTypes
  <2> QED
    BY <1>6, <1>7, <2>1, <2>2, TerminatingOutcome, AccumulateOutcome, Zenon
       DEF Outcome
<1> QED
  BY <1>8, <1>9

(* process_identity_match keeps the types and emits only its own rule.     *)
LEMMA IdentityTyped ==
    ASSUME TypeInv, NEW matches \in BOOLEAN, ProcessIdentityMatch(matches),
           scenario' = scenario
    PROVE  IdentityType' /\ Outcome({RULE_IDENTITY_MISMATCH})
<1> USE DEF TypeInv
<1> DEFINE id == <<"identity", Len(identityLog) + 1>>
           x == [matches |-> matches, id |-> id]
           size == Policy.identity_confirmation_frames
           window == Slide(identity_window, x, size)
<1>1. IdentityType /\ OutType /\ PolicyFields
  BY TypeParts, PolicyTypes
<1>2. id \in EventIds
  BY <1>1, NextId DEF IdentityType, Paths
<1>3. x \in [matches : BOOLEAN, id : EventIds]
  BY <1>2
<1>4. size \in Nat1
  BY <1>1 DEF PolicyFields
<1>5. /\ window \in Seq([matches : BOOLEAN, id : EventIds])
      /\ Len(window) =< size
  <2>1. /\ identity_window \in Seq([matches : BOOLEAN, id : EventIds])
        /\ Len(identity_window) =< size
    BY <1>1 DEF IdentityType
  <2> DEFINE T == [matches : BOOLEAN, id : EventIds]
  <2>3. x \in T /\ identity_window \in Seq(T)
    BY <1>3, <2>1
  <2> HIDE DEF x, size, T
  <2>2. /\ window \in Seq(T)
        /\ Len(window) = IF Len(identity_window) < size
                         THEN Len(identity_window) + 1 ELSE size
    BY <1>4, <2>1, <2>3, SlideFacts
  <2> QED
    BY <1>4, <2>1, <2>2 DEF Nat1, T
<1>6. Ids(window) \in SUBSET EventIds
  BY <1>5, IdentityIds
<1>7. /\ identityLog' = Append(identityLog, matches)
      /\ \/ UNCHANGED <<identity_window, identity_mismatch_fired, outVars>>
         \/ /\ identity_window' = window
            /\ identity_mismatch_fired' = MismatchConfirmed(window)
            /\ \/ Emit(Terminating(RULE_IDENTITY_MISMATCH, Ids(window)))
               \/ UNCHANGED outVars
  BY Zenon DEF ProcessIdentityMatch
<1>8. IdentityType'
  <2>1. identityLog' \in Seq(BOOLEAN)
    BY <1>1, <1>7 DEF IdentityType
  <2>2. size' = size
    BY DEF Policy
  <2>3. CASE UNCHANGED <<identity_window, identity_mismatch_fired, outVars>>
    BY <1>1, <2>1, <2>2, <2>3 DEF IdentityType
  <2>4. CASE /\ identity_window' = window
             /\ identity_mismatch_fired' = MismatchConfirmed(window)
    <3>1. identity_mismatch_fired' \in BOOLEAN
      BY <2>4, Zenon DEF MismatchConfirmed
    <3> HIDE DEF window, size
    <3>2. /\ identity_window' \in Seq([matches : BOOLEAN, id : EventIds])
          /\ Len(identity_window') =< size'
      BY <1>5, <2>2, <2>4
    <3> QED
      BY <2>1, <3>1, <3>2, Zenon DEF IdentityType, size
  <2> QED
    BY <1>7, <2>3, <2>4, Zenon
<1>9. Outcome({RULE_IDENTITY_MISMATCH})
  <2>1. RULE_IDENTITY_MISMATCH \in Rules
    BY DEF Rules
  <2> QED
    BY <1>6, <1>7, <2>1, TerminatingOutcome, Zenon DEF Outcome
<1> QED
  BY <1>8, <1>9

(* The ids of gaze events.                                                 *)
LEMMA GazeIds ==
    ASSUME NEW events \in Seq(GazeAwayEvent)
    PROVE  /\ AllGazeIds(events) \in SUBSET EventIds
           /\ LatestGazeIds(events) \in SUBSET EventIds
<1>1. \A v \in GazeAwayEvent : v.contributing_event_ids \in SUBSET EventIds
  BY DEF GazeAwayEvent
<1>2. \A i \in 1 .. Len(events) : events[i] \in GazeAwayEvent
  OBVIOUS
<1>3. events # <<>> => Len(events) \in 1 .. Len(events)
  OBVIOUS
<1> QED
  BY <1>1, <1>2, <1>3 DEF AllGazeIds, LatestGazeIds

(* The events after an on-screen frame.                                    *)
LEMMA ClosedType ==
    ASSUME GazeType, NEW ts \in Nat
    PROVE  WithClosedStreak(ts) \in Seq(GazeAwayEvent)
<1> DEFINE v == [started_at_ms |-> gaze_off_start_ms, ended_at_ms |-> ts,
                 contributing_event_ids |-> gaze_off_event_ids]
<1>1. gaze_away_events \in Seq(GazeAwayEvent)
  BY DEF GazeType
<1>2. CASE gaze_off_start_ms = None
  BY <1>1, <1>2 DEF WithClosedStreak
<1>3. CASE gaze_off_start_ms # None
  <2>1. v \in GazeAwayEvent
    BY <1>3 DEF GazeType, GazeAwayEvent
  <2> HIDE DEF v
  <2>2. Append(gaze_away_events, v) \in Seq(GazeAwayEvent)
    BY <1>1, <2>1, AppendFacts
  <2> QED
    BY <1>1, <2>2, Zenon DEF WithClosedStreak, v
<1> QED
  BY <1>2, <1>3

(* The ladder's three outcomes.                                            *)
GazeOutcome ==
    \/ UNCHANGED outVars
    \/ \E ids \in SUBSET EventIds :
          \/ Emit(Terminating(RULE_GAZE_AWAY_FREQUENCY, ids))
          \/ Accumulate(RULE_GAZE_AWAY_FREQUENCY, ids)

(* process_gaze keeps the types and emits only its own rule.               *)
LEMMA GazeTyped ==
    ASSUME TypeInv, NEW off_screen \in {"on", "off", "no_landmarks"},
           NEW ts \in 0 .. MaxTime, ProcessGaze(off_screen, ts),
           scenario' = scenario
    PROVE  GazeType' /\ Outcome({RULE_GAZE_AWAY_FREQUENCY}) /\ GazeOutcome
<1> USE DEF TypeInv
<1> DEFINE T == [off_screen : {"on", "off", "no_landmarks"}, ts : Nat]
           x == [off_screen |-> off_screen, ts |-> ts]
           id == <<"gaze", Len(gazeLog) + 1>>
           closed == IF off_screen = "on" THEN WithClosedStreak(ts)
                                          ELSE gaze_away_events
           ws == ts - Policy.gaze_window_ms
<1>1. GazeType /\ OutType /\ PolicyFields
  BY TypeParts, PolicyTypes
<1>2. ts \in Nat /\ ws \in Int
  BY <1>1 DEF PolicyFields, Nat1
<1>3. gazeLog' \in Seq(T)
  <2>1. x \in T
    BY <1>2
  <2>2. gazeLog \in Seq(T) /\ gazeLog' = Append(gazeLog, x)
    BY <1>1, Zenon DEF GazeType, ProcessGaze
  <2> HIDE DEF T, x
  <2> QED
    BY <2>1, <2>2, AppendFacts
<1>4. id \in EventIds
  <2> DEFINE U == T
  <2>1. gazeLog \in Seq(U)
    BY <1>1 DEF GazeType
  <2> HIDE DEF U
  <2> QED
    BY <2>1, NextId DEF Paths
<1>5. CASE UNCHANGED <<gaze_off_start_ms, gaze_off_event_ids,
                       gaze_away_events, gaze_termination_fired, outVars>>
  BY <1>1, <1>3, <1>5, Zenon DEF GazeType, Outcome, GazeOutcome
<1>6. CASE /\ GazeStreak(off_screen, ts, id)
           /\ gaze_away_events' = Unexpired(closed, ws)
           /\ GazeLadder(gaze_away_events')
  <2>1. gaze_off_start_ms' \in Nat \cup {None} /\ gaze_off_event_ids' \in SUBSET EventIds
    BY <1>1, <1>2, <1>4, <1>6 DEF GazeType, GazeStreak
  <2>2. closed \in Seq(GazeAwayEvent)
    BY <1>1, <1>2, ClosedType, Zenon DEF GazeType
  <2>3. gaze_away_events' \in Seq(GazeAwayEvent)
    BY <1>2, <1>6, <2>2, UnexpiredType, Zenon
  <2>4. PICK events \in Seq(GazeAwayEvent) : events = gaze_away_events'
    BY <2>3, Zenon
  <2>5. AllGazeIds(events) \in SUBSET EventIds
        /\ LatestGazeIds(events) \in SUBSET EventIds
    BY GazeIds
  <2>6. /\ gaze_termination_fired' = (Len(events) >= Policy.gaze_termination_limit)
        /\ \/ Emit(Terminating(RULE_GAZE_AWAY_FREQUENCY, AllGazeIds(events)))
           \/ Accumulate(RULE_GAZE_AWAY_FREQUENCY, LatestGazeIds(events))
           \/ UNCHANGED outVars
    BY <1>6, <2>4, Zenon DEF GazeLadder
  <2>7. gaze_termination_fired' \in BOOLEAN
    <3>1. (Len(events) >= Policy.gaze_termination_limit) \in BOOLEAN
      OBVIOUS
    <3> QED
      BY <2>6, <3>1, Zenon
  <2>8. GazeType'
    BY <1>3, <2>1, <2>3, <2>7, Zenon DEF GazeType
  <2>9. RULE_GAZE_AWAY_FREQUENCY \in Rules \cap ScoredRules
    BY DEF Rules, ScoredRules
  <2> QED
    BY <2>5, <2>6, <2>8, <2>9, TerminatingOutcome, AccumulateOutcome, Zenon
       DEF Outcome, GazeOutcome
<1> QED
  BY <1>5, <1>6, Zenon DEF ProcessGaze

(* The rules of the object path.                                           *)
ObjectRules == {RULE_OBJECT_DETECTED, BOOK_RULE_CODE}

(* process_object_detection keeps the types and emits only its own rule.   *)
LEMMA ObjectTyped ==
    ASSUME TypeInv, NEW object_class \in {"book", "cell_phone"},
           NEW now \in 0 .. MaxTime, ProcessObjectDetection(object_class, now),
           scenario' = scenario
    PROVE  SingleType' /\ Outcome(ObjectRules)
<1>0. now \in Nat
  <2>1. MaxTime \in Nat
    BY PolicyTypes DEF TypeInv, PolicyFields
  <2> QED
    BY <2>1
<1> USE DEF TypeInv
<1> DEFINE T == [class : {"book", "cell_phone"}, now : Nat]
           x == [class |-> object_class, now |-> now]
           id == <<"object", Len(objectLog) + 1>>
           rule == ObjectRule(object_class)
           low == [Medium(rule, {id}, 0) EXCEPT !.severity = "low"]
<1>1. SingleType /\ OutType /\ PolicyFields
  BY TypeParts, PolicyTypes
<1>2. objectLog \in Seq(T) /\ x \in T
  <2>2. x \in T
    BY <1>0
  <2> QED
    BY <1>1, <2>2, Zenon DEF SingleType
<1>3. /\ objectLog' = Append(objectLog, x)
      /\ UNCHANGED <<browserLog, audioLog>>
      /\ \/ UNCHANGED outVars
         \/ Emit(low)
         \/ Accumulate(rule, {id})
  BY Zenon DEF ProcessObjectDetection
<1>4. objectLog' \in Seq(T) /\ id \in EventIds
  <2>1. "object" \in Paths
    BY DEF Paths
  <2> HIDE DEF T, x
  <2> QED
    BY <1>2, <1>3, <2>1, AppendFacts, NextId
<1>5. SingleType'
  BY <1>1, <1>3, <1>4, Zenon DEF SingleType
<1>6. rule \in ObjectRules /\ rule \in ScoredRules /\ rule \in Rules
  BY DEF ObjectRule, ObjectRules, ScoredRules, Rules
<1>7. CASE Emit(low)
  <2> HIDE DEF rule
  <2>1. low \in FlagDecision
    BY <1>4, <1>6, DecisionTypes
  <2>2. low.severity = "low"
    BY DEF Medium
  <2>4. low.rule_code = rule
    BY DEF Medium
  <2>5. low.score_delta = 0
    BY DEF Medium
  <2>3. low.rule_code = rule /\ low.score_delta = 0 /\ low.severity # "medium"
    BY <2>2, <2>4, <2>5
  <2> HIDE DEF low
  <2> QED
    BY <1>5, <1>6, <1>7, <2>1, <2>3, Zenon DEF Outcome
<1>8. CASE Accumulate(rule, {id})
  <2>1. {id} \in SUBSET EventIds
    BY <1>4
  <2>2. rule \in ObjectRules \cap ScoredRules
    BY <1>6
  <2> HIDE DEF rule, id
  <2> QED
    BY <1>5, <1>8, <2>1, <2>2, Zenon DEF Outcome
<1>9. CASE UNCHANGED outVars
  BY <1>5, <1>9, Zenon DEF Outcome
<1> QED
  BY <1>3, <1>5, <1>7, <1>8, <1>9, Zenon

(* process_browser_event keeps the types and emits only its own rule.      *)
LEMMA BrowserTyped ==
    ASSUME TypeInv, NEW event_type \in {"blur", "copy"},
           ProcessBrowserEvent(event_type), scenario' = scenario
    PROVE  SingleType' /\ Outcome({RULE_BROWSER_EVENT})
<1> USE DEF TypeInv
<1> DEFINE id == <<"browser", Len(browserLog) + 1>>
           d == Medium(RULE_BROWSER_EVENT, {id}, 0)
<1>1. SingleType /\ OutType /\ PolicyFields
  BY TypeParts, PolicyTypes
<1>2. /\ browserLog' = Append(browserLog, event_type)
      /\ UNCHANGED <<objectLog, audioLog>>
      /\ \/ Accumulate(RULE_BROWSER_EVENT, {id})
         \/ Emit(d)
  BY Zenon DEF ProcessBrowserEvent
<1>3. browserLog' \in Seq({"blur", "copy"}) /\ id \in EventIds
  BY <1>1, <1>2, AppendFacts, NextId DEF SingleType, Paths
<1>4. SingleType'
  BY <1>1, <1>2, <1>3, Zenon DEF SingleType
<1>5. /\ RULE_BROWSER_EVENT \in Rules /\ RULE_BROWSER_EVENT \in ScoredRules
      /\ {id} \in SUBSET EventIds
  BY <1>3 DEF Rules, ScoredRules
<1>6. d \in FlagDecision /\ d.rule_code = RULE_BROWSER_EVENT /\ d.score_delta = 0
  BY <1>5, DecisionTypes DEF Medium
<1> QED
  BY <1>2, <1>4, <1>5, <1>6, AccumulateOutcome, Zenon DEF Outcome

(* process_audio keeps the types and emits only its own rule.              *)
LEMMA AudioTyped ==
    ASSUME TypeInv, NEW event_type \in {"silence", "speech_detected"},
           ProcessAudioVad(event_type), scenario' = scenario
    PROVE  SingleType' /\ Outcome({RULE_AUDIO_ANOMALY})
<1> USE DEF TypeInv
<1> DEFINE id == <<"audio", Len(audioLog) + 1>>
<1>1. SingleType /\ OutType /\ PolicyFields
  BY TypeParts, PolicyTypes
<1>2. /\ audioLog' = Append(audioLog, event_type)
      /\ UNCHANGED <<objectLog, browserLog>>
      /\ UNCHANGED outVars \/ Accumulate(RULE_AUDIO_ANOMALY, {id})
  BY Zenon DEF ProcessAudioVad
<1>3. audioLog' \in Seq({"silence", "speech_detected"}) /\ id \in EventIds
  BY <1>1, <1>2, AppendFacts, NextId DEF SingleType, Paths
<1>4. SingleType'
  BY <1>1, <1>2, <1>3, Zenon DEF SingleType
<1>5. /\ RULE_AUDIO_ANOMALY \in ScoredRules
      /\ {id} \in SUBSET EventIds
  BY <1>3 DEF ScoredRules
<1> QED
  BY <1>2, <1>4, <1>5, AccumulateOutcome, Zenon DEF Outcome

(* A step of each path, with what it leaves alone and what it does with    *)
(* the output.                                                             *)
FaceStep ==
    /\ \E n \in 0 .. 2 : ProcessFacePresence(n)
    /\ FaceType'
    /\ Outcome({RULE_SECOND_PERSON})
    /\ UNCHANGED gazeVars /\ UNCHANGED livenessVars /\ UNCHANGED identityVars
    /\ UNCHANGED singleLogs

LivenessStep ==
    /\ \E is_real \in BOOLEAN : ProcessLiveness(is_real)
    /\ LivenessType'
    /\ Outcome({RULE_LIVENESS_CHECK_FAILED})
    /\ UNCHANGED faceVars /\ UNCHANGED gazeVars /\ UNCHANGED identityVars
    /\ UNCHANGED singleLogs

GazeStep ==
    /\ \E off_screen \in {"on", "off", "no_landmarks"}, ts \in 0 .. MaxTime :
             ProcessGaze(off_screen, ts)
    /\ GazeType'
    /\ Outcome({RULE_GAZE_AWAY_FREQUENCY}) /\ GazeOutcome
    /\ UNCHANGED faceVars /\ UNCHANGED livenessVars /\ UNCHANGED identityVars
    /\ UNCHANGED singleLogs

IdentityStep ==
    /\ \E matches \in BOOLEAN : ProcessIdentityMatch(matches)
    /\ IdentityType'
    /\ Outcome({RULE_IDENTITY_MISMATCH})
    /\ UNCHANGED faceVars /\ UNCHANGED gazeVars /\ UNCHANGED livenessVars
    /\ UNCHANGED singleLogs

ObjectStep ==
    /\ \E object_class \in {"book", "cell_phone"}, now \in 0 .. MaxTime :
             ProcessObjectDetection(object_class, now)
    /\ SingleType'
    /\ Outcome(ObjectRules)
    /\ UNCHANGED faceVars /\ UNCHANGED gazeVars /\ UNCHANGED livenessVars
    /\ UNCHANGED identityVars

BrowserStep ==
    /\ \E event_type \in {"blur", "copy"} : ProcessBrowserEvent(event_type)
    /\ SingleType'
    /\ Outcome({RULE_BROWSER_EVENT})
    /\ UNCHANGED faceVars /\ UNCHANGED gazeVars /\ UNCHANGED livenessVars
    /\ UNCHANGED identityVars

AudioStep ==
    /\ \E event_type \in {"silence", "speech_detected"} :
             ProcessAudioVad(event_type)
    /\ SingleType'
    /\ Outcome({RULE_AUDIO_ANOMALY})
    /\ UNCHANGED faceVars /\ UNCHANGED gazeVars /\ UNCHANGED livenessVars
    /\ UNCHANGED identityVars

(* Every step is one of seven: the results of one modality, with what they *)
(* may emit, while the other modalities keep their state.                  *)
LEMMA StepOutcome ==
    ASSUME TypeInv, [Next]_vars
    PROVE  /\ scenario' = scenario
           /\ \/ UNCHANGED vars
              \/ FaceStep \/ LivenessStep \/ GazeStep \/ IdentityStep
              \/ ObjectStep \/ BrowserStep \/ AudioStep
<1>1. scenario' = scenario
  BY DEF Next, vars
<1>2. ASSUME NEW n \in 0 .. 2, ProcessFacePresence(n)
      PROVE  FaceStep
  BY <1>1, <1>2, FaceTyped, Zenon DEF FaceStep, ProcessFacePresence
<1>3. ASSUME NEW is_real \in BOOLEAN, ProcessLiveness(is_real)
      PROVE  LivenessStep
  BY <1>1, <1>3, LivenessTyped, Zenon DEF LivenessStep, ProcessLiveness
<1>4. ASSUME NEW off_screen \in {"on", "off", "no_landmarks"},
             NEW ts \in 0 .. MaxTime,
             ProcessGaze(off_screen, ts)
      PROVE  GazeStep
  BY <1>1, <1>4, GazeTyped, Zenon DEF GazeStep, ProcessGaze
<1>5. ASSUME NEW matches \in BOOLEAN,
             ProcessIdentityMatch(matches)
      PROVE  IdentityStep
  BY <1>1, <1>5, IdentityTyped, Zenon DEF IdentityStep, ProcessIdentityMatch
<1>6. ASSUME NEW object_class \in {"book", "cell_phone"},
             NEW now \in 0 .. MaxTime,
             ProcessObjectDetection(object_class, now)
      PROVE  ObjectStep
  BY <1>1, <1>6, ObjectTyped, Zenon DEF ObjectStep, ProcessObjectDetection
<1>7. ASSUME NEW event_type \in {"blur", "copy"},
             ProcessBrowserEvent(event_type)
      PROVE  BrowserStep
  BY <1>1, <1>7, BrowserTyped, Zenon DEF BrowserStep, ProcessBrowserEvent
<1>8. ASSUME NEW event_type \in {"silence", "speech_detected"},
             ProcessAudioVad(event_type)
      PROVE  AudioStep
  BY <1>1, <1>8, AudioTyped, Zenon DEF AudioStep, ProcessAudioVad
<1> QED
  BY <1>1, <1>2, <1>3, <1>4, <1>5, <1>6, <1>7, <1>8, Zenon DEF Next, Step

(* Every step keeps the types.                                             *)
LEMMA TypeStep ==
    ASSUME TypeInv, [Next]_vars
    PROVE  TypeInv'
<1>1. /\ FaceType /\ GazeType /\ LivenessType /\ IdentityType
      /\ SingleType /\ OutType /\ PolicyFields
  BY TypeParts, PolicyTypes DEF TypeInv
<1>2. scenario' = scenario
  BY StepOutcome
<1>3. ASSUME NEW rules, Outcome(rules) PROVE OutType'
  BY <1>1, <1>3, OutcomeExtends
<1>4. /\ FaceType' /\ GazeType' /\ LivenessType' /\ IdentityType'
      /\ SingleType' /\ OutType'
  <2>1. CASE UNCHANGED vars
    BY <1>1, <1>2, <2>1, TypesKept DEF vars
  <2>2. CASE FaceStep
    BY <1>1, <1>2, <1>3, <2>2, TypesKept, Zenon DEF FaceStep
  <2>3. CASE LivenessStep
    BY <1>1, <1>2, <1>3, <2>3, TypesKept, Zenon DEF LivenessStep
  <2>4. CASE GazeStep
    BY <1>1, <1>2, <1>3, <2>4, TypesKept, Zenon DEF GazeStep
  <2>5. CASE IdentityStep
    BY <1>1, <1>2, <1>3, <2>5, TypesKept, Zenon DEF IdentityStep
  <2>6. CASE ObjectStep
    BY <1>1, <1>2, <1>3, <2>6, TypesKept, Zenon DEF ObjectStep
  <2>7. CASE BrowserStep
    BY <1>1, <1>2, <1>3, <2>7, TypesKept, Zenon DEF BrowserStep
  <2>8. CASE AudioStep
    BY <1>1, <1>2, <1>3, <2>8, TypesKept, Zenon DEF AudioStep
  <2> QED
    BY <2>1, <2>2, <2>3, <2>4, <2>5, <2>6, <2>7, <2>8, StepOutcome
<1>5. (TypeOK <=> /\ FaceType /\ GazeType /\ LivenessType /\ IdentityType
                  /\ SingleType /\ OutType)'
  BY Zenon DEF TypeOK, FaceType, GazeType, LivenessType, IdentityType,
               SingleType, OutType
<1> QED
  BY <1>2, <1>4, <1>5 DEF TypeInv

(* The types hold in every state.                                          *)
LEMMA TypeInvHolds == Spec => []TypeInv
  BY TypeInit, TypeStep, PTL DEF Spec

(* Every variable of the fusion engine keeps its type and the two deques   *)
(* never outgrow the policy's confirmation windows (process_liveness,      *)
(* process_identity_match), for every policy the table admits.             *)
THEOREM AggregatorTypes == Spec => []TypeOK
  BY TypeInvHolds, PTL DEF TypeInv

-----------------------------------------------------------------------------
(* Frame conditions: what the steps of the other paths leave alone.        *)

Untouched(rule) ==
    /\ OutType'
    /\ Len(emitted) =< Len(emitted')
    /\ \A i \in 1 .. Len(emitted) : emitted'[i] = emitted[i]
    /\ FlagsOf(rule)' = FlagsOf(rule)

(* Flags of one rule leave the flags of every other rule alone.            *)
LEMMA OutcomeUntouched ==
    ASSUME OutType, PolicyFields, NEW rules, Outcome(rules),
           NEW rule, rule \notin rules, rule # RULE_ACCUMULATED_SCORE
    PROVE  Untouched(rule)
<1>1. FlagsOf(rule)' = FlagsOf(rule)
  BY OtherFlagsKept
<1> QED
  BY <1>1, OutcomeExtends, Zenon DEF Untouched

(* A step that emits nothing leaves every rule alone.                      *)
LEMMA SilentUntouched ==
    ASSUME OutType, UNCHANGED outVars, NEW rule
    PROVE  Untouched(rule)
  BY DEF Untouched, OutType, outVars, FlagsOf

(* The rule codes are nine different strings.                              *)
LEMMA RulesDiffer ==
    /\ RULE_SECOND_PERSON \notin ScoredRules \cup
          {RULE_ACCUMULATED_SCORE, RULE_IDENTITY_MISMATCH}
    /\ RULE_IDENTITY_MISMATCH \notin ScoredRules \cup
          {RULE_ACCUMULATED_SCORE, RULE_SECOND_PERSON}
    /\ RULE_ACCUMULATED_SCORE \notin ScoredRules \cup
          {RULE_SECOND_PERSON, RULE_IDENTITY_MISMATCH}
    /\ RULE_LIVENESS_CHECK_FAILED \notin ObjectRules \cup
          {RULE_GAZE_AWAY_FREQUENCY, RULE_BROWSER_EVENT, RULE_AUDIO_ANOMALY,
           RULE_ACCUMULATED_SCORE, RULE_SECOND_PERSON, RULE_IDENTITY_MISMATCH}
    /\ RULE_GAZE_AWAY_FREQUENCY \notin ObjectRules \cup
          {RULE_LIVENESS_CHECK_FAILED, RULE_BROWSER_EVENT, RULE_AUDIO_ANOMALY,
           RULE_ACCUMULATED_SCORE, RULE_SECOND_PERSON, RULE_IDENTITY_MISMATCH}
    /\ RULE_BROWSER_EVENT \notin ObjectRules \cup
          {RULE_LIVENESS_CHECK_FAILED, RULE_GAZE_AWAY_FREQUENCY,
           RULE_AUDIO_ANOMALY}
  BY DEF ScoredRules, ObjectRules, RULE_SECOND_PERSON, RULE_GAZE_AWAY_FREQUENCY,
         RULE_ACCUMULATED_SCORE, RULE_OBJECT_DETECTED, BOOK_RULE_CODE,
         RULE_BROWSER_EVENT, RULE_LIVENESS_CHECK_FAILED,
         RULE_IDENTITY_MISMATCH, RULE_AUDIO_ANOMALY

(* One decision of a rule that had none.                                   *)
LEMMA FirstFlag ==
    ASSUME OutType, NEW d \in FlagDecision, Emit(d), FlagsOf(d.rule_code) = {}
    PROVE  /\ FlagsOf(d.rule_code)' = {Len(emitted) + 1}
           /\ Len(emitted) + 1 \in 1 .. Len(emitted')
           /\ emitted'[Len(emitted) + 1] = d
<1>1. /\ Len(emitted) \in Nat
      /\ Len(emitted') = Len(emitted) + 1
      /\ \A i \in 1 .. Len(emitted) : emitted'[i] = emitted[i]
      /\ emitted'[Len(emitted) + 1] = d
  BY EmitFacts DEF OutType
<1>2. \A i \in 1 .. Len(emitted) : emitted[i].rule_code # d.rule_code
  BY DEF FlagsOf
<1>3. FlagsOf(d.rule_code)' =
          {i \in 1 .. Len(emitted') : emitted'[i].rule_code = d.rule_code}
  BY DEF FlagsOf
<1>4. \A i \in 1 .. Len(emitted') : i \in 1 .. Len(emitted) \/ i = Len(emitted) + 1
  BY <1>1
<1> QED
  BY <1>1, <1>2, <1>3, <1>4

(* Only a face result disturbs what SecondPersonExact speaks of.           *)
LEMMA FaceElse ==
    ASSUME TypeInv, [Next]_vars
    PROVE  FaceStep \/ (UNCHANGED faceVars /\ Untouched(RULE_SECOND_PERSON))
<1>1. OutType /\ PolicyFields
  BY TypeParts, PolicyTypes DEF TypeInv
<1> DEFINE r == RULE_SECOND_PERSON
<1>2. r # RULE_ACCUMULATED_SCORE
  BY RulesDiffer
<1> HIDE DEF r
<1>3. ASSUME NEW rules, Outcome(rules), r \notin rules PROVE Untouched(r)
  BY <1>1, <1>2, <1>3, OutcomeUntouched
<1>4. CASE UNCHANGED vars
  BY <1>1, <1>4, SilentUntouched DEF vars, r
<1>5. CASE LivenessStep
  <2>1. r \notin {RULE_LIVENESS_CHECK_FAILED}
    BY RulesDiffer DEF r, ScoredRules, ObjectRules
  <2> QED
    BY <1>3, <1>5, <2>1, Zenon DEF LivenessStep, r
<1>6. CASE GazeStep
  <2>1. r \notin {RULE_GAZE_AWAY_FREQUENCY}
    BY RulesDiffer DEF r, ScoredRules, ObjectRules
  <2> QED
    BY <1>3, <1>6, <2>1, Zenon DEF GazeStep, r
<1>7. CASE IdentityStep
  <2>1. r \notin {RULE_IDENTITY_MISMATCH}
    BY RulesDiffer DEF r, ScoredRules, ObjectRules
  <2> QED
    BY <1>3, <1>7, <2>1, Zenon DEF IdentityStep, r
<1>8. CASE ObjectStep
  <2>1. r \notin ObjectRules
    BY RulesDiffer DEF r, ScoredRules, ObjectRules
  <2> QED
    BY <1>3, <1>8, <2>1, Zenon DEF ObjectStep, r
<1>9. CASE BrowserStep
  <2>1. r \notin {RULE_BROWSER_EVENT}
    BY RulesDiffer DEF r, ScoredRules, ObjectRules
  <2> QED
    BY <1>3, <1>9, <2>1, Zenon DEF BrowserStep, r
<1>10. CASE AudioStep
  <2>1. r \notin {RULE_AUDIO_ANOMALY}
    BY RulesDiffer DEF r, ScoredRules, ObjectRules
  <2> QED
    BY <1>3, <1>10, <2>1, Zenon DEF AudioStep, r
<1> QED
  BY <1>4, <1>5, <1>6, <1>7, <1>8, <1>9, <1>10, StepOutcome, Zenon DEF r

(* Only a liveness result disturbs what LivenessExact speaks of.           *)
LEMMA LivenessElse ==
    ASSUME TypeInv, [Next]_vars
    PROVE  LivenessStep \/ (UNCHANGED livenessVars /\ Untouched(RULE_LIVENESS_CHECK_FAILED))
<1>1. OutType /\ PolicyFields
  BY TypeParts, PolicyTypes DEF TypeInv
<1> DEFINE r == RULE_LIVENESS_CHECK_FAILED
<1>2. r # RULE_ACCUMULATED_SCORE
  BY RulesDiffer
<1> HIDE DEF r
<1>3. ASSUME NEW rules, Outcome(rules), r \notin rules PROVE Untouched(r)
  BY <1>1, <1>2, <1>3, OutcomeUntouched
<1>4. CASE UNCHANGED vars
  BY <1>1, <1>4, SilentUntouched DEF vars, r
<1>5. CASE FaceStep
  <2>1. r \notin {RULE_SECOND_PERSON}
    BY RulesDiffer DEF r, ScoredRules, ObjectRules
  <2> QED
    BY <1>3, <1>5, <2>1, Zenon DEF FaceStep, r
<1>6. CASE GazeStep
  <2>1. r \notin {RULE_GAZE_AWAY_FREQUENCY}
    BY RulesDiffer DEF r, ScoredRules, ObjectRules
  <2> QED
    BY <1>3, <1>6, <2>1, Zenon DEF GazeStep, r
<1>7. CASE IdentityStep
  <2>1. r \notin {RULE_IDENTITY_MISMATCH}
    BY RulesDiffer DEF r, ScoredRules, ObjectRules
  <2> QED
    BY <1>3, <1>7, <2>1, Zenon DEF IdentityStep, r
<1>8. CASE ObjectStep
  <2>1. r \notin ObjectRules
    BY RulesDiffer DEF r, ScoredRules, ObjectRules
  <2> QED
    BY <1>3, <1>8, <2>1, Zenon DEF ObjectStep, r
<1>9. CASE BrowserStep
  <2>1. r \notin {RULE_BROWSER_EVENT}
    BY RulesDiffer DEF r, ScoredRules, ObjectRules
  <2> QED
    BY <1>3, <1>9, <2>1, Zenon DEF BrowserStep, r
<1>10. CASE AudioStep
  <2>1. r \notin {RULE_AUDIO_ANOMALY}
    BY RulesDiffer DEF r, ScoredRules, ObjectRules
  <2> QED
    BY <1>3, <1>10, <2>1, Zenon DEF AudioStep, r
<1> QED
  BY <1>4, <1>5, <1>6, <1>7, <1>8, <1>9, <1>10, StepOutcome, Zenon DEF r

(* Only a gaze result disturbs what GazeLadderBounded speaks of.           *)
LEMMA GazeElse ==
    ASSUME TypeInv, [Next]_vars
    PROVE  GazeStep \/ (UNCHANGED gazeVars /\ Untouched(RULE_GAZE_AWAY_FREQUENCY))
<1>1. OutType /\ PolicyFields
  BY TypeParts, PolicyTypes DEF TypeInv
<1> DEFINE r == RULE_GAZE_AWAY_FREQUENCY
<1>2. r # RULE_ACCUMULATED_SCORE
  BY RulesDiffer
<1> HIDE DEF r
<1>3. ASSUME NEW rules, Outcome(rules), r \notin rules PROVE Untouched(r)
  BY <1>1, <1>2, <1>3, OutcomeUntouched
<1>4. CASE UNCHANGED vars
  BY <1>1, <1>4, SilentUntouched DEF vars, r
<1>5. CASE FaceStep
  <2>1. r \notin {RULE_SECOND_PERSON}
    BY RulesDiffer DEF r, ScoredRules, ObjectRules
  <2> QED
    BY <1>3, <1>5, <2>1, Zenon DEF FaceStep, r
<1>6. CASE LivenessStep
  <2>1. r \notin {RULE_LIVENESS_CHECK_FAILED}
    BY RulesDiffer DEF r, ScoredRules, ObjectRules
  <2> QED
    BY <1>3, <1>6, <2>1, Zenon DEF LivenessStep, r
<1>7. CASE IdentityStep
  <2>1. r \notin {RULE_IDENTITY_MISMATCH}
    BY RulesDiffer DEF r, ScoredRules, ObjectRules
  <2> QED
    BY <1>3, <1>7, <2>1, Zenon DEF IdentityStep, r
<1>8. CASE ObjectStep
  <2>1. r \notin ObjectRules
    BY RulesDiffer DEF r, ScoredRules, ObjectRules
  <2> QED
    BY <1>3, <1>8, <2>1, Zenon DEF ObjectStep, r
<1>9. CASE BrowserStep
  <2>1. r \notin {RULE_BROWSER_EVENT}
    BY RulesDiffer DEF r, ScoredRules, ObjectRules
  <2> QED
    BY <1>3, <1>9, <2>1, Zenon DEF BrowserStep, r
<1>10. CASE AudioStep
  <2>1. r \notin {RULE_AUDIO_ANOMALY}
    BY RulesDiffer DEF r, ScoredRules, ObjectRules
  <2> QED
    BY <1>3, <1>10, <2>1, Zenon DEF AudioStep, r
<1> QED
  BY <1>4, <1>5, <1>6, <1>7, <1>8, <1>9, <1>10, StepOutcome, Zenon DEF r

(* Only an identity result disturbs what IdentityMismatchExact speaks of.  *)
LEMMA IdentityElse ==
    ASSUME TypeInv, [Next]_vars
    PROVE  IdentityStep \/ (UNCHANGED identityVars /\ Untouched(RULE_IDENTITY_MISMATCH))
<1>1. OutType /\ PolicyFields
  BY TypeParts, PolicyTypes DEF TypeInv
<1> DEFINE r == RULE_IDENTITY_MISMATCH
<1>2. r # RULE_ACCUMULATED_SCORE
  BY RulesDiffer
<1> HIDE DEF r
<1>3. ASSUME NEW rules, Outcome(rules), r \notin rules PROVE Untouched(r)
  BY <1>1, <1>2, <1>3, OutcomeUntouched
<1>4. CASE UNCHANGED vars
  BY <1>1, <1>4, SilentUntouched DEF vars, r
<1>5. CASE FaceStep
  <2>1. r \notin {RULE_SECOND_PERSON}
    BY RulesDiffer DEF r, ScoredRules, ObjectRules
  <2> QED
    BY <1>3, <1>5, <2>1, Zenon DEF FaceStep, r
<1>6. CASE LivenessStep
  <2>1. r \notin {RULE_LIVENESS_CHECK_FAILED}
    BY RulesDiffer DEF r, ScoredRules, ObjectRules
  <2> QED
    BY <1>3, <1>6, <2>1, Zenon DEF LivenessStep, r
<1>7. CASE GazeStep
  <2>1. r \notin {RULE_GAZE_AWAY_FREQUENCY}
    BY RulesDiffer DEF r, ScoredRules, ObjectRules
  <2> QED
    BY <1>3, <1>7, <2>1, Zenon DEF GazeStep, r
<1>8. CASE ObjectStep
  <2>1. r \notin ObjectRules
    BY RulesDiffer DEF r, ScoredRules, ObjectRules
  <2> QED
    BY <1>3, <1>8, <2>1, Zenon DEF ObjectStep, r
<1>9. CASE BrowserStep
  <2>1. r \notin {RULE_BROWSER_EVENT}
    BY RulesDiffer DEF r, ScoredRules, ObjectRules
  <2> QED
    BY <1>3, <1>9, <2>1, Zenon DEF BrowserStep, r
<1>10. CASE AudioStep
  <2>1. r \notin {RULE_AUDIO_ANOMALY}
    BY RulesDiffer DEF r, ScoredRules, ObjectRules
  <2> QED
    BY <1>3, <1>10, <2>1, Zenon DEF AudioStep, r
<1> QED
  BY <1>4, <1>5, <1>6, <1>7, <1>8, <1>9, <1>10, StepOutcome, Zenon DEF r

-----------------------------------------------------------------------------
(* Path 1: the second person. *)

(* Frame k completed the first window of second faces, and flag i says so. *)
FaceDone(i, k) ==
    /\ i \in 1 .. Len(emitted)
    /\ k \in 1 .. Len(faceLog)
    /\ FlagsOf(RULE_SECOND_PERSON) = {i}
    /\ SecondFaceWindow(k)
    /\ \A j \in 1 .. k - 1 : ~SecondFaceWindow(j)
    /\ emitted[i].contributing_event_ids =
           FramesUpTo("face", Policy.second_face_confirmation_frames, k)
    /\ emitted[i].triggered_termination

(* Until then the counter is the length of the streak of second faces that *)
(* ends now, and the kept ids are its frames.                              *)
FacePending ==
    LET n == Len(faceLog)
        c == consecutive_second_person_frames
    IN  /\ FlagsOf(RULE_SECOND_PERSON) = {}
        /\ \A k \in 1 .. n : ~SecondFaceWindow(k)
        /\ c =< n
        /\ c < Policy.second_face_confirmation_frames
        /\ \A i \in n - c + 1 .. n : faceLog[i] >= 2
        /\ c < n => faceLog[n - c] < 2
        /\ second_person_event_ids = FramesUpTo("face", c, n)

FaceInv ==
    Policy.terminate_on_second_face =>
        \/ ~second_person_fired /\ FacePending
        \/ second_person_fired /\ \E i, k : FaceDone(i, k)

(* Appending to the log changes no window of the past.                     *)
LEMMA FaceWindowsKept ==
    ASSUME faceLog \in Seq(0 .. 2), NEW x \in 0 .. 2,
           faceLog' = Append(faceLog, x), scenario' = scenario, PolicyFields,
           NEW k \in 1 .. Len(faceLog)
    PROVE  SecondFaceWindow(k)' <=> SecondFaceWindow(k)
<1> DEFINE size == Policy.second_face_confirmation_frames
<1>1. size' = size /\ size \in Nat1
  BY DEF Policy, PolicyFields
<1>2. \A i \in 1 .. Len(faceLog) : faceLog'[i] = faceLog[i]
  BY AppendFacts
<1>3. SecondFaceWindow(k)' <=> k >= size /\ \A i \in k - size + 1 .. k : faceLog'[i] >= 2
  BY <1>1 DEF SecondFaceWindow
<1>4. SecondFaceWindow(k) <=> k >= size /\ \A i \in k - size + 1 .. k : faceLog[i] >= 2
  BY DEF SecondFaceWindow
<1> HIDE DEF size
<1>5. k >= size => \A i \in k - size + 1 .. k : faceLog'[i] = faceLog[i]
  BY <1>1, <1>2 DEF Nat1
<1> QED
  BY <1>3, <1>4, <1>5

(* A flag that has been raised stays what it is.                           *)
LEMMA FaceDoneKept ==
    ASSUME TypeInv, NEW i, NEW k, FaceDone(i, k), Untouched(RULE_SECOND_PERSON),
           scenario' = scenario,
           \/ faceLog' = faceLog
           \/ \E x \in 0 .. 2 : faceLog' = Append(faceLog, x)
    PROVE  FaceDone(i, k)'
<1>1. /\ faceLog \in Seq(0 .. 2) /\ PolicyFields /\ Len(faceLog) \in Nat
      /\ Len(emitted) \in Nat /\ Len(emitted') \in Nat
  BY TypeParts, PolicyTypes DEF TypeInv, FaceType, OutType, Untouched
<1>2. Len(faceLog') >= Len(faceLog) /\ Len(faceLog') \in Nat
  BY <1>1, AppendFacts
<1>3. \A j \in 1 .. Len(faceLog) : SecondFaceWindow(j)' <=> SecondFaceWindow(j)
  <2>1. CASE faceLog' = faceLog
    BY <2>1 DEF SecondFaceWindow, Policy
  <2>2. CASE \E x \in 0 .. 2 : faceLog' = Append(faceLog, x)
    BY <1>1, <2>2, FaceWindowsKept
  <2> QED
    BY <2>1, <2>2
<1>4. /\ i \in 1 .. Len(emitted')
      /\ k \in 1 .. Len(faceLog')
      /\ emitted'[i] = emitted[i]
  BY <1>1, <1>2 DEF FaceDone, Untouched
<1>5. FlagsOf(RULE_SECOND_PERSON)' = {i}
  BY DEF FaceDone, Untouched
<1>6. SecondFaceWindow(k)' /\ \A j \in 1 .. k - 1 : ~SecondFaceWindow(j)'
  BY <1>1, <1>3 DEF FaceDone
<1>7. FramesUpTo("face", Policy.second_face_confirmation_frames, k)' =
          FramesUpTo("face", Policy.second_face_confirmation_frames, k)
  BY DEF Policy
<1> QED
  BY <1>4, <1>5, <1>6, <1>7, Zenon DEF FaceDone

(* Before the flag: a face result leaves the rule pending or fires it on   *)
(* the first run that is long enough.                                      *)
LEMMA FacePendingStep ==
    ASSUME TypeInv, FacePending, NEW x \in 0 .. 2, ProcessFacePresence(x),
           scenario' = scenario, ~FaceIgnored
    PROVE  \/ ~second_person_fired' /\ FacePending'
           \/ second_person_fired' /\ \E i, k : FaceDone(i, k)'
<1> DEFINE n == Len(faceLog)
           c == consecutive_second_person_frames
           size == Policy.second_face_confirmation_frames
           id == <<"face", n + 1>>
           ids == second_person_event_ids \cup {id}
           d == Terminating(RULE_SECOND_PERSON, ids)
<1>1. /\ FaceType /\ OutType /\ PolicyFields /\ faceLog \in Seq(0 .. 2)
      /\ n \in Nat /\ c \in Nat /\ size \in Nat1 /\ size' = size
  BY TypeParts, PolicyTypes DEF TypeInv, FaceType, PolicyFields, Policy
<1>2. faceLog' = Append(faceLog, x)
  BY Zenon DEF ProcessFacePresence
<1>3. /\ Len(faceLog') = n + 1
      /\ \A i \in 1 .. n : faceLog'[i] = faceLog[i]
      /\ faceLog'[n + 1] = x
  BY <1>1, <1>2, AppendFacts
<1>4. \A k \in 1 .. n : ~SecondFaceWindow(k)'
  BY <1>1, <1>2, FaceWindowsKept DEF FacePending
<1>5. /\ c =< n /\ c < size
      /\ \A i \in n - c + 1 .. n : faceLog[i] >= 2
      /\ c < n => faceLog[n - c] < 2
      /\ second_person_event_ids = {<<"face", i>> : i \in n - c + 1 .. n}
      /\ FlagsOf(RULE_SECOND_PERSON) = {}
  BY DEF FacePending, FramesUpTo
<1>7. ids = {<<"face", i>> : i \in n - c + 1 .. n + 1}
  BY <1>1, <1>5
<1>10. ASSUME FlagsOf(RULE_SECOND_PERSON)' = {},
              \A k \in 1 .. n + 1 : ~SecondFaceWindow(k)',
              c' \in Nat, c' =< n + 1, c' < size,
              \A i \in n + 1 - c' + 1 .. n + 1 : faceLog'[i] >= 2,
              c' < n + 1 => faceLog'[n + 1 - c'] < 2,
              second_person_event_ids' =
                  {<<"face", i>> : i \in n + 1 - c' + 1 .. n + 1}
       PROVE  FacePending'
  <2>1. n' = n + 1 /\ size' = size
    BY <1>1, <1>3
  <2>2. \A k \in 1 .. n' : ~SecondFaceWindow(k)'
    BY <1>10, <2>1, Zenon
  <2>3. c' =< n' /\ c' < size' /\ (c' < n' => faceLog'[n' - c'] < 2)
    BY <1>1, <1>10, <2>1
  <2>4. (n' - c' + 1 .. n') = (n + 1 - c' + 1 .. n + 1)
    BY <1>1, <1>10, <2>1
  <2>5. /\ \A i \in n' - c' + 1 .. n' : faceLog'[i] >= 2
        /\ second_person_event_ids' = {<<"face", i>> : i \in n' - c' + 1 .. n'}
    BY <1>10, <2>4, Zenon
  <2> QED
    BY <1>10, <2>2, <2>3, <2>4, <2>5, Zenon DEF FacePending, FramesUpTo
<1>8. CASE /\ x >= 2
           /\ c' = c + 1
           /\ second_person_event_ids' = ids
           /\ second_person_fired' = (c + 1 >= size)
           /\ IF second_person_fired' THEN Emit(d) ELSE UNCHANGED outVars
  <2>1. \A i \in n - c + 1 .. n + 1 : faceLog'[i] >= 2
    BY <1>1, <1>3, <1>5, <1>8
  <2>2. CASE c + 1 >= size
    <3>1. second_person_fired' /\ Emit(d)
      BY <1>8, <2>2
    <3>2. c + 1 = size
      BY <1>1, <1>5, <2>2 DEF Nat1
    <3>4. ids \in SUBSET EventIds /\ d \in FlagDecision
      <4>1. id \in EventIds
        BY <1>1, NextId DEF Paths
      <4>2. ids \in SUBSET EventIds
        BY <1>1, <4>1 DEF FaceType
      <4> QED
        BY <4>2, DecisionTypes DEF Rules
    <3>5. /\ d.rule_code = RULE_SECOND_PERSON
          /\ d.contributing_event_ids = ids
          /\ d.triggered_termination
      BY DEF Terminating
    <3> HIDE DEF d
    <3>6. /\ FlagsOf(RULE_SECOND_PERSON)' = {Len(emitted) + 1}
          /\ Len(emitted) + 1 \in 1 .. Len(emitted')
          /\ emitted'[Len(emitted) + 1] = d
      BY <1>1, <1>5, <3>1, <3>4, <3>5, FirstFlag
    <3>7. ids = FramesUpTo("face", size, n + 1)
      BY <1>1, <1>7, <3>2 DEF FramesUpTo
    <3>8. PICK i, k : i = Len(emitted) + 1 /\ k = n + 1
      OBVIOUS
    <3>9. k \in 1 .. Len(faceLog')
      BY <1>1, <1>3, <3>8
    <3>10. SecondFaceWindow(k)' /\ \A j \in 1 .. k - 1 : ~SecondFaceWindow(j)'
      <4>1. PICK m : m = n + 1
        OBVIOUS
      <4>2. SecondFaceWindow(m)' <=>
              /\ m >= size
              /\ \A j \in m - size + 1 .. m : faceLog'[j] >= 2
        BY <1>1 DEF SecondFaceWindow
      <4>3. SecondFaceWindow(m)'
        BY <1>1, <1>5, <2>1, <3>2, <4>1, <4>2
      <4> QED
        BY <1>1, <1>4, <3>8, <4>1, <4>3
    <3>11. FramesUpTo("face", Policy.second_face_confirmation_frames, k)'
              = FramesUpTo("face", size, n + 1)
      BY <3>8, <1>1 DEF FramesUpTo
    <3>12. FaceDone(i, k)'
      <4>1. emitted'[i].contributing_event_ids =
                FramesUpTo("face", Policy.second_face_confirmation_frames, k)'
        BY <3>5, <3>6, <3>7, <3>8, <3>11, Zenon
      <4>2. emitted'[i].triggered_termination
        BY <3>5, <3>6, <3>8, Zenon
      <4>3. FlagsOf(RULE_SECOND_PERSON)' = {i} /\ i \in 1 .. Len(emitted')
        BY <3>6, <3>8, Zenon
      <4> QED
        BY <3>9, <3>10, <4>1, <4>2, <4>3, Zenon DEF FaceDone
    <3> QED
      BY <3>1, <3>12, Zenon
  <2>3. CASE c + 1 < size
    <3>1. ~second_person_fired' /\ UNCHANGED outVars
      <4>1. ~(c + 1 >= size)
        BY <1>1, <2>3 DEF Nat1
      <4> QED
        BY <1>8, <4>1, Zenon
    <3>2. FlagsOf(RULE_SECOND_PERSON)' = {}
      BY <1>1, <1>5, <3>1, SilentUntouched DEF Untouched
    <3>3. \A k \in 1 .. n + 1 : ~SecondFaceWindow(k)'
      <4> SUFFICES ASSUME NEW k \in 1 .. n + 1, SecondFaceWindow(k)' PROVE FALSE
        OBVIOUS
      <4>1. k = n + 1
        BY <1>1, <1>4
      <4>2. k >= size /\ \A i \in k - size + 1 .. k : faceLog'[i] >= 2
        BY <1>1 DEF SecondFaceWindow
      <4>3. n - c \in k - size + 1 .. k /\ n - c \in 1 .. n /\ c < n
        BY <1>1, <1>5, <2>3, <4>1, <4>2 DEF Nat1
      <4>4. faceLog[n - c] < 2 /\ faceLog[n - c] >= 2
        BY <1>3, <1>5, <4>2, <4>3
      <4>5. faceLog[n - c] \in 0 .. 2
        BY <1>1, <4>3
      <4> QED
        BY <4>4, <4>5
    <3>4. c' < n + 1 => faceLog'[n + 1 - c'] < 2
      <4>1. n + 1 - c' = n - c
        BY <1>1, <1>8
      <4> QED
        BY <1>1, <1>3, <1>5, <1>8, <4>1
    <3>5. /\ c' =< n + 1 /\ c' < size
          /\ \A i \in n + 1 - c' + 1 .. n + 1 : faceLog'[i] >= 2
      <4>1. n + 1 - c' + 1 = n - c + 1
        BY <1>1, <1>8
      <4> QED
        BY <1>1, <1>5, <1>8, <2>1, <2>3, <4>1
    <3>6. second_person_event_ids' = {<<"face", i>> : i \in n + 1 - c' + 1 .. n + 1}
      <4>1. n + 1 - c' + 1 = n - c + 1
        BY <1>1, <1>8
      <4> QED
        BY <1>7, <1>8, <4>1
    <3>7. FacePending'
      BY <1>1, <1>8, <1>10, <3>2, <3>3, <3>4, <3>5, <3>6
    <3> QED
      BY <3>1, <3>7, Zenon
  <2> QED
    BY <1>1, <2>2, <2>3 DEF Nat1
<1>9. CASE /\ x < 2
           /\ FaceStreakBroken
           /\ UNCHANGED <<second_person_fired, outVars>>
  <2>1. c' = 0 /\ second_person_event_ids' = {}
    BY <1>9 DEF FaceStreakBroken
  <2>2. ~second_person_fired'
    BY <1>9 DEF FaceIgnored
  <2>3. FlagsOf(RULE_SECOND_PERSON)' = {}
    BY <1>1, <1>5, <1>9, SilentUntouched DEF Untouched
  <2>4. \A k \in 1 .. n + 1 : ~SecondFaceWindow(k)'
    <3> SUFFICES ASSUME NEW k \in 1 .. n + 1, SecondFaceWindow(k)' PROVE FALSE
      OBVIOUS
    <3>1. k = n + 1
      BY <1>1, <1>4
    <3>2. k >= size /\ \A i \in k - size + 1 .. k : faceLog'[i] >= 2
      BY <1>1 DEF SecondFaceWindow
    <3>3. n + 1 \in k - size + 1 .. k
      BY <1>1, <3>1 DEF Nat1
    <3> QED
      BY <1>3, <1>9, <3>2, <3>3
  <2>5. /\ c' =< n + 1 /\ c' < size
        /\ \A i \in n + 1 - c' + 1 .. n + 1 : faceLog'[i] >= 2
        /\ c' < n + 1 => faceLog'[n + 1 - c'] < 2
    BY <1>1, <1>3, <1>9, <2>1 DEF Nat1
  <2>6. second_person_event_ids' = {<<"face", i>> : i \in n + 1 - c' + 1 .. n + 1}
    BY <1>1, <2>1
  <2>7. FacePending'
    BY <1>1, <1>10, <2>1, <2>3, <2>4, <2>5, <2>6
  <2> QED
    BY <2>2, <2>7, Zenon
<1> QED
  BY <1>8, <1>9, Zenon DEF ProcessFacePresence

(* No face result yet.                                                     *)
LEMMA FaceInit == Init => FaceInv
<1> SUFFICES ASSUME Init, Policy.terminate_on_second_face PROVE FacePending
  BY DEF FaceInv, Init
<1>1. PolicyFields
  BY PolicyTypes DEF Init
<1>2. Len(faceLog) = 0 /\ Len(emitted) = 0
  BY DEF Init
<1>3. /\ consecutive_second_person_frames = 0
      /\ second_person_event_ids = {}
  BY DEF Init
<1> QED
  BY <1>1, <1>2, <1>3 DEF FacePending, FlagsOf, FramesUpTo, PolicyFields, Nat1

(* Every step keeps FaceInv.                                               *)
LEMMA FaceStepInv ==
    ASSUME TypeInv, FaceInv, [Next]_vars
    PROVE  FaceInv'
<1>1. OutType /\ PolicyFields /\ FaceType
  BY TypeParts, PolicyTypes DEF TypeInv
<1>2. scenario' = scenario
  BY StepOutcome
<1>3. SUFFICES ASSUME Policy.terminate_on_second_face
               PROVE  \/ ~second_person_fired' /\ FacePending'
                      \/ second_person_fired' /\ \E i, k : FaceDone(i, k)'
  BY <1>2 DEF FaceInv, Policy
<1>4. CASE UNCHANGED faceVars /\ Untouched(RULE_SECOND_PERSON)
  <2>1. /\ faceLog' = faceLog
        /\ consecutive_second_person_frames' = consecutive_second_person_frames
        /\ second_person_event_ids' = second_person_event_ids
        /\ second_person_fired' = second_person_fired
    BY <1>4 DEF faceVars
  <2>2. CASE ~second_person_fired /\ FacePending
    <3>1. \A k : SecondFaceWindow(k)' <=> SecondFaceWindow(k)
      BY <1>2, <2>1 DEF SecondFaceWindow, Policy
    <3>2. FlagsOf(RULE_SECOND_PERSON)' = {}
      BY <1>4, <2>2 DEF FacePending, Untouched
    <3>3. FacePending'
      BY <1>2, <2>1, <2>2, <3>1, <3>2 DEF FacePending, Policy, FramesUpTo
    <3> QED
      BY <2>1, <2>2, <3>3, Zenon
  <2>3. CASE second_person_fired /\ \E i, k : FaceDone(i, k)
    <3>1. PICK i, k : FaceDone(i, k)
      BY <2>3, Zenon
    <3>2. FaceDone(i, k)'
      BY <1>2, <1>4, <2>1, <3>1, FaceDoneKept
    <3> QED
      BY <2>1, <2>3, <3>2, Zenon
  <2> QED
    BY <1>3, <2>2, <2>3, Zenon DEF FaceInv
<1>5. ASSUME NEW x \in 0 .. 2, ProcessFacePresence(x)
      PROVE  \/ ~second_person_fired' /\ FacePending'
             \/ second_person_fired' /\ \E i, k : FaceDone(i, k)'
  <2>1. CASE ~second_person_fired /\ FacePending
    <3>1. ~FaceIgnored
      BY <1>3, <2>1 DEF FaceIgnored
    <3> QED
      BY <1>2, <1>5, <2>1, <3>1, FacePendingStep
  <2>2. CASE second_person_fired /\ \E i, k : FaceDone(i, k)
    <3>1. /\ faceLog' = Append(faceLog, x)
          /\ second_person_fired' = second_person_fired
          /\ UNCHANGED outVars
      BY <1>5, <2>2, Zenon DEF ProcessFacePresence, FaceIgnored
    <3>2. PICK i, k : FaceDone(i, k)
      BY <2>2, Zenon
    <3>3. Untouched(RULE_SECOND_PERSON)
      BY <1>1, <3>1, SilentUntouched
    <3>4. FaceDone(i, k)'
      BY <1>2, <3>1, <3>2, <3>3, FaceDoneKept
    <3> QED
      BY <2>2, <3>1, <3>4, Zenon
  <2> QED
    BY <1>3, <2>1, <2>2, Zenon DEF FaceInv
<1> QED
  BY <1>4, <1>5, FaceElse, Zenon DEF FaceStep

(* The second-person flag is raised exactly when some run of confirmation  *)
(* frames has shown two faces: at the first such run, once per session,    *)
(* with exactly its frames, whatever the other paths do in between         *)
(* (process_face_presence).                                                *)
THEOREM SecondPersonIsExact == Spec => []SecondPersonExact
<1>1. TypeInv /\ FaceInv => SecondPersonExact
  <2> SUFFICES ASSUME FaceInv, Policy.terminate_on_second_face
               PROVE  SecondPersonExact
    BY Zenon DEF SecondPersonExact
  <2>1. CASE FacePending
    BY <2>1, Zenon DEF FacePending, SecondPersonExact
  <2>2. CASE \E i, k : FaceDone(i, k)
    BY <2>2, Zenon DEF FaceDone, SecondPersonExact
  <2> QED
    BY <2>1, <2>2, Zenon DEF FaceInv
<1> QED
  BY <1>1, FaceInit, FaceStepInv, TypeInvHolds, PTL DEF Spec

-----------------------------------------------------------------------------
(* A rolling window holds the newest results of its path. *)

(* w is the last size entries, or all, of the n entries of e.              *)
Tracks(w, e, n, size) ==
    /\ Len(w) = IF n < size THEN n ELSE size
    /\ \A i \in 1 .. Len(w) : w[i] = e[n - Len(w) + i]

(* A full window names the last size frames of its modality.               *)
LEMMA WindowFrames ==
    ASSUME NEW v, NEW size \in Nat1, NEW m \in Nat, NEW path, Len(v) = size,
           \A i \in 1 .. size : v[i].id = <<path, m - size + i>>
    PROVE  Ids(v) = FramesUpTo(path, size, m)
<1>1. ASSUME NEW q \in Ids(v) PROVE q \in FramesUpTo(path, size, m)
  <2>1. PICK i \in 1 .. size : q = v[i].id
    BY Zenon DEF Ids
  <2>2. m - size + i \in m - size + 1 .. m
    BY DEF Nat1
  <2> QED
    BY <2>1, <2>2, Zenon DEF FramesUpTo
<1>2. ASSUME NEW q \in FramesUpTo(path, size, m) PROVE q \in Ids(v)
  <2>1. PICK j \in m - size + 1 .. m : q = <<path, j>>
    BY Zenon DEF FramesUpTo
  <2>2. PICK i \in 1 .. size : m - size + i = j
    <3>1. j - (m - size) \in 1 .. size /\ m - size + (j - (m - size)) = j
      BY DEF Nat1
    <3> QED
      BY <3>1
  <2>3. q = v[i].id
    BY <2>1, <2>2
  <2> QED
    BY <2>3, Zenon DEF Ids
<1> QED
  BY <1>1, <1>2, Zenon

(* Sliding a window by one result keeps it the tail of the log.            *)
LEMMA SlideTracks ==
    ASSUME NEW T, NEW w \in Seq(T), NEW x \in T, NEW size \in Nat1,
           NEW n \in Nat, NEW e, Tracks(w, e, n, size),
           NEW f, \A j \in 1 .. n : f[j] = e[j], f[n + 1] = x
    PROVE  /\ Slide(w, x, size) \in Seq(T)
           /\ Tracks(Slide(w, x, size), f, n + 1, size)
<1>1. /\ Len(w) = IF n < size THEN n ELSE size
      /\ \A i \in 1 .. Len(w) : w[i] = e[n - Len(w) + i]
      /\ Len(w) \in Nat /\ size \in Nat /\ size > 0
  BY DEF Tracks, Nat1
<1>2. Len(w) =< size
  BY <1>1
<1>3. PICK v : v = Slide(w, x, size)
  OBVIOUS
<1>4. /\ v \in Seq(T)
      /\ Len(v) = IF Len(w) < size THEN Len(w) + 1 ELSE size
      /\ v[Len(v)] = x
      /\ \A i \in 1 .. Len(v) - 1 : v[i] = IF Len(w) < size THEN w[i] ELSE w[i + 1]
  <2>1. /\ Slide(w, x, size) \in Seq(T)
        /\ Len(Slide(w, x, size)) = IF Len(w) < size THEN Len(w) + 1 ELSE size
        /\ Slide(w, x, size)[Len(Slide(w, x, size))] = x
        /\ \A i \in 1 .. Len(Slide(w, x, size)) - 1 :
              Slide(w, x, size)[i] = IF Len(w) < size THEN w[i] ELSE w[i + 1]
    BY <1>2, SlideFacts
  <2> QED
    BY <1>3, <2>1, Zenon
<1>5. Len(v) = IF n + 1 < size THEN n + 1 ELSE size
  BY <1>1, <1>4
<1>6. ASSUME NEW i \in 1 .. Len(v) PROVE v[i] = f[n + 1 - Len(v) + i]
  <2>1. CASE i = Len(v)
    <3>1. n + 1 - Len(v) + i = n + 1
      BY <1>1, <1>5, <2>1
    <3> QED
      BY <1>4, <2>1, <3>1
  <2>2. CASE i < Len(v) /\ Len(w) < size
    <3>1. Len(v) = n + 1 /\ Len(w) = n
      BY <1>1, <1>4, <2>2
    <3>2. i \in 1 .. n /\ n + 1 - Len(v) + i = i /\ n - Len(w) + i = i
      BY <2>2, <3>1
    <3>3. v[i] = w[i]
      BY <1>4, <2>2, <3>1, <3>2
    <3> QED
      BY <1>1, <3>1, <3>2, <3>3
  <2>3. CASE i < Len(v) /\ ~(Len(w) < size)
    <3>1. Len(w) = size /\ Len(v) = size /\ n >= size
      BY <1>1, <1>2, <1>4, <2>3
    <3>2. /\ i \in 1 .. Len(v) - 1 /\ i + 1 \in 1 .. Len(w)
          /\ n - Len(w) + (i + 1) = n + 1 - Len(v) + i
          /\ n + 1 - Len(v) + i \in 1 .. n
      BY <1>1, <2>3, <3>1
    <3>3. v[i] = w[i + 1]
      BY <1>4, <2>3, <3>2
    <3>4. w[i + 1] = e[n + 1 - Len(v) + i]
      BY <1>1, <3>2
    <3> QED
      BY <3>2, <3>3, <3>4
  <2> QED
    BY <1>1, <1>4, <2>1, <2>2, <2>3
<1> QED
  BY <1>3, <1>4, <1>5, <1>6 DEF Tracks

-----------------------------------------------------------------------------
(* Path 5: the identity mismatch. *)

(* The results of the path with their ids.                                 *)
IdentityEntries ==
    [j \in 1 .. Len(identityLog) |->
        [matches |-> identityLog[j], id |-> <<"identity", j>>]]

(* Frame k completed the first window of mismatches, and flag i says so.   *)
IdentityDone(i, k) ==
    /\ i \in 1 .. Len(emitted)
    /\ k \in 1 .. Len(identityLog)
    /\ FlagsOf(RULE_IDENTITY_MISMATCH) = {i}
    /\ MismatchWindow(k)
    /\ \A j \in 1 .. k - 1 : ~MismatchWindow(j)
    /\ emitted[i].contributing_event_ids =
           FramesUpTo("identity", Policy.identity_confirmation_frames, k)
    /\ emitted[i].triggered_termination

(* Until then the deque holds the newest results.                          *)
IdentityPending ==
    /\ FlagsOf(RULE_IDENTITY_MISMATCH) = {}
    /\ \A k \in 1 .. Len(identityLog) : ~MismatchWindow(k)
    /\ Tracks(identity_window, IdentityEntries, Len(identityLog),
              Policy.identity_confirmation_frames)

IdentityInv ==
    \/ ~identity_mismatch_fired /\ IdentityPending
    \/ identity_mismatch_fired /\ \E i, k : IdentityDone(i, k)

(* A new result does not change which windows were mismatches.             *)
LEMMA MismatchWindowsKept ==
    ASSUME identityLog \in Seq(BOOLEAN), NEW x \in BOOLEAN,
           identityLog' = Append(identityLog, x), scenario' = scenario,
           PolicyFields, NEW k \in 1 .. Len(identityLog)
    PROVE  MismatchWindow(k)' <=> MismatchWindow(k)
<1> DEFINE size == Policy.identity_confirmation_frames
<1>1. size' = size /\ size \in Nat1
  BY DEF Policy, PolicyFields
<1>2. \A i \in 1 .. Len(identityLog) : identityLog'[i] = identityLog[i]
  BY AppendFacts
<1>3. MismatchWindow(k)' <=> k >= size /\ \A i \in k - size + 1 .. k : ~identityLog'[i]
  BY <1>1 DEF MismatchWindow
<1>4. MismatchWindow(k) <=> k >= size /\ \A i \in k - size + 1 .. k : ~identityLog[i]
  BY DEF MismatchWindow
<1> HIDE DEF size
<1>5. k >= size => \A i \in k - size + 1 .. k : identityLog'[i] = identityLog[i]
  BY <1>1, <1>2 DEF Nat1
<1> QED
  BY <1>3, <1>4, <1>5

(* Once fired, nothing undoes the identity flag.                           *)
LEMMA IdentityDoneKept ==
    ASSUME TypeInv, NEW i, NEW k, IdentityDone(i, k),
           Untouched(RULE_IDENTITY_MISMATCH), scenario' = scenario,
           \/ identityLog' = identityLog
           \/ \E x \in BOOLEAN : identityLog' = Append(identityLog, x)
    PROVE  IdentityDone(i, k)'
<1>1. /\ identityLog \in Seq(BOOLEAN) /\ PolicyFields /\ Len(identityLog) \in Nat
      /\ Len(emitted) \in Nat /\ Len(emitted') \in Nat
  BY TypeParts, PolicyTypes DEF TypeInv, IdentityType, OutType, Untouched
<1>2. Len(identityLog') >= Len(identityLog) /\ Len(identityLog') \in Nat
  BY <1>1, AppendFacts
<1>3. \A j \in 1 .. Len(identityLog) : MismatchWindow(j)' <=> MismatchWindow(j)
  <2>1. CASE identityLog' = identityLog
    BY <2>1 DEF MismatchWindow, Policy
  <2>2. CASE \E x \in BOOLEAN : identityLog' = Append(identityLog, x)
    BY <1>1, <2>2, MismatchWindowsKept
  <2> QED
    BY <2>1, <2>2
<1>4. /\ i \in 1 .. Len(emitted')
      /\ k \in 1 .. Len(identityLog')
      /\ emitted'[i] = emitted[i]
  BY <1>1, <1>2 DEF IdentityDone, Untouched
<1>5. FlagsOf(RULE_IDENTITY_MISMATCH)' = {i}
  BY DEF IdentityDone, Untouched
<1>6. MismatchWindow(k)' /\ \A j \in 1 .. k - 1 : ~MismatchWindow(j)'
  BY <1>1, <1>3 DEF IdentityDone
<1>7. FramesUpTo("identity", Policy.identity_confirmation_frames, k)' =
          FramesUpTo("identity", Policy.identity_confirmation_frames, k)
  BY DEF Policy
<1> QED
  BY <1>4, <1>5, <1>6, <1>7, Zenon DEF IdentityDone

(* Before the flag: an identity result leaves the rule pending or fires it *)
(* on the first window that is a mismatch.                                 *)
LEMMA IdentityPendingStep ==
    ASSUME TypeInv, IdentityPending, ~identity_mismatch_fired,
           NEW x \in BOOLEAN, ProcessIdentityMatch(x), scenario' = scenario
    PROVE  \/ ~identity_mismatch_fired' /\ IdentityPending'
           \/ identity_mismatch_fired' /\ \E i, k : IdentityDone(i, k)'
<1> DEFINE n == Len(identityLog)
           size == Policy.identity_confirmation_frames
           y == [matches |-> x, id |-> <<"identity", n + 1>>]
           w == Slide(identity_window, y, size)
           T == [matches : BOOLEAN, id : EventIds]
           d == Terminating(RULE_IDENTITY_MISMATCH, Ids(w))
<1>1. /\ IdentityType /\ OutType /\ PolicyFields /\ identityLog \in Seq(BOOLEAN)
      /\ identity_window \in Seq(T)
      /\ n \in Nat /\ size \in Nat1 /\ size' = size
  BY TypeParts, PolicyTypes DEF TypeInv, IdentityType, PolicyFields, Policy
<1>2. /\ identityLog' = Append(identityLog, x)
      /\ identity_window' = w
      /\ identity_mismatch_fired' = MismatchConfirmed(w)
      /\ IF MismatchConfirmed(w) THEN Emit(d) ELSE UNCHANGED outVars
  BY Zenon DEF ProcessIdentityMatch
<1>3. /\ Len(identityLog') = n + 1
      /\ \A i \in 1 .. n : identityLog'[i] = identityLog[i]
      /\ identityLog'[n + 1] = x
  BY <1>1, <1>2, AppendFacts
<1>4. \A k \in 1 .. n : ~MismatchWindow(k)'
  BY <1>1, <1>2, MismatchWindowsKept DEF IdentityPending
<1>5. PICK e : e = IdentityEntries
  OBVIOUS
<1>6. PICK f : f = IdentityEntries'
  OBVIOUS
<1>7. \A j \in 1 .. n + 1 :
         f[j] = [matches |-> identityLog'[j], id |-> <<"identity", j>>]
  BY <1>3, <1>6 DEF IdentityEntries
<1>8. \A j \in 1 .. n : f[j] = e[j]
  <2>1. \A j \in 1 .. n : e[j] = [matches |-> identityLog[j], id |-> <<"identity", j>>]
    BY <1>5 DEF IdentityEntries
  <2>2. \A j \in 1 .. n : j \in 1 .. n + 1
    BY <1>1
  <2> QED
    BY <1>3, <1>7, <2>1, <2>2, Zenon
<1>9. f[n + 1] = y
  <2>1. n + 1 \in 1 .. n + 1
    BY <1>1
  <2> QED
    BY <1>3, <1>7, <2>1, Zenon
<1>10. y \in T
  <2>1. <<"identity", n + 1>> \in EventIds
    BY <1>1, NextId DEF Paths
  <2> QED
    BY <2>1
<1>11. Tracks(identity_window, e, n, size)
  BY <1>5, Zenon DEF IdentityPending
<1>12. w \in Seq(T) /\ Tracks(w, f, n + 1, size)
  <2> HIDE DEF y, T, size, n
  <2> QED
    BY <1>1, <1>8, <1>9, <1>10, <1>11, SlideTracks
<1>13. PICK m \in Nat : m = n + 1
  BY <1>1
<1>14. PICK v \in Seq(T) : v = w
  BY <1>12
<1> HIDE DEF w, y, d
<1>15. /\ Len(v) = IF m < size THEN m ELSE size
       /\ Len(v) \in Nat
       /\ \A i \in 1 .. Len(v) : v[i] = f[m - Len(v) + i]
  <2>1. Tracks(v, f, m, size)
    BY <1>12, <1>13, <1>14, Zenon
  <2>2. Len(v) \in Nat
    OBVIOUS
  <2> QED
    BY <2>1, <2>2, Zenon DEF Tracks
<1>16. \A i \in 1 .. Len(v) :
          /\ v[i].matches = identityLog'[m - Len(v) + i]
          /\ v[i].id = <<"identity", m - Len(v) + i>>
  <2> SUFFICES ASSUME NEW i \in 1 .. Len(v)
               PROVE  /\ v[i].matches = identityLog'[m - Len(v) + i]
                      /\ v[i].id = <<"identity", m - Len(v) + i>>
    OBVIOUS
  <2>1. PICK j \in 1 .. n + 1 : j = m - Len(v) + i
    BY <1>1, <1>13, <1>15 DEF Nat1
  <2>2. v[i] = [matches |-> identityLog'[j], id |-> <<"identity", j>>]
    BY <1>7, <1>15, <2>1
  <2> QED
    BY <2>1, <2>2
<1>17. MismatchWindow(m)' <=> m >= size /\ \A j \in m - size + 1 .. m : ~identityLog'[j]
  BY <1>1 DEF MismatchWindow
<1>18. MismatchConfirmed(v) <=> MismatchWindow(m)'
  <2>1. Len(v) = size <=> m >= size
    BY <1>1, <1>13, <1>15 DEF Nat1
  <2>2. CASE Len(v) = size
    <3>1. ASSUME \A i \in 1 .. size : ~v[i].matches, NEW j \in m - size + 1 .. m
          PROVE  ~identityLog'[j]
      <4>1. j - (m - size) \in 1 .. size /\ m - size + (j - (m - size)) = j
        BY <1>1, SMTT(40) DEF Nat1
      <4>2. PICK i \in 1 .. size : m - size + i = j
        BY <4>1
      <4>3. v[i].matches = identityLog'[m - size + i]
        BY <1>16, <2>2, Zenon
      <4> QED
        BY <3>1, <4>2, <4>3, Zenon
    <3>2. ASSUME \A j \in m - size + 1 .. m : ~identityLog'[j], NEW i \in 1 .. size
          PROVE  ~v[i].matches
      <4>1. m - size + i \in m - size + 1 .. m
        BY <1>1, SMTT(40) DEF Nat1
      <4> QED
        BY <1>16, <2>2, <3>2, <4>1
    <3> QED
      BY <1>17, <2>1, <2>2, <3>1, <3>2, Zenon DEF MismatchConfirmed
  <2>3. CASE Len(v) # size
    BY <1>17, <2>1, <2>3 DEF MismatchConfirmed
  <2> QED
    BY <2>2, <2>3
<1>19. CASE MismatchConfirmed(v)
  <2>1. MismatchWindow(m)' /\ Len(v) = size
    BY <1>18, <1>19 DEF MismatchConfirmed
  <2>2. Ids(v) = FramesUpTo("identity", size, m)
    <3>1. \A i \in 1 .. size : v[i].id = <<"identity", m - size + i>>
      BY <1>16, <2>1
    <3> QED
      BY <1>1, <2>1, <3>1, WindowFrames
  <2>3. Ids(v) \in SUBSET EventIds
    BY IdentityIds
  <2>4. d \in FlagDecision
    BY <1>14, <2>3, DecisionTypes DEF Rules, d
  <2>5. /\ d.rule_code = RULE_IDENTITY_MISMATCH
        /\ d.contributing_event_ids = Ids(v)
        /\ d.triggered_termination
    BY <1>14 DEF Terminating, d
  <2>6. identity_mismatch_fired' /\ Emit(d)
    BY <1>2, <1>14, <1>19
  <2>7. /\ FlagsOf(RULE_IDENTITY_MISMATCH)' = {Len(emitted) + 1}
        /\ Len(emitted) + 1 \in 1 .. Len(emitted')
        /\ emitted'[Len(emitted) + 1] = d
    BY <1>1, <2>4, <2>5, <2>6, FirstFlag DEF IdentityPending
  <2>8. PICK i : i = Len(emitted) + 1
    OBVIOUS
  <2>9. FramesUpTo("identity", Policy.identity_confirmation_frames, m)'
            = FramesUpTo("identity", size, m)
    BY <1>1 DEF FramesUpTo
  <2>10. /\ emitted'[i].contributing_event_ids =
               FramesUpTo("identity", Policy.identity_confirmation_frames, m)'
         /\ emitted'[i].triggered_termination
         /\ FlagsOf(RULE_IDENTITY_MISMATCH)' = {i}
         /\ i \in 1 .. Len(emitted')
    BY <2>2, <2>5, <2>7, <2>8, <2>9, Zenon
  <2>11. /\ m \in 1 .. Len(identityLog')
         /\ \A j \in 1 .. m - 1 : ~MismatchWindow(j)'
    BY <1>1, <1>3, <1>4, <1>13
  <2>12. IdentityDone(i, m)'
    BY <2>1, <2>10, <2>11, Zenon DEF IdentityDone
  <2> QED
    BY <2>6, <2>12, Zenon
<1>20. CASE ~MismatchConfirmed(v)
  <2>1. ~identity_mismatch_fired' /\ UNCHANGED outVars
    BY <1>2, <1>14, <1>20
  <2>2. FlagsOf(RULE_IDENTITY_MISMATCH)' = {}
    BY <1>1, <2>1, SilentUntouched DEF Untouched, IdentityPending
  <2>3. \A k \in 1 .. Len(identityLog') : ~MismatchWindow(k)'
    <3>1. \A k \in 1 .. Len(identityLog') : k \in 1 .. n \/ k = m
      BY <1>1, <1>3, <1>13
    <3> QED
      BY <1>4, <1>18, <1>20, <3>1
  <2>4. Tracks(identity_window', IdentityEntries', Len(identityLog'), size')
    <3>1. Tracks(w, f, n + 1, size)
      BY <1>12
    <3> QED
      BY <1>1, <1>2, <1>3, <1>6, <3>1, Zenon
  <2>5. IdentityPending'
    BY <2>2, <2>3, <2>4, Zenon DEF IdentityPending, Tracks
  <2> QED
    BY <2>1, <2>5, Zenon
<1> QED
  BY <1>19, <1>20

(* No identity result yet.                                                 *)
LEMMA IdentityInit == Init => IdentityInv
<1> SUFFICES ASSUME Init PROVE IdentityPending
  BY DEF IdentityInv, Init
<1>1. PolicyFields
  BY PolicyTypes DEF Init
<1>2. Len(identityLog) = 0 /\ Len(emitted) = 0 /\ Len(identity_window) = 0
  BY DEF Init
<1> QED
  BY <1>1, <1>2 DEF IdentityPending, Tracks, FlagsOf, PolicyFields, Nat1

(* Every step keeps IdentityInv.                                           *)
LEMMA IdentityStepInv ==
    ASSUME TypeInv, IdentityInv, [Next]_vars
    PROVE  IdentityInv'
<1>1. OutType /\ PolicyFields
  BY TypeParts, PolicyTypes DEF TypeInv
<1>2. scenario' = scenario
  BY StepOutcome
<1>3. SUFFICES \/ ~identity_mismatch_fired' /\ IdentityPending'
               \/ identity_mismatch_fired' /\ \E i, k : IdentityDone(i, k)'
  BY Zenon DEF IdentityInv
<1>4. CASE UNCHANGED identityVars /\ Untouched(RULE_IDENTITY_MISMATCH)
  <2>1. /\ identityLog' = identityLog
        /\ identity_window' = identity_window
        /\ identity_mismatch_fired' = identity_mismatch_fired
    BY <1>4 DEF identityVars
  <2>2. CASE ~identity_mismatch_fired /\ IdentityPending
    <3>1. \A k : MismatchWindow(k)' <=> MismatchWindow(k)
      BY <1>2, <2>1 DEF MismatchWindow, Policy
    <3>2. FlagsOf(RULE_IDENTITY_MISMATCH)' = {}
      BY <1>4, <2>2 DEF IdentityPending, Untouched
    <3>3. IdentityEntries' = IdentityEntries
      BY <2>1 DEF IdentityEntries
    <3>4. Tracks(identity_window', IdentityEntries', Len(identityLog'),
                 Policy'.identity_confirmation_frames)
      BY <1>2, <2>1, <2>2, <3>3 DEF IdentityPending, Policy
    <3>5. IdentityPending'
      BY <2>1, <2>2, <3>1, <3>2, <3>4, Zenon DEF IdentityPending, Tracks
    <3> QED
      BY <2>1, <2>2, <3>5, Zenon
  <2>3. CASE identity_mismatch_fired /\ \E i, k : IdentityDone(i, k)
    <3>1. PICK i, k : IdentityDone(i, k)
      BY <2>3, Zenon
    <3>2. IdentityDone(i, k)'
      BY <1>2, <1>4, <2>1, <3>1, IdentityDoneKept
    <3> QED
      BY <2>1, <2>3, <3>2, Zenon
  <2> QED
    BY <2>2, <2>3, Zenon DEF IdentityInv
<1>5. ASSUME NEW x \in BOOLEAN, ProcessIdentityMatch(x)
      PROVE  \/ ~identity_mismatch_fired' /\ IdentityPending'
             \/ identity_mismatch_fired' /\ \E i, k : IdentityDone(i, k)'
  <2>1. CASE ~identity_mismatch_fired /\ IdentityPending
    BY <1>2, <1>5, <2>1, IdentityPendingStep
  <2>2. CASE identity_mismatch_fired /\ \E i, k : IdentityDone(i, k)
    <3>1. /\ identityLog' = Append(identityLog, x)
          /\ identity_mismatch_fired' = identity_mismatch_fired
          /\ UNCHANGED outVars
      BY <1>5, <2>2, Zenon DEF ProcessIdentityMatch
    <3>2. PICK i, k : IdentityDone(i, k)
      BY <2>2, Zenon
    <3>3. Untouched(RULE_IDENTITY_MISMATCH)
      BY <1>1, <3>1, SilentUntouched
    <3>4. IdentityDone(i, k)'
      BY <1>2, <3>1, <3>2, <3>3, IdentityDoneKept
    <3> QED
      BY <2>2, <3>1, <3>4, Zenon
  <2> QED
    BY <2>1, <2>2, Zenon DEF IdentityInv
<1> QED
  BY <1>4, <1>5, IdentityElse, Zenon DEF IdentityStep

(* The identity-mismatch flag is raised exactly when some run of           *)
(* confirmation frames has failed the similarity threshold: at the first   *)
(* such run, once, with exactly its frames (process_identity_match).       *)
THEOREM IdentityMismatchIsExact == Spec => []IdentityMismatchExact
<1>1. IdentityInv => IdentityMismatchExact
  <2> SUFFICES ASSUME IdentityInv PROVE IdentityMismatchExact
    OBVIOUS
  <2>1. CASE IdentityPending
    BY <2>1, Zenon DEF IdentityPending, IdentityMismatchExact
  <2>2. CASE \E i, k : IdentityDone(i, k)
    BY <2>2, Zenon DEF IdentityDone, IdentityMismatchExact
  <2> QED
    BY <2>1, <2>2, Zenon DEF IdentityInv
<1> QED
  BY <1>1, IdentityInit, IdentityStepInv, TypeInvHolds, PTL DEF Spec

-----------------------------------------------------------------------------
(* Path 4: liveness. *)

(* One more flag of a rule.                                                *)
OneMoreFlag(rule, ids) ==
    /\ FlagsOf(rule)' = FlagsOf(rule) \cup {Len(emitted) + 1}
    /\ \A i \in 1 .. Len(emitted) : emitted'[i] = emitted[i]
    /\ emitted'[Len(emitted) + 1].contributing_event_ids = ids

(* A terminating flag is one more flag of its rule.                        *)
LEMMA EmitOneMore ==
    ASSUME OutType, NEW d \in FlagDecision, Emit(d)
    PROVE  OneMoreFlag(d.rule_code, d.contributing_event_ids)
<1>1. /\ Len(emitted) \in Nat
      /\ Len(emitted') = Len(emitted) + 1
      /\ \A i \in 1 .. Len(emitted) : emitted'[i] = emitted[i]
      /\ emitted'[Len(emitted) + 1] = d
  BY EmitFacts DEF OutType
<1>2. FlagsOf(d.rule_code)' =
          {i \in 1 .. Len(emitted') : emitted'[i].rule_code = d.rule_code}
  BY DEF FlagsOf
<1>3. \A i : i \in 1 .. Len(emitted') <=> i \in 1 .. Len(emitted) \/ i = Len(emitted) + 1
  BY <1>1
<1>4. FlagsOf(d.rule_code)' = FlagsOf(d.rule_code) \cup {Len(emitted) + 1}
  BY <1>1, <1>2, <1>3 DEF FlagsOf
<1> QED
  BY <1>1, <1>4, Zenon DEF OneMoreFlag

(* So is a scored one, whether or not it crosses the threshold.            *)
LEMMA AccumulateOneMore ==
    ASSUME OutType, PolicyFields, NEW rule \in ScoredRules,
           NEW ids \in SUBSET EventIds, Accumulate(rule, ids)
    PROVE  OneMoreFlag(rule, ids)
<1>1. /\ Len(emitted) \in Nat
      /\ \A i \in 1 .. Len(emitted) : emitted'[i] = emitted[i]
      /\ emitted'[Len(emitted) + 1] = Medium(rule, ids, WeightFor(rule))
      /\ ~Over(accumulated_score') => Len(emitted') = Len(emitted) + 1
      /\ Over(accumulated_score') =>
            /\ Len(emitted') = Len(emitted) + 2
            /\ IsThresholdFlag(emitted'[Len(emitted) + 2], ids)
  BY AccumulateFacts DEF OutType
<1>2. FlagsOf(rule)' = {i \in 1 .. Len(emitted') : emitted'[i].rule_code = rule}
  BY DEF FlagsOf
<1>3. /\ emitted'[Len(emitted) + 1].rule_code = rule
      /\ emitted'[Len(emitted) + 1].contributing_event_ids = ids
  BY <1>1 DEF Medium
<1>4. Over(accumulated_score') => emitted'[Len(emitted) + 2].rule_code # rule
  BY <1>1, RulesDiffer, Zenon DEF IsThresholdFlag
<1>5. /\ \A i \in 1 .. Len(emitted') :
            \/ i \in 1 .. Len(emitted)
            \/ i = Len(emitted) + 1
            \/ i = Len(emitted) + 2 /\ Over(accumulated_score')
      /\ \A i \in 1 .. Len(emitted) : i \in 1 .. Len(emitted')
      /\ Len(emitted) + 1 \in 1 .. Len(emitted')
  BY <1>1
<1>6. FlagsOf(rule)' = FlagsOf(rule) \cup {Len(emitted) + 1}
  BY <1>1, <1>2, <1>3, <1>4, <1>5 DEF FlagsOf
<1> QED
  BY <1>1, <1>3, <1>6, Zenon DEF OneMoreFlag

(* The results of the path with their ids.                                 *)
LivenessEntries ==
    [j \in 1 .. Len(livenessLog) |->
        [is_real |-> livenessLog[j], id |-> <<"liveness", j>>]]

(* The deque holds the newest results, the counter the length of the spoof *)
(* streak that ends now, and the flags are the ones due so far.            *)
LivenessInv ==
    /\ Tracks(liveness_window, LivenessEntries, Len(livenessLog),
              Policy.liveness_confirmation_frames)
    /\ liveness_spoof_run_length =< Len(livenessLog)
    /\ SpoofRun(Len(livenessLog), liveness_spoof_run_length)
    /\ LivenessExact

(* A streak has one length.                                                *)
LEMMA SpoofRunUnique ==
    ASSUME NEW log, NEW k \in Nat, NEW r \in 0 .. k, NEW q \in 0 .. k,
           \A i \in k - r + 1 .. k : ~log[i], r < k => log[k - r],
           \A i \in k - q + 1 .. k : ~log[i], q < k => log[k - q]
    PROVE  r = q
<1>1. CASE r < q
  <2>1. r < k /\ k - r \in k - q + 1 .. k
    BY <1>1
  <2> QED
    BY <2>1
<1>2. CASE q < r
  <2>1. q < k /\ k - q \in k - r + 1 .. k
    BY <1>2
  <2> QED
    BY <2>1
<1> QED
  BY <1>1, <1>2

(* A positive multiple of the window size is at least the window size.     *)
LEMMA MultipleAtLeast ==
    ASSUME NEW r \in Nat, NEW size \in Nat1, r >= 1, r % size = 0
    PROVE  r >= size
  BY SMT DEF Nat1

(* A new result does not change which windows of spoofs were complete.     *)
LEMMA SpoofRunsKept ==
    ASSUME livenessLog \in Seq(BOOLEAN), NEW x \in BOOLEAN,
           livenessLog' = Append(livenessLog, x), scenario' = scenario,
           NEW k \in 1 .. Len(livenessLog)
    PROVE  SpoofWindowCompleted(k)' <=> SpoofWindowCompleted(k)
<1>1. \A i \in 1 .. Len(livenessLog) : livenessLog'[i] = livenessLog[i]
  BY AppendFacts
<1>2. ASSUME NEW r \in 1 .. k PROVE SpoofRun(k, r)' <=> SpoofRun(k, r)
  <2>1. SpoofRun(k, r)' <=> /\ \A i \in k - r + 1 .. k : ~livenessLog'[i]
                            /\ r < k => livenessLog'[k - r]
    BY DEF SpoofRun
  <2>2. /\ \A i \in k - r + 1 .. k : i \in 1 .. Len(livenessLog)
        /\ r < k => k - r \in 1 .. Len(livenessLog)
    OBVIOUS
  <2> QED
    BY <1>1, <2>1, <2>2 DEF SpoofRun
<1> QED
  BY <1>2, Zenon DEF SpoofWindowCompleted, Policy

(* The windows of two frames differ.                                       *)
LEMMA FramesDiffer ==
    ASSUME NEW path, NEW size \in Nat1, NEW k \in Nat, NEW m \in Nat, k < m
    PROVE  FramesUpTo(path, size, k) # FramesUpTo(path, size, m)
<1>1. m \in m - size + 1 .. m /\ m \notin k - size + 1 .. k
  BY DEF Nat1
<1>2. <<path, m>> \in FramesUpTo(path, size, m)
  BY <1>1, Zenon DEF FramesUpTo
<1>3. <<path, m>> \notin FramesUpTo(path, size, k)
  BY <1>1 DEF FramesUpTo
<1> QED
  BY <1>2, <1>3

(* The frames at which a liveness flag is due.                             *)
LivenessDue == {k \in 1 .. Len(livenessLog) : SpoofWindowCompleted(k)}

(* A due frame that raised no flag, or a flag for a due frame, keeps the   *)
(* flags exact.                                                            *)
LEMMA LivenessFlagAdded ==
    ASSUME OutType, PolicyFields, LivenessExact, scenario' = scenario,
           NEW m \in Nat, \A k \in LivenessDue : k \in Nat /\ k < m,
           LivenessDue' = LivenessDue \cup {m},
           OneMoreFlag(RULE_LIVENESS_CHECK_FAILED,
                       FramesUpTo("liveness", Policy.liveness_confirmation_frames, m))
    PROVE  LivenessExact'
<1> DEFINE size == Policy.liveness_confirmation_frames
           F == FlagsOf(RULE_LIVENESS_CHECK_FAILED)
           new == Len(emitted) + 1
           Fr(k) == FramesUpTo("liveness", size, k)
<1>1. size' = size /\ size \in Nat1 /\ Len(emitted) \in Nat
  BY DEF Policy, PolicyFields, OutType
<1>2. /\ F' = F \cup {new}
      /\ \A i \in 1 .. Len(emitted) : emitted'[i] = emitted[i]
      /\ emitted'[new].contributing_event_ids = Fr(m)
  BY Zenon DEF OneMoreFlag
<1>3. \A i \in F : i \in 1 .. Len(emitted)
  BY DEF FlagsOf
<1>4. new \notin F
  BY <1>1, <1>3
<1>5. \A i \in F : emitted'[i] = emitted[i]
  BY <1>2, <1>3
<1>6. \A k \in LivenessDue : Fr(k) # Fr(m)
  BY <1>1, FramesDiffer
<1>7. /\ {emitted[i].contributing_event_ids : i \in F} = {Fr(k) : k \in LivenessDue}
      /\ \A i, j \in F : emitted[i].contributing_event_ids =
                             emitted[j].contributing_event_ids => i = j
  BY Zenon DEF LivenessExact, LivenessDue
<1>8. \A i \in F : emitted[i].contributing_event_ids # Fr(m)
  BY <1>6, <1>7, Zenon
<1> HIDE DEF size, F, new, Fr
<1>9. {emitted'[i].contributing_event_ids : i \in F'} = {Fr(k) : k \in LivenessDue'}
  <2>1. ASSUME NEW q \in {emitted'[i].contributing_event_ids : i \in F'}
        PROVE  q \in {Fr(k) : k \in LivenessDue'}
    <3>1. PICK i \in F' : q = emitted'[i].contributing_event_ids
      BY Zenon
    <3>2. CASE i = new
      BY <1>2, <3>1, <3>2, Zenon
    <3>3. CASE i \in F
      <4>1. q \in {Fr(k) : k \in LivenessDue}
        BY <1>5, <1>7, <3>1, <3>3, Zenon
      <4> QED
        BY <4>1, Zenon
    <3> QED
      BY <1>2, <3>1, <3>2, <3>3, Zenon
  <2>2. ASSUME NEW q \in {Fr(k) : k \in LivenessDue'}
        PROVE  q \in {emitted'[i].contributing_event_ids : i \in F'}
    <3>1. PICK k \in LivenessDue' : q = Fr(k)
      BY Zenon
    <3>2. CASE k = m
      BY <1>2, <3>1, <3>2, Zenon
    <3>3. CASE k \in LivenessDue
      <4>1. PICK i \in F : q = emitted[i].contributing_event_ids
        BY <1>7, <3>1, <3>3, Zenon
      <4> QED
        BY <1>2, <1>5, <4>1, Zenon
    <3> QED
      BY <3>1, <3>2, <3>3, Zenon
  <2> QED
    BY <2>1, <2>2, Zenon
<1>10. \A i, j \in F' : emitted'[i].contributing_event_ids =
                           emitted'[j].contributing_event_ids => i = j
  BY <1>2, <1>5, <1>7, <1>8, SMT
<1>11. \A k : Fr(k) = FramesUpTo("liveness", Policy'.liveness_confirmation_frames, k)
  BY <1>1 DEF Fr, size
<1>12. {Fr(k) : k \in LivenessDue'} =
          {FramesUpTo("liveness", Policy'.liveness_confirmation_frames, k) : k \in LivenessDue'}
  BY <1>11, Zenon
<1> QED
  BY <1>9, <1>10, <1>12, Zenon DEF LivenessExact, LivenessDue, F

(* Nothing due and nothing raised.                                         *)
LEMMA LivenessFlagsKept ==
    ASSUME OutType, LivenessExact, scenario' = scenario,
           LivenessDue' = LivenessDue, Untouched(RULE_LIVENESS_CHECK_FAILED)
    PROVE  LivenessExact'
<1> DEFINE F == FlagsOf(RULE_LIVENESS_CHECK_FAILED)
           Fr(k) == FramesUpTo("liveness", Policy.liveness_confirmation_frames, k)
<1>1. F' = F /\ \A i \in F : emitted'[i] = emitted[i]
  BY DEF Untouched, FlagsOf
<1>2. /\ {emitted[i].contributing_event_ids : i \in F} = {Fr(k) : k \in LivenessDue}
      /\ \A i, j \in F : emitted[i].contributing_event_ids =
                             emitted[j].contributing_event_ids => i = j
  BY Zenon DEF LivenessExact, LivenessDue
<1>3. \A k : Fr(k) = FramesUpTo("liveness", Policy'.liveness_confirmation_frames, k)
  BY DEF Policy
<1> HIDE DEF F, Fr
<1>4. {emitted'[i].contributing_event_ids : i \in F'} =
         {emitted[i].contributing_event_ids : i \in F}
  BY <1>1, Zenon
<1>5. {Fr(k) : k \in LivenessDue'} =
          {FramesUpTo("liveness", Policy'.liveness_confirmation_frames, k) : k \in LivenessDue'}
  BY <1>3, Zenon
<1>6. {Fr(k) : k \in LivenessDue'} = {Fr(k) : k \in LivenessDue}
  BY Zenon
<1>7. \A i, j \in F' : emitted'[i].contributing_event_ids =
                           emitted'[j].contributing_event_ids => i = j
  BY <1>1, <1>2, SMT
<1> QED
  BY <1>2, <1>4, <1>5, <1>6, <1>7, Zenon DEF LivenessExact, LivenessDue, F

(* Either no frame became due and nothing was raised, or one did and its   *)
(* flag was raised as the policy's action says.                            *)
LivenessOutcome ==
    \/ LivenessDue' = LivenessDue /\ UNCHANGED outVars
    \/ \E m, ids :
          /\ m \notin LivenessDue
          /\ LivenessDue' = LivenessDue \cup {m}
          /\ ids \in SUBSET EventIds
          /\ \/ /\ Policy.liveness_check_action = "critical_terminate"
                /\ Emit(Terminating(RULE_LIVENESS_CHECK_FAILED, ids))
             \/ /\ Policy.liveness_check_action = "medium_accumulate"
                /\ Accumulate(RULE_LIVENESS_CHECK_FAILED, ids)

(* A liveness result emits exactly when a window of spoofs completes.      *)
LEMMA LivenessActionStep ==
    ASSUME TypeInv, LivenessInv, NEW x \in BOOLEAN, ProcessLiveness(x),
           scenario' = scenario
    PROVE  LivenessInv' /\ LivenessOutcome
<1> DEFINE n == Len(livenessLog)
           size == Policy.liveness_confirmation_frames
           y == [is_real |-> x, id |-> <<"liveness", n + 1>>]
           w == Slide(liveness_window, y, size)
           T == [is_real : BOOLEAN, id : EventIds]
           r == IF x THEN 0 ELSE liveness_spoof_run_length + 1
           R == RULE_LIVENESS_CHECK_FAILED
<1>1. /\ LivenessType /\ OutType /\ PolicyFields /\ livenessLog \in Seq(BOOLEAN)
      /\ liveness_window \in Seq(T)
      /\ n \in Nat /\ size \in Nat1 /\ size' = size
      /\ liveness_spoof_run_length \in 0 .. n
  BY TypeParts, PolicyTypes DEF TypeInv, LivenessType, PolicyFields, Policy, LivenessInv
<1>2. /\ livenessLog' = Append(livenessLog, x)
      /\ liveness_window' = w
      /\ liveness_spoof_run_length' = r
      /\ \/ (x \/ ~SpoofConfirmed(w, r)) /\ UNCHANGED outVars
         \/ /\ ~x /\ SpoofConfirmed(w, r)
            /\ \/ /\ Policy.liveness_check_action = "critical_terminate"
                  /\ Emit(Terminating(R, Ids(w)))
               \/ /\ Policy.liveness_check_action = "medium_accumulate"
                  /\ Accumulate(R, Ids(w))
  BY Zenon DEF ProcessLiveness
<1>3. /\ Len(livenessLog') = n + 1
      /\ \A i \in 1 .. n : livenessLog'[i] = livenessLog[i]
      /\ livenessLog'[n + 1] = x
  BY <1>1, <1>2, AppendFacts
<1>5. PICK e : e = LivenessEntries
  OBVIOUS
<1>6. PICK f : f = LivenessEntries'
  OBVIOUS
<1>7. \A j \in 1 .. n + 1 :
         f[j] = [is_real |-> livenessLog'[j], id |-> <<"liveness", j>>]
  BY <1>3, <1>6 DEF LivenessEntries
<1>8. \A j \in 1 .. n : f[j] = e[j]
  <2>1. \A j \in 1 .. n : e[j] = [is_real |-> livenessLog[j], id |-> <<"liveness", j>>]
    BY <1>5 DEF LivenessEntries
  <2>2. \A j \in 1 .. n : j \in 1 .. n + 1
    BY <1>1
  <2> QED
    BY <1>3, <1>7, <2>1, <2>2, Zenon
<1>9. f[n + 1] = y
  <2>1. n + 1 \in 1 .. n + 1
    BY <1>1
  <2> QED
    BY <1>3, <1>7, <2>1, Zenon
<1>10. y \in T
  <2>1. <<"liveness", n + 1>> \in EventIds
    BY <1>1, NextId DEF Paths
  <2> QED
    BY <2>1
<1>11. Tracks(liveness_window, e, n, size)
  BY <1>5, Zenon DEF LivenessInv
<1>12. w \in Seq(T) /\ Tracks(w, f, n + 1, size)
  <2> HIDE DEF y, T, size, n
  <2> QED
    BY <1>1, <1>8, <1>9, <1>10, <1>11, SlideTracks
<1>13. PICK m \in Nat : m = n + 1
  BY <1>1
<1>14. PICK v \in Seq(T) : v = w
  BY <1>12
<1>15. PICK q \in 0 .. m : q = r
  BY <1>1, <1>13
<1>16. /\ Len(v) = IF m < size THEN m ELSE size
       /\ Len(v) \in Nat
       /\ \A i \in 1 .. Len(v) : v[i] = f[m - Len(v) + i]
  <2> HIDE DEF w, y, r
  <2>1. Tracks(v, f, m, size)
    BY <1>12, <1>13, <1>14, Zenon
  <2>2. Len(v) \in Nat
    OBVIOUS
  <2> QED
    BY <2>1, <2>2, Zenon DEF Tracks
<1>17. \A i \in 1 .. Len(v) :
          /\ v[i].is_real = livenessLog'[m - Len(v) + i]
          /\ v[i].id = <<"liveness", m - Len(v) + i>>
  <2> HIDE DEF w, y, r
  <2> SUFFICES ASSUME NEW i \in 1 .. Len(v)
               PROVE  /\ v[i].is_real = livenessLog'[m - Len(v) + i]
                      /\ v[i].id = <<"liveness", m - Len(v) + i>>
    OBVIOUS
  <2>1. PICK j \in 1 .. n + 1 : j = m - Len(v) + i
    BY <1>1, <1>13, <1>16 DEF Nat1
  <2>2. v[i] = [is_real |-> livenessLog'[j], id |-> <<"liveness", j>>]
    BY <1>7, <1>16, <2>1
  <2> QED
    BY <2>1, <2>2
<1>18. SpoofRun(m, q)'
  <2>1. SpoofRun(m, q)' <=> /\ \A i \in m - q + 1 .. m : ~livenessLog'[i]
                            /\ q < m => livenessLog'[m - q]
    BY DEF SpoofRun
  <2>2. CASE x
    <3>1. q = 0
      BY <1>15, <2>2, Zenon
    <3>2. m - q = n + 1 /\ \A i \in m - q + 1 .. m : FALSE
      BY <1>1, <1>13, <3>1
    <3>3. livenessLog'[m - q]
      BY <1>3, <2>2, <3>2, Zenon
    <3> QED
      BY <2>1, <3>2, <3>3, Zenon
  <2>3. CASE ~x
    <3>1. PICK p \in 0 .. n : p = liveness_spoof_run_length
      BY <1>1
    <3>2. q = p + 1
      BY <1>15, <2>3, <3>1
    <3>3. /\ \A i \in n - p + 1 .. n : ~livenessLog[i]
          /\ p < n => livenessLog[n - p]
      BY <3>1 DEF LivenessInv, SpoofRun
    <3>4. ASSUME NEW i \in m - q + 1 .. m PROVE ~livenessLog'[i]
      <4>1. CASE i = n + 1
        BY <1>3, <2>3, <4>1
      <4>2. CASE i # n + 1
        <5>1. i \in n - p + 1 .. n /\ i \in 1 .. n
          BY <1>1, <1>13, <3>1, <3>2, <4>2
        <5> QED
          BY <1>3, <3>3, <5>1
      <4> QED
        BY <4>1, <4>2
    <3>5. q < m => livenessLog'[m - q]
      <4>1. q < m => p < n /\ m - q = n - p /\ n - p \in 1 .. n
        BY <1>1, <1>13, <3>1, <3>2
      <4> QED
        BY <1>3, <3>3, <4>1
    <3> QED
      BY <2>1, <3>4, <3>5
  <2> QED
    BY <2>2, <2>3
<1>19. SpoofWindowCompleted(m)' <=> q >= 1 /\ q % size = 0
  <2>1. SpoofWindowCompleted(m)' <=>
           \E p \in 1 .. m : SpoofRun(m, p)' /\ p % size = 0
    BY <1>1, Zenon DEF SpoofWindowCompleted
  <2>2. ASSUME NEW p \in 1 .. m, SpoofRun(m, p)' PROVE p = q
    <3>1. p \in 0 .. m
      OBVIOUS
    <3> QED
      BY <1>18, <2>2, <3>1, SpoofRunUnique DEF SpoofRun
  <2>3. q >= 1 => q \in 1 .. m
    BY <1>15
  <2>4. \A p \in 1 .. m : p >= 1
    OBVIOUS
  <2> QED
    BY <1>18, <2>1, <2>2, <2>3, <2>4, Zenon
<1>20. ~x /\ SpoofConfirmed(v, q) <=> SpoofWindowCompleted(m)'
  <2>1. q >= 1 <=> ~x
    BY <1>1, <1>15
  <2>2. SpoofConfirmed(v, q) => q % size = 0
    BY Zenon DEF SpoofConfirmed
  <2>3. ASSUME q >= 1, q % size = 0 PROVE SpoofConfirmed(v, q)
    <3>1. q >= size
      BY <1>1, <2>3, MultipleAtLeast
    <3>2. Len(v) = size
      BY <1>1, <1>16, <3>1 DEF Nat1
    <3>3. ASSUME NEW i \in 1 .. Len(v) PROVE ~v[i].is_real
      <4>1. m - Len(v) + i \in m - q + 1 .. m
        BY <1>1, <1>16, <3>1, <3>2 DEF Nat1
      <4>2. ~livenessLog'[m - Len(v) + i]
        BY <1>18, <4>1 DEF SpoofRun
      <4> QED
        BY <1>17, <4>2
    <3> QED
      BY <2>3, <3>2, <3>3, Zenon DEF SpoofConfirmed
  <2> QED
    BY <1>19, <2>1, <2>2, <2>3, Zenon
<1>21. LivenessDue' = IF SpoofWindowCompleted(m)' THEN LivenessDue \cup {m} ELSE LivenessDue
  <2>1. \A k \in 1 .. n : SpoofWindowCompleted(k)' <=> SpoofWindowCompleted(k)
    BY <1>1, <1>2, SpoofRunsKept
  <2>2. \A k : k \in 1 .. Len(livenessLog') <=> k \in 1 .. n \/ k = m
    BY <1>1, <1>3, <1>13
  <2>3. LivenessDue' = {k \in 1 .. Len(livenessLog') : SpoofWindowCompleted(k)'}
    BY Zenon DEF LivenessDue
  <2>4. \A k : k \in LivenessDue' <=>
                  \/ k \in LivenessDue
                  \/ (k = m /\ SpoofWindowCompleted(m)')
    BY <2>1, <2>2, <2>3, Zenon DEF LivenessDue
  <2> QED
    BY <2>4, Zenon
<1>22. \A k \in LivenessDue : k \in Nat /\ k < m
  BY <1>1, <1>13 DEF LivenessDue
<1>23. LivenessExact /\ liveness_spoof_run_length' = q /\ Len(livenessLog') = m
  BY <1>2, <1>3, <1>13, <1>15, Zenon DEF LivenessInv
<1>24. LivenessExact' /\ LivenessOutcome
  <2> HIDE DEF w, y, r
  <2>1. CASE SpoofWindowCompleted(m)'
    <3>1. ~x /\ SpoofConfirmed(w, r)
      BY <1>14, <1>15, <1>20, <2>1, Zenon
    <3>2. Len(v) = size
      BY <1>14, <1>15, <3>1, Zenon DEF SpoofConfirmed
    <3>3. Ids(v) = FramesUpTo("liveness", size, m)
      <4>1. \A i \in 1 .. size : v[i].id = <<"liveness", m - size + i>>
        BY <1>17, <3>2
      <4> QED
        BY <1>1, <3>2, <4>1, WindowFrames
    <3>4. Ids(v) \in SUBSET EventIds
      BY LivenessIds
    <3>5. \/ /\ Policy.liveness_check_action = "critical_terminate"
             /\ Emit(Terminating(R, Ids(v)))
          \/ /\ Policy.liveness_check_action = "medium_accumulate"
             /\ Accumulate(R, Ids(v))
      BY <1>2, <1>14, <3>1, Zenon
    <3>6. OneMoreFlag(R, Ids(v))
      <4>1. CASE Emit(Terminating(R, Ids(v)))
        <5>1. Terminating(R, Ids(v)) \in FlagDecision
          BY <3>4, DecisionTypes DEF Rules, ScoredRules
        <5>2. /\ Terminating(R, Ids(v)).rule_code = R
              /\ Terminating(R, Ids(v)).contributing_event_ids = Ids(v)
          BY DEF Terminating
        <5>3. OneMoreFlag(Terminating(R, Ids(v)).rule_code,
                          Terminating(R, Ids(v)).contributing_event_ids)
          BY <1>1, <4>1, <5>1, EmitOneMore
        <5> QED
          BY <5>2, <5>3, Zenon
      <4>2. CASE Accumulate(R, Ids(v))
        <5>1. R \in ScoredRules
          BY DEF ScoredRules
        <5> QED
          BY <1>1, <3>4, <4>2, <5>1, AccumulateOneMore
      <4> QED
        BY <3>5, <4>1, <4>2
    <3>7. m \notin LivenessDue
      BY <1>22
    <3>8. LivenessOutcome
      BY <1>21, <2>1, <3>4, <3>5, <3>7, Zenon DEF LivenessOutcome
    <3> QED
      BY <1>1, <1>21, <1>22, <1>23, <2>1, <3>3, <3>6, <3>8, LivenessFlagAdded
  <2>2. CASE ~SpoofWindowCompleted(m)'
    <3>1. UNCHANGED outVars
      BY <1>2, <1>14, <1>15, <1>20, <2>2, Zenon
    <3>2. LivenessOutcome
      BY <1>21, <2>2, <3>1, Zenon DEF LivenessOutcome
    <3> QED
      BY <1>1, <1>21, <1>23, <2>2, <3>1, <3>2, SilentUntouched, LivenessFlagsKept
  <2> QED
    BY <2>1, <2>2
<1>25. Tracks(liveness_window', LivenessEntries', Len(livenessLog'), size')
  <2> HIDE DEF w, y, r
  <2> QED
    BY <1>1, <1>2, <1>3, <1>6, <1>12, Zenon
<1>26. /\ liveness_spoof_run_length' =< Len(livenessLog')
       /\ SpoofRun(Len(livenessLog), liveness_spoof_run_length)'
  <2>1. q =< m
    BY <1>15
  <2> QED
    BY <1>18, <1>23, <2>1, Zenon DEF SpoofRun
<1> QED
  BY <1>24, <1>25, <1>26, Zenon DEF LivenessInv, Tracks

(* No liveness result yet.                                                 *)
LEMMA LivenessInit == Init => LivenessInv
<1> SUFFICES ASSUME Init PROVE LivenessInv
  OBVIOUS
<1>1. PolicyFields
  BY PolicyTypes DEF Init
<1>2. /\ Len(livenessLog) = 0 /\ Len(emitted) = 0 /\ Len(liveness_window) = 0
      /\ liveness_spoof_run_length = 0
  BY DEF Init
<1>3. FlagsOf(RULE_LIVENESS_CHECK_FAILED) = {} /\ (1 .. Len(livenessLog)) = {}
  BY <1>2 DEF FlagsOf
<1>4. LivenessExact
  BY <1>3, Zenon DEF LivenessExact
<1> QED
  BY <1>1, <1>2, <1>4 DEF LivenessInv, Tracks, SpoofRun, PolicyFields, Nat1

(* Every step keeps LivenessInv.                                           *)
LEMMA LivenessStepInv ==
    ASSUME TypeInv, LivenessInv, [Next]_vars
    PROVE  LivenessInv'
<1>1. OutType /\ PolicyFields
  BY TypeParts, PolicyTypes DEF TypeInv
<1>2. scenario' = scenario
  BY StepOutcome
<1>3. CASE UNCHANGED livenessVars /\ Untouched(RULE_LIVENESS_CHECK_FAILED)
  <2>1. /\ livenessLog' = livenessLog
        /\ liveness_window' = liveness_window
        /\ liveness_spoof_run_length' = liveness_spoof_run_length
    BY <1>3 DEF livenessVars
  <2>2. LivenessDue' = LivenessDue
    BY <1>2, <2>1 DEF LivenessDue, SpoofWindowCompleted, SpoofRun, Policy
  <2>3. LivenessExact'
    BY <1>1, <1>2, <1>3, <2>2, LivenessFlagsKept DEF LivenessInv
  <2>4. LivenessEntries' = LivenessEntries
    BY <2>1 DEF LivenessEntries
  <2> QED
    BY <1>2, <2>1, <2>3, <2>4, Zenon DEF LivenessInv, Tracks, SpoofRun, Policy
<1>4. ASSUME NEW x \in BOOLEAN, ProcessLiveness(x) PROVE LivenessInv'
  BY <1>2, <1>4, LivenessActionStep
<1> QED
  BY <1>3, <1>4, LivenessElse, Zenon DEF LivenessStep

(* A liveness flag is raised exactly at the frames where a spoof streak    *)
(* reaches a multiple of the window size, one per such frame, and links    *)
(* exactly the frames of that window (process_liveness).                   *)
THEOREM LivenessIsExact == Spec => []LivenessExact
<1>1. LivenessInv => LivenessExact
  BY DEF LivenessInv
<1> QED
  BY <1>1, LivenessInit, LivenessStepInv, TypeInvHolds, PTL DEF Spec

-----------------------------------------------------------------------------
(* Path 3: the score and its threshold. *)

(* The score of the first i decisions of s.                                *)
Deltas(s) == [j \in 1 .. Len(s) |-> s[j].score_delta]
Total(s, i) == SumFunctionOnSet(Deltas(s), 1 .. i)

(* The score deltas of the emitted flags are naturals.                     *)
LEMMA DeltaTypes ==
    ASSUME NEW s \in Seq(FlagDecision)
    PROVE  \A j \in 1 .. Len(s) : Deltas(s)[j] = s[j].score_delta /\ Deltas(s)[j] \in Nat
<1>1. \A d \in FlagDecision : d.score_delta \in Nat
  BY DEF FlagDecision
<1>2. \A j \in 1 .. Len(s) : s[j] \in FlagDecision
  OBVIOUS
<1> QED
  BY <1>1, <1>2 DEF Deltas

(* The score of a prefix depends on the prefix only.                       *)
LEMMA TotalSame ==
    ASSUME NEW s \in Seq(FlagDecision), NEW t \in Seq(FlagDecision),
           NEW i \in Nat, i =< Len(s), i =< Len(t),
           \A j \in 1 .. i : t[j] = s[j]
    PROVE  Total(t, i) = Total(s, i)
<1>1. \A j \in 1 .. i : j \in 1 .. Len(s) /\ j \in 1 .. Len(t)
  OBVIOUS
<1>2. \A j \in 1 .. i : Deltas(t)[j] = Deltas(s)[j]
  BY <1>1, DeltaTypes
<1>3. IsFiniteSet(1 .. i)
  BY FS_Interval
<1> QED
  BY <1>2, <1>3, SumSame DEF Total

(* One decision more adds its delta.                                       *)
LEMMA TotalNext ==
    ASSUME NEW t \in Seq(FlagDecision), NEW i \in Nat, i + 1 =< Len(t)
    PROVE  /\ Total(t, i + 1) = t[i + 1].score_delta + Total(t, i)
           /\ Total(t, i) \in Int
<1>1. /\ IsFiniteSet(1 .. i) /\ i + 1 \notin 1 .. i
      /\ (1 .. i + 1) = (1 .. i) \cup {i + 1}
      /\ i + 1 \in 1 .. Len(t)
  <2>1. IsFiniteSet(1 .. i)
    BY FS_Interval
  <2>2. i + 1 \notin 1 .. i /\ i + 1 \in 1 .. Len(t)
    OBVIOUS
  <2>3. \A j : j \in 1 .. i + 1 <=> j \in (1 .. i) \cup {i + 1}
    OBVIOUS
  <2> QED
    BY <2>1, <2>2, <2>3, Zenon
<1>2. \A j \in (1 .. i) \cup {i + 1} : Deltas(t)[j] \in Int
  <2>1. \A j \in (1 .. i) \cup {i + 1} : j \in 1 .. Len(t)
    OBVIOUS
  <2> QED
    BY <2>1, DeltaTypes
<1>3. /\ SumFunctionOnSet(Deltas(t), (1 .. i) \cup {i + 1}) =
             Deltas(t)[i + 1] + SumFunctionOnSet(Deltas(t), 1 .. i)
      /\ SumFunctionOnSet(Deltas(t), 1 .. i) \in Int
  BY <1>1, <1>2, SumAdd
<1>4. Deltas(t)[i + 1] = t[i + 1].score_delta
  BY <1>1, DeltaTypes
<1> QED
  BY <1>1, <1>3, <1>4, Zenon DEF Total

(* The sum the properties speak of is the one the sum lemmas are about.    *)
LEMMA ScoreUpToIsTotal == ScoreUpTo(Len(emitted)) = Total(emitted, Len(emitted))
                          /\ \A i : ScoreUpTo(i) = Total(emitted, i)
  BY Zenon DEF ScoreUpTo, Total, Deltas

(* A browser flag links the one event it was raised for.                   *)
BrowserFlagsSourced ==
    \A i \in FlagsOf(RULE_BROWSER_EVENT) :
        \E n \in 1 .. Len(browserLog) :
            emitted[i].contributing_event_ids = {<<"browser", n>>}

(* The running score is the sum of the deltas of the flags emitted.        *)
ThresholdInv ==
    /\ accumulated_score = ScoreUpTo(Len(emitted))
    /\ ThresholdExact
    /\ BrowserFlagsSourced

(* A step only adds to the decisions and to the browser's events.          *)
Grown ==
    /\ scenario' = scenario
    /\ OutType'
    /\ Len(emitted) =< Len(emitted')
    /\ \A i \in 1 .. Len(emitted) : emitted'[i] = emitted[i]
    /\ browserLog' \in Seq({"blur", "copy"})
    /\ Len(browserLog) =< Len(browserLog')
    /\ \A n \in 1 .. Len(browserLog) : browserLog'[n] = browserLog[n]

(* A flag stays a scoring one, or not, as flags are added.                 *)
LEMMA ScoringKept ==
    ASSUME TypeInv, BrowserFlagsSourced, Grown, NEW i \in 1 .. Len(emitted)
    PROVE  Scoring(i)' <=> Scoring(i)
<1>1. /\ Len(browserLog) \in Nat /\ Len(browserLog') \in Nat
      /\ emitted'[i] = emitted[i]
      /\ \A n \in 1 .. Len(browserLog) : n \in 1 .. Len(browserLog')
  BY TypeParts DEF TypeInv, SingleType, Grown
<1>2. CASE emitted[i].rule_code # RULE_BROWSER_EVENT
  BY <1>1, <1>2, Zenon DEF Scoring
<1>3. CASE emitted[i].rule_code = RULE_BROWSER_EVENT
  <2>1. PICK p \in 1 .. Len(browserLog) :
           emitted[i].contributing_event_ids = {<<"browser", p>>}
    BY <1>3, Zenon DEF BrowserFlagsSourced, FlagsOf
  <2>2. ASSUME NEW n, {<<"browser", p>>} = {<<"browser", n>>} PROVE n = p
    <3>1. <<"browser", p>> = <<"browser", n>>
      BY <2>2, Zenon
    <3> QED
      BY <3>1
  <2>3. Scoring(i) <=> /\ emitted[i].severity = "medium"
                       /\ browserLog[p] \in BROWSER_ACCUMULATION_EVENTS
    BY <1>3, <2>1, <2>2, Zenon DEF Scoring
  <2>4. Scoring(i)' <=> /\ emitted[i].severity = "medium"
                        /\ browserLog'[p] \in BROWSER_ACCUMULATION_EVENTS
    BY <1>1, <1>3, <2>1, <2>2, Zenon DEF Scoring, BROWSER_ACCUMULATION_EVENTS
  <2>5. browserLog'[p] = browserLog[p]
    BY DEF Grown
  <2> QED
    BY <2>3, <2>4, <2>5, Zenon
<1> QED
  BY <1>2, <1>3

(* The score of the decisions there were, in the next state.               *)
LEMMA ScoresKept ==
    ASSUME TypeInv, Grown
    PROVE  \A i \in 0 .. Len(emitted) : ScoreUpTo(i)' = ScoreUpTo(i)
<1>1. /\ emitted \in Seq(FlagDecision) /\ emitted' \in Seq(FlagDecision)
      /\ Len(emitted) \in Nat /\ Len(emitted') \in Nat
      /\ Len(emitted) =< Len(emitted')
      /\ \A i \in 1 .. Len(emitted) : emitted'[i] = emitted[i]
  BY TypeParts DEF TypeInv, OutType, Grown
<1> SUFFICES ASSUME NEW i \in 0 .. Len(emitted)
             PROVE  ScoreUpTo(i)' = ScoreUpTo(i)
  OBVIOUS
<1>2. i \in Nat /\ i =< Len(emitted) /\ i =< Len(emitted')
      /\ \A j \in 1 .. i : emitted'[j] = emitted[j]
  BY <1>1
<1>3. Total(emitted', i) = Total(emitted, i)
  BY <1>1, <1>2, TotalSame
<1>4. ScoreUpTo(i)' = Total(emitted', i)
  BY Zenon DEF ScoreUpTo, Total, Deltas
<1> QED
  BY <1>3, <1>4, ScoreUpToIsTotal

(* So the crossings so far stay what they were.                            *)
LEMMA CrossingsKept ==
    ASSUME TypeInv, BrowserFlagsSourced, Grown
    PROVE  \A i \in 1 .. Len(emitted) : i \in Crossing' <=> i \in Crossing
<1>1. /\ Len(emitted) \in Nat /\ Len(emitted') \in Nat
      /\ Len(emitted) =< Len(emitted')
  BY TypeParts DEF TypeInv, OutType, Grown
<1> SUFFICES ASSUME NEW i \in 1 .. Len(emitted)
             PROVE  i \in Crossing' <=> i \in Crossing
  OBVIOUS
<1>2. i \in 1 .. Len(emitted') /\ i \in 0 .. Len(emitted)
  BY <1>1
<1>3. ScoreUpTo(i)' = ScoreUpTo(i)
  BY <1>2, ScoresKept
<1>4. Scoring(i)' <=> Scoring(i)
  BY ScoringKept
<1>5. Policy' = Policy
  BY DEF Policy, Grown
<1>6. i \in Crossing' <=>
         /\ i \in 1 .. Len(emitted')
         /\ Scoring(i)'
         /\ Policy'.medium_score_termination_threshold > 0
         /\ ScoreUpTo(i)' >= Policy'.medium_score_termination_threshold
  BY Zenon DEF Crossing
<1> QED
  BY <1>2, <1>3, <1>4, <1>5, <1>6, Zenon DEF Crossing

(* Nothing scored: no decision, or one that neither scores nor is the      *)
(* threshold's.                                                            *)
LEMMA UnscoredStep ==
    ASSUME TypeInv, ThresholdInv, Grown, UNCHANGED accumulated_score,
           NEW new, new = Len(emitted) + 1,
           \/ emitted' = emitted
           \/ /\ Len(emitted') = new
              /\ emitted'[new].score_delta = 0
              /\ emitted'[new].rule_code # RULE_ACCUMULATED_SCORE
              /\ ~Scoring(new)'
    PROVE  accumulated_score' = ScoreUpTo(Len(emitted))' /\ ThresholdExact'
<1> DEFINE N == Len(emitted)
           A == RULE_ACCUMULATED_SCORE
<1>1. /\ emitted \in Seq(FlagDecision) /\ emitted' \in Seq(FlagDecision)
      /\ N \in Nat /\ Len(emitted') \in Nat
      /\ \A i \in 1 .. N : emitted'[i] = emitted[i]
      /\ new \in Nat
  BY TypeParts DEF TypeInv, OutType, Grown
<1>2. accumulated_score' = ScoreUpTo(Len(emitted))'
  <2>1. accumulated_score' = Total(emitted, N)
    BY ScoreUpToIsTotal DEF ThresholdInv
  <2>2. CASE emitted' = emitted
    BY <2>1, <2>2 DEF ScoreUpTo, Total, Deltas
  <2>3. CASE Len(emitted') = new /\ emitted'[new].score_delta = 0
    <3>1. PICK t \in Seq(FlagDecision) : t = emitted'
      BY <1>1
    <3>2. /\ Total(t, N + 1) = t[N + 1].score_delta + Total(t, N)
          /\ Total(t, N) \in Int
      BY <1>1, <2>3, <3>1, TotalNext
    <3>3. Total(t, N) = Total(emitted, N)
      BY <1>1, <2>3, <3>1, TotalSame
    <3>4. Total(t, N + 1) = Total(emitted, N)
      BY <2>3, <3>1, <3>2, <3>3
    <3>5. ScoreUpTo(Len(emitted))' = Total(emitted', Len(emitted'))
      BY Zenon DEF ScoreUpTo, Total, Deltas
    <3> QED
      BY <2>1, <2>3, <3>1, <3>4, <3>5
  <2> QED
    BY <2>2, <2>3
<1>3. \A i \in 1 .. N : i \in Crossing' <=> i \in Crossing
  BY CrossingsKept DEF ThresholdInv
<1>4. \A i : i \in 1 .. Len(emitted') <=>
             \/ i \in 1 .. N
             \/ i = new /\ Len(emitted') = new
  <2>1. CASE emitted' = emitted
    BY <1>1, <2>1
  <2>2. CASE Len(emitted') = new
    BY <1>1, <2>2
  <2> QED
    BY <2>1, <2>2
<1>5. \A i : i \in Crossing' => i \in 1 .. Len(emitted') /\ Scoring(i)'
  BY Zenon DEF Crossing
<1>6. Len(emitted') = new => ~Scoring(new)' /\ emitted'[new].rule_code # A
  BY <1>1
<1>7. Crossing' = Crossing
  <2>1. \A i : i \in Crossing => i \in 1 .. N
    BY DEF Crossing
  <2>2. \A i : i \in Crossing' <=> i \in Crossing
    BY <1>3, <1>4, <1>5, <1>6, <2>1, Zenon
  <2> QED
    BY <2>2, Zenon
<1>8. FlagsOf(A)' = FlagsOf(A)
  <2>1. FlagsOf(A)' = {i \in 1 .. Len(emitted') : emitted'[i].rule_code = A}
    BY DEF FlagsOf
  <2>2. \A i : i \in FlagsOf(A)' <=> i \in FlagsOf(A)
    BY <1>1, <1>4, <1>6, <2>1, Zenon DEF FlagsOf
  <2> QED
    BY <2>2, Zenon
<1>9. ThresholdExact'
  <2>1. /\ FlagsOf(A) = {i + 1 : i \in Crossing}
        /\ \A i \in Crossing :
              /\ emitted[i + 1].contributing_event_ids =
                     emitted[i].contributing_event_ids
              /\ emitted[i + 1].triggered_termination
                     <=> Policy.medium_score_action = "auto_terminate"
    BY Zenon DEF ThresholdInv, ThresholdExact
  <2>2. \A i \in Crossing : i \in 1 .. N /\ i + 1 \in 1 .. N
    <3>1. \A i \in Crossing : i \in 1 .. N /\ i + 1 \in FlagsOf(A)
      BY <2>1, Zenon DEF Crossing
    <3> QED
      BY <3>1, Zenon DEF FlagsOf
  <2>3. Policy' = Policy
    BY DEF Policy, Grown
  <2>4. FlagsOf(A)' = {i + 1 : i \in Crossing'}
    BY <1>7, <1>8, <2>1, Zenon
  <2>5. \A i \in Crossing' :
              /\ emitted'[i + 1].contributing_event_ids =
                     emitted'[i].contributing_event_ids
              /\ emitted'[i + 1].triggered_termination
                     <=> Policy'.medium_score_action = "auto_terminate"
    BY <1>1, <1>7, <2>1, <2>2, <2>3, Zenon
  <2> QED
    BY <2>4, <2>5, Zenon DEF ThresholdExact
<1> QED
  BY <1>2, <1>9

(* A scored decision, and the threshold's when the new score reaches it.   *)
LEMMA ScoredStep ==
    ASSUME TypeInv, ThresholdInv, Grown, NEW rule \in ScoredRules,
           NEW ids \in SUBSET EventIds, Accumulate(rule, ids),
           NEW new, new = Len(emitted) + 1, Scoring(new)'
    PROVE  accumulated_score' = ScoreUpTo(Len(emitted))' /\ ThresholdExact'
<1> DEFINE N == Len(emitted)
           A == RULE_ACCUMULATED_SCORE
           over == Over(accumulated_score')
<1>1. /\ OutType /\ PolicyFields
      /\ emitted \in Seq(FlagDecision) /\ emitted' \in Seq(FlagDecision)
      /\ N \in Nat /\ Len(emitted') \in Nat
      /\ \A i \in 1 .. N : emitted'[i] = emitted[i]
      /\ new \in Nat
      /\ accumulated_score \in Nat
  BY TypeParts, PolicyTypes DEF TypeInv, OutType, Grown
<1>2. /\ accumulated_score' = accumulated_score + WeightFor(rule)
      /\ emitted'[new] = Medium(rule, ids, WeightFor(rule))
      /\ ~over => Len(emitted') = new
      /\ over => /\ Len(emitted') = N + 2
                 /\ IsThresholdFlag(emitted'[N + 2], ids)
  BY <1>1, AccumulateFacts
<1>3. /\ emitted'[new].rule_code = rule
      /\ emitted'[new].contributing_event_ids = ids
      /\ emitted'[new].score_delta = WeightFor(rule)
      /\ WeightFor(rule) \in Nat
      /\ rule # A
  BY <1>1, <1>2, RulesDiffer DEF Medium, PolicyFields
<1>4. over => /\ emitted'[N + 2].rule_code = A
              /\ emitted'[N + 2].severity = "critical"
              /\ emitted'[N + 2].score_delta = 0
              /\ emitted'[N + 2].contributing_event_ids = ids
              /\ emitted'[N + 2].triggered_termination
                     <=> Policy.medium_score_action = "auto_terminate"
  BY <1>2, Zenon DEF IsThresholdFlag
<1>5. PICK t \in Seq(FlagDecision) : t = emitted'
  BY <1>1
<1>6. Total(t, new) = accumulated_score'
  <2>1. Len(t) >= N + 1
    BY <1>1, <1>2, <1>5
  <2>2. /\ Total(t, N + 1) = t[N + 1].score_delta + Total(t, N)
        /\ Total(t, N) \in Int
    BY <1>1, <2>1, TotalNext
  <2>3. Total(t, N) = Total(emitted, N)
    BY <1>1, <1>5, <2>1, TotalSame
  <2>4. Total(emitted, N) = accumulated_score
    BY ScoreUpToIsTotal DEF ThresholdInv
  <2> QED
    BY <1>1, <1>2, <1>3, <1>5, <2>2, <2>3, <2>4
<1>7. over => Total(t, N + 2) = accumulated_score'
  <2> SUFFICES ASSUME over PROVE Total(t, N + 2) = accumulated_score'
    OBVIOUS
  <2>1. new + 1 = N + 2 /\ new + 1 =< Len(t)
    BY <1>1, <1>2, <1>5
  <2>2. Total(t, new + 1) = t[new + 1].score_delta + Total(t, new)
    BY <1>1, <2>1, TotalNext
  <2>3. t[new + 1].score_delta = 0
    BY <1>4, <1>5, <2>1
  <2>4. accumulated_score' \in Int
    BY <1>1, <1>2, <1>3
  <2> QED
    BY <1>6, <2>1, <2>2, <2>3, <2>4
<1>8. accumulated_score' = ScoreUpTo(Len(emitted))'
  <2>1. ScoreUpTo(Len(emitted))' = Total(emitted', Len(emitted'))
    BY Zenon DEF ScoreUpTo, Total, Deltas
  <2> QED
    BY <1>2, <1>5, <1>6, <1>7, <2>1
<1>9. Policy' = Policy
  BY DEF Policy, Grown
<1>10. \A i : i \in Crossing' <=>
         /\ i \in 1 .. Len(emitted')
         /\ Scoring(i)'
         /\ Policy.medium_score_termination_threshold > 0
         /\ Total(t, i) >= Policy.medium_score_termination_threshold
  <2>1. \A i : ScoreUpTo(i)' = Total(t, i)
    BY <1>5, Zenon DEF ScoreUpTo, Total, Deltas
  <2> QED
    BY <1>9, <2>1, Zenon DEF Crossing
<1>11. \A i \in 1 .. N : i \in Crossing' <=> i \in Crossing
  BY CrossingsKept DEF ThresholdInv
<1>12. \A i : i \in 1 .. Len(emitted') <=>
             \/ i \in 1 .. N
             \/ i = new
             \/ i = N + 2 /\ over
  <2>1. CASE over
    BY <1>1, <1>2, <2>1
  <2>2. CASE ~over
    BY <1>1, <1>2, <2>2
  <2> QED
    BY <2>1, <2>2
<1>13. new \in Crossing' <=> over
  <2>1. new \in 1 .. Len(emitted')
    BY <1>12
  <2> QED
    BY <1>6, <1>10, <2>1, Zenon DEF Over
<1>14. N + 2 \notin Crossing'
  <2>1. over => ~(emitted'[N + 2].severity = "medium")
    BY <1>4
  <2>2. PICK k : k = N + 2
    OBVIOUS
  <2>3. over => ~Scoring(k)'
    BY <2>1, <2>2, Zenon DEF Scoring
  <2>4. N + 2 \in 1 .. Len(emitted') => over
    BY <1>1, <1>2
  <2> QED
    BY <1>10, <2>2, <2>3, <2>4, Zenon
<1>15. \A i : i \in Crossing' <=> i \in Crossing \/ (i = new /\ over)
  <2>1. \A i : i \in Crossing => i \in 1 .. N
    BY DEF Crossing
  <2>2. \A i : i \in Crossing' => i \in 1 .. Len(emitted')
    BY <1>10, Zenon
  <2> HIDE DEF over
  <2>3. ASSUME NEW i, i \in Crossing' PROVE i \in Crossing \/ (i = new /\ over)
    <3>1. \/ i \in 1 .. N
          \/ i = new
          \/ (i = N + 2 /\ over)
      BY <1>12, <2>2, <2>3, Zenon
    <3>2. CASE i \in 1 .. N
      BY <1>11, <2>3, <3>2, Zenon
    <3>3. CASE i = new
      BY <1>13, <2>3, <3>3, Zenon
    <3>4. i # N + 2
      BY <1>14, <2>3, Zenon
    <3> QED
      BY <3>1, <3>2, <3>3, <3>4, Zenon
  <2>4. ASSUME NEW i, i \in Crossing \/ (i = new /\ over) PROVE i \in Crossing'
    BY <1>11, <1>13, <2>1, <2>4, Zenon
  <2> QED
    BY <2>3, <2>4, Zenon
<1>16. \A i : i \in FlagsOf(A)' <=> i \in FlagsOf(A) \/ (i = N + 2 /\ over)
  <2>1. FlagsOf(A)' = {i \in 1 .. Len(emitted') : emitted'[i].rule_code = A}
    BY DEF FlagsOf
  <2> QED
    BY <1>1, <1>3, <1>4, <1>12, <2>1, Zenon DEF FlagsOf
<1>17. /\ FlagsOf(A) = {i + 1 : i \in Crossing}
       /\ \A i \in Crossing :
              /\ emitted[i + 1].contributing_event_ids =
                     emitted[i].contributing_event_ids
              /\ emitted[i + 1].triggered_termination
                     <=> Policy.medium_score_action = "auto_terminate"
  BY Zenon DEF ThresholdInv, ThresholdExact
<1>18. new + 1 = N + 2
  BY <1>1
<1>19. FlagsOf(A)' = {i + 1 : i \in Crossing'}
  <2>1. ASSUME NEW q \in FlagsOf(A)' PROVE q \in {i + 1 : i \in Crossing'}
    <3>1. CASE q \in FlagsOf(A)
      BY <1>15, <1>17, <3>1, Zenon
    <3>2. CASE q = N + 2 /\ over
      BY <1>13, <1>18, <3>2, Zenon
    <3> QED
      BY <1>16, <3>1, <3>2, Zenon
  <2>2. ASSUME NEW q \in {i + 1 : i \in Crossing'} PROVE q \in FlagsOf(A)'
    <3>1. PICK i \in Crossing' : q = i + 1
      BY Zenon
    <3>2. CASE i \in Crossing
      BY <1>16, <1>17, <3>1, <3>2, Zenon
    <3>3. CASE i = new /\ over
      BY <1>16, <1>18, <3>1, <3>3, Zenon
    <3> QED
      BY <1>15, <3>1, <3>2, <3>3, Zenon
  <2> QED
    BY <2>1, <2>2, Zenon
<1>20. ASSUME NEW i \in Crossing'
       PROVE  /\ emitted'[i + 1].contributing_event_ids =
                     emitted'[i].contributing_event_ids
              /\ emitted'[i + 1].triggered_termination
                     <=> Policy'.medium_score_action = "auto_terminate"
  <2>1. CASE i \in Crossing
    <3>1. i \in 1 .. N /\ i + 1 \in 1 .. N
      BY <1>17, <2>1, Zenon DEF Crossing, FlagsOf
    <3> QED
      BY <1>1, <1>9, <1>17, <2>1, <3>1, Zenon
  <2>2. CASE i = new /\ over
    BY <1>3, <1>4, <1>9, <1>18, <2>2, Zenon
  <2> QED
    BY <1>15, <2>1, <2>2
<1>21. ThresholdExact'
  BY <1>19, <1>20, Zenon DEF ThresholdExact
<1> QED
  BY <1>8, <1>21

(* A step of another path than the browser's.                              *)
LEMMA ThresholdOther ==
    ASSUME TypeInv, ThresholdInv, scenario' = scenario, NEW rules,
           Outcome(rules), RULE_BROWSER_EVENT \notin rules,
           RULE_ACCUMULATED_SCORE \notin rules, browserLog' = browserLog
    PROVE  ThresholdInv'
<1> DEFINE A == RULE_ACCUMULATED_SCORE
           B == RULE_BROWSER_EVENT
<1>1. /\ OutType /\ PolicyFields /\ SingleType
      /\ Len(emitted) \in Nat /\ Len(browserLog) \in Nat
  BY TypeParts, PolicyTypes DEF TypeInv, OutType, SingleType
<1>2. /\ OutType'
      /\ Len(emitted) =< Len(emitted')
      /\ \A i \in 1 .. Len(emitted) : emitted'[i] = emitted[i]
  BY <1>1, OutcomeExtends
<1>3. Grown
  BY <1>1, <1>2 DEF Grown, SingleType
<1>4. Untouched(B)
  <2>1. B # A
    BY RulesDiffer DEF ScoredRules
  <2> QED
    BY <1>1, <2>1, OutcomeUntouched
<1>5. BrowserFlagsSourced'
  <2>1. \A i \in FlagsOf(B) : i \in 1 .. Len(emitted)
    BY DEF FlagsOf
  <2> QED
    BY <1>2, <1>4, <2>1, Zenon DEF BrowserFlagsSourced, ThresholdInv, Untouched
<1>6. PICK new : new = Len(emitted) + 1
  OBVIOUS
<1>7. CASE UNCHANGED outVars
  <2>1. UNCHANGED accumulated_score /\ emitted' = emitted
    BY <1>7 DEF outVars
  <2> QED
    BY <1>3, <1>5, <1>6, <2>1, UnscoredStep DEF ThresholdInv
<1>8. ASSUME NEW d \in FlagDecision, d.rule_code \in rules, d.score_delta = 0,
             d.severity = "medium" => d.rule_code = B, Emit(d)
      PROVE  ThresholdInv'
  <2>1. /\ Len(emitted') = new /\ emitted'[new] = d
        /\ UNCHANGED accumulated_score
    BY <1>1, <1>6, <1>8, EmitFacts DEF OutType
  <2>2. d.severity # "medium" /\ d.rule_code # A
    BY <1>8
  <2>3. ~Scoring(new)'
    BY <2>1, <2>2, Zenon DEF Scoring
  <2> QED
    BY <1>3, <1>5, <1>6, <1>8, <2>1, <2>2, <2>3, UnscoredStep DEF ThresholdInv
<1>9. ASSUME NEW rule \in rules \cap ScoredRules, NEW ids \in SUBSET EventIds,
             Accumulate(rule, ids)
      PROVE  ThresholdInv'
  <2>1. emitted'[new] = Medium(rule, ids, WeightFor(rule))
    BY <1>1, <1>6, <1>9, AccumulateFacts DEF OutType
  <2>2. emitted'[new].severity = "medium" /\ emitted'[new].rule_code # B
    BY <2>1 DEF Medium
  <2>3. Scoring(new)'
    BY <2>2, Zenon DEF Scoring
  <2> QED
    BY <1>3, <1>5, <1>6, <1>9, <2>3, ScoredStep DEF ThresholdInv
<1> QED
  BY <1>7, <1>8, <1>9, Zenon DEF Outcome

(* A browser event: only the accumulating types go through the score.      *)
LEMMA ThresholdBrowser ==
    ASSUME TypeInv, ThresholdInv, scenario' = scenario,
           NEW x \in {"blur", "copy"}, ProcessBrowserEvent(x)
    PROVE  ThresholdInv'
<1> DEFINE B == RULE_BROWSER_EVENT
           id == <<"browser", Len(browserLog) + 1>>
           d == Medium(B, {id}, 0)
<1>1. /\ OutType /\ PolicyFields /\ browserLog \in Seq({"blur", "copy"})
      /\ Len(emitted) \in Nat /\ Len(browserLog) \in Nat
  BY TypeParts, PolicyTypes DEF TypeInv, OutType, SingleType
<1>2. /\ browserLog' = Append(browserLog, x)
      /\ \/ x \in BROWSER_ACCUMULATION_EVENTS /\ Accumulate(B, {id})
         \/ x \notin BROWSER_ACCUMULATION_EVENTS /\ Emit(d)
  BY Zenon DEF ProcessBrowserEvent
<1>3. /\ browserLog' \in Seq({"blur", "copy"})
      /\ Len(browserLog') = Len(browserLog) + 1
      /\ \A n \in 1 .. Len(browserLog) : browserLog'[n] = browserLog[n]
      /\ browserLog'[Len(browserLog) + 1] = x
  BY <1>1, <1>2, AppendFacts
<1>4. /\ {id} \in SUBSET EventIds /\ B \in ScoredRules /\ B \in Rules
      /\ B # RULE_ACCUMULATED_SCORE
  <2>1. id \in EventIds
    BY <1>1, NextId DEF Paths
  <2> QED
    BY <2>1, RulesDiffer DEF ScoredRules, Rules
<1>5. /\ d \in FlagDecision /\ d.rule_code = B /\ d.score_delta = 0
      /\ d.contributing_event_ids = {id}
  BY <1>4, DecisionTypes DEF Medium
<1> HIDE DEF d, B
<1>6. OneMoreFlag(B, {id})
  <2>1. CASE Accumulate(B, {id})
    BY <1>1, <1>4, <2>1, AccumulateOneMore
  <2>2. CASE Emit(d)
    BY <1>1, <1>5, <2>2, EmitOneMore
  <2> QED
    BY <1>2, <2>1, <2>2
<1>7. Outcome({B})
  BY <1>2, <1>4, <1>5, AccumulateOutcome, Zenon DEF Outcome, B
<1>8. Grown
  <2>1. /\ OutType'
        /\ Len(emitted) =< Len(emitted')
        /\ \A i \in 1 .. Len(emitted) : emitted'[i] = emitted[i]
    BY <1>1, <1>7, OutcomeExtends
  <2> QED
    BY <1>1, <1>3, <2>1 DEF Grown
<1>9. PICK new : new = Len(emitted) + 1
  OBVIOUS
<1>10. PICK p \in 1 .. Len(browserLog') : p = Len(browserLog) + 1
  BY <1>1, <1>3
<1>11. emitted'[new].contributing_event_ids = {<<"browser", p>>}
  BY <1>6, <1>9, <1>10, Zenon DEF OneMoreFlag
<1>12. BrowserFlagsSourced'
  <2>1. \A i \in FlagsOf(B) : emitted'[i] = emitted[i]
    BY <1>6 DEF OneMoreFlag, FlagsOf
  <2>2. \A n \in 1 .. Len(browserLog) : n \in 1 .. Len(browserLog')
    BY <1>1, <1>3
  <2>3. ASSUME NEW i \in FlagsOf(B)'
        PROVE  \E n \in 1 .. Len(browserLog') :
                  emitted'[i].contributing_event_ids = {<<"browser", n>>}
    <3>1. CASE i \in FlagsOf(B)
      BY <2>1, <2>2, <3>1, Zenon DEF BrowserFlagsSourced, ThresholdInv, B
    <3>2. CASE i = new
      BY <1>11, <3>2, Zenon
    <3> QED
      BY <1>6, <1>9, <2>3, <3>1, <3>2, Zenon DEF OneMoreFlag
  <2> QED
    BY <2>3, Zenon DEF BrowserFlagsSourced, B
<1>13. ASSUME NEW n, {<<"browser", p>>} = {<<"browser", n>>} PROVE n = p
  <2>1. <<"browser", p>> = <<"browser", n>>
    BY <1>13, Zenon
  <2> QED
    BY <2>1
<1>14. emitted'[new].rule_code = B =>
          (Scoring(new)' <=> /\ emitted'[new].severity = "medium"
                             /\ browserLog'[p] \in BROWSER_ACCUMULATION_EVENTS)
  BY <1>11, <1>13, Zenon DEF Scoring, BROWSER_ACCUMULATION_EVENTS, B
<1>15. browserLog'[p] = x
  BY <1>3, <1>10
<1>16. CASE x \in BROWSER_ACCUMULATION_EVENTS /\ Accumulate(B, {id})
  <2>1. emitted'[new] = Medium(B, {id}, WeightFor(B))
    BY <1>1, <1>4, <1>9, <1>16, AccumulateFacts DEF OutType
  <2>2. emitted'[new].severity = "medium" /\ emitted'[new].rule_code = B
    BY <2>1 DEF Medium
  <2>3. Scoring(new)'
    BY <1>14, <1>15, <1>16, <2>2
  <2> QED
    BY <1>4, <1>8, <1>9, <1>12, <1>16, <2>3, ScoredStep DEF ThresholdInv
<1>17. CASE x \notin BROWSER_ACCUMULATION_EVENTS /\ Emit(d)
  <2>1. /\ Len(emitted') = new /\ emitted'[new] = d
        /\ UNCHANGED accumulated_score
    BY <1>1, <1>5, <1>9, <1>17, EmitFacts DEF OutType
  <2>2. ~Scoring(new)'
    BY <1>5, <1>14, <1>15, <1>17, <2>1
  <2> QED
    BY <1>4, <1>5, <1>8, <1>9, <1>12, <2>1, <2>2, UnscoredStep DEF ThresholdInv
<1> QED
  BY <1>2, <1>16, <1>17

(* No flag yet.                                                            *)
LEMMA ThresholdInit == Init => ThresholdInv
<1> SUFFICES ASSUME Init PROVE ThresholdInv
  OBVIOUS
<1>1. Len(emitted) = 0 /\ accumulated_score = 0
  BY DEF Init
<1>2. (1 .. Len(emitted)) = {}
  BY <1>1
<1>3. ScoreUpTo(Len(emitted)) = 0
  <2>1. ScoreUpTo(Len(emitted)) =
           SumFunctionOnSet([j \in 1 .. Len(emitted) |-> emitted[j].score_delta], {})
    BY <1>2, Zenon DEF ScoreUpTo
  <2> QED
    BY <2>1, SumEmpty
<1>4. \A rule : FlagsOf(rule) = {}
  BY <1>2, Zenon DEF FlagsOf
<1>5. Crossing = {}
  BY <1>2, Zenon DEF Crossing
<1>6. ThresholdExact
  BY <1>4, <1>5, Zenon DEF ThresholdExact
<1>7. BrowserFlagsSourced
  BY <1>4, Zenon DEF BrowserFlagsSourced
<1> QED
  BY <1>1, <1>3, <1>6, <1>7 DEF ThresholdInv

(* Every step keeps ThresholdInv.                                          *)
LEMMA ThresholdStepInv ==
    ASSUME TypeInv, ThresholdInv, [Next]_vars
    PROVE  ThresholdInv'
<1> DEFINE A == RULE_ACCUMULATED_SCORE
           B == RULE_BROWSER_EVENT
<1>1. scenario' = scenario
  BY StepOutcome
<1>2. /\ A \notin {RULE_SECOND_PERSON} /\ B \notin {RULE_SECOND_PERSON}
      /\ A \notin {RULE_IDENTITY_MISMATCH} /\ B \notin {RULE_IDENTITY_MISMATCH}
      /\ A \notin {RULE_LIVENESS_CHECK_FAILED} /\ B \notin {RULE_LIVENESS_CHECK_FAILED}
      /\ A \notin {RULE_GAZE_AWAY_FREQUENCY} /\ B \notin {RULE_GAZE_AWAY_FREQUENCY}
      /\ A \notin {RULE_AUDIO_ANOMALY} /\ B \notin {RULE_AUDIO_ANOMALY}
      /\ A \notin ObjectRules /\ B \notin ObjectRules
  BY DEF ObjectRules, RULE_SECOND_PERSON, RULE_GAZE_AWAY_FREQUENCY,
         RULE_ACCUMULATED_SCORE, RULE_OBJECT_DETECTED, BOOK_RULE_CODE,
         RULE_BROWSER_EVENT, RULE_LIVENESS_CHECK_FAILED,
         RULE_IDENTITY_MISMATCH, RULE_AUDIO_ANOMALY
<1> HIDE DEF A, B
<1>3. ASSUME NEW rules, Outcome(rules), A \notin rules, B \notin rules,
             browserLog' = browserLog
      PROVE  ThresholdInv'
  BY <1>1, <1>3, ThresholdOther DEF A, B
<1>4. CASE UNCHANGED vars
  <2>1. Outcome({}) /\ browserLog' = browserLog
    BY <1>4 DEF Outcome, vars, singleLogs
  <2> QED
    BY <1>3, <2>1
<1>5. CASE FaceStep
  BY <1>2, <1>3, <1>5, Zenon DEF FaceStep, singleLogs
<1>6. CASE LivenessStep
  BY <1>2, <1>3, <1>6, Zenon DEF LivenessStep, singleLogs
<1>7. CASE GazeStep
  BY <1>2, <1>3, <1>7, Zenon DEF GazeStep, singleLogs
<1>8. CASE IdentityStep
  BY <1>2, <1>3, <1>8, Zenon DEF IdentityStep, singleLogs
<1>9. CASE ObjectStep
  <2>1. browserLog' = browserLog
    BY <1>9, Zenon DEF ObjectStep, ProcessObjectDetection
  <2> QED
    BY <1>2, <1>3, <1>9, <2>1, Zenon DEF ObjectStep
<1>10. CASE BrowserStep
  BY <1>1, <1>10, ThresholdBrowser, Zenon DEF BrowserStep
<1>11. CASE AudioStep
  <2>1. browserLog' = browserLog
    BY <1>11, Zenon DEF AudioStep, ProcessAudioVad
  <2> QED
    BY <1>2, <1>3, <1>11, <2>1, Zenon DEF AudioStep
<1> QED
  BY <1>4, <1>5, <1>6, <1>7, <1>8, <1>9, <1>10, <1>11, StepOutcome

(* The accumulated-score flag follows a flag immediately exactly when that *)
(* flag was scored and the sum of the score_deltas emitted so far is at or *)
(* above the threshold; it carries that flag's evidence and terminates     *)
(* exactly under auto_terminate (_check_accumulated_threshold).            *)
THEOREM ThresholdIsExact == Spec => []ThresholdExact
<1>1. ThresholdInv => ThresholdExact
  BY DEF ThresholdInv
<1> QED
  BY <1>1, ThresholdInit, ThresholdStepInv, TypeInvHolds, PTL DEF Spec

-----------------------------------------------------------------------------
(* The score against the incidents of the whole history. *)

ObjectsScored == {k \in 1 .. Len(objectLog) : ObjectScored(k)}
ObjectWeights == [k \in 1 .. Len(objectLog) |->
                    WeightFor(ObjectRule(objectLog[k].class))]
BrowserScored == {k \in 1 .. Len(browserLog) :
                    browserLog[k] \in BROWSER_ACCUMULATION_EVENTS}
AudioScored == {k \in 1 .. Len(audioLog) : audioLog[k] # "silence"}
GazeScored == {i \in FlagsOf(RULE_GAZE_AWAY_FREQUENCY) :
                  ~emitted[i].triggered_termination}

(* The five shares of the score.                                           *)
ObjectShare == SumFunctionOnSet(ObjectWeights, ObjectsScored)
BrowserShare == WeightFor(RULE_BROWSER_EVENT) * Cardinality(BrowserScored)
AudioShare == WeightFor(RULE_AUDIO_ANOMALY) * Cardinality(AudioScored)
GazeShare == WeightFor(RULE_GAZE_AWAY_FREQUENCY) * Cardinality(GazeScored)
LivenessShare == IF Policy.liveness_check_action = "medium_accumulate"
                 THEN WeightFor(RULE_LIVENESS_CHECK_FAILED)
                        * Cardinality(LivenessDue)
                 ELSE 0

(* The score is exact if it is the sum of the five scored modalities'      *)
(* shares.                                                                 *)
LEMMA ScoreShares ==
    ScoreExact <=> accumulated_score = ObjectShare + BrowserShare + AudioShare
                                         + GazeShare + LivenessShare
  BY Zenon DEF ScoreExact, ObjectShare, BrowserShare, AudioShare, GazeShare,
         LivenessShare, ObjectsScored, ObjectWeights, BrowserScored,
         AudioScored, GazeScored, LivenessDue

(* A multiple of a cardinality.                                            *)
LEMMA Multiples ==
    ASSUME NEW w \in Nat, NEW S, IsFiniteSet(S)
    PROVE  /\ w * Cardinality(S) \in Nat
           /\ \A x : x \notin S =>
                 w * Cardinality(S \cup {x}) = w * Cardinality(S) + w
<1>1. PICK c \in Nat : c = Cardinality(S)
  BY FS_CardinalityType
<1>2. w * c \in Nat /\ w * (c + 1) = w * c + w
  OBVIOUS
<1>3. \A x : x \notin S => Cardinality(S \cup {x}) = c + 1
  BY <1>1, FS_AddElement
<1> QED
  BY <1>1, <1>2, <1>3

(* Each share is a sum over finitely many results.                         *)
LEMMA SharesFinite ==
    ASSUME TypeInv
    PROVE  /\ IsFiniteSet(ObjectsScored) /\ IsFiniteSet(BrowserScored)
           /\ IsFiniteSet(AudioScored) /\ IsFiniteSet(GazeScored)
           /\ IsFiniteSet(LivenessDue)
           /\ \A k \in 1 .. Len(objectLog) : ObjectWeights[k] \in Nat
<1>1. /\ SingleType /\ OutType /\ LivenessType /\ PolicyFields
      /\ Len(objectLog) \in Nat /\ Len(browserLog) \in Nat
      /\ Len(audioLog) \in Nat /\ Len(emitted) \in Nat
      /\ Len(livenessLog) \in Nat
  BY TypeParts, PolicyTypes DEF TypeInv, SingleType, OutType, LivenessType
<1>2. ASSUME NEW n \in Nat, NEW S \in SUBSET (1 .. n) PROVE IsFiniteSet(S)
  <2>1. IsFiniteSet(1 .. n)
    BY FS_Interval
  <2> QED
    BY <2>1, FS_Subset
<1>3. \A c : ObjectRule(c) \in ScoredRules
  BY DEF ObjectRule, ScoredRules
<1>4. \A k \in 1 .. Len(objectLog) : ObjectWeights[k] \in Nat
  BY <1>1, <1>3 DEF ObjectWeights, PolicyFields
<1>5. /\ ObjectsScored \subseteq 1 .. Len(objectLog)
      /\ BrowserScored \subseteq 1 .. Len(browserLog)
      /\ AudioScored \subseteq 1 .. Len(audioLog)
      /\ GazeScored \subseteq 1 .. Len(emitted)
      /\ LivenessDue \subseteq 1 .. Len(livenessLog)
  BY Zenon DEF ObjectsScored, BrowserScored, AudioScored, GazeScored,
               LivenessDue, FlagsOf
<1> QED
  BY <1>1, <1>2, <1>4, <1>5

(* Each share is a number.                                                 *)
LEMMA ShareTypes ==
    ASSUME TypeInv
    PROVE  /\ ObjectShare \in Int /\ BrowserShare \in Int /\ AudioShare \in Int
           /\ GazeShare \in Int /\ LivenessShare \in Int
<1>1. PolicyFields
  BY PolicyTypes DEF TypeInv
<1>2. /\ WeightFor(RULE_BROWSER_EVENT) \in Nat
      /\ WeightFor(RULE_AUDIO_ANOMALY) \in Nat
      /\ WeightFor(RULE_GAZE_AWAY_FREQUENCY) \in Nat
      /\ WeightFor(RULE_LIVENESS_CHECK_FAILED) \in Nat
  BY <1>1 DEF PolicyFields, ScoredRules
<1>3. ObjectShare \in Int
  <2>1. PICK x : x \notin ObjectsScored
    <3>1. Len(objectLog) \in Nat
      BY TypeParts DEF TypeInv, SingleType
    <3>2. Len(objectLog) + 1 \notin ObjectsScored
      BY <3>1 DEF ObjectsScored
    <3> QED
      BY <3>2
  <2>2. PICK f : f = [k \in ObjectsScored \cup {x} |->
                         IF k \in ObjectsScored THEN ObjectWeights[k] ELSE 0]
    OBVIOUS
  <2>3. /\ \A k \in ObjectsScored \cup {x} : f[k] \in Int
        /\ \A k \in ObjectsScored : ObjectWeights[k] = f[k]
    BY <2>1, <2>2, SharesFinite DEF ObjectsScored
  <2> QED
    BY <2>1, <2>3, SumAdd, SharesFinite DEF ObjectShare
<1>4. BrowserShare \in Int /\ AudioShare \in Int /\ GazeShare \in Int
  BY <1>2, Multiples, SharesFinite DEF BrowserShare, AudioShare, GazeShare
<1>5. LivenessShare \in Int
  <2>1. WeightFor(RULE_LIVENESS_CHECK_FAILED) * Cardinality(LivenessDue) \in Int
    BY <1>2, Multiples, SharesFinite
  <2> QED
    BY <2>1 DEF LivenessShare
<1> QED
  BY <1>3, <1>4, <1>5

(* The score stays exact when its shares grow by what it grows by.         *)
LEMMA SharesGrow ==
    ASSUME TypeInv, ScoreExact,
           NEW o \in Int, NEW b \in Int, NEW a \in Int, NEW g \in Int, NEW l \in Int,
           ObjectShare' = ObjectShare + o, BrowserShare' = BrowserShare + b,
           AudioShare' = AudioShare + a, GazeShare' = GazeShare + g,
           LivenessShare' = LivenessShare + l,
           accumulated_score' = accumulated_score + (o + b + a + g + l)
    PROVE  ScoreExact'
<1>1. /\ ObjectShare \in Int /\ BrowserShare \in Int /\ AudioShare \in Int
      /\ GazeShare \in Int /\ LivenessShare \in Int
  BY ShareTypes
<1>2. accumulated_score = ObjectShare + BrowserShare + AudioShare
                            + GazeShare + LivenessShare
  BY ScoreShares
<1>3. accumulated_score' = ObjectShare' + BrowserShare' + AudioShare'
                             + GazeShare' + LivenessShare'
  BY <1>1, <1>2
<1> QED
  BY <1>3, Zenon DEF ScoreExact, ObjectShare, BrowserShare, AudioShare, GazeShare,
         LivenessShare, ObjectsScored, ObjectWeights, BrowserScored,
         AudioScored, GazeScored, LivenessDue

(* A share whose part of the history did not change.                       *)
LEMMA SharesKept ==
    ASSUME TypeInv, scenario' = scenario
    PROVE  /\ objectLog' = objectLog => ObjectShare' = ObjectShare + 0
           /\ browserLog' = browserLog => BrowserShare' = BrowserShare + 0
           /\ audioLog' = audioLog => AudioShare' = AudioShare + 0
           /\ Untouched(RULE_GAZE_AWAY_FREQUENCY) => GazeShare' = GazeShare + 0
           /\ livenessLog' = livenessLog => LivenessShare' = LivenessShare + 0
<1>1. /\ ObjectShare \in Int /\ BrowserShare \in Int /\ AudioShare \in Int
      /\ GazeShare \in Int /\ LivenessShare \in Int
  BY ShareTypes
<1>2. \A rule : WeightFor(rule)' = WeightFor(rule)
  BY DEF WeightFor, Policy
<1>3. objectLog' = objectLog => ObjectShare' = ObjectShare
  <2> SUFFICES ASSUME objectLog' = objectLog PROVE ObjectShare' = ObjectShare
    OBVIOUS
  <2>1. ObjectWeights' = ObjectWeights
    BY DEF ObjectWeights, WeightFor, Policy
  <2>2. ObjectsScored' = ObjectsScored
    BY DEF ObjectsScored, ObjectScored, ShouldFlagBook, Context, MaxTime
  <2> QED
    BY <2>1, <2>2 DEF ObjectShare
<1>4. browserLog' = browserLog => BrowserShare' = BrowserShare
  BY <1>2 DEF BrowserShare, BrowserScored, BROWSER_ACCUMULATION_EVENTS
<1>5. audioLog' = audioLog => AudioShare' = AudioShare
  BY <1>2 DEF AudioShare, AudioScored
<1>6. Untouched(RULE_GAZE_AWAY_FREQUENCY) => GazeShare' = GazeShare
  <2> SUFFICES ASSUME Untouched(RULE_GAZE_AWAY_FREQUENCY)
               PROVE  GazeShare' = GazeShare
    OBVIOUS
  <2>1. /\ FlagsOf(RULE_GAZE_AWAY_FREQUENCY)' = FlagsOf(RULE_GAZE_AWAY_FREQUENCY)
        /\ \A i \in FlagsOf(RULE_GAZE_AWAY_FREQUENCY) : emitted'[i] = emitted[i]
    BY DEF Untouched, FlagsOf
  <2>2. GazeScored' = {i \in FlagsOf(RULE_GAZE_AWAY_FREQUENCY)' :
                          ~emitted'[i].triggered_termination}
    BY Zenon DEF GazeScored
  <2>3. GazeScored' = GazeScored
    BY <2>1, <2>2, Zenon DEF GazeScored
  <2> QED
    BY <1>2, <2>3 DEF GazeShare
<1>7. livenessLog' = livenessLog => LivenessShare' = LivenessShare
  <2> SUFFICES ASSUME livenessLog' = livenessLog PROVE LivenessShare' = LivenessShare
    OBVIOUS
  <2>1. LivenessDue' = LivenessDue
    BY DEF LivenessDue, SpoofWindowCompleted, SpoofRun, Policy
  <2> QED
    BY <1>2, <2>1 DEF LivenessShare, Policy
<1> QED
  BY <1>1, <1>3, <1>4, <1>5, <1>6, <1>7

(* A share that counts one incident more.                                  *)
LEMMA ShareOfOneMore ==
    ASSUME TypeInv, scenario' = scenario, NEW x
    PROVE  /\ x \notin BrowserScored /\ BrowserScored' = BrowserScored \cup {x}
                => BrowserShare' = BrowserShare + WeightFor(RULE_BROWSER_EVENT)
           /\ x \notin AudioScored /\ AudioScored' = AudioScored \cup {x}
                => AudioShare' = AudioShare + WeightFor(RULE_AUDIO_ANOMALY)
           /\ x \notin GazeScored /\ GazeScored' = GazeScored \cup {x}
                => GazeShare' = GazeShare + WeightFor(RULE_GAZE_AWAY_FREQUENCY)
           /\ x \notin LivenessDue /\ LivenessDue' = LivenessDue \cup {x}
                => LivenessShare' = LivenessShare +
                      IF Policy.liveness_check_action = "medium_accumulate"
                      THEN WeightFor(RULE_LIVENESS_CHECK_FAILED) ELSE 0
<1>1. PolicyFields
  BY PolicyTypes DEF TypeInv
<1>2. /\ WeightFor(RULE_BROWSER_EVENT) \in Nat
      /\ WeightFor(RULE_AUDIO_ANOMALY) \in Nat
      /\ WeightFor(RULE_GAZE_AWAY_FREQUENCY) \in Nat
      /\ WeightFor(RULE_LIVENESS_CHECK_FAILED) \in Nat
  BY <1>1 DEF PolicyFields, ScoredRules
<1>3. \A rule : WeightFor(rule)' = WeightFor(rule)
  BY DEF WeightFor, Policy
<1>4. x \notin BrowserScored /\ BrowserScored' = BrowserScored \cup {x}
        => BrowserShare' = BrowserShare + WeightFor(RULE_BROWSER_EVENT)
  BY <1>2, <1>3, Multiples, SharesFinite DEF BrowserShare
<1>5. x \notin AudioScored /\ AudioScored' = AudioScored \cup {x}
        => AudioShare' = AudioShare + WeightFor(RULE_AUDIO_ANOMALY)
  BY <1>2, <1>3, Multiples, SharesFinite DEF AudioShare
<1>6. x \notin GazeScored /\ GazeScored' = GazeScored \cup {x}
        => GazeShare' = GazeShare + WeightFor(RULE_GAZE_AWAY_FREQUENCY)
  BY <1>2, <1>3, Multiples, SharesFinite DEF GazeShare
<1>7. ASSUME x \notin LivenessDue, LivenessDue' = LivenessDue \cup {x}
      PROVE  LivenessShare' = LivenessShare +
                  IF Policy.liveness_check_action = "medium_accumulate"
                  THEN WeightFor(RULE_LIVENESS_CHECK_FAILED) ELSE 0
  <2>1. WeightFor(RULE_LIVENESS_CHECK_FAILED) * Cardinality(LivenessDue \cup {x})
          = WeightFor(RULE_LIVENESS_CHECK_FAILED) * Cardinality(LivenessDue)
              + WeightFor(RULE_LIVENESS_CHECK_FAILED)
    BY <1>2, <1>7, Multiples, SharesFinite
  <2>2. Policy' = Policy
    BY DEF Policy
  <2> QED
    BY <1>3, <1>7, <2>1, <2>2 DEF LivenessShare
<1> QED
  BY <1>4, <1>5, <1>6, <1>7

(* A detection counts exactly when it is neither dropped nor exempt.       *)
LEMMA ObjectScoredNow ==
    ASSUME TypeInv, NEW c, NEW now \in 0 .. MaxTime,
           scenario' = scenario, NEW m, objectLog'[m] = [class |-> c, now |-> now]
    PROVE  ObjectScored(m)' <=> /\ ~(c = "book" /\ ~ShouldFlagBook)
                                /\ ~FindMatchingExemption(c, now)
<1>1. MaxTime \in Nat
  BY PolicyTypes DEF TypeInv, PolicyFields
<1>2. objectLog'[m].class = c /\ objectLog'[m].now = now
  OBVIOUS
<1>3. /\ Context' = Context /\ MaxTime' = MaxTime
      /\ ShouldFlagBook' <=> ShouldFlagBook
  BY DEF Context, MaxTime, ShouldFlagBook
<1>4. ObjectScored(m)' <=>
        /\ c = "book" => ShouldFlagBook
        /\ ~\E ex \in Context.exemptions :
               /\ ex.participant_id = Context.participant_id
               /\ ex.exam_reference = Context.exam_reference
               /\ ex.object_class = c
               /\ now \in ex.effective_at ..
                      (IF ex.expires_at = None THEN MaxTime ELSE ex.expires_at - 1)
  BY <1>2, <1>3, Zenon DEF ObjectScored
<1>5. ASSUME NEW ex \in Context.exemptions
      PROVE  now \in ex.effective_at ..
                 (IF ex.expires_at = None THEN MaxTime ELSE ex.expires_at - 1)
             <=> /\ now >= ex.effective_at
                 /\ ex.expires_at # None => now < ex.expires_at
  <2>1. ex.effective_at \in Nat /\ ex.expires_at \in Nat \cup {None} /\ now \in Nat
    BY <1>1, ExemptionAssumption DEF TypeInv, Context
  <2> QED
    BY <1>1, <2>1 DEF None
<1>6. FindMatchingExemption(c, now) <=>
         \E ex \in Context.exemptions :
               /\ ex.participant_id = Context.participant_id
               /\ ex.object_class = c
               /\ ex.exam_reference = Context.exam_reference
               /\ now >= ex.effective_at
               /\ ex.expires_at # None => now < ex.expires_at
  BY Zenon DEF FindMatchingExemption, Matches
<1> QED
  BY <1>4, <1>5, <1>6, Zenon

(* A detection adds the same to its share and to the score.                *)
LEMMA ObjectShareStep ==
    ASSUME TypeInv, NEW c \in {"book", "cell_phone"}, NEW now \in 0 .. MaxTime,
           ProcessObjectDetection(c, now), scenario' = scenario
    PROVE  \E o \in Int : /\ ObjectShare' = ObjectShare + o
                          /\ accumulated_score' = accumulated_score + o
<1> DEFINE n == Len(objectLog)
           x == [class |-> c, now |-> now]
           T == [class : {"book", "cell_phone"}, now : Nat]
           rule == ObjectRule(c)
           dropped == c = "book" /\ ~ShouldFlagBook
           exempt == FindMatchingExemption(c, now)
           ids == {<<"object", n + 1>>}
<1>1. /\ SingleType /\ OutType /\ PolicyFields /\ objectLog \in Seq(T) /\ n \in Nat
      /\ accumulated_score \in Nat
  BY TypeParts, PolicyTypes DEF TypeInv, SingleType, OutType
<1>2. x \in T
  BY <1>1 DEF PolicyFields
<1>3. /\ objectLog' = Append(objectLog, x)
      /\ \/ dropped /\ UNCHANGED outVars
         \/ ~dropped /\ exempt /\ UNCHANGED accumulated_score
         \/ ~dropped /\ ~exempt /\ accumulated_score' = accumulated_score + WeightFor(rule)
  BY Zenon DEF ProcessObjectDetection, Emit, Accumulate
<1> HIDE DEF dropped, exempt
<1>4. /\ Len(objectLog') = n + 1
      /\ \A k \in 1 .. n : objectLog'[k] = objectLog[k]
      /\ objectLog'[n + 1] = x
  <2> HIDE DEF T, x
  <2> QED
    BY <1>1, <1>2, <1>3, AppendFacts
<1>5. PICK m : m = n + 1
  OBVIOUS
<1>6. ObjectScored(m)' <=> ~dropped /\ ~exempt
  BY <1>4, <1>5, ObjectScoredNow DEF dropped, exempt
<1>7. \A k \in 1 .. n : ObjectScored(k)' <=> ObjectScored(k)
  BY <1>4, Zenon DEF ObjectScored, ShouldFlagBook, Context, MaxTime
<1>8. \A k : k \in 1 .. Len(objectLog') <=> k \in 1 .. n \/ k = m
  BY <1>1, <1>4, <1>5
<1>9. ObjectsScored' = IF ObjectScored(m)' THEN ObjectsScored \cup {m} ELSE ObjectsScored
  <2>1. ObjectsScored' = {k \in 1 .. Len(objectLog') : ObjectScored(k)'}
    BY Zenon DEF ObjectsScored
  <2>2. \A k : k \in ObjectsScored' <=>
                  \/ k \in ObjectsScored
                  \/ (k = m /\ ObjectScored(m)')
    BY <1>7, <1>8, <2>1, Zenon DEF ObjectsScored
  <2> QED
    BY <2>2, Zenon
<1>10. /\ \A k \in ObjectsScored : ObjectWeights'[k] = ObjectWeights[k]
       /\ ObjectWeights'[m] = WeightFor(rule)
       /\ m \notin ObjectsScored
       /\ IsFiniteSet(ObjectsScored)
       /\ \A k \in ObjectsScored : ObjectWeights[k] \in Nat
  <2>1. \A k \in 1 .. n + 1 :
           ObjectWeights'[k] = WeightFor(ObjectRule(objectLog'[k].class))
    BY <1>4 DEF ObjectWeights, WeightFor, Policy
  <2>2. \A k \in 1 .. n : k \in 1 .. n + 1 /\ k # m
    BY <1>1, <1>5
  <2>3. \A k \in 1 .. n : ObjectWeights[k] = WeightFor(ObjectRule(objectLog[k].class))
    BY DEF ObjectWeights
  <2>4. \A k \in ObjectsScored : k \in 1 .. n
    BY DEF ObjectsScored
  <2>5. m \in 1 .. n + 1 /\ objectLog'[m].class = c
    BY <1>1, <1>4, <1>5
  <2>6. ObjectWeights'[m] = WeightFor(rule)
    BY <2>1, <2>5, Zenon
  <2> QED
    BY <1>4, <2>1, <2>2, <2>3, <2>4, <2>6, SharesFinite, Zenon
<1>11. WeightFor(rule) \in Nat
  BY <1>1 DEF PolicyFields, ObjectRule, ScoredRules
<1>12. ObjectShare \in Int
  BY ShareTypes
<1> HIDE DEF x, rule
<1>13. CASE ObjectScored(m)'
  <2>1. ObjectShare' = SumFunctionOnSet(ObjectWeights', ObjectsScored \cup {m})
    BY <1>9, <1>13, Zenon DEF ObjectShare
  <2>2. \A k \in ObjectsScored \cup {m} : ObjectWeights'[k] \in Int
    BY <1>10, <1>11
  <2>3. \A k \in ObjectsScored : ObjectWeights[k] = ObjectWeights'[k]
    BY <1>10
  <2>4. SumFunctionOnSet(ObjectWeights', ObjectsScored \cup {m}) =
           ObjectWeights'[m] + SumFunctionOnSet(ObjectWeights, ObjectsScored)
    BY <1>10, <2>2, <2>3, SumAdd
  <2>5. ObjectShare' = WeightFor(rule) + ObjectShare
    BY <1>10, <2>1, <2>4, Zenon DEF ObjectShare
  <2>6. accumulated_score' = accumulated_score + WeightFor(rule)
    BY <1>3, <1>6, <1>13, Zenon
  <2>7. ObjectShare' = ObjectShare + WeightFor(rule) /\ WeightFor(rule) \in Int
    BY <1>11, <1>12, <2>5
  <2> QED
    BY <2>6, <2>7, Zenon
<1>14. CASE ~ObjectScored(m)'
  <2>1. ObjectShare' = SumFunctionOnSet(ObjectWeights', ObjectsScored)
    BY <1>9, <1>14, Zenon DEF ObjectShare
  <2>2. ObjectShare' = ObjectShare
    BY <1>10, <2>1, SumSame DEF ObjectShare
  <2>3. accumulated_score' = accumulated_score
    BY <1>3, <1>6, <1>14, Zenon DEF outVars
  <2>4. ObjectShare' = ObjectShare + 0 /\ accumulated_score' = accumulated_score + 0
    BY <1>1, <1>12, <2>2, <2>3
  <2> QED
    BY <2>4
<1> QED
  BY <1>13, <1>14

(* A browser event adds the same to its share and to the score.            *)
LEMMA BrowserShareStep ==
    ASSUME TypeInv, NEW x \in {"blur", "copy"}, ProcessBrowserEvent(x), scenario' = scenario
    PROVE  \E o \in Int : /\ BrowserShare' = BrowserShare + o
                          /\ accumulated_score' = accumulated_score + o
<1> DEFINE n == Len(browserLog)
           counts(v) == v \in BROWSER_ACCUMULATION_EVENTS
<1>1. /\ OutType /\ PolicyFields /\ browserLog \in Seq({"blur", "copy"}) /\ n \in Nat
      /\ accumulated_score \in Nat
  BY TypeParts, PolicyTypes DEF TypeInv, SingleType, OutType
<1>2. /\ browserLog' = Append(browserLog, x)
      /\ IF counts(x)
         THEN accumulated_score' = accumulated_score + WeightFor(RULE_BROWSER_EVENT)
         ELSE accumulated_score' = accumulated_score
  BY Zenon DEF ProcessBrowserEvent, Emit, Accumulate, outVars
<1>3. /\ Len(browserLog') = n + 1
      /\ \A k \in 1 .. n : browserLog'[k] = browserLog[k]
      /\ browserLog'[n + 1] = x
  BY <1>1, <1>2, AppendFacts
<1>4. PICK m : m = n + 1
  OBVIOUS
<1>5. \A k : k \in 1 .. Len(browserLog') <=> k \in 1 .. n \/ k = m
  BY <1>1, <1>3, <1>4
<1>6. BrowserScored' = {k \in 1 .. Len(browserLog') : counts(browserLog'[k])}
  BY Zenon DEF BrowserScored, BROWSER_ACCUMULATION_EVENTS
<1>7. BrowserScored = {k \in 1 .. n : counts(browserLog[k])}
  BY DEF BrowserScored
<1> HIDE DEF counts
<1>8. browserLog'[m] = x /\ m \notin BrowserScored
  BY <1>1, <1>3, <1>4, <1>7
<1>9. BrowserScored' = IF counts(x) THEN BrowserScored \cup {m} ELSE BrowserScored
  <2>1. \A k : k \in BrowserScored' <=> k \in BrowserScored \/ (k = m /\ counts(x))
    BY <1>3, <1>5, <1>6, <1>7, <1>8, Zenon
  <2> QED
    BY <2>1, Zenon
<1>10. WeightFor(RULE_BROWSER_EVENT) \in Int /\ BrowserShare \in Int
  BY <1>1, ShareTypes DEF PolicyFields, ScoredRules
<1>11. CASE counts(x)
  <2>1. BrowserShare' = BrowserShare + WeightFor(RULE_BROWSER_EVENT)
    BY <1>8, <1>9, <1>11, ShareOfOneMore
  <2> QED
    BY <1>2, <1>10, <1>11, <2>1, Zenon
<1>12. CASE ~counts(x)
  <2>1. BrowserScored' = BrowserScored /\ WeightFor(RULE_BROWSER_EVENT)' = WeightFor(RULE_BROWSER_EVENT)
    BY <1>9, <1>12, Zenon DEF WeightFor, Policy
  <2>2. BrowserShare' = BrowserShare
    BY <2>1 DEF BrowserShare
  <2>3. BrowserShare' = BrowserShare + 0 /\ accumulated_score' = accumulated_score + 0
    BY <1>1, <1>2, <1>10, <1>12, <2>2
  <2> QED
    BY <2>3
<1> QED
  BY <1>11, <1>12

(* An audio result adds the same to its share and to the score.            *)
LEMMA AudioShareStep ==
    ASSUME TypeInv, NEW x \in {"silence", "speech_detected"}, ProcessAudioVad(x), scenario' = scenario
    PROVE  \E o \in Int : /\ AudioShare' = AudioShare + o
                          /\ accumulated_score' = accumulated_score + o
<1> DEFINE n == Len(audioLog)
           counts(v) == v # "silence"
<1>1. /\ OutType /\ PolicyFields /\ audioLog \in Seq({"silence", "speech_detected"}) /\ n \in Nat
      /\ accumulated_score \in Nat
  BY TypeParts, PolicyTypes DEF TypeInv, SingleType, OutType
<1>2. /\ audioLog' = Append(audioLog, x)
      /\ IF counts(x)
         THEN accumulated_score' = accumulated_score + WeightFor(RULE_AUDIO_ANOMALY)
         ELSE accumulated_score' = accumulated_score
  BY Zenon DEF ProcessAudioVad, Emit, Accumulate, outVars
<1>3. /\ Len(audioLog') = n + 1
      /\ \A k \in 1 .. n : audioLog'[k] = audioLog[k]
      /\ audioLog'[n + 1] = x
  BY <1>1, <1>2, AppendFacts
<1>4. PICK m : m = n + 1
  OBVIOUS
<1>5. \A k : k \in 1 .. Len(audioLog') <=> k \in 1 .. n \/ k = m
  BY <1>1, <1>3, <1>4
<1>6. AudioScored' = {k \in 1 .. Len(audioLog') : counts(audioLog'[k])}
  BY Zenon DEF AudioScored
<1>7. AudioScored = {k \in 1 .. n : counts(audioLog[k])}
  BY DEF AudioScored
<1> HIDE DEF counts
<1>8. audioLog'[m] = x /\ m \notin AudioScored
  BY <1>1, <1>3, <1>4, <1>7
<1>9. AudioScored' = IF counts(x) THEN AudioScored \cup {m} ELSE AudioScored
  <2>1. \A k : k \in AudioScored' <=> k \in AudioScored \/ (k = m /\ counts(x))
    BY <1>3, <1>5, <1>6, <1>7, <1>8, Zenon
  <2> QED
    BY <2>1, Zenon
<1>10. WeightFor(RULE_AUDIO_ANOMALY) \in Int /\ AudioShare \in Int
  BY <1>1, ShareTypes DEF PolicyFields, ScoredRules
<1>11. CASE counts(x)
  <2>1. AudioShare' = AudioShare + WeightFor(RULE_AUDIO_ANOMALY)
    BY <1>8, <1>9, <1>11, ShareOfOneMore
  <2> QED
    BY <1>2, <1>10, <1>11, <2>1, Zenon
<1>12. CASE ~counts(x)
  <2>1. AudioScored' = AudioScored /\ WeightFor(RULE_AUDIO_ANOMALY)' = WeightFor(RULE_AUDIO_ANOMALY)
    BY <1>9, <1>12, Zenon DEF WeightFor, Policy
  <2>2. AudioShare' = AudioShare
    BY <2>1 DEF AudioShare
  <2>3. AudioShare' = AudioShare + 0 /\ accumulated_score' = accumulated_score + 0
    BY <1>1, <1>2, <1>10, <1>12, <2>2
  <2> QED
    BY <2>3
<1> QED
  BY <1>11, <1>12

(* The ladder's terminating flags.                                         *)
FatalGaze == {i \in FlagsOf(RULE_GAZE_AWAY_FREQUENCY) :
                 emitted[i].triggered_termination}

(* One more gaze flag joins the terminating or the scored ones.            *)
LEMMA GazeFlagAdded ==
    ASSUME OutType, NEW ids, OneMoreFlag(RULE_GAZE_AWAY_FREQUENCY, ids)
    PROVE  LET new == Len(emitted) + 1
           IN  IF emitted'[new].triggered_termination
               THEN GazeScored' = GazeScored /\ FatalGaze' = FatalGaze \cup {new}
               ELSE GazeScored' = GazeScored \cup {new} /\ FatalGaze' = FatalGaze
<1> DEFINE R == RULE_GAZE_AWAY_FREQUENCY
           new == Len(emitted) + 1
<1>1. \A i \in FlagsOf(R) : i \in 1 .. Len(emitted) /\ i # new
  BY DEF FlagsOf, OutType
<1>2. /\ FlagsOf(R)' = FlagsOf(R) \cup {new}
      /\ \A i \in FlagsOf(R) : emitted'[i] = emitted[i]
  BY <1>1, Zenon DEF OneMoreFlag
<1>3. /\ GazeScored' = {i \in FlagsOf(R)' : ~emitted'[i].triggered_termination}
      /\ FatalGaze' = {i \in FlagsOf(R)' : emitted'[i].triggered_termination}
  BY Zenon DEF GazeScored, FatalGaze
<1> HIDE DEF R, new
<1>4. \A i : i \in GazeScored' <=>
                \/ i \in GazeScored
                \/ (i = new /\ ~emitted'[new].triggered_termination)
  BY <1>1, <1>2, <1>3, Zenon DEF GazeScored, R
<1>5. \A i : i \in FatalGaze' <=>
                \/ i \in FatalGaze
                \/ (i = new /\ emitted'[new].triggered_termination)
  BY <1>1, <1>2, <1>3, Zenon DEF FatalGaze, R
<1>6. CASE emitted'[new].triggered_termination
  <2>1. GazeScored' = GazeScored /\ FatalGaze' = FatalGaze \cup {new}
    BY <1>4, <1>5, <1>6, Zenon
  <2> QED
    BY <1>6, <2>1, Zenon DEF new
<1>7. CASE ~emitted'[new].triggered_termination
  <2>1. GazeScored' = GazeScored \cup {new} /\ FatalGaze' = FatalGaze
    BY <1>4, <1>5, <1>7, Zenon
  <2> QED
    BY <1>7, <2>1, Zenon DEF new
<1> QED
  BY <1>6, <1>7

(* A gaze result adds the same to its share and to the score.              *)
LEMMA GazeShareStep ==
    ASSUME TypeInv, GazeOutcome, scenario' = scenario
    PROVE  \E o \in Int : /\ GazeShare' = GazeShare + o
                          /\ accumulated_score' = accumulated_score + o
<1> DEFINE R == RULE_GAZE_AWAY_FREQUENCY
           new == Len(emitted) + 1
<1>1. /\ OutType /\ PolicyFields /\ Len(emitted) \in Nat /\ accumulated_score \in Nat
      /\ R \in ScoredRules /\ R \in Rules
  BY TypeParts, PolicyTypes DEF TypeInv, OutType, ScoredRules, Rules
<1>2. WeightFor(R) \in Int /\ GazeShare \in Int /\ WeightFor(R)' = WeightFor(R)
  BY <1>1, ShareTypes DEF PolicyFields, WeightFor, Policy
<1>3. GazeScored' = {i \in FlagsOf(R)' : ~emitted'[i].triggered_termination}
  BY Zenon DEF GazeScored
<1>4. \A i \in FlagsOf(R) : i \in 1 .. Len(emitted) /\ i # new
  BY <1>1 DEF FlagsOf
<1>5. new \notin GazeScored
  BY <1>4 DEF GazeScored
<1>6. ASSUME NEW ids, OneMoreFlag(R, ids)
      PROVE  GazeScored' = IF emitted'[new].triggered_termination
                           THEN GazeScored ELSE GazeScored \cup {new}
  BY <1>1, <1>6, GazeFlagAdded
<1>7. CASE UNCHANGED outVars
  <2>1. Untouched(R) /\ accumulated_score' = accumulated_score
    BY <1>1, <1>7, SilentUntouched DEF outVars
  <2>2. GazeShare' = GazeShare + 0 /\ accumulated_score' = accumulated_score + 0
    BY <1>1, <2>1, SharesKept
  <2> QED
    BY <2>2
<1>8. ASSUME NEW ids \in SUBSET EventIds, Emit(Terminating(R, ids))
      PROVE  \E o \in Int : /\ GazeShare' = GazeShare + o
                            /\ accumulated_score' = accumulated_score + o
  <2>1. Terminating(R, ids) \in FlagDecision
    BY <1>1, <1>8, DecisionTypes
  <2>2. /\ Terminating(R, ids).rule_code = R
        /\ Terminating(R, ids).triggered_termination
    BY DEF Terminating
  <2>3. OneMoreFlag(R, Terminating(R, ids).contributing_event_ids)
    BY <1>1, <1>8, <2>1, <2>2, EmitOneMore
  <2>4. /\ emitted'[new] = Terminating(R, ids)
        /\ accumulated_score' = accumulated_score
    BY <1>1, <1>8, <2>1, EmitFacts DEF OutType
  <2>5. GazeScored' = GazeScored
    BY <1>6, <2>2, <2>3, <2>4
  <2>6. GazeShare' = GazeShare
    BY <1>2, <2>5 DEF GazeShare
  <2>7. GazeShare' = GazeShare + 0 /\ accumulated_score' = accumulated_score + 0
    BY <1>1, <1>2, <2>4, <2>6
  <2> QED
    BY <2>7
<1>9. ASSUME NEW ids \in SUBSET EventIds, Accumulate(R, ids)
      PROVE  \E o \in Int : /\ GazeShare' = GazeShare + o
                            /\ accumulated_score' = accumulated_score + o
  <2>1. OneMoreFlag(R, ids)
    BY <1>1, <1>9, AccumulateOneMore
  <2>2. /\ emitted'[new] = Medium(R, ids, WeightFor(R))
        /\ accumulated_score' = accumulated_score + WeightFor(R)
    BY <1>1, <1>9, AccumulateFacts DEF OutType
  <2>3. ~emitted'[new].triggered_termination
    BY <2>2 DEF Medium
  <2>4. GazeScored' = GazeScored \cup {new}
    BY <1>6, <2>1, <2>3
  <2>5. GazeShare' = GazeShare + WeightFor(R)
    BY <1>5, <2>4, ShareOfOneMore
  <2> QED
    BY <1>2, <2>2, <2>5, Zenon
<1> QED
  BY <1>7, <1>8, <1>9, Zenon DEF GazeOutcome

(* A liveness result adds the same to its share and to the score.          *)
LEMMA LivenessShareStep ==
    ASSUME TypeInv, LivenessOutcome, scenario' = scenario
    PROVE  \E o \in Int : /\ LivenessShare' = LivenessShare + o
                          /\ accumulated_score' = accumulated_score + o
<1> DEFINE R == RULE_LIVENESS_CHECK_FAILED
<1>1. /\ OutType /\ PolicyFields /\ accumulated_score \in Nat
      /\ R \in ScoredRules /\ R \in Rules
  BY TypeParts, PolicyTypes DEF TypeInv, OutType, ScoredRules, Rules
<1>2. /\ WeightFor(R) \in Int /\ LivenessShare \in Int /\ WeightFor(R)' = WeightFor(R)
      /\ Policy' = Policy
  BY <1>1, ShareTypes DEF PolicyFields, WeightFor, Policy
<1>3. CASE LivenessDue' = LivenessDue /\ UNCHANGED outVars
  <2>1. LivenessShare' = LivenessShare /\ accumulated_score' = accumulated_score
    BY <1>2, <1>3 DEF LivenessShare, outVars
  <2>2. LivenessShare' = LivenessShare + 0 /\ accumulated_score' = accumulated_score + 0
    BY <1>1, <1>2, <2>1
  <2> QED
    BY <2>2
<1>4. ASSUME NEW m, m \notin LivenessDue, LivenessDue' = LivenessDue \cup {m},
             NEW ids \in SUBSET EventIds,
             Policy.liveness_check_action = "critical_terminate",
             Emit(Terminating(R, ids))
      PROVE  \E o \in Int : /\ LivenessShare' = LivenessShare + o
                            /\ accumulated_score' = accumulated_score + o
  <2>1. Policy.liveness_check_action # "medium_accumulate"
    BY <1>4
  <2>2. LivenessShare' = LivenessShare + 0
    BY <1>4, <2>1, ShareOfOneMore
  <2>3. accumulated_score' = accumulated_score + 0
    BY <1>1, <1>4 DEF Emit
  <2> QED
    BY <2>2, <2>3
<1>5. ASSUME NEW m, m \notin LivenessDue, LivenessDue' = LivenessDue \cup {m},
             NEW ids \in SUBSET EventIds,
             Policy.liveness_check_action = "medium_accumulate",
             Accumulate(R, ids)
      PROVE  \E o \in Int : /\ LivenessShare' = LivenessShare + o
                            /\ accumulated_score' = accumulated_score + o
  <2>1. LivenessShare' = LivenessShare + WeightFor(R)
    BY <1>5, ShareOfOneMore
  <2>2. accumulated_score' = accumulated_score + WeightFor(R)
    BY <1>5, Zenon DEF Accumulate
  <2> QED
    BY <1>2, <2>1, <2>2, Zenon
<1> QED
  BY <1>3, <1>4, <1>5, Zenon DEF LivenessOutcome

(* No result yet, no score.                                                *)
LEMMA ScoreInit == Init => ScoreExact
<1> SUFFICES ASSUME Init PROVE ScoreExact
  OBVIOUS
<1>1. /\ accumulated_score = 0 /\ Len(objectLog) = 0 /\ Len(browserLog) = 0
      /\ Len(audioLog) = 0 /\ Len(emitted) = 0 /\ Len(livenessLog) = 0
  BY DEF Init
<1>2. PolicyFields
  BY PolicyTypes DEF Init
<1>3. /\ ObjectsScored = {} /\ BrowserScored = {} /\ AudioScored = {}
      /\ GazeScored = {} /\ LivenessDue = {}
  BY <1>1 DEF ObjectsScored, BrowserScored, AudioScored, GazeScored,
              LivenessDue, FlagsOf
<1>4. Cardinality({}) = 0
  BY FS_EmptySet
<1>5. ObjectShare = 0
  BY <1>3, SumEmpty DEF ObjectShare
<1>6. \A rule \in ScoredRules : WeightFor(rule) * 0 = 0
  BY <1>2 DEF PolicyFields
<1>7. /\ WeightFor(RULE_BROWSER_EVENT) * 0 = 0
      /\ WeightFor(RULE_AUDIO_ANOMALY) * 0 = 0
      /\ WeightFor(RULE_GAZE_AWAY_FREQUENCY) * 0 = 0
      /\ WeightFor(RULE_LIVENESS_CHECK_FAILED) * 0 = 0
  BY <1>6 DEF ScoredRules
<1>8. BrowserShare = 0 /\ AudioShare = 0 /\ GazeShare = 0 /\ LivenessShare = 0
  BY <1>3, <1>4, <1>7, Zenon DEF BrowserShare, AudioShare, GazeShare, LivenessShare
<1> QED
  BY <1>1, <1>5, <1>8, ScoreShares

(* Every step keeps the score exact.                                       *)
LEMMA ScoreStepInv ==
    ASSUME TypeInv, LivenessInv, ScoreExact, [Next]_vars
    PROVE  ScoreExact'
<1> DEFINE G == RULE_GAZE_AWAY_FREQUENCY
<1>1. OutType /\ PolicyFields /\ accumulated_score \in Nat
  BY TypeParts, PolicyTypes DEF TypeInv, OutType
<1>2. scenario' = scenario
  BY StepOutcome
<1>3. /\ G \notin {RULE_SECOND_PERSON} /\ G \notin {RULE_IDENTITY_MISMATCH}
      /\ G \notin {RULE_LIVENESS_CHECK_FAILED} /\ G \notin {RULE_AUDIO_ANOMALY}
      /\ G \notin {RULE_BROWSER_EVENT} /\ G \notin ObjectRules
      /\ G # RULE_ACCUMULATED_SCORE
      /\ {RULE_SECOND_PERSON} \cap ScoredRules = {}
      /\ {RULE_IDENTITY_MISMATCH} \cap ScoredRules = {}
  BY RulesDiffer
<1> HIDE DEF G
<1>4. ASSUME NEW rules, Outcome(rules), G \notin rules PROVE Untouched(G)
  BY <1>1, <1>3, <1>4, OutcomeUntouched
<1>5. ASSUME NEW rules, Outcome(rules), rules \cap ScoredRules = {}
      PROVE  accumulated_score' = accumulated_score
  BY <1>5, Zenon DEF Outcome, outVars, Emit
<1>6. /\ objectLog' = objectLog => ObjectShare' = ObjectShare + 0
      /\ browserLog' = browserLog => BrowserShare' = BrowserShare + 0
      /\ audioLog' = audioLog => AudioShare' = AudioShare + 0
      /\ Untouched(G) => GazeShare' = GazeShare + 0
      /\ livenessLog' = livenessLog => LivenessShare' = LivenessShare + 0
  BY <1>2, SharesKept DEF G
<1>7. ASSUME UNCHANGED livenessVars, UNCHANGED singleLogs, Untouched(G),
             accumulated_score' = accumulated_score
      PROVE  ScoreExact'
  <2>1. accumulated_score' = accumulated_score + (0 + 0 + 0 + 0 + 0)
    BY <1>1, <1>7
  <2>2. /\ ObjectShare' = ObjectShare + 0 /\ BrowserShare' = BrowserShare + 0
        /\ AudioShare' = AudioShare + 0 /\ GazeShare' = GazeShare + 0
        /\ LivenessShare' = LivenessShare + 0
    BY <1>6, <1>7, Zenon DEF livenessVars, singleLogs
  <2>3. 0 \in Int
    OBVIOUS
  <2> QED
    BY <2>1, <2>2, <2>3, SharesGrow
<1>8. CASE UNCHANGED vars
  BY <1>1, <1>7, <1>8, SilentUntouched DEF vars, outVars
<1>9. CASE FaceStep
  BY <1>3, <1>4, <1>5, <1>7, <1>9, Zenon DEF FaceStep
<1>10. CASE IdentityStep
  BY <1>3, <1>4, <1>5, <1>7, <1>10, Zenon DEF IdentityStep
<1>11. CASE LivenessStep
  <2>1. LivenessOutcome
    BY <1>2, <1>11, LivenessActionStep, Zenon DEF LivenessStep
  <2>2. PICK o \in Int : /\ LivenessShare' = LivenessShare + o
                         /\ accumulated_score' = accumulated_score + o
    BY <1>2, <2>1, LivenessShareStep
  <2>3. /\ ObjectShare' = ObjectShare + 0 /\ BrowserShare' = BrowserShare + 0
        /\ AudioShare' = AudioShare + 0 /\ GazeShare' = GazeShare + 0
    BY <1>3, <1>4, <1>6, <1>11, Zenon DEF LivenessStep, singleLogs
  <2>4. accumulated_score' = accumulated_score + (0 + 0 + 0 + 0 + o) /\ 0 \in Int
    BY <1>1, <2>2
  <2> QED
    BY <2>2, <2>3, <2>4, SharesGrow
<1>12. CASE GazeStep
  <2>1. PICK o \in Int : /\ GazeShare' = GazeShare + o
                         /\ accumulated_score' = accumulated_score + o
    BY <1>2, <1>12, GazeShareStep, Zenon DEF GazeStep
  <2>2. /\ ObjectShare' = ObjectShare + 0 /\ BrowserShare' = BrowserShare + 0
        /\ AudioShare' = AudioShare + 0 /\ LivenessShare' = LivenessShare + 0
    BY <1>6, <1>12, Zenon DEF GazeStep, singleLogs, livenessVars
  <2>3. accumulated_score' = accumulated_score + (0 + 0 + 0 + o + 0) /\ 0 \in Int
    BY <1>1, <2>1
  <2> QED
    BY <2>1, <2>2, <2>3, SharesGrow
<1>13. CASE ObjectStep
  <2>1. PICK o \in Int : /\ ObjectShare' = ObjectShare + o
                         /\ accumulated_score' = accumulated_score + o
    BY <1>2, <1>13, ObjectShareStep, Zenon DEF ObjectStep
  <2>2. browserLog' = browserLog /\ audioLog' = audioLog
    BY <1>13, Zenon DEF ObjectStep, ProcessObjectDetection
  <2>3. /\ BrowserShare' = BrowserShare + 0 /\ AudioShare' = AudioShare + 0
        /\ GazeShare' = GazeShare + 0 /\ LivenessShare' = LivenessShare + 0
    BY <1>3, <1>4, <1>6, <1>13, <2>2, Zenon DEF ObjectStep, livenessVars
  <2>4. accumulated_score' = accumulated_score + (o + 0 + 0 + 0 + 0) /\ 0 \in Int
    BY <1>1, <2>1
  <2> QED
    BY <2>1, <2>3, <2>4, SharesGrow
<1>14. CASE BrowserStep
  <2>1. PICK o \in Int : /\ BrowserShare' = BrowserShare + o
                         /\ accumulated_score' = accumulated_score + o
    BY <1>2, <1>14, BrowserShareStep, Zenon DEF BrowserStep
  <2>2. objectLog' = objectLog /\ audioLog' = audioLog
    BY <1>14, Zenon DEF BrowserStep, ProcessBrowserEvent
  <2>3. /\ ObjectShare' = ObjectShare + 0 /\ AudioShare' = AudioShare + 0
        /\ GazeShare' = GazeShare + 0 /\ LivenessShare' = LivenessShare + 0
    BY <1>3, <1>4, <1>6, <1>14, <2>2, Zenon DEF BrowserStep, livenessVars
  <2>4. accumulated_score' = accumulated_score + (0 + o + 0 + 0 + 0) /\ 0 \in Int
    BY <1>1, <2>1
  <2> QED
    BY <2>1, <2>3, <2>4, SharesGrow
<1>15. CASE AudioStep
  <2>1. PICK o \in Int : /\ AudioShare' = AudioShare + o
                         /\ accumulated_score' = accumulated_score + o
    BY <1>2, <1>15, AudioShareStep, Zenon DEF AudioStep
  <2>2. objectLog' = objectLog /\ browserLog' = browserLog
    BY <1>15, Zenon DEF AudioStep, ProcessAudioVad
  <2>3. /\ ObjectShare' = ObjectShare + 0 /\ BrowserShare' = BrowserShare + 0
        /\ GazeShare' = GazeShare + 0 /\ LivenessShare' = LivenessShare + 0
    BY <1>3, <1>4, <1>6, <1>15, <2>2, Zenon DEF AudioStep, livenessVars
  <2>4. accumulated_score' = accumulated_score + (0 + 0 + o + 0 + 0) /\ 0 \in Int
    BY <1>1, <2>1
  <2> QED
    BY <2>1, <2>3, <2>4, SharesGrow
<1> QED
  BY <1>8, <1>9, <1>10, <1>11, <1>12, <1>13, <1>14, <1>15, StepOutcome

(* The running score is the weighted number of countable incidents of the  *)
(* whole history, in whatever order the paths were fed: an exempt object,  *)
(* an allowed book, silence or a copy event never reaches it               *)
(* (SessionAggregator._accumulated_score).                                 *)
THEOREM ScoreIsExact == Spec => []ScoreExact
  BY LivenessInit, LivenessStepInv, ScoreInit, ScoreStepInv, TypeInvHolds, PTL
     DEF Spec

-----------------------------------------------------------------------------
(* Path 2: the gaze ladder. *)

(* The deque lists the episodes closed by the frames of W, oldest first;   *)
(* T[j] and C[j] are the time of frame j and the ids of the streak it      *)
(* closed, idx the frames in the order of the deque.                       *)
Represents(events, idx, W, T, C) ==
    /\ idx \in [1 .. Len(events) -> W]
    /\ \A i, j \in 1 .. Len(events) : i < j => idx[i] < idx[j]
    /\ \A w \in W : \E i \in 1 .. Len(events) : idx[i] = w
    /\ \A i \in 1 .. Len(events) :
          /\ events[i].ended_at_ms = T[idx[i]]
          /\ events[i].contributing_event_ids = C[idx[i]]

(* Its length is the number of those frames.                               *)
LEMMA DequeCounts ==
    ASSUME NEW events \in Seq(GazeAwayEvent), NEW idx, NEW W \in SUBSET Nat,
           NEW T, NEW C, Represents(events, idx, W, T, C)
    PROVE  IsFiniteSet(W) /\ Cardinality(W) = Len(events)
<1> DEFINE n == Len(events)
<1>1. n \in Nat
  OBVIOUS
<1>2. /\ idx \in [1 .. n -> W]
      /\ \A i, j \in 1 .. n : i < j => idx[i] < idx[j]
      /\ \A w \in W : \E i \in 1 .. n : idx[i] = w
  BY Zenon DEF Represents
<1>3. \A i, j \in 1 .. n : idx[i] = idx[j] => i = j
  <2> SUFFICES ASSUME NEW i \in 1 .. n, NEW j \in 1 .. n, idx[i] = idx[j]
               PROVE  i = j
    OBVIOUS
  <2>1. idx[i] \in Nat /\ idx[j] \in Nat
    BY <1>2
  <2>2. ~(i < j) /\ ~(j < i)
    BY <1>2, <2>1
  <2> QED
    BY <1>1, <2>2
<1>4. idx \in Bijection(1 .. n, W)
  BY <1>2, <1>3 DEF Bijection, Injection, Surjection, IsInjective
<1>5. ExistsBijection(1 .. n, W)
  BY <1>4, Zenon DEF ExistsBijection
<1>6. Cardinality(W) = n
  BY <1>1, <1>5, FS_CountingElements
<1>7. IsFiniteSet(1 .. n)
  BY <1>1, FS_Interval
<1>8. IsFiniteSet(W)
  BY <1>5, <1>7, FS_Bijection
<1> QED
  BY <1>6, <1>8

(* Its ids are those of all the streaks.                                   *)
LEMMA DequeIds ==
    ASSUME NEW events, NEW idx, NEW W, NEW T, NEW C,
           Represents(events, idx, W, T, C)
    PROVE  AllGazeIds(events) = UNION {C[j] : j \in W}
<1>1. /\ \A i \in 1 .. Len(events) : /\ idx[i] \in W
                                     /\ events[i].contributing_event_ids = C[idx[i]]
      /\ \A w \in W : \E i \in 1 .. Len(events) : idx[i] = w
  BY DEF Represents
<1>2. ASSUME NEW q \in AllGazeIds(events) PROVE q \in UNION {C[j] : j \in W}
  <2>1. PICK i \in 1 .. Len(events) : q \in events[i].contributing_event_ids
    BY Zenon DEF AllGazeIds
  <2> QED
    BY <1>1, <2>1, Zenon
<1>3. ASSUME NEW q \in UNION {C[j] : j \in W} PROVE q \in AllGazeIds(events)
  <2>1. PICK j \in W : q \in C[j]
    BY Zenon
  <2>2. PICK i \in 1 .. Len(events) : idx[i] = j
    BY <1>1, Zenon
  <2> QED
    BY <1>1, <2>1, <2>2, Zenon DEF AllGazeIds
<1> QED
  BY <1>2, <1>3, Zenon

(* A newer episode goes to its right end.                                  *)
LEMMA DequeAppends ==
    ASSUME NEW events \in Seq(GazeAwayEvent), NEW idx, NEW W \in SUBSET Nat,
           NEW T, NEW C, Represents(events, idx, W, T, C),
           NEW m \in Nat, \A w \in W : w < m,
           NEW v \in GazeAwayEvent, v.ended_at_ms = T[m],
           v.contributing_event_ids = C[m]
    PROVE  \E k : Represents(Append(events, v), k, W \cup {m}, T, C)
<1> DEFINE n == Len(events)
           k == [i \in 1 .. n + 1 |-> IF i = n + 1 THEN m ELSE idx[i]]
<1>1. PICK e \in Seq(GazeAwayEvent) : e = Append(events, v)
  BY AppendFacts
<1>2. /\ Len(e) = n + 1
      /\ \A i \in 1 .. n : e[i] = events[i]
      /\ e[n + 1] = v
      /\ n \in Nat
  BY <1>1, AppendFacts
<1>3. /\ idx \in [1 .. n -> W]
      /\ \A i, j \in 1 .. n : i < j => idx[i] < idx[j]
      /\ \A w \in W : \E i \in 1 .. n : idx[i] = w
      /\ \A i \in 1 .. n : /\ events[i].ended_at_ms = T[idx[i]]
                           /\ events[i].contributing_event_ids = C[idx[i]]
  BY Zenon DEF Represents
<1>4. /\ \A i \in 1 .. n : k[i] = idx[i] /\ k[i] \in W
      /\ k[n + 1] = m
      /\ \A i : i \in 1 .. n + 1 <=> i \in 1 .. n \/ i = n + 1
  <2>1. \A i : i \in 1 .. n + 1 <=> i \in 1 .. n \/ i = n + 1
    BY <1>2
  <2>2. \A i \in 1 .. n : i # n + 1
    BY <1>2
  <2> QED
    BY <1>3, <2>1, <2>2
<1>5. k \in [1 .. Len(e) -> W \cup {m}]
  <2>1. \A i \in 1 .. n + 1 : (IF i = n + 1 THEN m ELSE idx[i]) \in W \cup {m}
    BY <1>2, <1>3, <1>4
  <2> QED
    BY <1>2, <2>1
<1> HIDE DEF k
<1>6. ASSUME NEW i \in 1 .. n + 1, NEW j \in 1 .. n + 1, i < j
      PROVE  k[i] < k[j]
  <2>1. i \in 1 .. n
    BY <1>2, <1>6
  <2>2. CASE j = n + 1
    BY <1>4, <2>1, <2>2
  <2>3. CASE j \in 1 .. n
    BY <1>3, <1>4, <1>6, <2>1, <2>3
  <2> QED
    BY <1>4, <2>2, <2>3
<1>7. ASSUME NEW w \in W \cup {m} PROVE \E i \in 1 .. n + 1 : k[i] = w
  BY <1>3, <1>4, ZenonT(60)
<1>8. ASSUME NEW i \in 1 .. n + 1
      PROVE  /\ e[i].ended_at_ms = T[k[i]]
             /\ e[i].contributing_event_ids = C[k[i]]
  BY <1>2, <1>3, <1>4, Zenon
<1>9. Represents(e, k, W \cup {m}, T, C)
  BY <1>2, <1>5, <1>6, <1>7, <1>8, Zenon DEF Represents
<1> QED
  BY <1>1, <1>9

(* Popping the left end leaves an episode exactly when it or one before it *)
(* ends in the window, whatever the order of the times.                    *)
LEMMA DequeExpires ==
    ASSUME NEW events \in Seq(GazeAwayEvent), NEW idx, NEW W \in SUBSET Nat,
           NEW T, NEW C, Represents(events, idx, W, T, C),
           \A w \in W : T[w] \in Nat,
           NEW ws \in Int
    PROVE  \E k : Represents(Unexpired(events, ws), k,
                  {w \in W : \E a \in W : a =< w /\ T[a] >= ws}, T, C)
<1> DEFINE n == Len(events)
           V == {w \in W : \E a \in W : a =< w /\ T[a] >= ws}
<1>1. /\ idx \in [1 .. n -> W]
      /\ \A i, j \in 1 .. n : i < j => idx[i] < idx[j]
      /\ \A w \in W : \E i \in 1 .. n : idx[i] = w
      /\ \A i \in 1 .. n : /\ events[i].ended_at_ms = T[idx[i]]
                           /\ events[i].contributing_event_ids = C[idx[i]]
      /\ n \in Nat
  <2>1. n \in Nat
    OBVIOUS
  <2> QED
    BY <2>1, Zenon DEF Represents
<1>2. PICK f \in 1 .. n + 1 :
         /\ f = FirstLive(events, ws)
         /\ \A i \in 1 .. f - 1 : events[i].ended_at_ms < ws
         /\ f =< n => events[f].ended_at_ms >= ws
  BY FirstLiveFacts
<1>3. PICK e \in Seq(GazeAwayEvent) : e = Unexpired(events, ws)
  BY UnexpiredType
<1>4. /\ Len(e) = n - f + 1
      /\ \A i \in 1 .. n - f + 1 : e[i] = events[f - 1 + i]
  <2>1. e = SubSeq(events, f, n)
    BY <1>2, <1>3, Zenon DEF Unexpired
  <2>2. \A i \in f .. n : events[i] \in GazeAwayEvent
    BY <1>1, <1>2
  <2>3. /\ Len(SubSeq(events, f, n)) = IF f <= n THEN n - f + 1 ELSE 0
        /\ \A i \in 1 .. n - f + 1 : SubSeq(events, f, n)[i] = events[f + i - 1]
    BY <1>1, <1>2, <2>2, SubSeqProperties
  <2>4. \A i \in 1 .. n - f + 1 : f + i - 1 = f - 1 + i
    BY <1>1, <1>2
  <2>5. f <= n \/ (~(f <= n) /\ n - f + 1 = 0)
    <3>1. n \in Nat
      OBVIOUS
    <3> HIDE DEF n
    <3> QED
      BY <3>1
  <2> QED
    BY <2>1, <2>3, <2>4, <2>5
<1> DEFINE L == n - f + 1
           k == [i \in 1 .. L |-> idx[f - 1 + i]]
<1>5. L \in Nat /\ \A i \in 1 .. L : f - 1 + i \in 1 .. n
  BY <1>1, <1>2, SMTT(40)
<1>6. \A i \in 1 .. L : k[i] = idx[f - 1 + i] /\ k[i] \in W
  BY <1>1, <1>5
<1>7. \A i \in 1 .. n : T[idx[i]] \in Nat /\ events[i].ended_at_ms = T[idx[i]]
  BY <1>1
<1>8. ASSUME NEW i \in 1 .. n PROVE idx[i] \in V <=> i >= f
  <2>1. ASSUME i < f, idx[i] \in V PROVE FALSE
    <3>1. PICK a \in W : a =< idx[i] /\ T[a] >= ws
      BY <2>1, Zenon
    <3>2. PICK p \in 1 .. n : idx[p] = a
      BY <1>1, Zenon
    <3>3. idx[p] \in Nat /\ idx[i] \in Nat /\ idx[p] =< idx[i]
      BY <1>1, <3>1, <3>2
    <3>4. ~(i < p)
      BY <1>1, <3>3
    <3>5. p \in 1 .. f - 1
      BY <1>1, <1>2, <2>1, <3>4
    <3>6. events[p].ended_at_ms < ws /\ events[p].ended_at_ms = T[a]
      BY <1>2, <1>7, <3>2, <3>5, Zenon
    <3>7. T[a] \in Nat
      OBVIOUS
    <3> QED
      BY <3>1, <3>6, <3>7
  <2>2. ASSUME i >= f PROVE idx[i] \in V
    <3>1. f \in 1 .. n /\ (f = i \/ f < i)
      BY <1>1, <1>2, <2>2
    <3>2. idx[f] \in W /\ idx[i] \in W /\ idx[f] \in Nat /\ idx[i] \in Nat
      BY <1>1, <3>1
    <3>3. idx[f] =< idx[i]
      BY <1>1, <3>1, <3>2
    <3>4. T[idx[f]] >= ws
      <4>1. f =< n
        BY <1>1, <3>1
      <4> QED
        BY <1>2, <1>7, <3>1, <4>1, Zenon
    <3> QED
      BY <3>2, <3>3, <3>4, Zenon
  <2>3. i \in Nat /\ f \in Nat /\ (i < f \/ i >= f) /\ ~(i < f /\ i >= f)
    BY <1>1, <1>2
  <2> QED
    BY <2>1, <2>2, <2>3, Zenon
<1>9. \A i \in 1 .. L : idx[f - 1 + i] \in V
  <2> SUFFICES ASSUME NEW i \in 1 .. L PROVE idx[f - 1 + i] \in V
    OBVIOUS
  <2>1. PICK p \in 1 .. n : p = f - 1 + i
    BY <1>5
  <2>2. p >= f
    BY <1>1, <1>2, <2>1
  <2>3. idx[p] \in V
    BY <1>8, <2>2
  <2> QED
    BY <2>1, <2>3, Zenon
<1>10. k \in [1 .. L -> V]
  BY <1>9, Zenon
<1> HIDE DEF k
<1>11. ASSUME NEW i \in 1 .. L, NEW j \in 1 .. L, i < j PROVE k[i] < k[j]
  <2>1. f - 1 + i < f - 1 + j
    BY <1>2, <1>11
  <2> QED
    BY <1>1, <1>5, <1>6, <2>1
<1>12. ASSUME NEW w \in V PROVE \E i \in 1 .. L : k[i] = w
  <2>1. PICK i \in 1 .. n : idx[i] = w
    BY <1>1
  <2>2. i >= f
    BY <1>8, <2>1
  <2>3. i - f + 1 \in 1 .. L /\ f - 1 + (i - f + 1) = i
    <3>1. n \in Nat /\ f \in Nat \ {0} /\ i \in 1 .. n
      BY <1>1, <1>2
    <3> HIDE DEF n
    <3> QED
      BY <2>2, <3>1
  <2>4. PICK q \in 1 .. L : f - 1 + q = i
    BY <2>3
  <2>5. k[q] = idx[i]
    BY <1>6, <2>4, Zenon
  <2> QED
    BY <2>1, <2>5, Zenon
<1>13. ASSUME NEW i \in 1 .. L
       PROVE  /\ e[i].ended_at_ms = T[k[i]]
              /\ e[i].contributing_event_ids = C[k[i]]
  <2>1. PICK p \in 1 .. n : p = f - 1 + i
    BY <1>5
  <2>2. e[i] = events[p] /\ k[i] = idx[p]
    BY <1>4, <1>6, <2>1
  <2> QED
    BY <1>1, <2>2, Zenon
<1>14. Represents(e, k, V, T, C)
  BY <1>4, <1>10, <1>11, <1>12, <1>13, Zenon DEF Represents
<1> QED
  BY <1>3, <1>14, Zenon

(* The least of a set of naturals, as FiniteSetsExt chooses it.            *)
LEMMA MinFacts ==
    ASSUME NEW S \in SUBSET Nat, S # {}
    PROVE  Min(S) \in S /\ \A y \in S : Min(S) =< y
<1>1. \E x \in S : \A y \in S : x =< y
  BY LeastNat
<1> QED
  BY <1>1, Zenon DEF Min

(* A least element is the minimum.                                         *)
LEMMA MinIs ==
    ASSUME NEW S \in SUBSET Nat, NEW x \in S, \A y \in S : x =< y
    PROVE  Min(S) = x
<1>1. Min(S) \in S /\ Min(S) =< x /\ x =< Min(S)
  BY MinFacts
<1>2. Min(S) \in Nat /\ x \in Nat
  BY <1>1
<1> QED
  BY <1>1, <1>2

(* The frames of the off-screen streak that is still open.                 *)
OpenStreak ==
    {i \in 1 .. Len(gazeLog) :
        /\ gazeLog[i].off_screen = "off"
        /\ \A j \in i .. Len(gazeLog) : gazeLog[j].off_screen # "on"}

(* The code's two streak variables describe it.                            *)
StreakInv ==
    /\ gaze_off_event_ids = {<<"gaze", i>> : i \in OpenStreak}
    /\ gaze_off_start_ms = IF OpenStreak = {} THEN None
                           ELSE gazeLog[Min(OpenStreak)].ts

GazeFrame == [off_screen : {"on", "off", "no_landmarks"}, ts : Nat]

(* The ids of the streak that each frame closed, and the frames' times.    *)
GazeTimes == [j \in 1 .. Len(gazeLog) |-> gazeLog[j].ts]
ClosedIds == [j \in 1 .. Len(gazeLog) |-> {<<"gaze", q>> : q \in StreakClosedBy(j)}]

(* What a frame says of the frames before it.                              *)
LEMMA GazePastKept ==
    ASSUME gazeLog \in Seq(GazeFrame), NEW x \in GazeFrame,
           gazeLog' = Append(gazeLog, x), scenario' = scenario,
           NEW k \in 1 .. Len(gazeLog)
    PROVE  /\ StreakClosedBy(k)' = StreakClosedBy(k)
           /\ IsGazeAway(k)' <=> IsGazeAway(k)
           /\ gazeLog'[k] = gazeLog[k]
<1>1. \A i \in 1 .. Len(gazeLog) : gazeLog'[i] = gazeLog[i]
  BY AppendFacts
<1>2. /\ Len(gazeLog) \in Nat
      /\ \A i \in 1 .. k : i \in 1 .. Len(gazeLog)
      /\ \A i \in 1 .. k - 1 : i \in 1 .. k /\ \A j \in i .. k - 1 : j \in 1 .. Len(gazeLog)
  OBVIOUS
<1>3. StreakClosedBy(k)' =
         IF gazeLog'[k].off_screen # "on" THEN {}
         ELSE {i \in 1 .. k - 1 :
                  /\ gazeLog'[i].off_screen = "off"
                  /\ \A j \in i .. k - 1 : gazeLog'[j].off_screen # "on"}
  BY Zenon DEF StreakClosedBy
<1>4. {i \in 1 .. k - 1 : /\ gazeLog'[i].off_screen = "off"
                          /\ \A j \in i .. k - 1 : gazeLog'[j].off_screen # "on"}
      = {i \in 1 .. k - 1 : /\ gazeLog[i].off_screen = "off"
                            /\ \A j \in i .. k - 1 : gazeLog[j].off_screen # "on"}
  BY <1>1, <1>2, Zenon
<1>5. StreakClosedBy(k)' = StreakClosedBy(k)
  BY <1>1, <1>3, <1>4, Zenon DEF StreakClosedBy
<1>6. StreakClosedBy(k) # {} => Min(StreakClosedBy(k)) \in 1 .. Len(gazeLog)
  <2>1. StreakClosedBy(k) \in SUBSET Nat /\ StreakClosedBy(k) \subseteq 1 .. Len(gazeLog)
    BY <1>2 DEF StreakClosedBy
  <2> QED
    BY <2>1, MinFacts
<1>7. IsGazeAway(k)' <=>
         /\ StreakClosedBy(k)' # {}
         /\ gazeLog'[k].ts - gazeLog'[Min(StreakClosedBy(k)')].ts
                 >= Policy'.gaze_min_duration_ms
  BY Zenon DEF IsGazeAway, Min
<1>8. Policy' = Policy
  BY DEF Policy
<1> QED
  BY <1>1, <1>5, <1>6, <1>7, <1>8, Zenon DEF IsGazeAway

(* A set of frames is finite.                                              *)
LEMMA FramesFinite ==
    ASSUME NEW k \in Nat, NEW S \in SUBSET (1 .. k)
    PROVE  IsFiniteSet(S) /\ Cardinality(S) \in Nat /\ S \in SUBSET Nat
<1>1. IsFiniteSet(1 .. k)
  BY FS_Interval
<1>2. IsFiniteSet(S)
  BY <1>1, FS_Subset
<1> QED
  BY <1>2, FS_CardinalityType

(* A new frame does not change the counts at earlier frames.               *)
LEMMA GazeCountsKept ==
    ASSUME gazeLog \in Seq(GazeFrame), NEW x \in GazeFrame,
           gazeLog' = Append(gazeLog, x), scenario' = scenario,
           NEW k \in 1 .. Len(gazeLog)
    PROVE  /\ NeverOutside(k)' = NeverOutside(k)
           /\ NeverSwept(k)' = NeverSwept(k)
           /\ LeastCount(k)' = LeastCount(k)
           /\ MostCount(k)' = MostCount(k)
           /\ GazeWarningDue(k)' <=> GazeWarningDue(k)
           /\ GazeWarningAllowed(k)' <=> GazeWarningAllowed(k)
<1> DEFINE n == Len(gazeLog)
<1>1. \A j \in 1 .. n : /\ IsGazeAway(j)' <=> IsGazeAway(j)
                        /\ gazeLog'[j] = gazeLog[j]
  BY GazePastKept
<1>2. \A i \in 1 .. n : \A j \in 1 .. i :
         /\ j \in 1 .. n
         /\ \A q \in j .. i : q \in 1 .. n
         /\ \A q \in 1 .. j : q \in 1 .. n
  OBVIOUS
<1>3. Policy' = Policy
  BY DEF Policy
<1>4. \A j, q \in 1 .. n : InWindow(j, q)' <=> InWindow(j, q)
  BY <1>1, <1>3, Zenon DEF InWindow
<1>5. ASSUME NEW i \in 1 .. n
      PROVE  /\ NeverOutside(i)' = NeverOutside(i) /\ NeverSwept(i)' = NeverSwept(i)
             /\ LeastCount(i)' = LeastCount(i) /\ MostCount(i)' = MostCount(i)
  <2>1. NeverOutside(i)' = {j \in 1 .. i :
           IsGazeAway(j)' /\ \A q \in j .. i : InWindow(j, q)'}
    BY Zenon DEF NeverOutside
  <2>2. NeverOutside(i)' = NeverOutside(i)
    BY <1>1, <1>2, <1>4, <2>1, ZenonT(60) DEF NeverOutside
  <2>3. NeverSwept(i)' = {j \in 1 .. i :
           /\ IsGazeAway(j)'
           /\ \A q \in j .. i : \E a \in 1 .. j : IsGazeAway(a)' /\ InWindow(a, q)'}
    BY Zenon DEF NeverSwept
  <2>4. ASSUME NEW j \in 1 .. i
        PROVE  (\A q \in j .. i : \E a \in 1 .. j : IsGazeAway(a)' /\ InWindow(a, q)')
                 <=> \A q \in j .. i : \E a \in 1 .. j : IsGazeAway(a) /\ InWindow(a, q)
    <3>1. \A q \in j .. i : \A a \in 1 .. j :
             IsGazeAway(a)' /\ InWindow(a, q)' <=> IsGazeAway(a) /\ InWindow(a, q)
      BY <1>1, <1>2, <1>4, Zenon
    <3> QED
      BY <3>1, Zenon
  <2>5. NeverSwept(i)' = NeverSwept(i)
    BY <1>1, <1>2, <2>3, <2>4, Zenon DEF NeverSwept
  <2>6. LeastCount(i)' = Cardinality(NeverOutside(i)')
        /\ MostCount(i)' = Cardinality(NeverSwept(i)')
    BY Zenon DEF LeastCount, MostCount
  <2> QED
    BY <2>2, <2>5, <2>6, Zenon DEF LeastCount, MostCount
<1>6. GazeWarningDue(k)' <=> GazeWarningDue(k)
  BY <1>2, <1>3, <1>5, Zenon DEF GazeWarningDue
<1>7. GazeWarningAllowed(k)' <=> GazeWarningAllowed(k)
  BY <1>2, <1>3, <1>5, Zenon DEF GazeWarningAllowed
<1> QED
  BY <1>5, <1>6, <1>7

(* How a frame changes the open streak.                                    *)
LEMMA OpenStreakStep ==
    ASSUME gazeLog \in Seq(GazeFrame), NEW x \in GazeFrame,
           gazeLog' = Append(gazeLog, x), NEW m, m = Len(gazeLog) + 1
    PROVE  /\ OpenStreak \in SUBSET (1 .. Len(gazeLog))
           /\ x.off_screen = "no_landmarks" => OpenStreak' = OpenStreak
           /\ x.off_screen = "off" => OpenStreak' = OpenStreak \cup {m}
           /\ x.off_screen = "on" => OpenStreak' = {}
           /\ StreakClosedBy(m)' = IF x.off_screen = "on" THEN OpenStreak ELSE {}
<1> DEFINE n == Len(gazeLog)
<1>1. /\ Len(gazeLog') = n + 1 /\ n \in Nat
      /\ \A i \in 1 .. n : gazeLog'[i] = gazeLog[i]
      /\ gazeLog'[m] = x
  BY AppendFacts
<1>2. /\ \A i : i \in 1 .. Len(gazeLog') <=> i \in 1 .. n \/ i = m
      /\ \A i \in 1 .. n : \A j : j \in i .. Len(gazeLog') <=> j \in i .. n \/ j = m
      /\ \A i \in 1 .. n : \A j \in i .. n : j \in 1 .. n
      /\ \A j : j \in m .. Len(gazeLog') <=> j = m
      /\ m - 1 = n
  BY <1>1
<1>3. OpenStreak' = {i \in 1 .. Len(gazeLog') :
                       /\ gazeLog'[i].off_screen = "off"
                       /\ \A j \in i .. Len(gazeLog') : gazeLog'[j].off_screen # "on"}
  BY Zenon DEF OpenStreak
<1>4. OpenStreak \in SUBSET (1 .. n)
  BY DEF OpenStreak
<1>5. \A i \in 1 .. n : i \in OpenStreak' <=> i \in OpenStreak /\ x.off_screen # "on"
  <2> SUFFICES ASSUME NEW i \in 1 .. n
               PROVE  i \in OpenStreak' <=> i \in OpenStreak /\ x.off_screen # "on"
    OBVIOUS
  <2>1. i \in OpenStreak' <=> /\ gazeLog[i].off_screen = "off"
                              /\ \A j \in i .. Len(gazeLog') : gazeLog'[j].off_screen # "on"
    BY <1>1, <1>2, <1>3, Zenon
  <2>2. (\A j \in i .. Len(gazeLog') : gazeLog'[j].off_screen # "on")
           <=> /\ \A j \in i .. n : gazeLog[j].off_screen # "on"
               /\ x.off_screen # "on"
    BY <1>1, <1>2, Zenon
  <2> QED
    BY <2>1, <2>2, Zenon DEF OpenStreak
<1>6. m \in OpenStreak' <=> x.off_screen = "off"
  <2>1. m \in OpenStreak' <=> x.off_screen = "off" /\ x.off_screen # "on"
    BY <1>1, <1>2, <1>3, Zenon
  <2> QED
    BY <2>1
<1>7. \A i : i \in OpenStreak' <=>
                \/ (i \in OpenStreak /\ x.off_screen # "on")
                \/ (i = m /\ x.off_screen = "off")
  <2>1. \A i \in OpenStreak' : i \in 1 .. n \/ i = m
    BY <1>2, <1>3, Zenon
  <2> QED
    BY <1>4, <1>5, <1>6, <2>1, Zenon
<1>8. /\ x.off_screen = "no_landmarks" => x.off_screen # "on" /\ x.off_screen # "off"
      /\ x.off_screen = "off" => x.off_screen # "on"
      /\ x.off_screen = "on" => x.off_screen # "off"
  OBVIOUS
<1>9. StreakClosedBy(m)' = IF x.off_screen = "on" THEN OpenStreak ELSE {}
  <2>1. StreakClosedBy(m)' =
           IF gazeLog'[m].off_screen # "on" THEN {}
           ELSE {i \in 1 .. m - 1 :
                    /\ gazeLog'[i].off_screen = "off"
                    /\ \A j \in i .. m - 1 : gazeLog'[j].off_screen # "on"}
    BY Zenon DEF StreakClosedBy
  <2>2. {i \in 1 .. m - 1 : /\ gazeLog'[i].off_screen = "off"
                            /\ \A j \in i .. m - 1 : gazeLog'[j].off_screen # "on"}
        = OpenStreak
    BY <1>1, <1>2, ZenonT(60) DEF OpenStreak
  <2> QED
    BY <1>1, <2>1, <2>2, Zenon
<1> QED
  BY <1>4, <1>7, <1>8, <1>9, Zenon

(* The code's streak variables follow the open streak, and the frame       *)
(* closes an episode exactly when they say so.                             *)
LEMMA StreakStep ==
    ASSUME gazeLog \in Seq(GazeFrame), StreakInv, scenario' = scenario,
           NEW o \in {"on", "off", "no_landmarks"}, NEW ts \in Nat,
           gazeLog' = Append(gazeLog, [off_screen |-> o, ts |-> ts]),
           NEW m, m = Len(gazeLog) + 1, GazeStreak(o, ts, <<"gaze", m>>)
    PROVE  /\ StreakInv'
           /\ IsGazeAway(m)' <=>
                 /\ o = "on" /\ gaze_off_start_ms # None
                 /\ ts - gaze_off_start_ms >= Policy.gaze_min_duration_ms
           /\ o = "on" => {<<"gaze", q>> : q \in StreakClosedBy(m)'}
                             = gaze_off_event_ids
<1> DEFINE n == Len(gazeLog)
           x == [off_screen |-> o, ts |-> ts]
<1>1. x \in GazeFrame /\ x.off_screen = o /\ x.ts = ts
  BY DEF GazeFrame
<1>2. /\ gazeLog' = Append(gazeLog, x)
      /\ Len(gazeLog') = n + 1 /\ n \in Nat /\ m \in Nat
      /\ \A i \in 1 .. n : gazeLog'[i] = gazeLog[i]
      /\ gazeLog'[m] = x
  <2> HIDE DEF x
  <2>1. gazeLog' = Append(gazeLog, x)
    BY DEF x
  <2> QED
    BY <1>1, <2>1, AppendFacts
<1> HIDE DEF x
<1>3. /\ OpenStreak \in SUBSET (1 .. n)
      /\ o = "no_landmarks" => OpenStreak' = OpenStreak
      /\ o = "off" => OpenStreak' = OpenStreak \cup {m}
      /\ o = "on" => OpenStreak' = {}
      /\ StreakClosedBy(m)' = IF o = "on" THEN OpenStreak ELSE {}
  <2>1. /\ OpenStreak \in SUBSET (1 .. n)
        /\ x.off_screen = "no_landmarks" => OpenStreak' = OpenStreak
        /\ x.off_screen = "off" => OpenStreak' = OpenStreak \cup {m}
        /\ x.off_screen = "on" => OpenStreak' = {}
        /\ StreakClosedBy(m)' = IF x.off_screen = "on" THEN OpenStreak ELSE {}
    BY <1>1, <1>2, OpenStreakStep
  <2> QED
    BY <1>1, <2>1, Zenon
<1>4. /\ OpenStreak \in SUBSET Nat
      /\ \A i \in OpenStreak : i < m /\ i \in 1 .. n
  BY <1>2, <1>3
<1>5. \A i \in 1 .. n : gazeLog[i].ts \in Nat
  <2>1. \A i \in 1 .. n : gazeLog[i] \in GazeFrame
    OBVIOUS
  <2>2. \A f \in GazeFrame : f.ts \in Nat
    BY DEF GazeFrame
  <2> QED
    BY <2>1, <2>2
<1>6. OpenStreak # {} => /\ Min(OpenStreak) \in 1 .. n
                         /\ Min(OpenStreak) \in OpenStreak
                         /\ \A y \in OpenStreak : Min(OpenStreak) =< y
  BY <1>4, MinFacts
<1>7. /\ gaze_off_event_ids = {<<"gaze", i>> : i \in OpenStreak}
      /\ OpenStreak = {} => gaze_off_start_ms = None
      /\ OpenStreak # {} => gaze_off_start_ms = gazeLog[Min(OpenStreak)].ts
  BY Zenon DEF StreakInv
<1>8. gaze_off_start_ms = None <=> OpenStreak = {}
  BY <1>5, <1>6, <1>7 DEF None
<1>9. StreakInv' <=>
        /\ gaze_off_event_ids' = {<<"gaze", i>> : i \in OpenStreak'}
        /\ gaze_off_start_ms' = IF OpenStreak' = {} THEN None
                                ELSE gazeLog'[Min(OpenStreak')].ts
  BY Zenon DEF StreakInv, Min
<1>10. StreakInv'
  <2>1. CASE o = "no_landmarks"
    <3>1. /\ gaze_off_start_ms' = gaze_off_start_ms
          /\ gaze_off_event_ids' = gaze_off_event_ids
      BY <2>1 DEF GazeStreak
    <3>2. OpenStreak' = OpenStreak
      BY <1>3, <2>1
    <3> QED
      BY <1>2, <1>6, <1>7, <1>9, <3>1, <3>2, Zenon
  <2>2. CASE o = "off"
    <3>1. /\ gaze_off_start_ms' = IF gaze_off_start_ms = None THEN ts
                                  ELSE gaze_off_start_ms
          /\ gaze_off_event_ids' = gaze_off_event_ids \cup {<<"gaze", m>>}
      BY <2>2 DEF GazeStreak
    <3>2. OpenStreak' = OpenStreak \cup {m} /\ OpenStreak' # {}
      BY <1>3, <2>2
    <3>3. gaze_off_event_ids' = {<<"gaze", i>> : i \in OpenStreak'}
      BY <1>7, <3>1, <3>2, Zenon
    <3>4. CASE OpenStreak = {}
      <4>1. Min({m}) = m
        BY <1>2, MinIs
      <4>2. OpenStreak' = {m}
        BY <3>2, <3>4, Zenon
      <4> QED
        BY <1>1, <1>2, <1>8, <1>9, <3>1, <3>2, <3>3, <3>4, <4>1, <4>2, Zenon
    <3>5. CASE OpenStreak # {}
      <4>1. PICK S : S = OpenStreak \cup {m}
        OBVIOUS
      <4>2. PICK a : a = Min(OpenStreak)
        OBVIOUS
      <4>3. S \in SUBSET Nat /\ a \in S /\ a \in 1 .. n
        BY <1>2, <1>4, <1>6, <3>5, <4>1, <4>2
      <4>4. \A y \in S : a =< y
        BY <1>2, <1>6, <3>5, <4>1, <4>2, <4>3
      <4>5. Min(S) = a
        BY <4>3, <4>4, MinIs
      <4>6. Min(OpenStreak') = Min(OpenStreak)
        BY <3>2, <4>1, <4>2, <4>5, Zenon
      <4> QED
        BY <1>2, <1>6, <1>7, <1>8, <1>9, <3>1, <3>2, <3>3, <3>5, <4>6, Zenon
    <3> QED
      BY <3>4, <3>5
  <2>3. CASE o = "on"
    <3>1. gaze_off_start_ms' = None /\ gaze_off_event_ids' = {}
      BY <2>3 DEF GazeStreak
    <3>2. OpenStreak' = {}
      BY <1>3, <2>3
    <3> QED
      BY <1>9, <3>1, <3>2, Zenon
  <2> QED
    BY <2>1, <2>2, <2>3
<1>11. IsGazeAway(m)' <=>
          /\ StreakClosedBy(m)' # {}
          /\ gazeLog'[m].ts - gazeLog'[Min(StreakClosedBy(m)')].ts
                  >= Policy'.gaze_min_duration_ms
  BY Zenon DEF IsGazeAway, Min
<1>12. Policy' = Policy
  BY DEF Policy
<1>13. IsGazeAway(m)' <=>
          /\ o = "on" /\ gaze_off_start_ms # None
          /\ ts - gaze_off_start_ms >= Policy.gaze_min_duration_ms
  <2>1. CASE o = "on" /\ OpenStreak # {}
    BY <1>1, <1>2, <1>3, <1>6, <1>7, <1>8, <1>11, <1>12, <2>1, Zenon
  <2>2. CASE ~(o = "on" /\ OpenStreak # {})
    BY <1>3, <1>8, <1>11, <2>2, Zenon
  <2> QED
    BY <2>1, <2>2
<1>14. o = "on" => {<<"gaze", q>> : q \in StreakClosedBy(m)'} = gaze_off_event_ids
  BY <1>3, <1>7, Zenon
<1> QED
  BY <1>10, <1>13, <1>14, Zenon

(* The deque holds every episode that was never outside the window and     *)
(* none that was swept.                                                    *)
DequeInv ==
    \E W, idx :
        /\ Represents(gaze_away_events, idx, W, GazeTimes, ClosedIds)
        /\ NeverOutside(Len(gazeLog)) \subseteq W
        /\ W \subseteq NeverSwept(Len(gazeLog))

(* After a frame the deque lies between the bounds of that frame.          *)
LEMMA DequeStep ==
    ASSUME TypeInv, StreakInv, DequeInv, scenario' = scenario,
           NEW o \in {"on", "off", "no_landmarks"}, NEW ts \in Nat,
           gazeLog' = Append(gazeLog, [off_screen |-> o, ts |-> ts]),
           NEW m, m = Len(gazeLog) + 1, GazeStreak(o, ts, <<"gaze", m>>),
           gaze_away_events' = Unexpired(IF o = "on" THEN WithClosedStreak(ts)
                                                     ELSE gaze_away_events,
                                         ts - Policy.gaze_window_ms)
    PROVE  \E V, k : /\ Represents(gaze_away_events', k, V, GazeTimes', ClosedIds')
                     /\ NeverOutside(m)' \subseteq V
                     /\ V \subseteq NeverSwept(m)'
<1> DEFINE n == Len(gazeLog)
           x == [off_screen |-> o, ts |-> ts]
           ws == ts - Policy.gaze_window_ms
           closed == IF o = "on" THEN WithClosedStreak(ts) ELSE gaze_away_events
<1>1. /\ GazeType /\ PolicyFields /\ gazeLog \in Seq(GazeFrame) /\ n \in Nat
      /\ gaze_away_events \in Seq(GazeAwayEvent)
      /\ ws \in Int
  <2>1. GazeType /\ PolicyFields
    BY TypeParts, PolicyTypes DEF TypeInv
  <2>2. Policy.gaze_window_ms \in Int
    BY <2>1 DEF PolicyFields, Nat1
  <2> QED
    BY <2>1, <2>2 DEF GazeType, GazeFrame
<1>2. x \in GazeFrame /\ x.off_screen = o /\ x.ts = ts
  BY DEF GazeFrame
<1>3. /\ gazeLog' = Append(gazeLog, x)
      /\ Len(gazeLog') = m /\ m \in Nat
      /\ \A i \in 1 .. n : gazeLog'[i] = gazeLog[i]
      /\ gazeLog'[m] = x
  <2> HIDE DEF x
  <2>1. gazeLog' = Append(gazeLog, x)
    BY DEF x
  <2> QED
    BY <1>1, <1>2, <2>1, AppendFacts
<1> HIDE DEF x
<1>4. \A k \in 1 .. n : /\ StreakClosedBy(k)' = StreakClosedBy(k)
                        /\ IsGazeAway(k)' <=> IsGazeAway(k)
  BY <1>1, <1>2, <1>3, GazePastKept
<1>5. /\ IsGazeAway(m)' <=>
             /\ o = "on" /\ gaze_off_start_ms # None
             /\ ts - gaze_off_start_ms >= Policy.gaze_min_duration_ms
      /\ o = "on" => {<<"gaze", q>> : q \in StreakClosedBy(m)'} = gaze_off_event_ids
  BY <1>1, StreakStep
<1>6. PICK T : T = GazeTimes'
  OBVIOUS
<1>7. PICK C : C = ClosedIds'
  OBVIOUS
<1>8. /\ \A j \in 1 .. m : T[j] = gazeLog'[j].ts
      /\ \A j \in 1 .. m : C[j] = {<<"gaze", q>> : q \in StreakClosedBy(j)'}
  BY <1>3, <1>6, <1>7, Zenon DEF GazeTimes, ClosedIds
<1>9. /\ \A j \in 1 .. n : j \in 1 .. m /\ j < m
      /\ m \in 1 .. m
      /\ \A j \in 1 .. m : j \in 1 .. n \/ j = m
  BY <1>1, <1>3
<1>10. \A j \in 1 .. n : T[j] = GazeTimes[j] /\ C[j] = ClosedIds[j]
  <2>1. \A j \in 1 .. n : /\ GazeTimes[j] = gazeLog[j].ts
                          /\ ClosedIds[j] = {<<"gaze", q>> : q \in StreakClosedBy(j)}
    BY Zenon DEF GazeTimes, ClosedIds
  <2> QED
    BY <1>3, <1>4, <1>8, <1>9, <2>1, Zenon
<1>11. /\ T[m] = ts
       /\ \A j \in 1 .. m : T[j] \in Nat
  <2>1. T[m] = ts
    BY <1>2, <1>3, <1>8, <1>9
  <2>2. \A j \in 1 .. n : gazeLog[j] \in GazeFrame
    BY <1>1
  <2>3. \A f \in GazeFrame : f.ts \in Nat
    BY DEF GazeFrame
  <2>4. \A j \in 1 .. n : T[j] = gazeLog[j].ts
    BY <1>3, <1>8, <1>9, Zenon
  <2> QED
    BY <1>9, <2>1, <2>2, <2>3, <2>4
<1>12. PICK W : /\ \E idx : Represents(gaze_away_events, idx, W, GazeTimes, ClosedIds)
                /\ NeverOutside(n) \subseteq W /\ W \subseteq NeverSwept(n)
  BY Zenon DEF DequeInv
<1>13. \A j : j \in NeverSwept(n) => j \in 1 .. n /\ IsGazeAway(j)
  BY Zenon DEF NeverSwept
<1>14. W \in SUBSET (1 .. n) /\ W \in SUBSET Nat /\ \A w \in W : w < m /\ w \in 1 .. m
  <2>1. W \in SUBSET (1 .. n)
    BY <1>12, <1>13, Zenon
  <2> QED
    BY <1>1, <1>9, <2>1
<1>15. PICK idx : Represents(gaze_away_events, idx, W, T, C)
  <2>1. PICK idx : Represents(gaze_away_events, idx, W, GazeTimes, ClosedIds)
    BY <1>12
  <2>2. \A i \in 1 .. Len(gaze_away_events) : idx[i] \in 1 .. n
    BY <1>14, <2>1 DEF Represents
  <2>3. \A i \in 1 .. Len(gaze_away_events) :
           /\ gaze_away_events[i].ended_at_ms = T[idx[i]]
           /\ gaze_away_events[i].contributing_event_ids = C[idx[i]]
    BY <1>10, <2>1, <2>2, Zenon DEF Represents
  <2>4. Represents(gaze_away_events, idx, W, T, C)
    BY <2>1, <2>3, Zenon DEF Represents
  <2> QED
    BY <2>4
<1>16. PICK W1 : W1 = IF IsGazeAway(m)' THEN W \cup {m} ELSE W
  OBVIOUS
<1>17. W1 \in SUBSET (1 .. m) /\ W1 \in SUBSET Nat
  BY <1>3, <1>9, <1>14, <1>16
<1>18. /\ closed \in Seq(GazeAwayEvent)
       /\ \E k : Represents(closed, k, W1, T, C)
  <2>1. CASE IsGazeAway(m)'
    <3> DEFINE v == [started_at_ms |-> gaze_off_start_ms, ended_at_ms |-> ts,
                     contributing_event_ids |-> gaze_off_event_ids]
    <3>1. closed = Append(gaze_away_events, v)
      BY <1>5, <2>1, Zenon DEF WithClosedStreak
    <3>2. v \in GazeAwayEvent
      BY <1>1, <1>5, <2>1 DEF GazeType, GazeAwayEvent
    <3>3. v.ended_at_ms = T[m] /\ v.contributing_event_ids = C[m]
      <4>1. v.ended_at_ms = ts /\ v.contributing_event_ids = gaze_off_event_ids
        OBVIOUS
      <4>2. C[m] = gaze_off_event_ids
        BY <1>5, <1>8, <1>9, <2>1, Zenon
      <4> QED
        BY <1>11, <4>1, <4>2, Zenon
    <3> HIDE DEF v
    <3>4. \E k : Represents(Append(gaze_away_events, v), k, W \cup {m}, T, C)
      BY <1>1, <1>3, <1>14, <1>15, <3>2, <3>3, DequeAppends
    <3>5. Append(gaze_away_events, v) \in Seq(GazeAwayEvent)
      BY <1>1, <3>2, AppendFacts
    <3> QED
      BY <1>16, <2>1, <3>1, <3>4, <3>5, Zenon
  <2>2. CASE ~IsGazeAway(m)'
    <3>1. closed = gaze_away_events
      BY <1>5, <2>2, Zenon DEF WithClosedStreak
    <3>2. W1 = W
      BY <1>16, <2>2, Zenon
    <3> QED
      BY <1>1, <1>15, <3>1, <3>2, Zenon
  <2> QED
    BY <2>1, <2>2
<1> HIDE DEF closed
<1>19. PICK V : V = {w \in W1 : \E a \in W1 : a =< w /\ T[a] >= ws}
  OBVIOUS
<1>20. \E k : Represents(Unexpired(closed, ws), k, V, T, C)
  <2>1. PICK k : Represents(closed, k, W1, T, C)
    BY <1>18
  <2>2. \A w \in W1 : T[w] \in Nat
    BY <1>11, <1>17
  <2> HIDE DEF ws
  <2> QED
    BY <1>1, <1>17, <1>18, <1>19, <2>1, <2>2, DequeExpires
<1>21. gaze_away_events' = Unexpired(closed, ws)
  BY DEF closed
<1>22. /\ \A i \in 1 .. m : InWindow(i, m)' <=> T[i] >= ws
       /\ \A i, q \in 1 .. n : InWindow(i, q)' <=> InWindow(i, q)
  <2>1. \A i, q : InWindow(i, q)' <=>
           gazeLog'[i].ts >= gazeLog'[q].ts - Policy'.gaze_window_ms
    BY Zenon DEF InWindow
  <2>2. Policy' = Policy
    BY DEF Policy
  <2>3. gazeLog'[m].ts = ts
    BY <1>2, <1>3, Zenon
  <2> QED
    BY <1>3, <1>8, <2>1, <2>2, <2>3, Zenon DEF InWindow
<1>23. \A w \in W1 : IsGazeAway(w)' /\ w \in 1 .. m
  BY <1>4, <1>12, <1>13, <1>16, <1>17, Zenon
<1>24. NeverOutside(m)' \subseteq V
  <2>1. NeverOutside(m)' = {j \in 1 .. m :
           IsGazeAway(j)' /\ \A q \in j .. m : InWindow(j, q)'}
    BY Zenon DEF NeverOutside
  <2> SUFFICES ASSUME NEW j \in 1 .. m, IsGazeAway(j)',
                      \A q \in j .. m : InWindow(j, q)'
               PROVE  j \in V
    BY <2>1, Zenon
  <2>2. m \in j .. m /\ j =< j /\ \A q \in j .. n : q \in j .. m
    BY <1>1, <1>3
  <2>3. T[j] >= ws
    BY <1>22, <2>2, Zenon
  <2>4. j \in W1
    <3>1. CASE j \in 1 .. n
      <4>1. \A q \in j .. n : q \in 1 .. n
        BY <3>1
      <4>2. j \in NeverOutside(n)
        BY <1>4, <1>22, <2>2, <3>1, <4>1, Zenon DEF NeverOutside
      <4> QED
        BY <1>12, <1>16, <4>2, Zenon
    <3>2. CASE j = m
      BY <1>16, <3>2, Zenon
    <3> QED
      BY <1>9, <3>1, <3>2, Zenon
  <2> QED
    BY <1>19, <2>2, <2>3, <2>4, Zenon
<1>25. V \subseteq NeverSwept(m)'
  <2>1. NeverSwept(m)' = {j \in 1 .. m :
           /\ IsGazeAway(j)'
           /\ \A q \in j .. m : \E a \in 1 .. j : IsGazeAway(a)' /\ InWindow(a, q)'}
    BY Zenon DEF NeverSwept
  <2> SUFFICES ASSUME NEW w \in V PROVE w \in NeverSwept(m)'
    OBVIOUS
  <2>2. w \in W1 /\ w \in 1 .. m /\ IsGazeAway(w)'
    BY <1>19, <1>23, Zenon
  <2>3. PICK a \in W1 : a =< w /\ T[a] >= ws
    BY <1>19, Zenon
  <2>4. a \in 1 .. m /\ IsGazeAway(a)' /\ InWindow(a, m)'
    BY <1>22, <1>23, <2>3, Zenon
  <2>5. a \in 1 .. w
    BY <1>3, <2>2, <2>3, <2>4
  <2>6. ASSUME NEW q \in w .. m
        PROVE  \E b \in 1 .. w : IsGazeAway(b)' /\ InWindow(b, q)'
    <3>1. CASE q = m
      BY <2>4, <2>5, <3>1, Zenon
    <3>2. CASE q # m
      <4>1. q \in w .. n /\ w \in 1 .. n /\ q \in 1 .. n /\ w # m
            /\ \A b \in 1 .. w : b \in 1 .. n
        BY <1>1, <1>3, <2>2, <2>6, <3>2
      <4>2. w \in NeverSwept(n)
        BY <1>12, <1>16, <2>2, <4>1, Zenon
      <4>3. PICK b \in 1 .. w : IsGazeAway(b) /\ InWindow(b, q)
        BY <4>1, <4>2, Zenon DEF NeverSwept
      <4> QED
        BY <1>4, <1>22, <4>1, <4>3, Zenon
    <3> QED
      BY <3>1, <3>2
  <2> QED
    BY <2>1, <2>2, <2>6, Zenon
<1> QED
  BY <1>6, <1>7, <1>20, <1>21, <1>24, <1>25, Zenon

(* The frames at which the ladder has to warn, and may.                    *)
DueFrames == {k \in 1 .. Len(gazeLog) : GazeWarningDue(k)}
AllowedFrames == {k \in 1 .. Len(gazeLog) : GazeWarningAllowed(k)}

(* Before the ladder has terminated the session, and after it has, at      *)
(* frame k and with flag i.                                                *)
GazePending ==
    /\ ~gaze_termination_fired
    /\ \A k \in 1 .. Len(gazeLog) : LeastCount(k) < Policy.gaze_termination_limit
    /\ FatalGaze = {}
    /\ DequeInv

GazeDone(i, k) ==
    /\ gaze_termination_fired
    /\ k \in 1 .. Len(gazeLog)
    /\ MostCount(k) >= Policy.gaze_termination_limit
    /\ \A j \in 1 .. k - 1 : LeastCount(j) < Policy.gaze_termination_limit
    /\ FatalGaze = {i}
    /\ StreakIds(NeverOutside(k)) \subseteq emitted[i].contributing_event_ids
    /\ emitted[i].contributing_event_ids \subseteq StreakIds(NeverSwept(k))

(* The MEDIUM flags are as many as the frames of a set between the two.    *)
WarningsBounded ==
    \E S : /\ DueFrames \subseteq S /\ S \subseteq AllowedFrames
           /\ Cardinality(GazeScored) = Cardinality(S)

(* The inductive invariant of the ladder.                                  *)
GazeInv ==
    /\ ~gaze_termination_fired => StreakInv
    /\ WarningsBounded
    /\ GazePending \/ \E i, k : GazeDone(i, k)

(* Steps of the other paths keep it.                                       *)
LEMMA GazeKept ==
    ASSUME TypeInv, GazeInv, scenario' = scenario, UNCHANGED gazeVars,
           Untouched(RULE_GAZE_AWAY_FREQUENCY)
    PROVE  GazeInv'
<1> DEFINE R == RULE_GAZE_AWAY_FREQUENCY
<1>1. /\ gazeLog' = gazeLog /\ gaze_off_start_ms' = gaze_off_start_ms
      /\ gaze_off_event_ids' = gaze_off_event_ids
      /\ gaze_away_events' = gaze_away_events
      /\ gaze_termination_fired' = gaze_termination_fired
      /\ Policy' = Policy
  BY DEF gazeVars, Policy
<1>2. /\ FlagsOf(R)' = FlagsOf(R)
      /\ \A i \in FlagsOf(R) : emitted'[i] = emitted[i]
  BY DEF Untouched, FlagsOf
<1>3. /\ GazeScored' = {i \in FlagsOf(R)' : ~emitted'[i].triggered_termination}
      /\ FatalGaze' = {i \in FlagsOf(R)' : emitted'[i].triggered_termination}
  BY Zenon DEF GazeScored, FatalGaze
<1>4. GazeScored' = GazeScored /\ FatalGaze' = FatalGaze
  BY <1>2, <1>3, Zenon DEF GazeScored, FatalGaze
<1>5. \A i \in FatalGaze : emitted'[i] = emitted[i]
  BY <1>2 DEF FatalGaze
<1>6. StreakInv' <=> StreakInv
  BY <1>1 DEF StreakInv, OpenStreak
<1>7. \A k : StreakClosedBy(k)' = StreakClosedBy(k)
  BY <1>1 DEF StreakClosedBy
<1>8. \A k : IsGazeAway(k)' <=> IsGazeAway(k)
  BY <1>1, <1>7, Zenon DEF IsGazeAway
<1>9. \A j, q : InWindow(j, q)' <=> InWindow(j, q)
  BY <1>1, Zenon DEF InWindow
<1>10. \A k : NeverOutside(k)' = NeverOutside(k) /\ NeverSwept(k)' = NeverSwept(k)
  BY <1>8, <1>9, Zenon DEF NeverOutside, NeverSwept
<1>11. \A k : /\ LeastCount(k)' = LeastCount(k) /\ MostCount(k)' = MostCount(k)
              /\ StreakIds(NeverOutside(k))' = StreakIds(NeverOutside(k))
              /\ StreakIds(NeverSwept(k))' = StreakIds(NeverSwept(k))
  BY <1>7, <1>10, Zenon DEF LeastCount, MostCount, StreakIds
<1>12. \A k : /\ GazeWarningDue(k)' <=> GazeWarningDue(k)
              /\ GazeWarningAllowed(k)' <=> GazeWarningAllowed(k)
  BY <1>1, <1>11, Zenon DEF GazeWarningDue, GazeWarningAllowed
<1>13. DueFrames' = DueFrames /\ AllowedFrames' = AllowedFrames
  BY <1>1, <1>12, Zenon DEF DueFrames, AllowedFrames
<1>14. DequeInv' <=> DequeInv
  <2>1. GazeTimes' = GazeTimes
    BY <1>1, Zenon DEF GazeTimes
  <2>2. ClosedIds' = ClosedIds
    BY <1>1, <1>7, Zenon DEF ClosedIds
  <2>3. /\ NeverOutside(Len(gazeLog))' = NeverOutside(Len(gazeLog))
        /\ NeverSwept(Len(gazeLog))' = NeverSwept(Len(gazeLog))
    BY <1>1, <1>10, Zenon
  <2> QED
    BY <1>1, <2>1, <2>2, <2>3, Zenon DEF DequeInv
<1>15. GazePending' <=> GazePending
  BY <1>1, <1>4, <1>11, <1>14, Zenon DEF GazePending
<1>16. \A i, k : GazeDone(i, k) => GazeDone(i, k)'
  BY <1>1, <1>4, <1>5, <1>11, Zenon DEF GazeDone
<1>17. WarningsBounded' <=> WarningsBounded
  BY <1>4, <1>13, Zenon DEF WarningsBounded
<1> QED
  BY <1>1, <1>6, <1>15, <1>16, <1>17, Zenon DEF GazeInv

(* The session is over for the ladder: a later frame changes nothing.      *)
LEMMA GazeDoneStep ==
    ASSUME TypeInv, scenario' = scenario, NEW x \in GazeFrame,
           gazeLog' = Append(gazeLog, x), UNCHANGED outVars,
           gaze_termination_fired' = gaze_termination_fired,
           NEW i, NEW k, GazeDone(i, k), WarningsBounded
    PROVE  GazeDone(i, k)' /\ WarningsBounded'
<1> DEFINE n == Len(gazeLog)
<1>1. gazeLog \in Seq(GazeFrame) /\ n \in Nat /\ PolicyFields
  BY TypeParts, PolicyTypes DEF TypeInv, GazeType, GazeFrame
<1>2. PICK m : m = n + 1
  OBVIOUS
<1>3. Len(gazeLog') = m /\ m \in Nat
  BY <1>1, <1>2, AppendFacts
<1>4. /\ k \in 1 .. n /\ MostCount(k) >= Policy.gaze_termination_limit
      /\ \A j \in 1 .. k - 1 : LeastCount(j) < Policy.gaze_termination_limit
      /\ gaze_termination_fired
      /\ FatalGaze = {i}
      /\ StreakIds(NeverOutside(k)) \subseteq emitted[i].contributing_event_ids
      /\ emitted[i].contributing_event_ids \subseteq StreakIds(NeverSwept(k))
  BY Zenon DEF GazeDone
<1>5. \A j \in 1 .. n : /\ NeverOutside(j)' = NeverOutside(j)
                        /\ NeverSwept(j)' = NeverSwept(j)
                        /\ LeastCount(j)' = LeastCount(j)
                        /\ MostCount(j)' = MostCount(j)
                        /\ GazeWarningDue(j)' <=> GazeWarningDue(j)
                        /\ GazeWarningAllowed(j)' <=> GazeWarningAllowed(j)
                        /\ StreakClosedBy(j)' = StreakClosedBy(j)
  BY <1>1, GazeCountsKept, GazePastKept
<1>6. /\ \A j \in 1 .. k - 1 : j \in 1 .. n
      /\ \A j \in 1 .. k : j \in 1 .. n
      /\ \A j : j \in 1 .. m <=> j \in 1 .. n \/ j = m
      /\ k \in 1 .. m
  BY <1>1, <1>2, <1>3, <1>4
<1>7. emitted' = emitted /\ GazeScored' = GazeScored /\ FatalGaze' = FatalGaze
  BY DEF outVars, GazeScored, FatalGaze, FlagsOf
<1>8. /\ StreakIds(NeverOutside(k))' = StreakIds(NeverOutside(k))
      /\ StreakIds(NeverSwept(k))' = StreakIds(NeverSwept(k))
  <2>1. NeverOutside(k) \subseteq 1 .. n /\ NeverSwept(k) \subseteq 1 .. n
    BY <1>6, Zenon DEF NeverOutside, NeverSwept
  <2>2. ASSUME NEW J, J \subseteq 1 .. n
        PROVE  UNION {{<<"gaze", q>> : q \in StreakClosedBy(j)'} : j \in J}
                 = UNION {{<<"gaze", q>> : q \in StreakClosedBy(j)} : j \in J}
    <3>1. {{<<"gaze", q>> : q \in StreakClosedBy(j)'} : j \in J}
            = {{<<"gaze", q>> : q \in StreakClosedBy(j)} : j \in J}
      BY <1>5, <2>2, Zenon
    <3> QED
      BY <3>1, Zenon
  <2>3. /\ StreakIds(NeverOutside(k))' =
             UNION {{<<"gaze", q>> : q \in StreakClosedBy(j)'} : j \in NeverOutside(k)'}
        /\ StreakIds(NeverSwept(k))' =
             UNION {{<<"gaze", q>> : q \in StreakClosedBy(j)'} : j \in NeverSwept(k)'}
    BY Zenon DEF StreakIds
  <2>4. NeverOutside(k)' = NeverOutside(k) /\ NeverSwept(k)' = NeverSwept(k)
    BY <1>4, <1>5, Zenon
  <2> QED
    BY <2>1, <2>2, <2>3, <2>4, Zenon DEF StreakIds
<1>9. Policy' = Policy
  BY DEF Policy
<1>10. GazeDone(i, k)'
  BY <1>3, <1>4, <1>5, <1>6, <1>7, <1>8, <1>9, Zenon DEF GazeDone
<1>11. ~GazeWarningDue(m)'
  <2>1. GazeWarningDue(m)' =>
           \A j \in 1 .. m : MostCount(j)' < Policy'.gaze_termination_limit
    BY Zenon DEF GazeWarningDue
  <2>2. MostCount(k) \in Nat /\ Policy.gaze_termination_limit \in Nat
    <3>1. NeverSwept(k) \in SUBSET (1 .. k) /\ k \in Nat
      BY <1>4 DEF NeverSwept
    <3> QED
      BY <1>1, <3>1, FramesFinite DEF MostCount, PolicyFields, Nat1
  <2>3. ~(MostCount(k) < Policy.gaze_termination_limit)
    BY <1>4, <2>2
  <2>4. MostCount(k)' = MostCount(k)
    BY <1>4, <1>5, Zenon
  <2> QED
    BY <1>6, <1>9, <2>1, <2>3, <2>4, Zenon
<1>12. DueFrames' = DueFrames /\ AllowedFrames \subseteq AllowedFrames'
  <2>1. /\ DueFrames' = {j \in 1 .. m : GazeWarningDue(j)'}
        /\ AllowedFrames' = {j \in 1 .. m : GazeWarningAllowed(j)'}
    BY <1>3, Zenon DEF DueFrames, AllowedFrames
  <2> QED
    BY <1>5, <1>6, <1>11, <2>1, Zenon DEF DueFrames, AllowedFrames
<1>13. WarningsBounded'
  BY <1>7, <1>12, Zenon DEF WarningsBounded
<1> QED
  BY <1>10, <1>13

(* One frame of the ladder while it is pending.                            *)
LEMMA GazePendingStep ==
    ASSUME TypeInv, StreakInv, GazePending, WarningsBounded,
           scenario' = scenario, GazeType',
           NEW o \in {"on", "off", "no_landmarks"}, NEW ts \in Nat,
           gazeLog' = Append(gazeLog, [off_screen |-> o, ts |-> ts]),
           NEW m, m = Len(gazeLog) + 1, GazeStreak(o, ts, <<"gaze", m>>),
           gaze_away_events' = Unexpired(IF o = "on" THEN WithClosedStreak(ts)
                                                     ELSE gaze_away_events,
                                         ts - Policy.gaze_window_ms),
           GazeLadder(gaze_away_events')
    PROVE  WarningsBounded' /\ (GazePending' \/ \E i, k : GazeDone(i, k)')
<1> DEFINE n == Len(gazeLog)
           x == [off_screen |-> o, ts |-> ts]
           R == RULE_GAZE_AWAY_FREQUENCY
           new == Len(emitted) + 1
<1>1. /\ OutType /\ GazeType /\ PolicyFields
      /\ gazeLog \in Seq(GazeFrame) /\ n \in Nat /\ Len(emitted) \in Nat
      /\ R \in ScoredRules /\ R \in Rules
      /\ gaze_away_events' \in Seq(GazeAwayEvent)
  BY TypeParts, PolicyTypes DEF TypeInv, GazeType, GazeFrame, OutType,
     ScoredRules, Rules
<1>2. x \in GazeFrame
  BY DEF GazeFrame
<1>3. /\ Len(gazeLog') = m /\ m \in Nat
      /\ gazeLog' = Append(gazeLog, x)
  <2> HIDE DEF x
  <2>1. gazeLog' = Append(gazeLog, x)
    BY DEF x
  <2> QED
    BY <1>1, <1>2, <2>1, AppendFacts
<1> HIDE DEF x
<1>4. \A j \in 1 .. n : /\ LeastCount(j)' = LeastCount(j)
                        /\ GazeWarningDue(j)' <=> GazeWarningDue(j)
                        /\ GazeWarningAllowed(j)' <=> GazeWarningAllowed(j)
  BY <1>1, <1>2, <1>3, GazeCountsKept
<1>5. /\ \A j : j \in 1 .. m <=> j \in 1 .. n \/ j = m
      /\ \A j \in 1 .. m - 1 : j \in 1 .. n
      /\ m \notin 1 .. n /\ m \in 1 .. m
  BY <1>1, <1>3
<1>6. PICK V, idx :
         /\ Represents(gaze_away_events', idx, V, GazeTimes', ClosedIds')
         /\ NeverOutside(m)' \subseteq V /\ V \subseteq NeverSwept(m)'
  BY DequeStep DEF GazePending
<1>7. V \in SUBSET (1 .. m) /\ V \in SUBSET Nat
  <2>1. NeverSwept(m)' = {j \in 1 .. m :
           /\ IsGazeAway(j)'
           /\ \A q \in j .. m : \E a \in 1 .. j : IsGazeAway(a)' /\ InWindow(a, q)'}
    BY Zenon DEF NeverSwept
  <2>2. NeverSwept(m)' \subseteq 1 .. m
    BY <2>1, Zenon
  <2>3. V \in SUBSET (1 .. m)
    BY <1>6, <2>2, Zenon
  <2> QED
    BY <1>3, <2>3, FramesFinite
<1>8. PICK c \in Nat : c = Len(gaze_away_events')
  BY <1>1
<1>9. LeastCount(m)' =< c /\ c =< MostCount(m)' /\ LeastCount(m)' \in Nat
      /\ MostCount(m)' \in Nat
  <2>1. LeastCount(m)' = Cardinality(NeverOutside(m)')
        /\ MostCount(m)' = Cardinality(NeverSwept(m)')
    BY Zenon DEF LeastCount, MostCount
  <2>2. PICK A : A = NeverOutside(m)'
    OBVIOUS
  <2>3. PICK B : B = NeverSwept(m)'
    OBVIOUS
  <2>4. B \in SUBSET (1 .. m)
    <3>1. NeverSwept(m)' = {j \in 1 .. m :
             /\ IsGazeAway(j)'
             /\ \A q \in j .. m : \E a \in 1 .. j : IsGazeAway(a)' /\ InWindow(a, q)'}
      BY Zenon DEF NeverSwept
    <3> QED
      BY <2>3, <3>1, Zenon
  <2>5. IsFiniteSet(B) /\ IsFiniteSet(V) /\ Cardinality(V) = c
    BY <1>1, <1>3, <1>6, <1>7, <1>8, <2>4, FramesFinite, DequeCounts
  <2>6. A \subseteq V /\ V \subseteq B
    BY <1>6, <2>2, <2>3
  <2>7. Cardinality(A) <= Cardinality(V) /\ Cardinality(V) <= Cardinality(B)
        /\ IsFiniteSet(A)
    BY <2>5, <2>6, FS_Subset
  <2>8. Cardinality(A) \in Nat /\ Cardinality(B) \in Nat
    BY <2>5, <2>7, FS_CardinalityType
  <2> QED
    BY <2>1, <2>2, <2>3, <2>5, <2>7, <2>8
<1>10. Policy' = Policy
  BY DEF Policy
<1>11. /\ StreakIds(NeverOutside(m))' \subseteq AllGazeIds(gaze_away_events')
       /\ AllGazeIds(gaze_away_events') \subseteq StreakIds(NeverSwept(m))'
  <2>1. AllGazeIds(gaze_away_events') = UNION {ClosedIds'[j] : j \in V}
    BY <1>6, DequeIds
  <2>2. /\ StreakIds(NeverOutside(m))' =
             UNION {{<<"gaze", q>> : q \in StreakClosedBy(j)'} : j \in NeverOutside(m)'}
        /\ StreakIds(NeverSwept(m))' =
             UNION {{<<"gaze", q>> : q \in StreakClosedBy(j)'} : j \in NeverSwept(m)'}
    BY Zenon DEF StreakIds
  <2>3. \A j \in 1 .. m : ClosedIds'[j] = {<<"gaze", q>> : q \in StreakClosedBy(j)'}
    BY <1>3, Zenon DEF ClosedIds
  <2>4. \A j \in V : ClosedIds'[j] = {<<"gaze", q>> : q \in StreakClosedBy(j)'}
    BY <1>7, <2>3, Zenon
  <2>5. {ClosedIds'[j] : j \in V}
          = {{<<"gaze", q>> : q \in StreakClosedBy(j)'} : j \in V}
    BY <2>4, Zenon
  <2>6. AllGazeIds(gaze_away_events')
          = UNION {{<<"gaze", q>> : q \in StreakClosedBy(j)'} : j \in V}
    BY <2>1, <2>5, Zenon
  <2>7. StreakIds(NeverOutside(m))' \subseteq AllGazeIds(gaze_away_events')
    BY <1>6, <2>2, <2>6, ZenonT(40)
  <2>8. AllGazeIds(gaze_away_events') \subseteq StreakIds(NeverSwept(m))'
    BY <1>6, <2>2, <2>6, ZenonT(40)
  <2> QED
    BY <2>7, <2>8, Zenon
<1>12. \A j \in 1 .. n : LeastCount(j)' < Policy.gaze_termination_limit
  BY <1>4, Zenon DEF GazePending
<1>13. PICK S : /\ DueFrames \subseteq S /\ S \subseteq AllowedFrames
                /\ Cardinality(GazeScored) = Cardinality(S)
  BY Zenon DEF WarningsBounded
<1>14. /\ \A j : j \in DueFrames' <=> j \in DueFrames \/ (j = m /\ GazeWarningDue(m)')
       /\ \A j : j \in AllowedFrames' <=>
                    j \in AllowedFrames \/ (j = m /\ GazeWarningAllowed(m)')
  <2>1. /\ DueFrames' = {j \in 1 .. m : GazeWarningDue(j)'}
        /\ AllowedFrames' = {j \in 1 .. m : GazeWarningAllowed(j)'}
    BY <1>3, Zenon DEF DueFrames, AllowedFrames
  <2> QED
    BY <1>4, <1>5, <2>1, Zenon DEF DueFrames, AllowedFrames
<1>15. /\ FatalGaze = {} /\ IsFiniteSet(GazeScored) /\ IsFiniteSet(S)
       /\ new \notin GazeScored /\ m \notin S
  <2>1. new \notin GazeScored
    BY <1>1 DEF GazeScored, FlagsOf
  <2>2. S \in SUBSET (1 .. n)
    BY <1>13, Zenon DEF AllowedFrames
  <2>3. IsFiniteSet(S)
    BY <1>1, <2>2, FramesFinite
  <2>4. m \notin S
    BY <1>5, <2>2, Zenon
  <2> QED
    BY <1>1, <2>1, <2>3, <2>4, SharesFinite DEF GazePending
<1>16. Policy.gaze_termination_limit \in Nat /\ Policy.gaze_warning_limit \in Nat
  BY <1>1 DEF PolicyFields, Nat1
<1>17. /\ GazeWarningDue(m)' => /\ LeastCount(m)' >= Policy.gaze_warning_limit
                                /\ MostCount(m)' < Policy.gaze_termination_limit
       /\ GazeWarningAllowed(m)' <=>
             /\ MostCount(m)' >= Policy.gaze_warning_limit
             /\ \A j \in 1 .. m : LeastCount(j)' < Policy.gaze_termination_limit
  BY <1>5, <1>10, Zenon DEF GazeWarningDue, GazeWarningAllowed
<1>18. CASE c >= Policy.gaze_termination_limit
  <2>1. PICK ids \in SUBSET EventIds : ids = AllGazeIds(gaze_away_events')
    BY <1>1, GazeIds
  <2>2. gaze_termination_fired' /\ Emit(Terminating(R, ids))
    <3>1. /\ Len(gaze_away_events') >= Policy.gaze_termination_limit
          /\ ~(Len(gaze_away_events') < Policy.gaze_termination_limit)
      BY <1>8, <1>16, <1>18
    <3> QED
      BY <2>1, <3>1, Zenon DEF GazeLadder
  <2>3. Terminating(R, ids) \in FlagDecision
    BY <1>1, DecisionTypes
  <2>4. /\ Terminating(R, ids).rule_code = R
        /\ Terminating(R, ids).triggered_termination
        /\ Terminating(R, ids).contributing_event_ids = ids
    BY DEF Terminating
  <2>5. OneMoreFlag(R, ids)
    BY <1>1, <2>2, <2>3, <2>4, EmitOneMore
  <2>6. emitted'[new] = Terminating(R, ids)
    BY <1>1, <2>2, <2>3, EmitFacts DEF OutType
  <2>7. GazeScored' = GazeScored /\ FatalGaze' = {new}
    BY <1>1, <1>15, <2>4, <2>5, <2>6, GazeFlagAdded
  <2>8. ~GazeWarningDue(m)'
    BY <1>9, <1>16, <1>17, <1>18
  <2>9. WarningsBounded'
    BY <1>13, <1>14, <2>7, <2>8, Zenon DEF WarningsBounded
  <2>10. PICK i : i = new
    OBVIOUS
  <2>11. /\ FatalGaze' = {i}
         /\ StreakIds(NeverOutside(m))' \subseteq emitted'[i].contributing_event_ids
         /\ emitted'[i].contributing_event_ids \subseteq StreakIds(NeverSwept(m))'
    BY <1>11, <2>1, <2>4, <2>6, <2>7, <2>10, Zenon
  <2>12. MostCount(m)' >= Policy.gaze_termination_limit
    BY <1>9, <1>16, <1>18
  <2>13. GazeDone(i, m)'
    BY <1>3, <1>5, <1>10, <1>12, <2>2, <2>11, <2>12, Zenon DEF GazeDone
  <2> QED
    BY <2>9, <2>13
<1>19. CASE ~(c >= Policy.gaze_termination_limit)
  <2>1. /\ Len(gaze_away_events') < Policy.gaze_termination_limit
        /\ ~(Len(gaze_away_events') >= Policy.gaze_termination_limit)
        /\ LeastCount(m)' < Policy.gaze_termination_limit
    BY <1>8, <1>9, <1>16, <1>19
  <2>2. ~gaze_termination_fired'
    BY <2>1 DEF GazeLadder
  <2>3. \A j \in 1 .. m : LeastCount(j)' < Policy.gaze_termination_limit
    BY <1>5, <1>12, <2>1, Zenon
  <2>4. FatalGaze' = {} /\ WarningsBounded'
    <3>1. CASE c >= Policy.gaze_warning_limit
      <4>1. PICK ids \in SUBSET EventIds : ids = LatestGazeIds(gaze_away_events')
        BY <1>1, GazeIds
      <4>2. Accumulate(R, ids)
        <5>1. ~(Len(gaze_away_events') < Policy.gaze_warning_limit)
          BY <1>8, <1>16, <3>1
        <5> QED
          BY <2>1, <4>1, <5>1, Zenon DEF GazeLadder
      <4>3. OneMoreFlag(R, ids)
        BY <1>1, <4>2, AccumulateOneMore
      <4>4. emitted'[new] = Medium(R, ids, WeightFor(R))
        BY <1>1, <4>2, AccumulateFacts DEF OutType
      <4>5. ~emitted'[new].triggered_termination
        BY <4>4 DEF Medium
      <4>6. GazeScored' = GazeScored \cup {new} /\ FatalGaze' = {}
        BY <1>1, <1>15, <4>3, <4>5, GazeFlagAdded
      <4>7. /\ Cardinality(GazeScored \cup {new}) = Cardinality(GazeScored) + 1
            /\ Cardinality(S \cup {m}) = Cardinality(S) + 1
        BY <1>15, FS_AddElement
      <4>8. GazeWarningAllowed(m)'
        <5>1. MostCount(m)' >= Policy.gaze_warning_limit
          BY <1>9, <1>16, <3>1
        <5> QED
          BY <1>17, <2>3, <5>1, Zenon
      <4>9. DueFrames' \subseteq S \cup {m} /\ S \cup {m} \subseteq AllowedFrames'
        BY <1>13, <1>14, <4>8, Zenon
      <4>10. Cardinality(GazeScored') = Cardinality(S \cup {m})
        BY <1>13, <4>6, <4>7, Zenon
      <4> QED
        BY <4>6, <4>9, <4>10, Zenon DEF WarningsBounded
    <3>2. CASE ~(c >= Policy.gaze_warning_limit)
      <4>1. UNCHANGED outVars
        <5>1. ~(Len(gaze_away_events') >= Policy.gaze_warning_limit)
          BY <1>8, <3>2
        <5> QED
          BY <2>1, <5>1, Zenon DEF GazeLadder
      <4>2. GazeScored' = GazeScored /\ FatalGaze' = FatalGaze
        BY <4>1 DEF outVars, GazeScored, FatalGaze, FlagsOf
      <4>3. ~GazeWarningDue(m)'
        BY <1>9, <1>16, <1>17, <3>2
      <4> QED
        BY <1>13, <1>14, <1>15, <4>2, <4>3, Zenon DEF WarningsBounded
    <3> QED
      BY <3>1, <3>2
  <2>5. DequeInv'
    BY <1>3, <1>6, Zenon DEF DequeInv
  <2>6. GazePending'
    BY <1>3, <1>10, <2>2, <2>3, <2>4, <2>5, Zenon DEF GazePending
  <2> QED
    BY <2>4, <2>6
<1> QED
  BY <1>18, <1>19

(* No gaze result yet.                                                     *)
LEMMA GazeInit == Init => GazeInv
<1> SUFFICES ASSUME Init PROVE GazeInv
  OBVIOUS
<1>1. /\ Len(gazeLog) = 0 /\ Len(emitted) = 0 /\ Len(gaze_away_events) = 0
      /\ gaze_off_start_ms = None /\ gaze_off_event_ids = {}
      /\ ~gaze_termination_fired
  BY DEF Init
<1>2. (1 .. 0) = {}
  OBVIOUS
<1>3. /\ OpenStreak = {} /\ FlagsOf(RULE_GAZE_AWAY_FREQUENCY) = {}
      /\ DueFrames = {} /\ AllowedFrames = {}
  BY <1>1, <1>2, Zenon DEF OpenStreak, FlagsOf, DueFrames, AllowedFrames
<1>4. StreakInv
  BY <1>1, <1>3, Zenon DEF StreakInv
<1>5. GazeScored = {} /\ FatalGaze = {}
  BY <1>3, Zenon DEF GazeScored, FatalGaze
<1>6. DequeInv
  <2>1. PICK idx : idx = [i \in {} |-> 0]
    OBVIOUS
  <2>2. NeverOutside(0) = {} /\ NeverSwept(0) = {}
    BY <1>2, Zenon DEF NeverOutside, NeverSwept
  <2>3. idx \in [{} -> {}]
    BY <2>1
  <2>4. Represents(gaze_away_events, idx, {}, GazeTimes, ClosedIds)
    BY <1>1, <1>2, <2>3, Zenon DEF Represents
  <2> QED
    BY <1>1, <2>2, <2>4, Zenon DEF DequeInv
<1>7. GazePending
  BY <1>1, <1>2, <1>5, <1>6, Zenon DEF GazePending
<1>8. WarningsBounded
  BY <1>3, <1>5, Zenon DEF WarningsBounded
<1> QED
  BY <1>4, <1>7, <1>8, Zenon DEF GazeInv

(* Every step keeps GazeInv.                                               *)
LEMMA GazeStepInv ==
    ASSUME TypeInv, GazeInv, [Next]_vars
    PROVE  GazeInv'
<1>1. scenario' = scenario
  BY StepOutcome
<1>2. CASE UNCHANGED gazeVars /\ Untouched(RULE_GAZE_AWAY_FREQUENCY)
  BY <1>1, <1>2, GazeKept
<1>3. CASE GazeStep
  <2>1. PICK o \in {"on", "off", "no_landmarks"}, ts \in 0 .. MaxTime : ProcessGaze(o, ts)
    BY <1>3, Zenon DEF GazeStep
  <2>2. ts \in Nat /\ gazeLog \in Seq(GazeFrame) /\ GazeType'
    <3>1. MaxTime \in Nat
      BY BoundAssumption DEF TypeInv, MaxTime
    <3> QED
      BY <1>3, <3>1, TypeParts DEF TypeInv, GazeType, GazeFrame, GazeStep
  <2>3. PICK m : m = Len(gazeLog) + 1
    OBVIOUS
  <2> DEFINE x == [off_screen |-> o, ts |-> ts]
  <2>4. x \in GazeFrame
    BY <2>2 DEF GazeFrame
  <2>5. gazeLog' = Append(gazeLog, x)
    BY <2>1 DEF ProcessGaze
  <2>6. WarningsBounded
    BY Zenon DEF GazeInv
  <2>7. CASE gaze_termination_fired
    <3>1. gaze_termination_fired' = gaze_termination_fired /\ UNCHANGED outVars
      BY <2>1, <2>7, Zenon DEF ProcessGaze
    <3>2. PICK i, k : GazeDone(i, k)
      BY <2>7, Zenon DEF GazeInv, GazePending
    <3>3. GazeDone(i, k)' /\ WarningsBounded'
      <4> HIDE DEF x
      <4> QED
        BY <1>1, <2>4, <2>5, <2>6, <3>1, <3>2, GazeDoneStep
    <3> QED
      BY <2>7, <3>1, <3>3, Zenon DEF GazeInv
  <2>8. CASE ~gaze_termination_fired
    <3>1. /\ GazeStreak(o, ts, <<"gaze", m>>)
          /\ gaze_away_events' = Unexpired(IF o = "on" THEN WithClosedStreak(ts)
                                                       ELSE gaze_away_events,
                                           ts - Policy.gaze_window_ms)
          /\ GazeLadder(gaze_away_events')
      BY <2>1, <2>3, <2>8, Zenon DEF ProcessGaze
    <3>2. StreakInv /\ GazePending
      BY <2>8, Zenon DEF GazeInv, GazeDone
    <3>3. StreakInv'
      BY <1>1, <2>2, <2>3, <2>5, <3>1, <3>2, StreakStep
    <3>4. WarningsBounded' /\ (GazePending' \/ \E i, k : GazeDone(i, k)')
      BY <1>1, <2>2, <2>3, <2>5, <2>6, <3>1, <3>2, GazePendingStep
    <3> QED
      BY <3>3, <3>4, Zenon DEF GazeInv
  <2> QED
    BY <2>7, <2>8
<1> QED
  BY <1>2, <1>3, GazeElse

(* For every policy, every order of the paths and whatever the client's    *)
(* clock does, the ladder counts the episodes that were never outside the  *)
(* window and none that was swept: its terminating flag fires once, with   *)
(* their off-screen frames, and each earlier frame at the warning limit    *)
(* raises one MEDIUM flag (process_gaze).                                  *)
THEOREM GazeLadderIsBounded == Spec => []GazeLadderBounded
<1>1. ASSUME TypeInv, GazeInv PROVE GazeLadderBounded
  <2> DEFINE n == Len(gazeLog)
             flags == FlagsOf(RULE_GAZE_AWAY_FREQUENCY)
             limit == Policy.gaze_termination_limit
  <2>1. n \in Nat /\ limit \in Nat /\ gazeLog \in Seq(GazeFrame)
    BY <1>1, TypeParts, PolicyTypes DEF TypeInv, GazeType, GazeFrame, PolicyFields, Nat1
  <2>2. PICK S : /\ DueFrames \subseteq S /\ S \subseteq AllowedFrames
                 /\ Cardinality(GazeScored) = Cardinality(S)
    BY <1>1, Zenon DEF GazeInv, WarningsBounded
  <2>3. flags \ FatalGaze = GazeScored
    BY Zenon DEF FatalGaze, GazeScored
  <2>4. /\ Cardinality(DueFrames) =< Cardinality(flags \ FatalGaze)
        /\ Cardinality(flags \ FatalGaze) =< Cardinality(AllowedFrames)
    <3>1. AllowedFrames \in SUBSET (1 .. n)
      BY Zenon DEF AllowedFrames
    <3>2. IsFiniteSet(AllowedFrames)
      BY <2>1, <3>1, FramesFinite
    <3>3. IsFiniteSet(S) /\ Cardinality(S) <= Cardinality(AllowedFrames)
      BY <2>2, <3>2, FS_Subset
    <3>4. Cardinality(DueFrames) <= Cardinality(S)
      BY <2>2, <3>3, FS_Subset
    <3> QED
      BY <2>2, <2>3, <3>3, <3>4, Zenon
  <2>5. GazeLadderBounded <=>
           /\ Cardinality(DueFrames) =< Cardinality(flags \ FatalGaze)
           /\ Cardinality(flags \ FatalGaze) =< Cardinality(AllowedFrames)
           /\ Cardinality(FatalGaze) =< 1
           /\ (\E k \in 1 .. n : LeastCount(k) >= limit) => FatalGaze # {}
           /\ \A i \in FatalGaze : \E k \in 1 .. n :
                 /\ MostCount(k) >= limit
                 /\ \A j \in 1 .. k - 1 : LeastCount(j) < limit
                 /\ StreakIds(NeverOutside(k)) \subseteq emitted[i].contributing_event_ids
                 /\ emitted[i].contributing_event_ids \subseteq StreakIds(NeverSwept(k))
    BY Zenon DEF GazeLadderBounded, FatalGaze, DueFrames, AllowedFrames
  <2>6. CASE GazePending
    <3>1. FatalGaze = {} /\ \A k \in 1 .. n : LeastCount(k) < limit
      BY <2>6, Zenon DEF GazePending
    <3>2. \A k \in 1 .. n : ~(LeastCount(k) >= limit)
      <4> SUFFICES ASSUME NEW k \in 1 .. n PROVE ~(LeastCount(k) >= limit)
        OBVIOUS
      <4>1. NeverOutside(k) \in SUBSET (1 .. k) /\ k \in Nat
        BY <2>1 DEF NeverOutside
      <4>2. LeastCount(k) \in Nat
        BY <4>1, FramesFinite DEF LeastCount
      <4> QED
        BY <2>1, <3>1, <4>2
    <3>3. Cardinality(FatalGaze) =< 1
      BY <3>1, FS_EmptySet
    <3> QED
      BY <2>4, <2>5, <3>1, <3>2, <3>3, Zenon
  <2>7. CASE \E i, k : GazeDone(i, k)
    <3>1. PICK i, k : GazeDone(i, k)
      BY <2>7
    <3>2. /\ k \in 1 .. n /\ MostCount(k) >= limit
          /\ \A j \in 1 .. k - 1 : LeastCount(j) < limit
          /\ FatalGaze = {i}
          /\ StreakIds(NeverOutside(k)) \subseteq emitted[i].contributing_event_ids
          /\ emitted[i].contributing_event_ids \subseteq StreakIds(NeverSwept(k))
      BY <3>1, Zenon DEF GazeDone
    <3>3. Cardinality(FatalGaze) =< 1 /\ FatalGaze # {}
      <4>1. Cardinality(FatalGaze) = 1
        BY <3>2, FS_Singleton, Zenon
      <4>2. 1 =< 1
        OBVIOUS
      <4> QED
        BY <3>2, <4>1, <4>2, Zenon
    <3> QED
      BY <2>4, <2>5, <3>2, <3>3, Zenon
  <2> QED
    BY <1>1, <2>6, <2>7, Zenon DEF GazeInv
<1> QED
  BY <1>1, GazeInit, GazeStepInv, TypeInvHolds, PTL DEF Spec

(* The frames' captured_at has only ever grown.                            *)
ClockOnlyGrew ==
    \A i, j \in 1 .. Len(gazeLog) : i < j => gazeLog[i].ts =< gazeLog[j].ts

(* On a client clock that has not stepped back the two bounds of           *)
(* GazeLadderBounded are the episodes inside the window of the frame: the  *)
(* ladder's count is then the rolling count of the documentation           *)
(* (process_gaze).                                                         *)
THEOREM GazeBoundsMeet ==
    Spec => [](ClockOnlyGrew =>
                 \A k \in 1 .. Len(gazeLog) :
                    LET inside == {j \in 1 .. k : IsGazeAway(j) /\ InWindow(j, k)}
                    IN  NeverOutside(k) = inside /\ NeverSwept(k) = inside)
<1> DEFINE Inside(k) == {j \in 1 .. k : IsGazeAway(j) /\ InWindow(j, k)}
           Meet == ClockOnlyGrew => \A k \in 1 .. Len(gazeLog) :
                      NeverOutside(k) = Inside(k) /\ NeverSwept(k) = Inside(k)
<1>1. ASSUME TypeInv PROVE Meet
  <2> SUFFICES ASSUME ClockOnlyGrew, NEW k \in 1 .. Len(gazeLog)
               PROVE  NeverOutside(k) = Inside(k) /\ NeverSwept(k) = Inside(k)
    OBVIOUS
  <2>1. /\ gazeLog \in Seq(GazeFrame) /\ Len(gazeLog) \in Nat
        /\ Policy.gaze_window_ms \in Int
    BY <1>1, TypeParts, PolicyTypes DEF TypeInv, GazeType, GazeFrame, PolicyFields, Nat1
  <2>2. \A i \in 1 .. Len(gazeLog) : gazeLog[i].ts \in Nat
    <3>1. \A i \in 1 .. Len(gazeLog) : gazeLog[i] \in GazeFrame
      BY <2>1
    <3>2. \A f \in GazeFrame : f.ts \in Nat
      BY DEF GazeFrame
    <3> QED
      BY <3>1, <3>2
  <2>3. \A i, j \in 1 .. Len(gazeLog) : i =< j => gazeLog[i].ts =< gazeLog[j].ts
    <3> SUFFICES ASSUME NEW i \in 1 .. Len(gazeLog), NEW j \in 1 .. Len(gazeLog), i =< j
                 PROVE  gazeLog[i].ts =< gazeLog[j].ts
      OBVIOUS
    <3>1. CASE i = j
      BY <2>2, <3>1
    <3>2. CASE i < j
      BY <3>2 DEF ClockOnlyGrew
    <3> QED
      BY <2>1, <3>1, <3>2
  <2>4. ASSUME NEW i \in 1 .. Len(gazeLog), NEW j \in 1 .. Len(gazeLog),
               NEW p \in 1 .. Len(gazeLog), NEW q \in 1 .. Len(gazeLog),
               i =< j, p =< q, InWindow(i, q)
        PROVE  InWindow(j, p)
    <3>1. gazeLog[i].ts =< gazeLog[j].ts /\ gazeLog[p].ts =< gazeLog[q].ts
      BY <2>3, <2>4
    <3>2. gazeLog[i].ts >= gazeLog[q].ts - Policy.gaze_window_ms
      BY <2>4 DEF InWindow
    <3>3. gazeLog[j].ts >= gazeLog[p].ts - Policy.gaze_window_ms
      <4>1. /\ gazeLog[i].ts \in Nat /\ gazeLog[j].ts \in Nat
            /\ gazeLog[p].ts \in Nat /\ gazeLog[q].ts \in Nat
        BY <2>2, Zenon
      <4>2. \A a, b, c, d \in Nat : \A w \in Int :
               a =< b /\ c =< d /\ a >= d - w => b >= c - w
        OBVIOUS
      <4> QED
        BY <2>1, <3>1, <3>2, <4>1, <4>2, Zenon
    <3> QED
      BY <3>3 DEF InWindow
  <2>5. \A j \in 1 .. k : /\ j \in 1 .. Len(gazeLog) /\ k \in j .. k /\ j \in 1 .. j /\ j =< j
                          /\ \A q \in j .. k : q \in 1 .. Len(gazeLog) /\ q =< k
                          /\ \A i \in 1 .. j : i \in 1 .. Len(gazeLog) /\ i =< j
    BY <2>1
  <2>6. NeverOutside(k) = Inside(k)
    <3>1. \A j \in 1 .. k : (\A q \in j .. k : InWindow(j, q)) <=> InWindow(j, k)
      BY <2>4, <2>5, Zenon
    <3> QED
      BY <3>1, Zenon DEF NeverOutside
  <2>7. NeverSwept(k) = Inside(k)
    <3>1. ASSUME NEW j \in 1 .. k, IsGazeAway(j)
          PROVE  (\A q \in j .. k : \E i \in 1 .. j : IsGazeAway(i) /\ InWindow(i, q))
                   <=> InWindow(j, k)
      <4>1. ASSUME \A q \in j .. k : \E i \in 1 .. j : IsGazeAway(i) /\ InWindow(i, q)
            PROVE  InWindow(j, k)
        <5>1. PICK i \in 1 .. j : InWindow(i, k)
          BY <2>5, <4>1, Zenon
        <5>2. k =< k
          BY <2>1
        <5> QED
          BY <2>4, <2>5, <5>1, <5>2
      <4>2. ASSUME InWindow(j, k), NEW q \in j .. k
            PROVE  IsGazeAway(j) /\ InWindow(j, q)
        BY <2>4, <2>5, <3>1, <4>2, Zenon
      <4> QED
        BY <2>5, <4>1, <4>2, Zenon
    <3> QED
      BY <3>1, Zenon DEF NeverSwept
  <2> QED
    BY <2>6, <2>7
<1>2. TypeInv => Meet
  BY <1>1
<1> HIDE DEF Meet
<1>3. Spec => []Meet
  BY <1>2, TypeInvHolds, PTL
<1>4. Meet <=> (ClockOnlyGrew =>
                 \A k \in 1 .. Len(gazeLog) :
                    LET inside == {j \in 1 .. k : IsGazeAway(j) /\ InWindow(j, k)}
                    IN  NeverOutside(k) = inside /\ NeverSwept(k) = inside)
  BY DEF Meet
<1> QED
  BY <1>3, <1>4, PTL

=============================================================================
