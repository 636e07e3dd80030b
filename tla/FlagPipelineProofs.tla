------------------------- MODULE FlagPipelineProofs -------------------------
(***************************************************************************)
(* What holds of the flag pipeline for any number of sessions, connections *)
(* and database errors.  First the shared buffer by itself, for every      *)
(* MaxLen, every set of messages and any number of draining threads: its   *)
(* accounting and its order.  The pipeline uses it through push and drain  *)
(* only, so these hold in the running process.  Then the pipeline: records *)
(* are immutable and back every kill-switch, flags are committed in the    *)
(* order they were emitted and link to telemetry of their own session, and *)
(* the stored score is the sum of their increments.                        *)
(***************************************************************************)
EXTENDS FlagPipeline, SumLemmas, SequenceTheorems, TLAPS

TakenEvent == [message : Messages, seq : Nat, by : Consumers]

(* What drain hands over is the deque, element by element.                 *)
LEMMA TakenByProperties ==
    ASSUME NEW c \in Consumers, buf \in Seq(BufferedEvent)
    PROVE  /\ TakenBy(c) \in Seq(TakenEvent)
           /\ Len(TakenBy(c)) = Len(buf)
           /\ \A i \in 1 .. Len(buf) :
                 /\ TakenBy(c)[i].seq = buf[i].seq
                 /\ TakenBy(c)[i].message = buf[i].message
<1>1. Len(buf) \in Nat
  OBVIOUS
<1>2. TakenBy(c) \in [1 .. Len(buf) -> TakenEvent]
  <2>1. \A i \in 1 .. Len(buf) : buf[i] \in BufferedEvent
    OBVIOUS
  <2>2. \A i \in 1 .. Len(buf) :
           [message |-> buf[i].message, seq |-> buf[i].seq, by |-> c]
               \in TakenEvent
    BY <2>1 DEF BufferedEvent, TakenEvent
  <2> QED
    BY <2>2 DEF TakenBy
<1>3. TakenBy(c) \in Seq(TakenEvent)
  BY <1>1, <1>2, SeqDef
<1>4. Len(TakenBy(c)) = Len(buf)
  BY <1>1, <1>2, <1>3, LenProperties
<1> QED
  BY <1>3, <1>4 DEF TakenBy

(* What a push leaves in the deque: the new event last, before it either   *)
(* the old contents or, on overflow, the old contents without their head.  *)
LEMMA PushProperties ==
    ASSUME TypeOK, NEW m \in Messages, Push(m)
    PROVE  /\ buf' \in Seq(BufferedEvent)
           /\ Len(buf') = IF WasFull THEN Len(buf) ELSE Len(buf) + 1
           /\ buf'[Len(buf')] = [message |-> m, seq |-> seq]
           /\ \A i \in 1 .. Len(buf') - 1 :
                 buf'[i] = IF WasFull THEN buf[i + 1] ELSE buf[i]
<1> DEFINE e == [message |-> m, seq |-> seq]
<1>1. e \in BufferedEvent
  BY DEF TypeOK, BufferedEvent
<1>2. CASE WasFull
  <2>1. buf' = Append(Tail(buf), e)
    BY <1>2 DEF Push, Appended
  <2>2. buf # <<>> /\ buf \in Seq(BufferedEvent)
    BY <1>2, MaxLenAssumption DEF WasFull, TypeOK
  <2>3. /\ Tail(buf) \in Seq(BufferedEvent)
        /\ Len(Tail(buf)) = Len(buf) - 1
        /\ \A i \in 1 .. Len(Tail(buf)) : Tail(buf)[i] = buf[i + 1]
    BY <2>2, HeadTailProperties
  <2> HIDE DEF e
  <2>4. /\ buf' \in Seq(BufferedEvent)
        /\ Len(buf') = Len(buf)
        /\ buf'[Len(buf')] = e
        /\ \A i \in 1 .. Len(buf') - 1 : buf'[i] = buf[i + 1]
    BY <1>1, <2>1, <2>2, <2>3
  <2> QED
    BY <1>2, <2>4 DEF e
<1>3. CASE ~WasFull
  <2>1. buf' = Append(buf, e) /\ buf \in Seq(BufferedEvent)
    BY <1>3 DEF Push, Appended, TypeOK
  <2> HIDE DEF e
  <2>2. /\ buf' \in Seq(BufferedEvent)
        /\ Len(buf') = Len(buf) + 1
        /\ buf'[Len(buf')] = e
        /\ \A i \in 1 .. Len(buf') - 1 : buf'[i] = buf[i]
    BY <1>1, <2>1
  <2> QED
    BY <1>3, <2>2 DEF e
<1> QED
  BY <1>2, <1>3

-----------------------------------------------------------------------------
(* The type invariant is inductive: neither push, with or without an       *)
(* overflow, nor drain leaves the types or lets the deque outgrow maxlen.  *)
THEOREM TypeCorrect == Spec => []TypeOK
<1>1. Init => TypeOK
  BY MaxLenAssumption DEF Init, TypeOK, BufferedEvent
<1>2. TypeOK /\ [Next]_vars => TypeOK'
  <2> SUFFICES ASSUME TypeOK, [Next]_vars PROVE TypeOK'
    OBVIOUS
  <2>1. ASSUME NEW m \in Messages, Push(m) PROVE TypeOK'
    <3>1. /\ buf' \in Seq(BufferedEvent)
          /\ Len(buf') = IF WasFull THEN Len(buf) ELSE Len(buf) + 1
      BY <2>1, PushProperties
    <3>2. Len(buf') =< MaxLen
      BY <3>1, MaxLenAssumption DEF WasFull, TypeOK
    <3> QED
      BY <2>1, <3>1, <3>2 DEF Push, TypeOK
  <2>2. ASSUME NEW c \in Consumers, Drain(c) PROVE TypeOK'
    <3>1. TakenBy(c) \in Seq(TakenEvent)
      BY TakenByProperties DEF TypeOK
    <3> HIDE DEF TakenBy
    <3> QED
      BY <2>2, <3>1, MaxLenAssumption DEF Drain, TypeOK, TakenEvent
  <2>3. CASE UNCHANGED vars
    BY <2>3 DEF vars, TypeOK
  <2> QED
    BY <2>1, <2>2, <2>3 DEF Next
<1> QED
  BY <1>1, <1>2, PTL DEF Spec

-----------------------------------------------------------------------------
(* The inductive invariant.  The three guarantees need each other: the     *)
(* order across drains follows from where the numbers still in the deque   *)
(* start, and that from the deque being the newest contiguous run.         *)
IInv == /\ TypeOK
        /\ NewestRunKept
        /\ DroppedAccountsForLoss
        /\ FifoAcrossConsumers

(* A push, overflowing or not, keeps the newest run, the loss count and    *)
(* the order of what was drained before it.                                *)
LEMMA PushPreserves ==
    ASSUME IInv, NEW m \in Messages, Push(m), TypeOK'
    PROVE  IInv'
<1>0. /\ Len(buf) \in Nat /\ Len(taken) \in Nat
      /\ seq \in Nat /\ dropped \in Nat
      /\ seq = Len(taken) + Len(buf) + dropped
      /\ seq = Len(pushed) /\ pushed \in Seq(Messages)
      /\ \A i \in 1 .. Len(taken) : taken[i].seq \in Nat
  <2>0. taken \in Seq(TakenEvent)
    BY DEF IInv, TypeOK, TakenEvent
  <2>1. \A i \in 1 .. Len(taken) : taken[i] \in TakenEvent
    BY <2>0, ElementOfSeq
  <2>2. \A i \in 1 .. Len(taken) : taken[i].seq \in Nat
    BY <2>1 DEF TakenEvent
  <2> QED
    BY <2>2, SMTT(40) DEF IInv, TypeOK, DroppedAccountsForLoss
<1>1. /\ seq' = seq + 1
      /\ dropped' = IF WasFull THEN dropped + 1 ELSE dropped
      /\ pushed' = Append(pushed, m)
      /\ taken' = taken
  BY DEF Push
<1>2. /\ Len(buf') = IF WasFull THEN Len(buf) ELSE Len(buf) + 1
      /\ buf'[Len(buf')] = [message |-> m, seq |-> seq]
      /\ \A i \in 1 .. Len(buf') - 1 :
            buf'[i] = IF WasFull THEN buf[i + 1] ELSE buf[i]
  BY PushProperties DEF IInv
<1>3. \A k \in 0 .. seq - 1 : pushed'[k + 1] = pushed[k + 1]
  BY <1>0, <1>1
<1>4. pushed'[seq + 1] = m
  BY <1>0, <1>1
<1>5. ASSUME NEW i \in 1 .. Len(buf')
      PROVE  /\ buf'[i].seq = seq' - Len(buf') + i - 1
             /\ buf'[i].message = pushed'[buf'[i].seq + 1]
  <2>1. CASE i = Len(buf')
    BY <1>0, <1>1, <1>2, <1>4, <2>1
  <2>2. CASE i # Len(buf')
    <3>1. i \in 1 .. Len(buf') - 1
      BY <1>0, <1>2, <2>2
    <3>2. CASE WasFull
      <4>1. buf'[i] = buf[i + 1] /\ i + 1 \in 1 .. Len(buf)
        BY <1>0, <1>1, <1>2, <3>1, <3>2
      <4>2. /\ buf[i + 1].seq = seq - Len(buf) + i
            /\ buf[i + 1].message = pushed[buf[i + 1].seq + 1]
        BY <1>0, <4>1 DEF IInv, NewestRunKept
      <4>3. buf[i + 1].seq \in 0 .. seq - 1
        BY <1>0, <4>1, <4>2
      <4>4. pushed'[buf[i + 1].seq + 1] = pushed[buf[i + 1].seq + 1]
        BY <1>3, <4>3
      <4>5. Len(buf') = Len(buf)
        BY <1>2, <3>2
      <4> QED
        BY <1>0, <1>1, <4>1, <4>2, <4>4, <4>5
    <3>3. CASE ~WasFull
      <4>1. buf'[i] = buf[i] /\ i \in 1 .. Len(buf)
        BY <1>0, <1>1, <1>2, <3>1, <3>3
      <4>2. /\ buf[i].seq = seq - Len(buf) + i - 1
            /\ buf[i].message = pushed[buf[i].seq + 1]
        BY <1>0, <4>1 DEF IInv, NewestRunKept
      <4>3. buf[i].seq \in 0 .. seq - 1
        <5>1. Len(buf) \in Nat /\ seq \in Nat /\ Len(buf) =< seq
          BY <1>0
        <5>2. i \in 1 .. Len(buf) /\ buf[i].seq = seq - Len(buf) + i - 1
          BY <4>1, <4>2
        <5> QED BY <5>1, <5>2
      <4> QED
        BY <1>0, <1>1, <1>2, <1>3, <3>3, <4>1, <4>2, <4>3
    <3> QED BY <3>2, <3>3
  <2> QED BY <2>1, <2>2
<1>6. NewestRunKept'
  BY <1>5 DEF NewestRunKept
<1>7. DroppedAccountsForLoss'
  BY <1>0, <1>1, <1>2 DEF DroppedAccountsForLoss
<1>8. FifoAcrossConsumers'
  <2>1. ASSUME NEW i \in 1 .. Len(taken)
        PROVE  /\ taken[i].seq < seq' - Len(buf')
               /\ taken[i].message = pushed'[taken[i].seq + 1]
    <3>1. taken[i].seq \in Nat
      BY <1>0
    <3>2. /\ taken[i].seq < seq - Len(buf)
          /\ taken[i].message = pushed[taken[i].seq + 1]
      BY DEF IInv, FifoAcrossConsumers
    <3>3. Len(buf') =< Len(buf) + 1 /\ Len(buf') \in Nat
      BY <1>0, <1>2
    <3>4. taken[i].seq \in 0 .. seq - 1
      BY <1>0, <3>1, <3>2
    <3>5. pushed'[taken[i].seq + 1] = pushed[taken[i].seq + 1]
      BY <1>3, <3>4
    <3> QED
      BY <1>0, <1>1, <3>1, <3>2, <3>3, <3>5
  <2> QED
    BY <1>1, <2>1 DEF IInv, FifoAcrossConsumers
<1> QED
  BY <1>6, <1>7, <1>8 DEF IInv

(* A drain, by whichever thread, hands over the run after everything older *)
(* and loses nothing.                                                      *)
LEMMA DrainPreserves ==
    ASSUME IInv, NEW c \in Consumers, Drain(c), TypeOK'
    PROVE  IInv'
<1>0. /\ Len(buf) \in Nat /\ Len(taken) \in Nat
      /\ seq \in Nat /\ dropped \in Nat
      /\ seq = Len(taken) + Len(buf) + dropped
      /\ seq = Len(pushed)
      /\ buf \in Seq(BufferedEvent)
      /\ taken \in Seq(TakenEvent)
      /\ \A i \in 1 .. Len(taken) : taken[i].seq \in Nat
  <2>0. taken \in Seq(TakenEvent)
    BY DEF IInv, TypeOK, TakenEvent
  <2>1. \A i \in 1 .. Len(taken) : taken[i] \in TakenEvent
    BY <2>0, ElementOfSeq
  <2>2. \A i \in 1 .. Len(taken) : taken[i].seq \in Nat
    BY <2>1 DEF TakenEvent
  <2> QED
    BY <2>2, SMTT(40) DEF IInv, TypeOK, DroppedAccountsForLoss, TakenEvent
<1>1. /\ seq' = seq /\ dropped' = dropped /\ pushed' = pushed
      /\ buf' = <<>>
      /\ taken' = taken \o TakenBy(c)
  BY DEF Drain
<1>2. /\ TakenBy(c) \in Seq(TakenEvent)
      /\ Len(TakenBy(c)) = Len(buf)
      /\ \A i \in 1 .. Len(buf) :
            /\ TakenBy(c)[i].seq = buf[i].seq
            /\ TakenBy(c)[i].message = buf[i].message
  BY <1>0, TakenByProperties
<1> HIDE DEF TakenBy
<1>4. /\ Len(taken') = Len(taken) + Len(buf)
      /\ \A i \in 1 .. Len(taken) : taken'[i] = taken[i]
      /\ \A i \in Len(taken) + 1 .. Len(taken) + Len(buf) :
            /\ taken'[i].seq = buf[i - Len(taken)].seq
            /\ taken'[i].message = buf[i - Len(taken)].message
  <2>0. /\ Len(taken \o TakenBy(c)) = Len(taken) + Len(TakenBy(c))
        /\ \A i \in 1 .. Len(taken) + Len(TakenBy(c)) :
              (taken \o TakenBy(c))[i] =
                  IF i <= Len(taken) THEN taken[i]
                                     ELSE TakenBy(c)[i - Len(taken)]
    <3>1. taken \in Seq(TakenEvent) /\ TakenBy(c) \in Seq(TakenEvent)
      BY <1>0, <1>2
    <3> QED
      BY <3>1, ConcatProperties, Zenon
  <2>1. /\ Len(taken') = Len(taken) + Len(TakenBy(c))
        /\ \A i \in 1 .. Len(taken) + Len(TakenBy(c)) :
              taken'[i] = IF i <= Len(taken) THEN taken[i]
                                             ELSE TakenBy(c)[i - Len(taken)]
    BY <1>1, <2>0
  <2>2. Len(taken') = Len(taken) + Len(buf)
    BY <1>2, <2>1
  <2>3. ASSUME NEW i \in 1 .. Len(taken) PROVE taken'[i] = taken[i]
    <3>1. i \in 1 .. Len(taken) + Len(TakenBy(c)) /\ i <= Len(taken)
      BY <1>0, <1>2
    <3> QED
      BY <2>1, <3>1
  <2>4. ASSUME NEW i \in Len(taken) + 1 .. Len(taken) + Len(buf)
        PROVE  /\ taken'[i].seq = buf[i - Len(taken)].seq
               /\ taken'[i].message = buf[i - Len(taken)].message
    <3>1. /\ i \in 1 .. Len(taken) + Len(TakenBy(c)) /\ ~(i <= Len(taken))
          /\ i - Len(taken) \in 1 .. Len(buf)
      BY <1>0, <1>2
    <3>2. taken'[i] = TakenBy(c)[i - Len(taken)]
      BY <2>1, <3>1
    <3> QED
      BY <1>2, <3>1, <3>2
  <2> QED
    BY <2>2, <2>3, <2>4
<1>5. NewestRunKept'
  BY <1>1 DEF NewestRunKept
<1>6. DroppedAccountsForLoss'
  BY <1>0, <1>1, <1>4 DEF DroppedAccountsForLoss
<1>7. ASSUME NEW i \in Len(taken) + 1 .. Len(taken')
      PROVE  /\ taken'[i].seq = seq - Len(buf) + (i - Len(taken)) - 1
             /\ taken'[i].message = pushed[taken'[i].seq + 1]
  <2>1. i - Len(taken) \in 1 .. Len(buf)
    BY <1>0, <1>4
  <2> QED
    BY <1>0, <1>4, <2>1 DEF IInv, NewestRunKept
<1>8. FifoAcrossConsumers'
  <2>1. ASSUME NEW i \in 1 .. Len(taken')
        PROVE  /\ taken'[i].seq < seq' - Len(buf')
               /\ taken'[i].message = pushed'[taken'[i].seq + 1]
    <3>1. CASE i =< Len(taken)
      BY <1>0, <1>1, <1>4, <3>1 DEF IInv, FifoAcrossConsumers
    <3>2. CASE i > Len(taken)
      BY <1>0, <1>1, <1>4, <1>7, <3>2
    <3> QED BY <3>1, <3>2
  <2>2. ASSUME NEW i \in 1 .. Len(taken'), NEW j \in 1 .. Len(taken'), i < j
        PROVE  taken'[i].seq < taken'[j].seq
    <3>1. CASE j =< Len(taken)
      BY <1>0, <1>4, <2>2, <3>1 DEF IInv, FifoAcrossConsumers
    <3>2. CASE i =< Len(taken) /\ j > Len(taken)
      <4>1. taken'[i].seq < seq - Len(buf) /\ taken'[i].seq \in Nat
        BY <1>0, <1>4, <3>2 DEF IInv, FifoAcrossConsumers
      <4> QED
        BY <1>0, <1>4, <1>7, <3>2, <4>1
    <3>3. CASE i > Len(taken)
      <4>1. /\ i \in Len(taken) + 1 .. Len(taken')
            /\ j \in Len(taken) + 1 .. Len(taken')
        BY <1>0, <2>2, <3>3
      <4>2. /\ taken'[i].seq = seq - Len(buf) + (i - Len(taken)) - 1
            /\ taken'[j].seq = seq - Len(buf) + (j - Len(taken)) - 1
        BY <1>7, <4>1
      <4> QED
        BY <1>0, <2>2, <4>1, <4>2
    <3> QED BY <3>1, <3>2, <3>3
  <2> QED
    BY <2>1, <2>2 DEF FifoAcrossConsumers
<1> QED
  BY <1>5, <1>6, <1>8 DEF IInv

(* The buffer's three guarantees and its types are inductive together.     *)
LEMMA BufferInvariant == Spec => []IInv
<1>1. Init => IInv
  <2>1. Init => TypeOK
    BY MaxLenAssumption DEF Init, TypeOK, BufferedEvent
  <2> QED
    BY <2>1 DEF Init, IInv, NewestRunKept, DroppedAccountsForLoss,
                FifoAcrossConsumers
<1>2. IInv /\ TypeOK' /\ [Next]_vars => IInv'
  <2> SUFFICES ASSUME IInv, TypeOK', [Next]_vars PROVE IInv'
    OBVIOUS
  <2>1. CASE UNCHANGED vars
    BY <2>1 DEF vars, IInv, TypeOK, NewestRunKept, DroppedAccountsForLoss,
                FifoAcrossConsumers
  <2> QED
    BY <2>1, PushPreserves, DrainPreserves DEF Next
<1> QED
  BY <1>1, <1>2, TypeCorrect, PTL DEF Spec

(* At every moment the deque holds the newest contiguous run of arrivals,  *)
(* unaltered and in order (TelemetryEventBuffer.push on a full deque).     *)
THEOREM NewestRunStays == Spec => []NewestRunKept
  BY BufferInvariant, PTL DEF IInv

(* dropped_count is exactly the number of arrivals that are neither in the *)
(* deque nor were drained (TelemetryEventBuffer.push).                     *)
THEOREM LossIsCounted == Spec => []DroppedAccountsForLoss
  BY BufferInvariant, PTL DEF IInv

(* The drained events came out in arrival order, once and unaltered,       *)
(* whichever threads took them (TelemetryEventBuffer.drain).               *)
THEOREM DrainedInOrder == Spec => []FifoAcrossConsumers
  BY BufferInvariant, PTL DEF IInv


-----------------------------------------------------------------------------
(* Every step of the pipeline is a push, a drain or no step of the buffer. *)
LEMMA PipelineStepIsBufferStep == [PipelineNext]_pipelineVars => [Next]_vars
<1> SUFFICES ASSUME [PipelineNext]_pipelineVars PROVE [Next]_vars
  OBVIOUS
<1>1. CASE UNCHANGED pipelineVars
  BY <1>1 DEF pipelineVars
<1>2. ASSUME NEW c \in Conns, NEW kind \in Kinds, Receive(c, kind)
      PROVE  [Next]_vars
  <2> DEFINE m == [session |-> SessionOf[c], kind |-> kind]
  <2>1. m \in Messages
    BY PipelineAssumption
  <2>2. Push(m)
    BY <1>2 DEF Receive
  <2> QED
    BY <2>1, <2>2 DEF Next
<1>3. ASSUME NEW c \in Conns, DrainBatch(c) PROVE [Next]_vars
  <2>1. c \in Consumers
    BY PipelineAssumption
  <2>2. Drain(c)
    BY <1>3 DEF DrainBatch
  <2> QED
    BY <2>1, <2>2 DEF Next
<1>4. ASSUME NEW c \in Conns,
             \/ Connect(c) \/ Disconnect(c) \/ StopDispatcher(c) \/ Dispatch(c)
             \/ WorkerStep(c) \/ PersistFault(c) \/ KillFault(c)
      PROVE  UNCHANGED vars
  BY <1>4 DEF Connect, Disconnect, StopDispatcher, Dispatch, WorkerStep,
              PersistFault, KillFault, WorkerExit, PersistBegin, PersistCommit,
              PersistRejected, KillRead, KillInsert, KillUpdate
<1>5. ASSUME NEW s \in Sessions, NEW flag \in 1 .. Len(flags),
             PostTerminate(s, flag)
      PROVE  UNCHANGED vars
  BY <1>5 DEF PostTerminate
<1> QED
  BY <1>1, <1>2, <1>3, <1>4, <1>5 DEF PipelineNext

(* The pipeline implements the buffer: the connections' handlers and       *)
(* dispatchers use TelemetryEventBuffer only through push and drain, so    *)
(* what is proved of it alone holds of it in the running process.          *)
THEOREM PipelineImplementsBuffer == PipelineSpec => Spec
<1>1. PipelineInit => Init
  BY DEF PipelineInit
<1> QED
  BY <1>1, PipelineStepIsBufferStep, PTL DEF PipelineSpec, Spec

(* In the running process, with any number of sessions, nothing a client   *)
(* sent leaves the buffer out of order, twice, altered or uncounted        *)
(* (api.py's single TelemetryEventBuffer).                                 *)
THEOREM PipelineBufferCorrect ==
    PipelineSpec => [](NewestRunKept /\ DroppedAccountsForLoss
                         /\ FifoAcrossConsumers)
  BY PipelineImplementsBuffer, NewestRunStays, LossIsCounted, DrainedInOrder, PTL

-----------------------------------------------------------------------------
InKillSwitch == {"kill_read", "kill_insert", "kill_update"}

(* A worker handling the kill-switch holds a committed flag of its own     *)
(* session.                                                                *)
WorkerHoldsOwnFlag ==
    \A c \in Conns : worker[c].pc \in InKillSwitch =>
        /\ worker[c].flag \in 1 .. Len(flags)
        /\ flags[worker[c].flag].session = SessionOf[c]

KilledAreFlags ==
    \A f \in killed : f \in 1 .. Len(flags) /\ flags[f].session \in Sessions

RecordInv ==
    /\ \E T : flags \in Seq(T)
    /\ DOMAIN worker = Conns
    /\ DOMAIN termination = Sessions
    /\ WorkerHoldsOwnFlag
    /\ KilledAreFlags
    /\ KillSwitchBackedByRecord

(* No step rewrites a termination record that exists: the worker's insert  *)
(* meets the unique constraint, its update the immutability listener, and  *)
(* POST /terminate fails whole.                                            *)
LEMMA RecordStep ==
    ASSUME RecordInv, [PipelineNext]_pipelineVars
    PROVE  \A s \in Sessions :
              termination[s] # NoFlag => termination'[s] = termination[s]
<1>0. DOMAIN termination = Sessions
  BY DEF RecordInv
<1>1. ASSUME NEW c \in Conns, KillInsert(c)
      PROVE  \A s \in Sessions :
                termination[s] # NoFlag => termination'[s] = termination[s]
  BY <1>0, <1>1 DEF KillInsert
<1>2. ASSUME NEW s \in Sessions, NEW flag \in 1 .. Len(flags),
             PostTerminate(s, flag)
      PROVE  \A t \in Sessions :
                termination[t] # NoFlag => termination'[t] = termination[t]
  BY <1>0, <1>2 DEF PostTerminate
<1>3. ASSUME NEW c \in Conns,
             \/ Connect(c) \/ Disconnect(c) \/ StopDispatcher(c) \/ Dispatch(c)
             \/ DrainBatch(c) \/ (\E kind \in Kinds : Receive(c, kind))
             \/ WorkerExit(c) \/ PersistBegin(c) \/ PersistCommit(c)
             \/ PersistRejected(c) \/ KillRead(c) \/ KillUpdate(c)
             \/ PersistFault(c) \/ KillFault(c)
      PROVE  termination' = termination
  BY <1>3 DEF Connect, Disconnect, StopDispatcher, Dispatch, DrainBatch, Receive,
              WorkerExit, PersistBegin, PersistCommit, PersistRejected, KillRead,
              KillUpdate, PersistFault, KillFault, dbVars
<1>4. CASE UNCHANGED pipelineVars
  BY <1>4 DEF pipelineVars, dbVars
<1> QED
  BY <1>1, <1>2, <1>3, <1>4 DEF PipelineNext, WorkerStep

(* A step that commits no flag and no kill-switch, and leaves at most one  *)
(* worker holding a flag it held before, keeps the invariant.              *)
LEMMA QuietStep ==
    ASSUME RecordInv, [PipelineNext]_pipelineVars,
           flags' = flags, killed' = killed,
           DOMAIN termination' = Sessions, DOMAIN worker' = Conns,
           \A c \in Conns : \/ worker'[c] = worker[c]
                            \/ worker'[c].pc \notin InKillSwitch
                            \/ /\ worker[c].pc \in InKillSwitch
                               /\ worker'[c].flag = worker[c].flag
    PROVE  RecordInv'
<1>1. \A s \in Sessions : termination[s] # NoFlag => termination'[s] = termination[s]
  BY RecordStep
<1>2. WorkerHoldsOwnFlag'
  BY DEF RecordInv, WorkerHoldsOwnFlag
<1>3. KilledAreFlags'
  BY DEF RecordInv, KilledAreFlags
<1>4. KillSwitchBackedByRecord'
  <2> SUFFICES ASSUME NEW f \in killed PROVE termination'[flags[f].session] = f
    BY DEF KillSwitchBackedByRecord
  <2>1. flags[f].session \in Sessions /\ f # NoFlag
    BY DEF RecordInv, KilledAreFlags, NoFlag
  <2> QED
    BY <1>1, <2>1 DEF RecordInv, KillSwitchBackedByRecord
<1> QED
  BY <1>2, <1>3, <1>4 DEF RecordInv

(* Committing a flag leaves the earlier ones where they are, and a worker  *)
(* that goes on to the kill-switch holds the flag it has just committed.   *)
LEMMA CommitStep ==
    ASSUME RecordInv, NEW c \in Conns, PersistCommit(c)
    PROVE  RecordInv'
<1>0. PICK T : flags \in Seq(T)
  BY DEF RecordInv
<1>1. flags \in Seq(T \cup {FlagRow(c)}) /\ FlagRow(c) \in T \cup {FlagRow(c)}
  BY <1>0
<1>2. flags' = Append(flags, FlagRow(c))
  BY DEF PersistCommit
<1>3. /\ flags' \in Seq(T \cup {FlagRow(c)})
      /\ Len(flags') = Len(flags) + 1 /\ Len(flags) \in Nat
      /\ \A i \in 1 .. Len(flags) : flags'[i] = flags[i]
      /\ flags'[Len(flags) + 1] = FlagRow(c)
  BY <1>1, <1>2, AppendProperties
<1>4. FlagRow(c).session = SessionOf[c]
  BY DEF FlagRow
<1>5. /\ DOMAIN worker = Conns
      /\ \/ worker' = [worker EXCEPT ![c] =
                          [pc |-> "kill_read", flag |-> Len(flags) + 1]]
         \/ worker' = [worker EXCEPT ![c] = Rest(c)]
  BY DEF RecordInv, PersistCommit
<1>6. /\ DOMAIN worker' = Conns
      /\ \A d \in Conns : d # c => worker'[d] = worker[d]
      /\ worker'[c].pc \in InKillSwitch => worker'[c].flag = Len(flags) + 1
  BY <1>5 DEF Rest, Idle, Stopped, InKillSwitch
<1>7. WorkerHoldsOwnFlag'
  <2> SUFFICES ASSUME NEW d \in Conns, worker'[d].pc \in InKillSwitch
               PROVE  /\ worker'[d].flag \in 1 .. Len(flags')
                      /\ flags'[worker'[d].flag].session = SessionOf[d]
    BY DEF WorkerHoldsOwnFlag
  <2>1. CASE d = c
    BY <1>3, <1>4, <1>6, <2>1
  <2>2. CASE d # c
    BY <1>3, <1>6, <2>2 DEF RecordInv, WorkerHoldsOwnFlag
  <2> QED
    BY <2>1, <2>2
<1>8. killed' = killed /\ termination' = termination
  BY DEF PersistCommit, auxVars
<1>9. KilledAreFlags' /\ KillSwitchBackedByRecord'
  BY <1>3, <1>8 DEF RecordInv, KilledAreFlags, KillSwitchBackedByRecord
<1> QED
  BY <1>3, <1>6, <1>7, <1>8, <1>9 DEF RecordInv

(* The callback runs only when the worker's own insert made the record.    *)
LEMMA KillInsertStep ==
    ASSUME RecordInv, NEW c \in Conns, KillInsert(c)
    PROVE  RecordInv'
<1>0. PipelineNext
  BY DEF PipelineNext, WorkerStep
<1>1. \A s \in Sessions : termination[s] # NoFlag => termination'[s] = termination[s]
  BY <1>0, RecordStep
<1>2. /\ worker[c].flag \in 1 .. Len(flags)
      /\ flags[worker[c].flag].session = SessionOf[c]
      /\ SessionOf[c] \in Sessions
  BY PipelineAssumption DEF RecordInv, WorkerHoldsOwnFlag, KillInsert, InKillSwitch
<1>3. /\ DOMAIN worker' = Conns
      /\ \A d \in Conns : d # c => worker'[d] = worker[d]
      /\ worker'[c].pc \notin InKillSwitch
  BY DEF RecordInv, KillInsert, Rest, Idle, Stopped, InKillSwitch
<1>4. flags' = flags /\ DOMAIN termination' = Sessions
  BY DEF RecordInv, KillInsert
<1>5. WorkerHoldsOwnFlag'
  BY <1>3, <1>4 DEF RecordInv, WorkerHoldsOwnFlag
<1>6. \/ killed' = killed
      \/ /\ killed' = killed \cup {worker[c].flag}
         /\ termination'[SessionOf[c]] = worker[c].flag
  BY <1>2 DEF RecordInv, KillInsert
<1>7. KilledAreFlags'
  BY <1>2, <1>4, <1>6 DEF RecordInv, KilledAreFlags
<1>8. KillSwitchBackedByRecord'
  <2> SUFFICES ASSUME NEW f \in killed' PROVE termination'[flags[f].session] = f
    BY <1>4 DEF KillSwitchBackedByRecord
  <2>1. CASE f \in killed
    <3>1. flags[f].session \in Sessions /\ f # NoFlag
      BY <2>1 DEF RecordInv, KilledAreFlags, NoFlag
    <3> QED
      BY <1>1, <2>1, <3>1 DEF RecordInv, KillSwitchBackedByRecord
  <2>2. CASE f \notin killed
    BY <1>2, <1>6, <2>2
  <2> QED
    BY <2>1, <2>2
<1> QED
  BY <1>3, <1>4, <1>5, <1>7, <1>8 DEF RecordInv

(* The empty database satisfies the invariant.                             *)
LEMMA InitRecordInv == PipelineInit => RecordInv
<1> SUFFICES ASSUME PipelineInit PROVE RecordInv
  OBVIOUS
<1>1. flags \in Seq({})
  BY DEF PipelineInit
<1>2. DOMAIN worker = Conns /\ DOMAIN termination = Sessions /\ killed = {}
  BY DEF PipelineInit
<1>3. \A c \in Conns : worker[c].pc = "idle"
  BY DEF PipelineInit, Idle
<1> QED
  BY <1>1, <1>2, <1>3 DEF RecordInv, WorkerHoldsOwnFlag, KilledAreFlags,
                          KillSwitchBackedByRecord, InKillSwitch

(* Every step of every thread and request keeps the invariant.             *)
LEMMA StepRecordInv == RecordInv /\ [PipelineNext]_pipelineVars => RecordInv'
<1> SUFFICES ASSUME RecordInv, [PipelineNext]_pipelineVars PROVE RecordInv'
  OBVIOUS
<1>0. DOMAIN worker = Conns /\ DOMAIN termination = Sessions
  BY DEF RecordInv
<1>1. CASE UNCHANGED pipelineVars
  <2>1. UNCHANGED <<flags, killed, termination, worker>>
    BY <1>1 DEF pipelineVars, threadVars, dbVars, auxVars
  <2> QED
    BY <1>0, <2>1, QuietStep
<1>2. ASSUME NEW c \in Conns,
             \/ Connect(c) \/ Disconnect(c) \/ StopDispatcher(c) \/ Dispatch(c)
             \/ DrainBatch(c) \/ (\E kind \in Kinds : Receive(c, kind))
      PROVE  RecordInv'
  <2>1. UNCHANGED <<flags, killed, termination, worker>>
    BY <1>2 DEF Connect, Disconnect, StopDispatcher, Dispatch, DrainBatch,
                Receive, threadVars, dbVars, auxVars
  <2> QED
    BY <1>0, <2>1, QuietStep
<1>3. ASSUME NEW c \in Conns,
             \/ WorkerExit(c) \/ PersistBegin(c) \/ PersistRejected(c)
             \/ KillUpdate(c) \/ PersistFault(c) \/ KillFault(c)
      PROVE  RecordInv'
  <2>1. /\ UNCHANGED <<flags, killed, termination>>
        /\ \E w : worker' = [worker EXCEPT ![c] = w] /\ w.pc \notin InKillSwitch
    BY <1>3 DEF WorkerExit, PersistBegin, PersistRejected, KillUpdate,
                PersistFault, KillFault, Rest, Idle, Stopped, InKillSwitch,
                dbVars, auxVars
  <2>2. /\ DOMAIN worker' = Conns
        /\ \A d \in Conns : d # c => worker'[d] = worker[d]
        /\ worker'[c].pc \notin InKillSwitch
    BY <1>0, <2>1
  <2> QED
    BY <1>0, <2>1, <2>2, QuietStep
<1>4. ASSUME NEW c \in Conns, KillRead(c) PROVE RecordInv'
  <2>1. /\ UNCHANGED <<flags, killed, termination>>
        /\ DOMAIN worker' = Conns
        /\ \A d \in Conns : d # c => worker'[d] = worker[d]
        /\ worker[c].pc \in InKillSwitch /\ worker'[c].flag = worker[c].flag
    BY <1>0, <1>4 DEF KillRead, InKillSwitch, dbVars, auxVars
  <2> QED
    BY <1>0, <2>1, QuietStep
<1>5. ASSUME NEW s \in Sessions, NEW flag \in 1 .. Len(flags),
             PostTerminate(s, flag)
      PROVE  RecordInv'
  <2>1. /\ UNCHANGED <<flags, killed, worker>>
        /\ DOMAIN termination' = Sessions
    BY <1>0, <1>5 DEF PostTerminate, threadVars, auxVars
  <2> QED
    BY <1>0, <2>1, QuietStep
<1> QED
  BY <1>1, <1>2, <1>3, <1>4, <1>5, CommitStep, KillInsertStep
  DEF PipelineNext, WorkerStep

(* For any number of sessions, connections and database errors, a          *)
(* kill-switch reaches a client only for the flag its session's durable    *)
(* record names (_handle_kill_switch against POST /terminate).             *)
THEOREM KillSwitchBacked == PipelineSpec => []KillSwitchBackedByRecord
  BY InitRecordInv, StepRecordInv, PTL DEF PipelineSpec, RecordInv

(* For any number of sessions, connections and database errors, no step    *)
(* changes a termination record that exists (models.py,                    *)
(* ImmutableRecordError; the unique constraint on exam_session_id).        *)
THEOREM RecordsImmutable == PipelineSpec => RecordImmutable
<1>1. RecordInv /\ [PipelineNext]_pipelineVars =>
        [\A s \in Sessions :
            termination[s] # NoFlag => termination'[s] = termination[s]]_pipelineVars
  BY RecordStep
<1> QED
  BY InitRecordInv, StepRecordInv, <1>1, PTL DEF PipelineSpec, RecordImmutable

-----------------------------------------------------------------------------
PipelineRules == {"second_person", "browser_event", "accumulated_score"}
DecisionRec == [rule : PipelineRules, triggered_termination : BOOLEAN,
                ids : SUBSET Nat, score_delta : Nat]
Item == [decision : DecisionRec, n : Nat, events : SUBSET Nat]
FlagRec == [session : Sessions, conn : Conns, n : Nat, rule : PipelineRules,
            triggered_termination : BOOLEAN, ids : SUBSET Nat, score_delta : Nat]

(* The dispatcher thread of connection c took the event numbered id out of *)
(* the shared buffer.                                                      *)
Owned(c, id) == \E i \in 1 .. Len(taken) : taken[i].seq = id /\ taken[i].by = c

FlowTypes ==
    /\ batch \in [Conns -> Seq(BufferedEvent)]
    /\ streak \in [Conns -> SUBSET Nat]
    /\ queue \in [Conns -> Seq(Item)]
    /\ emittedBy \in [Conns -> Nat]
    /\ DOMAIN worker = Conns
    /\ \A c \in Conns : worker[c].pc = "persist" => worker[c].item \in Item
    /\ flags \in Seq(FlagRec)
    /\ DOMAIN dbScore = Sessions

OwnsItem(c, item) == /\ \A id \in item.decision.ids : Owned(c, id)
                     /\ item.events \subseteq item.decision.ids

(* Whatever a connection's threads hold or have written goes back to       *)
(* events its own dispatcher took.                                         *)
OwnershipInv ==
    /\ \A c \in Conns :
          /\ \A i \in 1 .. Len(batch[c]) : Owned(c, batch[c][i].seq)
          /\ \A id \in streak[c] : Owned(c, id)
          /\ \A i \in 1 .. Len(queue[c]) : OwnsItem(c, queue[c][i])
          /\ worker[c].pc = "persist" => OwnsItem(c, worker[c].item)
    /\ \A row \in telemetry :
          \E c \in Conns : Owned(c, row.id) /\ row.session = SessionOf[c]

(* A decision is in one place at a time, and places are in order: flags,   *)
(* then the worker's hand, then the queue, then what is yet to be emitted. *)
OrderInv ==
    \A c \in Conns :
        /\ \A i, j \in 1 .. Len(queue[c]) : i < j => queue[c][i].n < queue[c][j].n
        /\ \A i \in 1 .. Len(queue[c]) : queue[c][i].n =< emittedBy[c]
        /\ worker[c].pc = "persist" =>
              /\ worker[c].item.n =< emittedBy[c]
              /\ \A i \in 1 .. Len(queue[c]) : worker[c].item.n < queue[c][i].n
        /\ \A f \in 1 .. Len(flags) : flags[f].conn = c =>
              /\ flags[f].n =< emittedBy[c]
              /\ \A i \in 1 .. Len(queue[c]) : flags[f].n < queue[c][i].n
              /\ worker[c].pc = "persist" => flags[f].n < worker[c].item.n

FlowInv == /\ FlowTypes
           /\ OwnershipInv
           /\ OrderInv
           /\ FlagsInEmissionOrder
           /\ FlagsLinkToOwnTelemetry

(* Nothing has been taken, queued or written at the start.                 *)
LEMMA FlowInit == PipelineInit => FlowInv
<1> SUFFICES ASSUME PipelineInit PROVE FlowInv
  OBVIOUS
<1>1. FlowTypes
  BY DEF PipelineInit, FlowTypes, Idle
<1>2. OwnershipInv
  BY DEF PipelineInit, OwnershipInv, Idle
<1>3. OrderInv
  BY DEF PipelineInit, OrderInv, Idle
<1>4. FlagsInEmissionOrder /\ FlagsLinkToOwnTelemetry
  BY DEF PipelineInit, FlagsInEmissionOrder, FlagsLinkToOwnTelemetry
<1> QED
  BY <1>1, <1>2, <1>3, <1>4 DEF FlowInv

(* A step that moves no decision keeps the invariant: at most, a worker    *)
(* lets go of the one in its hand.                                         *)
LEMMA StillStep ==
    ASSUME FlowInv,
           UNCHANGED <<batch, streak, queue, emittedBy, telemetry, flags, taken>>,
           DOMAIN worker' = Conns, DOMAIN dbScore' = Sessions,
           \A c \in Conns : worker'[c] = worker[c] \/ worker'[c].pc # "persist"
    PROVE  FlowInv'
<1>1. FlowTypes'
  BY DEF FlowInv, FlowTypes
<1>2. \A c, id : Owned(c, id)' <=> Owned(c, id)
  BY DEF Owned
<1>3. \A c, item : OwnsItem(c, item)' <=> OwnsItem(c, item)
  BY DEF OwnsItem, Owned
<1>4. OwnershipInv'
  BY <1>2, <1>3 DEF FlowInv, OwnershipInv
<1>5. OrderInv'
  BY DEF FlowInv, OrderInv
<1>6. FlagsInEmissionOrder' /\ FlagsLinkToOwnTelemetry'
  BY DEF FlowInv, FlagsInEmissionOrder, FlagsLinkToOwnTelemetry
<1> QED
  BY <1>1, <1>4, <1>5, <1>6 DEF FlowInv

(* Closing a connection throws away its batch and its queue.               *)
LEMMA StopStep ==
    ASSUME FlowInv, NEW c \in Conns, StopDispatcher(c)
    PROVE  FlowInv'
<1>0. /\ batch' = [batch EXCEPT ![c] = <<>>]
      /\ streak' = [streak EXCEPT ![c] = {}]
      /\ queue' = [queue EXCEPT ![c] = <<>>]
      /\ UNCHANGED <<emittedBy, telemetry, flags, taken, worker, dbScore>>
  BY DEF StopDispatcher, vars, dbVars, auxVars
<1>1. FlowTypes'
  BY <1>0 DEF FlowInv, FlowTypes
<1>2. \A d, id : Owned(d, id)' <=> Owned(d, id)
  BY <1>0 DEF Owned
<1>3. \A d, item : OwnsItem(d, item)' <=> OwnsItem(d, item)
  BY <1>0 DEF OwnsItem, Owned
<1>a. /\ batch'[c] = <<>> /\ streak'[c] = {} /\ queue'[c] = <<>>
      /\ \A d \in Conns : d # c => /\ batch'[d] = batch[d]
                                   /\ streak'[d] = streak[d]
                                   /\ queue'[d] = queue[d]
  BY <1>0 DEF FlowInv, FlowTypes
<1>4. OwnershipInv'
  <2>1. ASSUME NEW d \in Conns
        PROVE  /\ \A i \in 1 .. Len(batch'[d]) : Owned(d, batch[d][i].seq)'
               /\ \A id \in streak'[d] : Owned(d, id)'
               /\ \A i \in 1 .. Len(queue'[d]) : OwnsItem(d, queue[d][i])'
               /\ worker'[d].pc = "persist" => OwnsItem(d, worker[d].item)'
    BY <1>0, <1>2, <1>3, <1>a DEF FlowInv, OwnershipInv
  <2> QED
    BY <1>0, <1>2, <2>1 DEF FlowInv, OwnershipInv
<1>5. OrderInv'
  BY <1>0, <1>a DEF FlowInv, OrderInv
<1>6. FlagsInEmissionOrder' /\ FlagsLinkToOwnTelemetry'
  BY <1>0 DEF FlowInv, FlagsInEmissionOrder, FlagsLinkToOwnTelemetry
<1> QED
  BY <1>1, <1>4, <1>5, <1>6 DEF FlowInv

(* The elements of a concatenation.                                        *)
LEMMA ConcatElements ==
    ASSUME NEW T, NEW s \in Seq(T), NEW t \in Seq(T)
    PROVE  /\ s \o t \in Seq(T)
           /\ Len(s) \in Nat /\ Len(t) \in Nat
           /\ Len(s \o t) = Len(s) + Len(t)
           /\ \A i \in 1 .. Len(s) : (s \o t)[i] = s[i]
           /\ \A i \in 1 .. Len(t) : (s \o t)[Len(s) + i] = t[i]
  OBVIOUS

(* What a drain adds to what is owned: the deque, to the draining thread.  *)
LEMMA DrainOwns ==
    ASSUME TypeOK, NEW c \in Conns, Drain(c)
    PROVE  /\ \A d, id : Owned(d, id) => Owned(d, id)'
           /\ \A id : (\E i \in 1 .. Len(buf) : buf[i].seq = id) => Owned(c, id)'
<1>0. c \in Consumers /\ taken \in Seq(TakenEvent) /\ buf \in Seq(BufferedEvent)
  BY PipelineAssumption DEF TypeOK, TakenEvent
<1>1. /\ TakenBy(c) \in Seq(TakenEvent)
      /\ Len(TakenBy(c)) = Len(buf)
      /\ \A i \in 1 .. Len(buf) : TakenBy(c)[i].seq = buf[i].seq
  BY <1>0, TakenByProperties
<1>2. \A i \in 1 .. Len(buf) : TakenBy(c)[i].by = c
  BY DEF TakenBy
<1>3. taken' = taken \o TakenBy(c)
  BY DEF Drain
<1> HIDE DEF TakenBy
<1>4. /\ Len(taken') = Len(taken) + Len(buf)
      /\ \A i \in 1 .. Len(taken) : taken'[i] = taken[i]
      /\ \A i \in 1 .. Len(buf) : taken'[Len(taken) + i] = TakenBy(c)[i]
      /\ Len(taken) \in Nat /\ Len(buf) \in Nat
  <2>1. ASSUME NEW t \in Seq(TakenEvent)
        PROVE  /\ Len(taken) \in Nat /\ Len(t) \in Nat
               /\ Len(taken \o t) = Len(taken) + Len(t)
               /\ \A i \in 1 .. Len(taken) : (taken \o t)[i] = taken[i]
               /\ \A i \in 1 .. Len(t) : (taken \o t)[Len(taken) + i] = t[i]
    BY <1>0
  <2> QED
    BY <1>1, <1>3, <2>1
<1>5. \A d, id : Owned(d, id) => Owned(d, id)'
  BY <1>4 DEF Owned
<1>6. ASSUME NEW id, NEW i \in 1 .. Len(buf), buf[i].seq = id
      PROVE  Owned(c, id)'
  <2>1. Len(taken) + i \in 1 .. Len(taken')
    BY <1>4
  <2>2. taken'[Len(taken) + i].seq = id /\ taken'[Len(taken) + i].by = c
    BY <1>1, <1>2, <1>4, <1>6
  <2> QED
    BY <2>1, <2>2 DEF Owned
<1> QED
  BY <1>5, <1>6

(* The drained events become the batch of the thread that drained them.    *)
LEMMA DrainStep ==
    ASSUME FlowInv, TypeOK, NEW c \in Conns, DrainBatch(c)
    PROVE  FlowInv'
<1>0. /\ batch' = [batch EXCEPT ![c] = buf] /\ buf \in Seq(BufferedEvent)
      /\ Drain(c)
      /\ UNCHANGED <<streak, queue, emittedBy, telemetry, flags, worker, dbScore>>
  BY DEF DrainBatch, dbVars, auxVars, TypeOK
<1>1. FlowTypes'
  BY <1>0 DEF FlowInv, FlowTypes
<1>2. /\ \A d, id : Owned(d, id) => Owned(d, id)'
      /\ \A id : (\E i \in 1 .. Len(buf) : buf[i].seq = id) => Owned(c, id)'
  BY <1>0, DrainOwns
<1>3. \A d, item : OwnsItem(d, item) => OwnsItem(d, item)'
  BY <1>2 DEF OwnsItem
<1>4. OwnershipInv'
  <2>1. ASSUME NEW d \in Conns, NEW i \in 1 .. Len(batch'[d])
        PROVE  Owned(d, batch[d][i].seq)'
    <3>1. CASE d = c
      BY <1>0, <1>2, <3>1 DEF FlowInv, FlowTypes
    <3>2. CASE d # c
      BY <1>0, <1>2, <3>2 DEF FlowInv, FlowTypes, OwnershipInv
    <3> QED BY <3>1, <3>2
  <2>2. ASSUME NEW d \in Conns
        PROVE  /\ \A id \in streak'[d] : Owned(d, id)'
               /\ \A i \in 1 .. Len(queue'[d]) : OwnsItem(d, queue[d][i])'
               /\ worker'[d].pc = "persist" => OwnsItem(d, worker[d].item)'
    BY <1>0, <1>2, <1>3 DEF FlowInv, OwnershipInv
  <2>3. ASSUME NEW row \in telemetry'
        PROVE \E d \in Conns : Owned(d, row.id)' /\ row.session = SessionOf[d]
    BY <1>0, <1>2 DEF FlowInv, OwnershipInv
  <2> QED
    BY <2>1, <2>2, <2>3 DEF OwnershipInv
<1>5. OrderInv'
  BY <1>0 DEF FlowInv, OrderInv
<1>6. FlagsInEmissionOrder' /\ FlagsLinkToOwnTelemetry'
  BY <1>0 DEF FlowInv, FlagsInEmissionOrder, FlagsLinkToOwnTelemetry
<1> QED
  BY <1>1, <1>4, <1>5, <1>6 DEF FlowInv

(* What the aggregator answers to an event names only frames it was given  *)
(* by its own dispatcher.                                                  *)
LEMMA DecisionsProperties ==
    ASSUME NEW c \in Conns, NEW e \in BufferedEvent, streak[c] \in SUBSET Nat
    PROVE  /\ Decisions(c, e) \in Seq(DecisionRec)
           /\ \A i \in 1 .. Len(Decisions(c, e)) :
                 Decisions(c, e)[i].ids \subseteq streak[c] \cup {e.seq}
<1>1. e.seq \in Nat
  BY DEF BufferedEvent
<1>2. /\ Decision("second_person", TRUE, streak[c] \cup {e.seq}, 0) \in DecisionRec
      /\ Decision("browser_event", FALSE, {e.seq}, 1) \in DecisionRec
      /\ Decision("accumulated_score", TRUE, {e.seq}, 0) \in DecisionRec
  BY <1>1 DEF Decision, DecisionRec, PipelineRules
<1>3. /\ Decision("second_person", TRUE, streak[c] \cup {e.seq}, 0).ids
             = streak[c] \cup {e.seq}
      /\ Decision("browser_event", FALSE, {e.seq}, 1).ids = {e.seq}
      /\ Decision("accumulated_score", TRUE, {e.seq}, 0).ids = {e.seq}
  BY DEF Decision
<1> HIDE DEF Decision
<1>4. ASSUME NEW d, d = SecondPersonDecisions(c, e.seq)
      PROVE  /\ d \in Seq(DecisionRec)
             /\ \A i \in 1 .. Len(d) : d[i].ids \subseteq streak[c] \cup {e.seq}
  <2> DEFINE d1 == Decision("second_person", TRUE, streak[c] \cup {e.seq}, 0)
  <2>1. d = <<>> \/ d = <<d1>>
    BY <1>4 DEF SecondPersonDecisions
  <2>2. d1 \in DecisionRec /\ d1.ids \subseteq streak[c] \cup {e.seq}
    BY <1>2, <1>3
  <2> HIDE DEF d1
  <2>3. CASE d = <<>>
    BY <2>3
  <2>4. CASE d = <<d1>>
    <3>1. Len(d) = 1 /\ d[1] = d1 /\ d \in Seq(DecisionRec)
      BY <2>2, <2>4
    <3> QED BY <2>2, <3>1
  <2> QED
    BY <2>1, <2>3, <2>4
<1>5. ASSUME NEW d, d = BlurDecisions(c, e.seq)
      PROVE  /\ d \in Seq(DecisionRec)
             /\ \A i \in 1 .. Len(d) : d[i].ids \subseteq streak[c] \cup {e.seq}
  <2> DEFINE d1 == Decision("browser_event", FALSE, {e.seq}, 1)
             d2 == Decision("accumulated_score", TRUE, {e.seq}, 0)
  <2>1. d = <<d1>> \o <<d2>> \/ d = <<d1>> \o <<>>
    BY <1>5 DEF BlurDecisions
  <2>2. /\ d1 \in DecisionRec /\ d1.ids \subseteq streak[c] \cup {e.seq}
        /\ d2 \in DecisionRec /\ d2.ids \subseteq streak[c] \cup {e.seq}
    BY <1>2, <1>3
  <2> HIDE DEF d1, d2
  <2>3. CASE d = <<d1>> \o <<>>
    <3>1. d = <<d1>>
      BY <2>3
    <3> QED BY <2>2, <3>1
  <2>4. CASE d = <<d1>> \o <<d2>>
    <3>1. <<d1>> \in Seq(DecisionRec) /\ <<d2>> \in Seq(DecisionRec)
      BY <2>2
    <3>2. Len(d) = 2 /\ d[1] = d1 /\ d[2] = d2 /\ d \in Seq(DecisionRec)
      BY <2>4, <3>1
    <3> QED BY <2>2, <3>2
  <2> QED
    BY <2>1, <2>3, <2>4
<1>6. \/ Decisions(c, e) = SecondPersonDecisions(c, e.seq)
      \/ Decisions(c, e) = BlurDecisions(c, e.seq)
      \/ Decisions(c, e) = <<>>
  BY Zenon DEF Decisions
<1>7. CASE Decisions(c, e) = <<>>
  BY <1>7
<1> HIDE DEF Decisions
<1> QED
  BY <1>4, <1>5, <1>6, <1>7

(* The decisions get consecutive numbers, and each keeps a part of its ids *)
(* as the events it carries.                                               *)
LEMMA PersistedFlagsProperties ==
    ASSUME NEW c \in Conns, emittedBy[c] \in Nat,
           NEW ds \in Seq(DecisionRec), NEW held
    PROVE  /\ PersistedFlags(c, ds, held) \in Seq(Item)
           /\ Len(PersistedFlags(c, ds, held)) = Len(ds)
           /\ \A i \in 1 .. Len(ds) :
                 /\ PersistedFlags(c, ds, held)[i].n = emittedBy[c] + i
                 /\ PersistedFlags(c, ds, held)[i].decision = ds[i]
                 /\ PersistedFlags(c, ds, held)[i].events \subseteq ds[i].ids
<1>1. Len(ds) \in Nat /\ \A i \in 1 .. Len(ds) : ds[i] \in DecisionRec
  OBVIOUS
<1> DEFINE Earlier(i) == UNION {ds[j].ids : j \in 1 .. i - 1}
           F(i) == [decision |-> ds[i], n |-> emittedBy[c] + i,
                    events |-> (ds[i].ids \cap held) \ Earlier(i)]
<1>2. PersistedFlags(c, ds, held) = [i \in 1 .. Len(ds) |-> F(i)]
  BY DEF PersistedFlags
<1>3. ASSUME NEW i \in 1 .. Len(ds)
      PROVE  /\ F(i) \in Item
             /\ F(i).n = emittedBy[c] + i /\ F(i).decision = ds[i]
             /\ F(i).events \subseteq ds[i].ids
  <2>1. ds[i].ids \in SUBSET Nat /\ ds[i] \in DecisionRec
    BY <1>1 DEF DecisionRec
  <2>2. emittedBy[c] + i \in Nat
    OBVIOUS
  <2> HIDE DEF Earlier
  <2> QED
    BY <2>1, <2>2 DEF Item
<1> HIDE DEF F
<1>4. [i \in 1 .. Len(ds) |-> F(i)] \in Seq(Item)
      /\ Len([i \in 1 .. Len(ds) |-> F(i)]) = Len(ds)
  BY <1>1, <1>3
<1> QED
  BY <1>2, <1>3, <1>4

(* The fields of queued decisions.                                         *)
LEMMA ItemNumbers ==
    ASSUME NEW q \in Seq(Item)
    PROVE  \A i \in 1 .. Len(q) : q[i] \in Item /\ q[i].n \in Nat
<1>1. \A i \in 1 .. Len(q) : q[i] \in Item
  OBVIOUS
<1> QED
  BY <1>1 DEF Item

(* The fields of a flag row.                                               *)
LEMMA FlagFields ==
    ASSUME flags \in Seq(FlagRec)
    PROVE  /\ Len(flags) \in Nat
           /\ \A i \in 1 .. Len(flags) :
                 /\ flags[i].n \in Nat /\ flags[i].conn \in Conns
                 /\ flags[i].session \in Sessions
                 /\ flags[i].score_delta \in Nat
<1>1. Len(flags) \in Nat /\ \A i \in 1 .. Len(flags) : flags[i] \in FlagRec
  OBVIOUS
<1> QED
  BY <1>1 DEF FlagRec

(* Dispatching an event moves it from the batch to the aggregator and      *)
(* queues the decisions it led to behind the ones already waiting.         *)
LEMMA DispatchStep ==
    ASSUME FlowInv, NEW c \in Conns, Dispatch(c)
    PROVE  FlowInv'
<1> DEFINE e == Head(batch[c])
           ds == Decisions(c, e)
           held == cached[c] \cup {e.seq}
           items == PersistedFlags(c, ds, held)
<1>0. /\ batch' = [batch EXCEPT ![c] = Tail(@)]
      /\ queue' = [queue EXCEPT ![c] = @ \o items]
      /\ emittedBy' = [emittedBy EXCEPT ![c] = @ + Len(ds)]
      /\ UNCHANGED <<telemetry, flags, taken, worker, dbScore>>
  BY DEF Dispatch, Enqueue, vars, dbVars
<1>1. \E S \in SUBSET (streak[c] \cup {e.seq}) : streak' = [streak EXCEPT ![c] = S]
  <2>1. \/ StreakAfter(c, e) = streak[c] \cup {e.seq}
        \/ StreakAfter(c, e) = {}
        \/ StreakAfter(c, e) = streak[c]
    BY Zenon DEF StreakAfter
  <2>2. streak' = [streak EXCEPT ![c] = StreakAfter(c, e)]
    BY DEF Dispatch
  <2> HIDE DEF e
  <2>3. StreakAfter(c, e) \in SUBSET (streak[c] \cup {e.seq})
    BY <2>1
  <2> QED
    BY <2>2, <2>3
<1>2. /\ batch[c] \in Seq(BufferedEvent) /\ batch[c] # <<>>
      /\ streak[c] \in SUBSET Nat /\ queue[c] \in Seq(Item)
      /\ emittedBy[c] \in Nat
  BY DEF FlowInv, FlowTypes, Dispatch
<1>3. /\ e \in BufferedEvent /\ Owned(c, e.seq) /\ e.seq \in Nat
      /\ Tail(batch[c]) \in Seq(BufferedEvent)
      /\ \A i \in 1 .. Len(Tail(batch[c])) : Owned(c, Tail(batch[c])[i].seq)
  <2>1. /\ e = batch[c][1] /\ Len(batch[c]) \in Nat \ {0}
        /\ e \in BufferedEvent
        /\ Tail(batch[c]) \in Seq(BufferedEvent)
        /\ \A i \in 1 .. Len(Tail(batch[c])) :
              /\ Tail(batch[c])[i] = batch[c][i + 1]
              /\ i + 1 \in 1 .. Len(batch[c])
    BY <1>2
  <2>2. \A i \in 1 .. Len(batch[c]) : Owned(c, batch[c][i].seq)
    BY DEF FlowInv, OwnershipInv
  <2>3. e.seq \in Nat
    BY <2>1 DEF BufferedEvent
  <2> QED
    BY <2>1, <2>2, <2>3
<1>4. /\ ds \in Seq(DecisionRec) /\ Len(ds) \in Nat
      /\ \A i \in 1 .. Len(ds) : ds[i].ids \subseteq streak[c] \cup {e.seq}
  <2>1. e \in BufferedEvent
    BY <1>3
  <2> HIDE DEF e
  <2> QED
    BY <1>2, <2>1, DecisionsProperties
<1> HIDE DEF e, ds
<1>5. /\ items \in Seq(Item)
      /\ Len(items) = Len(ds)
      /\ \A i \in 1 .. Len(ds) :
            /\ items[i].n = emittedBy[c] + i
            /\ items[i].decision = ds[i]
            /\ items[i].events \subseteq ds[i].ids
  BY <1>2, <1>4, PersistedFlagsProperties
<1> HIDE DEF items
<1>6. /\ queue'[c] \in Seq(Item) /\ Len(queue[c]) \in Nat
      /\ Len(queue'[c]) = Len(queue[c]) + Len(ds)
      /\ \A i \in 1 .. Len(queue[c]) : queue'[c][i] = queue[c][i]
      /\ \A i \in 1 .. Len(ds) : queue'[c][Len(queue[c]) + i] = items[i]
      /\ \A d \in Conns : d # c => queue'[d] = queue[d]
  <2>1. queue'[c] = queue[c] \o items
    BY <1>0 DEF FlowInv, FlowTypes
  <2>2. \A d \in Conns : d # c => queue'[d] = queue[d]
    BY <1>0 DEF FlowInv, FlowTypes
  <2>3. ASSUME NEW t \in Seq(Item)
        PROVE  /\ queue[c] \o t \in Seq(Item)
               /\ Len(queue[c]) \in Nat /\ Len(t) \in Nat
               /\ Len(queue[c] \o t) = Len(queue[c]) + Len(t)
               /\ \A i \in 1 .. Len(queue[c]) : (queue[c] \o t)[i] = queue[c][i]
               /\ \A i \in 1 .. Len(t) : (queue[c] \o t)[Len(queue[c]) + i] = t[i]
    BY <1>2
  <2>4. items \in Seq(Item) /\ Len(items) = Len(ds)
    BY <1>5
  <2>5. /\ queue[c] \o items \in Seq(Item) /\ Len(queue[c]) \in Nat
        /\ Len(queue[c] \o items) = Len(queue[c]) + Len(items)
        /\ \A i \in 1 .. Len(queue[c]) : (queue[c] \o items)[i] = queue[c][i]
        /\ \A i \in 1 .. Len(items) :
              (queue[c] \o items)[Len(queue[c]) + i] = items[i]
    BY <2>3, <2>4, Zenon
  <2> QED
    BY <2>1, <2>2, <2>4, <2>5, Zenon
<1>7. /\ emittedBy'[c] = emittedBy[c] + Len(ds)
      /\ batch'[c] = Tail(batch[c])
      /\ streak'[c] \in SUBSET (streak[c] \cup {e.seq})
      /\ \A d \in Conns : d # c => /\ emittedBy'[d] = emittedBy[d]
                                   /\ batch'[d] = batch[d]
                                   /\ streak'[d] = streak[d]
  BY <1>0, <1>1 DEF FlowInv, FlowTypes
<1>8. FlowTypes'
  <2>1. queue' \in [Conns -> Seq(Item)]
    <3>1. DOMAIN queue' = Conns /\ queue' = [d \in Conns |-> queue'[d]]
      BY <1>0 DEF FlowInv, FlowTypes
    <3> QED
      BY <1>6, <3>1 DEF FlowInv, FlowTypes
  <2>2. batch' \in [Conns -> Seq(BufferedEvent)] /\ emittedBy' \in [Conns -> Nat]
    BY <1>0, <1>2, <1>3, <1>4 DEF FlowInv, FlowTypes
  <2>3. streak' \in [Conns -> SUBSET Nat]
    BY <1>1, <1>2, <1>3 DEF FlowInv, FlowTypes
  <2> QED
    BY <1>0, <2>1, <2>2, <2>3 DEF FlowInv, FlowTypes
<1>9. /\ \A d, id : Owned(d, id)' <=> Owned(d, id)
      /\ \A d, item : OwnsItem(d, item)' <=> OwnsItem(d, item)
  BY <1>0 DEF Owned, OwnsItem
<1>10. \A id \in streak[c] \cup {e.seq} : Owned(c, id)
  BY <1>3 DEF FlowInv, OwnershipInv
<1>11. \A i \in 1 .. Len(ds) : OwnsItem(c, items[i])
  BY <1>4, <1>5, <1>10 DEF OwnsItem
<1>12. OwnershipInv'
  <2>1. ASSUME NEW d \in Conns
        PROVE  /\ \A i \in 1 .. Len(batch'[d]) : Owned(d, batch[d][i].seq)'
               /\ \A id \in streak'[d] : Owned(d, id)'
               /\ \A i \in 1 .. Len(queue'[d]) : OwnsItem(d, queue[d][i])'
               /\ worker'[d].pc = "persist" => OwnsItem(d, worker[d].item)'
    <3>1. worker'[d].pc = "persist" => OwnsItem(d, worker[d].item)'
      BY <1>0, <1>9 DEF FlowInv, OwnershipInv
    <3>2. CASE d = c
      <4>1. ASSUME NEW i \in 1 .. Len(queue'[c]) PROVE OwnsItem(c, queue'[c][i])
        <5>1. CASE i \in 1 .. Len(queue[c])
          BY <1>6, <5>1 DEF FlowInv, OwnershipInv
        <5>2. CASE i \notin 1 .. Len(queue[c])
          <6>1. i - Len(queue[c]) \in 1 .. Len(ds)
            BY <1>4, <1>6, <5>2
          <6>2. queue'[c][Len(queue[c]) + (i - Len(queue[c]))] = items[i - Len(queue[c])]
            BY <1>6, <6>1
          <6>3. Len(queue[c]) + (i - Len(queue[c])) = i
            BY <1>6
          <6> QED
            BY <1>11, <6>1, <6>2, <6>3
        <5> QED BY <5>1, <5>2
      <4> QED
        BY <1>3, <1>7, <1>9, <1>10, <3>1, <3>2, <4>1
    <3>3. CASE d # c
      BY <1>6, <1>7, <1>9, <3>1, <3>3 DEF FlowInv, OwnershipInv
    <3> QED BY <3>2, <3>3
  <2> QED
    BY <1>0, <1>9, <2>1 DEF FlowInv, OwnershipInv
<1>13. OrderInv'
  <2>1. ASSUME NEW d \in Conns, d # c
        PROVE  /\ queue'[d] = queue[d] /\ emittedBy'[d] = emittedBy[d]
               /\ worker'[d] = worker[d]
    BY <1>0, <1>6, <1>7, <2>1
  <2>2. ASSUME NEW i \in 1 .. Len(queue'[c]), i \notin 1 .. Len(queue[c])
        PROVE  queue'[c][i].n = emittedBy[c] + (i - Len(queue[c]))
               /\ i - Len(queue[c]) \in 1 .. Len(ds)
    <3>1. i - Len(queue[c]) \in 1 .. Len(ds)
      BY <1>4, <1>6, <2>2
    <3>2. queue'[c][Len(queue[c]) + (i - Len(queue[c]))] = items[i - Len(queue[c])]
      BY <1>6, <3>1
    <3>3. Len(queue[c]) + (i - Len(queue[c])) = i
      BY <1>6
    <3> QED
      BY <1>5, <3>1, <3>2, <3>3
  <2>3. \A i \in 1 .. Len(queue[c]) : queue[c][i].n \in Nat
    BY <1>2, ItemNumbers
  <2>4. worker[c].pc = "persist" => worker[c].item.n \in Nat
    BY DEF FlowInv, FlowTypes, Item
  <2>5. \A f \in 1 .. Len(flags) : flags[f].n \in Nat
    BY FlagFields DEF FlowInv, FlowTypes
  <2>6. /\ \A i, j \in 1 .. Len(queue[c]) : i < j => queue[c][i].n < queue[c][j].n
        /\ \A i \in 1 .. Len(queue[c]) : queue[c][i].n =< emittedBy[c]
        /\ worker[c].pc = "persist" =>
              /\ worker[c].item.n =< emittedBy[c]
              /\ \A i \in 1 .. Len(queue[c]) : worker[c].item.n < queue[c][i].n
        /\ \A f \in 1 .. Len(flags) : flags[f].conn = c =>
              /\ flags[f].n =< emittedBy[c]
              /\ \A i \in 1 .. Len(queue[c]) : flags[f].n < queue[c][i].n
              /\ worker[c].pc = "persist" => flags[f].n < worker[c].item.n
    BY DEF FlowInv, OrderInv
  <2>7. ASSUME NEW i \in 1 .. Len(queue'[c]), NEW j \in 1 .. Len(queue'[c]), i < j
        PROVE  queue'[c][i].n < queue'[c][j].n
    <3>1. CASE j \in 1 .. Len(queue[c])
      <4>1. i \in 1 .. Len(queue[c])
        BY <1>6, <2>7, <3>1
      <4>2. queue'[c][i] = queue[c][i] /\ queue'[c][j] = queue[c][j]
        BY <1>6, <3>1, <4>1
      <4> QED BY <2>6, <2>7, <3>1, <4>1, <4>2
    <3>2. CASE i \in 1 .. Len(queue[c]) /\ j \notin 1 .. Len(queue[c])
      <4>1. queue'[c][j].n > emittedBy[c]
        BY <1>2, <2>2, <3>2
      <4>2. queue'[c][i].n =< emittedBy[c] /\ queue'[c][i].n \in Nat
        BY <1>6, <2>3, <2>6, <3>2
      <4> QED BY <1>2, <2>2, <3>2, <4>1, <4>2, SMTT(40)
    <3>3. CASE i \notin 1 .. Len(queue[c]) /\ j \notin 1 .. Len(queue[c])
      <4>1. /\ queue'[c][i].n = emittedBy[c] + (i - Len(queue[c]))
            /\ queue'[c][j].n = emittedBy[c] + (j - Len(queue[c]))
        BY <2>2, <3>3
      <4> QED BY <1>2, <1>6, <2>7, <4>1
    <3> QED BY <1>6, <2>7, <3>1, <3>2, <3>3
  <2>8. ASSUME NEW i \in 1 .. Len(queue'[c])
        PROVE  queue'[c][i].n =< emittedBy'[c]
    <3>1. CASE i \in 1 .. Len(queue[c])
      <4>1. /\ queue'[c][i] = queue[c][i] /\ queue[c][i].n \in Nat
            /\ queue[c][i].n =< emittedBy[c]
        BY <1>6, <2>3, <2>6, <3>1
      <4> QED BY <1>2, <1>4, <1>7, <4>1
    <3>2. CASE i \notin 1 .. Len(queue[c])
      <4>1. /\ queue'[c][i].n = emittedBy[c] + (i - Len(queue[c]))
            /\ i - Len(queue[c]) \in 1 .. Len(ds)
        BY <2>2, <3>2
      <4> QED BY <1>2, <1>4, <1>6, <1>7, <4>1
    <3> QED BY <3>1, <3>2
  <2>9. worker'[c].pc = "persist" =>
              /\ worker'[c].item.n =< emittedBy'[c]
              /\ \A i \in 1 .. Len(queue'[c]) : worker'[c].item.n < queue'[c][i].n
    BY <1>0, <1>2, <1>4, <1>6, <1>7, <2>2, <2>3, <2>4, <2>6, SMTT(40)
  <2>10. \A f \in 1 .. Len(flags) : flags[f].conn = c =>
              /\ flags[f].n =< emittedBy'[c]
              /\ \A i \in 1 .. Len(queue'[c]) : flags[f].n < queue'[c][i].n
              /\ worker'[c].pc = "persist" => flags[f].n < worker'[c].item.n
    BY <1>0, <1>2, <1>4, <1>6, <1>7, <2>2, <2>3, <2>5, <2>6, SMTT(40)
  <2>11. flags' = flags
    BY <1>0
  <2> QED
    BY <2>1, <2>7, <2>8, <2>9, <2>10, <2>11, SMTT(40) DEF FlowInv, OrderInv
<1>14. FlagsInEmissionOrder' /\ FlagsLinkToOwnTelemetry'
  BY <1>0 DEF FlowInv, FlagsInEmissionOrder, FlagsLinkToOwnTelemetry
<1> QED
  BY <1>8, <1>12, <1>13, <1>14 DEF FlowInv

(* The worker takes the oldest decision of its queue.                      *)
LEMMA BeginStep ==
    ASSUME FlowInv, NEW c \in Conns, PersistBegin(c)
    PROVE  FlowInv'
<1>0. /\ queue' = [queue EXCEPT ![c] = Tail(@)]
      /\ worker' = [worker EXCEPT ![c] = [pc |-> "persist",
                                          item |-> Head(queue[c]),
                                          read |-> dbScore[SessionOf[c]]]]
      /\ UNCHANGED <<batch, streak, emittedBy, telemetry, flags, taken, dbScore>>
      /\ queue[c] # <<>>
  BY DEF PersistBegin, vars, dbVars, auxVars
<1>1. /\ queue[c] \in Seq(Item) /\ queue \in [Conns -> Seq(Item)]
      /\ DOMAIN worker = Conns
  BY DEF FlowInv, FlowTypes
<1>2. /\ Len(queue[c]) \in Nat /\ Tail(queue[c]) \in Seq(Item)
      /\ 1 \in 1 .. Len(queue[c]) /\ Head(queue[c]) = queue[c][1]
      /\ \A i \in 1 .. Len(Tail(queue[c])) :
            /\ Tail(queue[c])[i] = queue[c][i + 1]
            /\ i + 1 \in 1 .. Len(queue[c])
  BY <1>0, <1>1
<1>3. /\ queue'[c] = Tail(queue[c]) /\ worker'[c].pc = "persist"
      /\ worker'[c].item = queue[c][1] /\ DOMAIN worker' = Conns
      /\ queue' \in [Conns -> Seq(Item)]
      /\ \A d \in Conns : d # c => queue'[d] = queue[d] /\ worker'[d] = worker[d]
  BY <1>0, <1>1, <1>2
<1>4. \A i \in 1 .. Len(queue[c]) : queue[c][i] \in Item /\ queue[c][i].n \in Nat
  BY <1>1, ItemNumbers
<1>5. FlowTypes'
  BY <1>0, <1>2, <1>3, <1>4 DEF FlowInv, FlowTypes
<1>6. /\ \A d, id : Owned(d, id)' <=> Owned(d, id)
      /\ \A d, item : OwnsItem(d, item)' <=> OwnsItem(d, item)
  BY <1>0 DEF Owned, OwnsItem
<1>7. OwnershipInv'
  <2>1. ASSUME NEW d \in Conns
        PROVE  /\ \A i \in 1 .. Len(batch'[d]) : Owned(d, batch[d][i].seq)'
               /\ \A id \in streak'[d] : Owned(d, id)'
    BY <1>0, <1>6 DEF FlowInv, OwnershipInv
  <2>2. ASSUME NEW d \in Conns
        PROVE  /\ \A i \in 1 .. Len(queue'[d]) : OwnsItem(d, queue[d][i])'
               /\ worker'[d].pc = "persist" => OwnsItem(d, worker[d].item)'
    <3>1. CASE d = c
      <4>1. \A i \in 1 .. Len(queue[c]) : OwnsItem(c, queue[c][i])
        BY DEF FlowInv, OwnershipInv
      <4>2. ASSUME NEW i \in 1 .. Len(queue'[c]) PROVE OwnsItem(c, queue'[c][i])
        BY <1>2, <1>3, <4>1
      <4>3. OwnsItem(c, worker'[c].item)
        BY <1>2, <1>3, <4>1
      <4> QED
        BY <1>6, <3>1, <4>2, <4>3
    <3>2. CASE d # c
      BY <1>3, <1>6, <3>2 DEF FlowInv, OwnershipInv
    <3> QED BY <3>1, <3>2
  <2> QED
    BY <1>0, <1>6, <2>1, <2>2 DEF FlowInv, OwnershipInv
<1>8. OrderInv'
  <2>1. /\ \A i, j \in 1 .. Len(queue[c]) : i < j => queue[c][i].n < queue[c][j].n
        /\ \A i \in 1 .. Len(queue[c]) : queue[c][i].n =< emittedBy[c]
        /\ \A f \in 1 .. Len(flags) : flags[f].conn = c =>
              /\ flags[f].n =< emittedBy[c]
              /\ \A i \in 1 .. Len(queue[c]) : flags[f].n < queue[c][i].n
    BY DEF FlowInv, OrderInv
  <2>2. ASSUME NEW i \in 1 .. Len(queue'[c]), NEW j \in 1 .. Len(queue'[c]), i < j
        PROVE  queue'[c][i].n < queue'[c][j].n
    <3>1. /\ queue'[c][i] = queue[c][i + 1] /\ i + 1 \in 1 .. Len(queue[c])
          /\ queue'[c][j] = queue[c][j + 1] /\ j + 1 \in 1 .. Len(queue[c])
      BY <1>2, <1>3
    <3>2. i + 1 < j + 1
      BY <1>2, <1>3, <2>2
    <3> QED BY <2>1, <3>1, <3>2
  <2>3. \A i \in 1 .. Len(queue'[c]) : queue'[c][i].n =< emittedBy'[c]
    BY <1>0, <1>2, <1>3, <2>1
  <2>4. /\ worker'[c].item.n =< emittedBy'[c]
        /\ \A i \in 1 .. Len(queue'[c]) : worker'[c].item.n < queue'[c][i].n
    BY <1>0, <1>2, <1>3, <2>1
  <2>5. \A f \in 1 .. Len(flags') : flags'[f].conn = c =>
              /\ flags'[f].n =< emittedBy'[c]
              /\ \A i \in 1 .. Len(queue'[c]) : flags'[f].n < queue'[c][i].n
              /\ flags'[f].n < worker'[c].item.n
    BY <1>0, <1>2, <1>3, <2>1
  <2>6. \A d \in Conns : d # c =>
           queue'[d] = queue[d] /\ worker'[d] = worker[d] /\ emittedBy'[d] = emittedBy[d]
    BY <1>0, <1>3
  <2>7. flags' = flags
    BY <1>0
  <2> QED
    BY <2>2, <2>3, <2>4, <2>5, <2>6, <2>7, SMTT(40) DEF FlowInv, OrderInv
<1>9. FlagsInEmissionOrder' /\ FlagsLinkToOwnTelemetry'
  BY <1>0 DEF FlowInv, FlagsInEmissionOrder, FlagsLinkToOwnTelemetry
<1> QED
  BY <1>5, <1>7, <1>8, <1>9 DEF FlowInv

(* No event is handed to two dispatchers.                                  *)
LEMMA OneOwner ==
    ASSUME TypeOK, FifoAcrossConsumers, NEW c, NEW d, NEW id,
           Owned(c, id), Owned(d, id)
    PROVE  c = d
<1>1. PICK i \in 1 .. Len(taken) : taken[i].seq = id /\ taken[i].by = c
  BY DEF Owned
<1>2. PICK j \in 1 .. Len(taken) : taken[j].seq = id /\ taken[j].by = d
  BY DEF Owned
<1>3. taken \in Seq(TakenEvent)
  BY DEF TypeOK, TakenEvent
<1>4. \A k \in 1 .. Len(taken) : taken[k] \in TakenEvent
  BY <1>3
<1>5. id \in Nat
  BY <1>1, <1>4 DEF TakenEvent
<1>6. i = j
  BY <1>1, <1>2, <1>5 DEF FifoAcrossConsumers
<1> QED
  BY <1>1, <1>2, <1>6

(* A commit appends the decision in the worker's hand to the flags, with   *)
(* the telemetry rows it carries.                                          *)
LEMMA PersistCommitStep ==
    ASSUME FlowInv, TypeOK, FifoAcrossConsumers, NEW c \in Conns, PersistCommit(c)
    PROVE  FlowInv'
<1> DEFINE item == worker[c].item
           N == Len(flags)
<1>0. /\ worker[c].pc = "persist"
      /\ item.decision.ids \subseteq RowIds \cup item.events
      /\ telemetry' = telemetry \cup TelemetryRows(c, item.events)
      /\ flags' = Append(flags, FlagRow(c))
      /\ UNCHANGED <<batch, streak, queue, emittedBy, taken>>
  BY DEF PersistCommit, LinksResolve, vars, auxVars
<1>1. /\ item \in Item /\ DOMAIN worker = Conns /\ DOMAIN dbScore = Sessions
      /\ flags \in Seq(FlagRec)
  BY <1>0 DEF FlowInv, FlowTypes
<1>2. /\ item.n \in Nat /\ item.decision \in DecisionRec /\ item.events \in SUBSET Nat
      /\ SessionOf[c] \in Sessions
  BY <1>1, PipelineAssumption DEF Item
<1>3. /\ DOMAIN worker' = Conns /\ worker'[c].pc # "persist"
      /\ \A d \in Conns : d # c => worker'[d] = worker[d]
      /\ DOMAIN dbScore' = Sessions
  <2>1. /\ worker' = [worker EXCEPT ![c] =
                         IF worker[c].item.decision.triggered_termination
                         THEN [pc |-> "kill_read", flag |-> Len(flags) + 1]
                         ELSE Rest(c)]
        /\ dbScore' = [dbScore EXCEPT ![SessionOf[c]] =
                      IF worker[c].item.decision.score_delta > 0
                      THEN NewScore(c) ELSE @]
    BY DEF PersistCommit
  <2>2. Rest(c).pc # "persist"
    BY DEF Rest, Idle, Stopped
  <2> QED BY <1>1, <2>1, <2>2
<1>4. /\ FlagRow(c) \in FlagRec
      /\ FlagRow(c).session = SessionOf[c] /\ FlagRow(c).conn = c
      /\ FlagRow(c).n = item.n /\ FlagRow(c).ids = item.decision.ids
  BY <1>2 DEF FlagRow, FlagRec, DecisionRec
<1>5. /\ flags' \in Seq(FlagRec) /\ N \in Nat /\ Len(flags') = N + 1
      /\ \A i \in 1 .. N : flags'[i] = flags[i]
      /\ flags'[N + 1] = FlagRow(c)
  <2>1. ASSUME NEW row \in FlagRec
        PROVE  /\ Append(flags, row) \in Seq(FlagRec) /\ N \in Nat
               /\ Len(Append(flags, row)) = N + 1
               /\ \A i \in 1 .. N : Append(flags, row)[i] = flags[i]
               /\ Append(flags, row)[N + 1] = row
    BY <1>1
  <2> QED BY <1>0, <1>4, <2>1, Zenon
<1> HIDE DEF N, item
<1>6. FlowTypes'
  BY <1>0, <1>3, <1>5 DEF FlowInv, FlowTypes
<1>7. /\ \A d, id : Owned(d, id)' <=> Owned(d, id)
      /\ \A d, x : OwnsItem(d, x)' <=> OwnsItem(d, x)
  BY <1>0 DEF Owned, OwnsItem
<1>8. OwnsItem(c, item)
  BY <1>0 DEF FlowInv, OwnershipInv, item
<1>9. \A row \in TelemetryRows(c, item.events) :
         row.id \in item.events /\ row.session = SessionOf[c]
  BY DEF TelemetryRows
<1>10. OwnershipInv'
  <2>1. ASSUME NEW d \in Conns
        PROVE  /\ \A i \in 1 .. Len(batch'[d]) : Owned(d, batch[d][i].seq)'
               /\ \A id \in streak'[d] : Owned(d, id)'
               /\ \A i \in 1 .. Len(queue'[d]) : OwnsItem(d, queue[d][i])'
               /\ worker'[d].pc = "persist" => OwnsItem(d, worker[d].item)'
    BY <1>0, <1>3, <1>7 DEF FlowInv, OwnershipInv
  <2>2. ASSUME NEW row \in telemetry'
        PROVE  \E d \in Conns : Owned(d, row.id)' /\ row.session = SessionOf[d]
    <3>1. CASE row \in telemetry
      BY <1>7, <3>1 DEF FlowInv, OwnershipInv
    <3>2. CASE row \in TelemetryRows(c, item.events)
      BY <1>7, <1>8, <1>9, <3>2 DEF OwnsItem
    <3> QED BY <1>0, <2>2, <3>1, <3>2
  <2> QED
    BY <2>1, <2>2 DEF OwnershipInv
<1>11. \A f \in 1 .. N : flags[f].n \in Nat
  BY <1>1, FlagFields DEF N
<1>12. OrderInv'
  <2>1. ASSUME NEW d \in Conns, NEW f \in 1 .. Len(flags'), flags'[f].conn = d
        PROVE  /\ flags'[f].n =< emittedBy'[d]
               /\ \A i \in 1 .. Len(queue'[d]) : flags'[f].n < queue'[d][i].n
               /\ worker'[d].pc = "persist" => flags'[f].n < worker'[d].item.n
    <3>1. CASE f \in 1 .. N
      <4>1. flags'[f] = flags[f] /\ f \in 1 .. Len(flags)
        BY <1>5, <3>1 DEF N
      <4> QED
        BY <1>0, <1>3, <2>1, <4>1 DEF FlowInv, OrderInv
    <3>2. CASE f = N + 1
      <4>1. flags'[f].n = item.n /\ d = c
        BY <1>4, <1>5, <2>1, <3>2
      <4>2. /\ item.n =< emittedBy[c]
            /\ \A i \in 1 .. Len(queue[c]) : item.n < queue[c][i].n
        BY <1>0 DEF FlowInv, OrderInv, item
      <4> QED
        BY <1>0, <1>3, <4>1, <4>2
    <3> QED BY <1>5, <3>1, <3>2
  <2>2. ASSUME NEW d \in Conns
        PROVE  /\ \A i, j \in 1 .. Len(queue'[d]) : i < j => queue'[d][i].n < queue'[d][j].n
               /\ \A i \in 1 .. Len(queue'[d]) : queue'[d][i].n =< emittedBy'[d]
               /\ worker'[d].pc = "persist" =>
                    /\ worker'[d].item.n =< emittedBy'[d]
                    /\ \A i \in 1 .. Len(queue'[d]) : worker'[d].item.n < queue'[d][i].n
    BY <1>0, <1>3 DEF FlowInv, OrderInv
  <2> QED
    BY <2>1, <2>2 DEF OrderInv
<1>13. FlagsInEmissionOrder'
  <2>1. ASSUME NEW i \in 1 .. N + 1, NEW j \in 1 .. N + 1, i < j,
               flags'[i].conn = flags'[j].conn
        PROVE  flags'[i].n < flags'[j].n
    <3>1. i \in 1 .. N /\ flags'[i] = flags[i] /\ i \in 1 .. Len(flags)
      BY <1>5, <2>1 DEF N
    <3>2. CASE j \in 1 .. N
      <4>1. flags'[j] = flags[j] /\ j \in 1 .. Len(flags)
        BY <1>5, <3>2 DEF N
      <4> QED
        BY <2>1, <3>1, <4>1 DEF FlowInv, FlagsInEmissionOrder
    <3>3. CASE j = N + 1
      <4>1. flags'[j].n = item.n /\ flags[i].conn = c
        BY <1>4, <1>5, <2>1, <3>1, <3>3
      <4>2. flags[i].n < item.n
        BY <1>0, <3>1, <4>1 DEF FlowInv, OrderInv, item
      <4> QED
        BY <3>1, <4>1, <4>2
    <3> QED BY <1>5, <3>2, <3>3
  <2> QED
    BY <1>5, <2>1 DEF FlagsInEmissionOrder
<1>14. FlagsLinkToOwnTelemetry'
  <2>1. ASSUME NEW i \in 1 .. N + 1, NEW id \in flags'[i].ids
        PROVE  \E row \in telemetry' : row.id = id /\ row.session = flags'[i].session
    <3>1. CASE i \in 1 .. N
      <4>1. flags'[i] = flags[i] /\ i \in 1 .. Len(flags)
        BY <1>5, <3>1 DEF N
      <4> QED
        BY <1>0, <2>1, <4>1 DEF FlowInv, FlagsLinkToOwnTelemetry
    <3>2. CASE i = N + 1
      <4>1. flags'[i].session = SessionOf[c] /\ id \in item.decision.ids
        BY <1>4, <1>5, <2>1, <3>2
      <4>2. CASE id \in item.events
        <5> DEFINE row == [id |-> id, session |-> SessionOf[c],
                           from |-> pushed[id + 1].session]
        <5>1. row \in telemetry' /\ row.id = id /\ row.session = SessionOf[c]
          BY <1>0, <4>2 DEF TelemetryRows
        <5> QED BY <4>1, <5>1
      <4>3. CASE id \in RowIds
        <5>1. PICK row \in telemetry : row.id = id
          BY <4>3 DEF RowIds
        <5>2. PICK d \in Conns : Owned(d, id) /\ row.session = SessionOf[d]
          BY <5>1 DEF FlowInv, OwnershipInv
        <5>3. Owned(c, id)
          BY <1>8, <4>1 DEF OwnsItem
        <5>4. c = d
          BY <5>2, <5>3, OneOwner
        <5> QED BY <1>0, <4>1, <5>1, <5>2, <5>4
      <4> QED
        BY <1>0, <4>1, <4>2, <4>3 DEF item
    <3> QED BY <1>5, <3>1, <3>2
  <2> QED
    BY <1>5, <2>1 DEF FlagsLinkToOwnTelemetry
<1> QED
  BY <1>6, <1>10, <1>12, <1>13, <1>14 DEF FlowInv

(* Every step of the pipeline keeps the flow invariant.                    *)
LEMMA FlowStep ==
    ASSUME FlowInv, TypeOK, FifoAcrossConsumers, [PipelineNext]_pipelineVars
    PROVE  FlowInv'
<1>0. DOMAIN worker = Conns /\ DOMAIN dbScore = Sessions
  BY DEF FlowInv, FlowTypes
<1>1. CASE UNCHANGED pipelineVars
  BY <1>0, <1>1, StillStep DEF pipelineVars, vars, threadVars, dbVars, auxVars
<1>2. ASSUME NEW c \in Conns, Connect(c) \/ Disconnect(c) PROVE FlowInv'
  BY <1>0, <1>2, StillStep DEF Connect, Disconnect, vars, dbVars, auxVars
<1>3. ASSUME NEW c \in Conns, NEW kind \in Kinds, Receive(c, kind) PROVE FlowInv'
  BY <1>0, <1>3, StillStep DEF Receive, Push, threadVars, dbVars, auxVars
<1>4. ASSUME NEW c \in Conns, StopDispatcher(c) PROVE FlowInv'
  BY <1>4, StopStep
<1>5. ASSUME NEW c \in Conns, DrainBatch(c) PROVE FlowInv'
  BY <1>5, DrainStep
<1>6. ASSUME NEW c \in Conns, Dispatch(c) PROVE FlowInv'
  BY <1>6, DispatchStep
<1>7. ASSUME NEW c \in Conns, PersistBegin(c) PROVE FlowInv'
  BY <1>7, BeginStep
<1>8. ASSUME NEW c \in Conns, PersistCommit(c) PROVE FlowInv'
  BY <1>8, PersistCommitStep
<1>9. ASSUME NEW c \in Conns,
             \/ WorkerExit(c) \/ PersistRejected(c) \/ PersistFault(c)
             \/ KillRead(c) \/ KillInsert(c) \/ KillUpdate(c) \/ KillFault(c)
      PROVE  FlowInv'
  <2>1. Rest(c).pc # "persist" /\ Stopped.pc # "persist"
    BY DEF Rest, Idle, Stopped
  <2>2. /\ UNCHANGED <<batch, streak, queue, emittedBy, telemetry, flags, taken, dbScore>>
        /\ \/ worker' = [worker EXCEPT ![c] = Rest(c)]
           \/ worker' = [worker EXCEPT ![c] = Stopped]
           \/ \E pc \in {"kill_insert", "kill_update"} :
                 worker' = [worker EXCEPT ![c] = [pc |-> pc, flag |-> worker[c].flag]]
    BY <1>9 DEF WorkerExit, PersistRejected, PersistFault, KillRead, KillInsert,
                KillUpdate, KillFault, vars, dbVars, auxVars
  <2>3. /\ DOMAIN worker' = Conns
        /\ \A d \in Conns : worker'[d] = worker[d] \/ worker'[d].pc # "persist"
    BY <1>0, <2>1, <2>2
  <2> QED
    BY <1>0, <2>2, <2>3, StillStep
<1>10. ASSUME NEW s \in Sessions, NEW f, PostTerminate(s, f) PROVE FlowInv'
  BY <1>0, <1>10, StillStep DEF PostTerminate, vars, threadVars, auxVars
<1> QED
  BY <1>1, <1>2, <1>3, <1>4, <1>5, <1>6, <1>7, <1>8, <1>9, <1>10
     DEF PipelineNext, WorkerStep

(* The flow invariant holds throughout.                                    *)
LEMMA FlowInvariant == PipelineSpec => []FlowInv
<1>1. PipelineSpec => [](TypeOK /\ FifoAcrossConsumers)
  BY PipelineImplementsBuffer, TypeCorrect, DrainedInOrder, PTL
<1>2. FlowInv /\ TypeOK /\ FifoAcrossConsumers /\ [PipelineNext]_pipelineVars => FlowInv'
  BY FlowStep
<1> QED
  BY <1>1, <1>2, FlowInit, PTL DEF PipelineSpec

(* For any number of sessions, connections and database errors, the flags  *)
(* a connection commits are in the order its aggregator emitted them, none *)
(* twice (flag_decisions and the one worker that drains it).               *)
THEOREM EmissionOrder == PipelineSpec => []FlagsInEmissionOrder
<1>1. FlowInv => FlagsInEmissionOrder
  BY DEF FlowInv
<1> QED
  BY <1>1, FlowInvariant, PTL

(* For any number of sessions, connections and database errors, each link  *)
(* of a flag leads to a telemetry row of the flag's own session            *)
(* (persist_flag_decision).  It rests on the buffer: no event is handed to *)
(* two dispatchers.                                                        *)
THEOREM LinksStayInSession == PipelineSpec => []FlagsLinkToOwnTelemetry
<1>1. FlowInv => FlagsLinkToOwnTelemetry
  BY DEF FlowInv
<1> QED
  BY <1>1, FlowInvariant, PTL

-----------------------------------------------------------------------------
(* No two connections of one session have a transaction open at once: what *)
(* the read-then-write of the accumulated score relies on.                 *)
OneWriterPerSession ==
    \A c, d \in Conns :
        /\ worker[c].pc = "persist" /\ worker[d].pc = "persist"
        /\ SessionOf[c] = SessionOf[d]
        => c = d

(* The stored score is the sum, and an open transaction has read it.       *)
ScoreInv ==
    /\ dbScore \in [Sessions -> Nat]
    /\ \A c \in Conns :
          worker[c].pc = "persist" => worker[c].read = dbScore[SessionOf[c]]
    /\ PersistedScoreMatchesFlags

(* No flag, no score.                                                      *)
LEMMA ScoreInit == PipelineInit => ScoreInv
<1> SUFFICES ASSUME PipelineInit PROVE ScoreInv
  OBVIOUS
<1>1. flags = <<>> /\ dbScore = [s \in Sessions |-> 0]
      /\ \A c \in Conns : worker[c].pc = "idle"
  BY DEF PipelineInit, Idle
<1>2. \A s \in Sessions : FlagsOf(s) = {}
  BY <1>1 DEF FlagsOf
<1>3. PersistedScoreMatchesFlags
  BY <1>1, <1>2, SumEmpty DEF PersistedScoreMatchesFlags
<1> QED
  BY <1>1, <1>3 DEF ScoreInv

(* A step that writes no flag and no score, and in which a worker at most  *)
(* opens a transaction.                                                    *)
LEMMA ScoreStill ==
    ASSUME ScoreInv, flags' = flags, dbScore' = dbScore,
           \A c \in Conns : \/ worker'[c] = worker[c]
                            \/ worker'[c].pc # "persist"
                            \/ worker'[c].read = dbScore[SessionOf[c]]
    PROVE  ScoreInv'
  BY DEF ScoreInv, PersistedScoreMatchesFlags, FlagsOf, ScoreDelta

(* The increments of a session's flags, added up.                          *)
FlagSum(s) == SumFunctionOnSet(ScoreDelta, FlagsOf(s))

(* A commit adds a flag and its increment to one session; the score it     *)
(* writes starts from the one its transaction read.                        *)
LEMMA CommitAdds ==
    ASSUME FlowInv, dbScore \in [Sessions -> Nat], NEW c \in Conns, PersistCommit(c)
    PROVE  /\ worker[c].pc = "persist"
           /\ \A d \in Conns : worker'[d].pc = "persist" => d # c /\ worker'[d] = worker[d]
           /\ \E delta \in Nat :
                 /\ dbScore' = [dbScore EXCEPT ![SessionOf[c]] =
                                   IF delta > 0 THEN worker[c].read + delta ELSE @]
                 /\ \A t \in Sessions :
                       /\ FlagSum(t) \in Int
                       /\ FlagSum(t)' = IF t = SessionOf[c] THEN FlagSum(t) + delta
                                                            ELSE FlagSum(t)
<1> DEFINE N == Len(flags)
           s == SessionOf[c]
           delta == worker[c].item.decision.score_delta
<1>0. /\ worker[c].pc = "persist"
      /\ flags' = Append(flags, FlagRow(c))
      /\ dbScore' = [dbScore EXCEPT ![s] = IF delta > 0 THEN worker[c].read + delta ELSE @]
      /\ worker' = [worker EXCEPT ![c] =
                         IF worker[c].item.decision.triggered_termination
                         THEN [pc |-> "kill_read", flag |-> Len(flags) + 1]
                         ELSE Rest(c)]
  BY DEF PersistCommit, NewScore
<1>1. /\ worker[c].item \in Item /\ DOMAIN worker = Conns
      /\ flags \in Seq(FlagRec) /\ dbScore \in [Sessions -> Nat]
      /\ s \in Sessions
  BY <1>0, PipelineAssumption DEF FlowInv, FlowTypes
<1>2. worker[c].item.decision \in DecisionRec /\ delta \in Nat /\ worker[c].item.n \in Nat
  BY <1>1 DEF Item, DecisionRec
<1>3. /\ FlagRow(c) \in FlagRec
      /\ FlagRow(c).session = s /\ FlagRow(c).score_delta = delta
  BY <1>1, <1>2 DEF FlagRow, FlagRec, DecisionRec
<1>4. /\ flags' \in Seq(FlagRec) /\ N \in Nat /\ Len(flags') = N + 1
      /\ \A i \in 1 .. N : flags'[i] = flags[i]
      /\ flags'[N + 1] = FlagRow(c)
  <2>1. ASSUME NEW row \in FlagRec
        PROVE  /\ Append(flags, row) \in Seq(FlagRec) /\ N \in Nat
               /\ Len(Append(flags, row)) = N + 1
               /\ \A i \in 1 .. N : Append(flags, row)[i] = flags[i]
               /\ Append(flags, row)[N + 1] = row
    BY <1>1
  <2> QED BY <1>0, <1>3, <2>1, Zenon
<1>5. \A d \in Conns : worker'[d].pc = "persist" =>
         d # c /\ worker'[d] = worker[d]
  <2>1. Rest(c).pc # "persist"
    BY DEF Rest, Idle, Stopped
  <2> QED
    BY <1>0, <1>1, <2>1
<1>6. /\ \A i \in 1 .. N : ScoreDelta'[i] = ScoreDelta[i] /\ ScoreDelta'[i] \in Int
      /\ ScoreDelta'[N + 1] = delta /\ N + 1 \in 1 .. N + 1
  <2>1. \A i \in 1 .. N + 1 : ScoreDelta'[i] = flags'[i].score_delta
    BY <1>4 DEF ScoreDelta
  <2>2. \A i \in 1 .. N : ScoreDelta[i] = flags[i].score_delta /\ flags[i].score_delta \in Nat
    BY <1>1, FlagFields DEF ScoreDelta
  <2> QED
    BY <1>3, <1>4, <2>1, <2>2
<1>7. \A t \in Sessions : FlagsOf(t) \in SUBSET (1 .. N) /\ IsFiniteSet(FlagsOf(t))
  <2>1. \A t \in Sessions : FlagsOf(t) \in SUBSET (1 .. N)
    BY DEF FlagsOf
  <2>2. IsFiniteSet(1 .. N)
    BY <1>4, FS_Interval
  <2> QED BY <2>1, <2>2, FS_Subset
<1>8. /\ FlagsOf(s)' = FlagsOf(s) \cup {N + 1}
       /\ \A t \in Sessions : t # s => FlagsOf(t)' = FlagsOf(t)
  <2>1. \A i \in 1 .. N + 1 : \/ i \in 1 .. N /\ flags'[i] = flags[i]
                              \/ i = N + 1 /\ flags'[i].session = s
    BY <1>3, <1>4
  <2>2. 1 .. Len(flags') = 1 .. N + 1 /\ \A i \in 1 .. N : i \in 1 .. N + 1 /\ i # N + 1
    BY <1>4
  <2>3. FlagsOf(s)' = {i \in 1 .. N + 1 : flags'[i].session = s}
    BY <2>2 DEF FlagsOf
  <2>4. N + 1 \in 1 .. N + 1
    BY <1>4
  <2>5. FlagsOf(s)' = FlagsOf(s) \cup {N + 1}
    BY <1>3, <1>4, <2>1, <2>2, <2>3, <2>4 DEF FlagsOf
  <2>6. ASSUME NEW t \in Sessions, t # s PROVE FlagsOf(t)' = FlagsOf(t)
    BY <1>3, <1>4, <2>1, <2>2, <2>6 DEF FlagsOf
  <2> QED BY <2>5, <2>6
<1> HIDE DEF N, s, delta
<1>9. ASSUME NEW t \in Sessions
      PROVE  /\ FlagSum(t) \in Int
             /\ FlagSum(t)' = IF t = s THEN FlagSum(t) + delta ELSE FlagSum(t)
  <2>1. \A i \in FlagsOf(t) : ScoreDelta'[i] = ScoreDelta[i] /\ ScoreDelta'[i] \in Int
    BY <1>6, <1>7
  <2>2. N + 1 \notin FlagsOf(t) /\ IsFiniteSet(FlagsOf(t))
    BY <1>4, <1>7
  <2>3. \A i \in FlagsOf(t) \cup {N + 1} : ScoreDelta'[i] \in Int
    BY <1>2, <1>6, <2>1
  <2>4. /\ SumFunctionOnSet(ScoreDelta', FlagsOf(t) \cup {N + 1})
             = ScoreDelta'[N + 1] + SumFunctionOnSet(ScoreDelta, FlagsOf(t))
        /\ SumFunctionOnSet(ScoreDelta, FlagsOf(t)) \in Int
    <3>1. PICK before, after, S, x : /\ before = ScoreDelta /\ after = ScoreDelta'
                                     /\ S = FlagsOf(t) /\ x = N + 1
      OBVIOUS
    <3>2. /\ IsFiniteSet(S) /\ x \notin S
          /\ \A y \in S \cup {x} : after[y] \in Int
          /\ \A y \in S : before[y] = after[y]
      BY <2>1, <2>2, <2>3, <3>1
    <3>3. /\ SumFunctionOnSet(after, S \cup {x}) = after[x] + SumFunctionOnSet(before, S)
          /\ SumFunctionOnSet(before, S) \in Int
      BY <3>2, SumAdd
    <3> QED
      BY <3>1, <3>3
  <2>5. CASE t # s
    <3>1. SumFunctionOnSet(ScoreDelta', FlagsOf(t)) = SumFunctionOnSet(ScoreDelta, FlagsOf(t))
      BY <2>1, <2>2, SumSame
    <3> QED BY <1>8, <2>4, <2>5, <3>1 DEF FlagSum
  <2>6. CASE t = s
    <3>1. FlagSum(t)' = SumFunctionOnSet(ScoreDelta', FlagsOf(t) \cup {N + 1})
      BY <1>8, <2>6 DEF FlagSum
    <3> QED BY <1>2, <1>6, <2>4, <2>6, <3>1 DEF FlagSum
  <2> QED BY <2>5, <2>6
<1>10. delta \in Nat
  BY <1>2
<1> QED
  BY <1>0, <1>5, <1>9, <1>10 DEF s, delta

(* A commit adds the flag's increment to the score of its session.         *)
LEMMA ScoreCommit ==
    ASSUME ScoreInv, FlowInv, OneWriterPerSession, NEW c \in Conns,
           PersistCommit(c)
    PROVE  ScoreInv'
<1> DEFINE s == SessionOf[c]
<1>1. /\ dbScore \in [Sessions -> Nat] /\ s \in Sessions
      /\ \A t \in Sessions : dbScore[t] = FlagSum(t)
  BY PipelineAssumption DEF ScoreInv, PersistedScoreMatchesFlags, FlagSum
<1>2. /\ worker[c].pc = "persist"
      /\ \A d \in Conns : worker'[d].pc = "persist" => d # c /\ worker'[d] = worker[d]
  BY <1>1, CommitAdds
<1>3. PICK delta \in Nat :
         /\ dbScore' = [dbScore EXCEPT ![s] = IF delta > 0 THEN worker[c].read + delta ELSE @]
         /\ \A t \in Sessions :
               /\ FlagSum(t) \in Int
               /\ FlagSum(t)' = IF t = s THEN FlagSum(t) + delta ELSE FlagSum(t)
  BY <1>1, CommitAdds
<1>4. worker[c].read = dbScore[s] /\ dbScore[s] \in Nat
  BY <1>1, <1>2 DEF ScoreInv
<1>5. dbScore' \in [Sessions -> Nat]
  BY <1>1, <1>3, <1>4
<1>6. \A t \in Sessions : dbScore'[t] = IF t = s THEN dbScore[t] + delta ELSE dbScore[t]
  BY <1>1, <1>3, <1>4
<1>7. PersistedScoreMatchesFlags'
  <2>1. \A t \in Sessions : dbScore'[t] = FlagSum(t)'
    BY <1>1, <1>3, <1>6
  <2> QED
    BY <2>1 DEF PersistedScoreMatchesFlags, FlagSum
<1>8. ASSUME NEW d \in Conns, worker'[d].pc = "persist"
      PROVE  worker'[d].read = dbScore'[SessionOf[d]]
  <2>1. d # c /\ worker'[d] = worker[d] /\ SessionOf[d] \in Sessions
    BY <1>2, <1>8, PipelineAssumption
  <2>2. SessionOf[d] # s
    BY <1>2, <1>8, <2>1 DEF OneWriterPerSession
  <2> QED
    BY <1>6, <1>8, <2>1, <2>2 DEF ScoreInv
<1> QED
  BY <1>5, <1>7, <1>8 DEF ScoreInv

(* Every step keeps the score, as long as one writer at a time has the     *)
(* session.                                                                *)
LEMMA ScoreStep ==
    ASSUME ScoreInv, FlowInv, OneWriterPerSession, [PipelineNext]_pipelineVars
    PROVE  ScoreInv'
<1>0. DOMAIN worker = Conns
  BY DEF FlowInv, FlowTypes
<1>1. ASSUME NEW c \in Conns, PersistCommit(c) PROVE ScoreInv'
  BY <1>1, ScoreCommit
<1>2. ASSUME NEW c \in Conns, PersistBegin(c) PROVE ScoreInv'
  <2>1. /\ flags' = flags /\ dbScore' = dbScore
        /\ worker' = [worker EXCEPT ![c] = [pc |-> "persist", item |-> Head(queue[c]),
                                            read |-> dbScore[SessionOf[c]]]]
    BY <1>2 DEF PersistBegin, dbVars
  <2>2. worker'[c].read = dbScore[SessionOf[c]] /\ \A d \in Conns : d # c => worker'[d] = worker[d]
    BY <1>0, <2>1
  <2> QED BY <2>1, <2>2, ScoreStill
<1>3. ASSUME NEW c \in Conns,
             \/ WorkerExit(c) \/ PersistRejected(c) \/ PersistFault(c)
             \/ KillRead(c) \/ KillInsert(c) \/ KillUpdate(c) \/ KillFault(c)
      PROVE  ScoreInv'
  <2>1. Rest(c).pc # "persist" /\ Stopped.pc # "persist"
    BY DEF Rest, Idle, Stopped
  <2>2. /\ UNCHANGED <<flags, dbScore>>
        /\ \/ worker' = [worker EXCEPT ![c] = Rest(c)]
           \/ worker' = [worker EXCEPT ![c] = Stopped]
           \/ \E pc \in {"kill_insert", "kill_update"} :
                 worker' = [worker EXCEPT ![c] = [pc |-> pc, flag |-> worker[c].flag]]
    BY <1>3 DEF WorkerExit, PersistRejected, PersistFault, KillRead, KillInsert,
                KillUpdate, KillFault, dbVars
  <2>3. \A d \in Conns : worker'[d] = worker[d] \/ worker'[d].pc # "persist"
    BY <1>0, <2>1, <2>2
  <2> QED
    BY <2>2, <2>3, ScoreStill
<1>4. ASSUME UNCHANGED <<worker, flags, dbScore>> PROVE ScoreInv'
  BY <1>4, ScoreStill
<1>5. ASSUME NEW c \in Conns,
             \/ Connect(c) \/ Disconnect(c) \/ StopDispatcher(c)
             \/ DrainBatch(c) \/ Dispatch(c)
             \/ \E kind \in Kinds : Receive(c, kind)
      PROVE  ScoreInv'
  BY <1>4, <1>5 DEF Connect, Disconnect, StopDispatcher, DrainBatch, Dispatch,
                    Receive, threadVars, dbVars
<1>6. ASSUME NEW t \in Sessions, NEW f, PostTerminate(t, f) PROVE ScoreInv'
  BY <1>4, <1>6 DEF PostTerminate, threadVars
<1>7. CASE UNCHANGED pipelineVars
  BY <1>4, <1>7 DEF pipelineVars, threadVars, dbVars
<1> QED
  BY <1>1, <1>2, <1>3, <1>5, <1>6, <1>7 DEF PipelineNext, WorkerStep

(* As long as no two transactions of one session overlap, the stored score *)
(* of every session is the sum of the increments of its flags, whatever    *)
(* fails, is rejected or is lost (_resolve_session reads it, the commit    *)
(* writes it).                                                             *)
THEOREM ScoreIsSumOfFlags ==
    PipelineSpec /\ []OneWriterPerSession => []PersistedScoreMatchesFlags
<1>1. ScoreInv /\ FlowInv /\ OneWriterPerSession /\ [PipelineNext]_pipelineVars => ScoreInv'
  BY ScoreStep
<1>2. ScoreInv => PersistedScoreMatchesFlags
  BY DEF ScoreInv
<1> QED
  BY <1>1, <1>2, ScoreInit, FlowInvariant, PTL DEF PipelineSpec

(* Where transactions of one session do overlap, an increment can be lost; *)
(* none is ever counted twice.                                             *)
ScoreWithinFlags == \A s \in Sessions : dbScore[s] =< FlagSum(s)

(* The stored score, and the one each open transaction has read, are       *)
(* within the sum: the sum only grows.                                     *)
BoundInv ==
    /\ dbScore \in [Sessions -> Nat]
    /\ \A s \in Sessions : FlagSum(s) \in Int
    /\ \A c \in Conns : worker[c].pc = "persist" =>
          worker[c].read \in Nat /\ worker[c].read =< FlagSum(SessionOf[c])
    /\ ScoreWithinFlags

(* No flag, no score.                                                      *)
LEMMA BoundInit == PipelineInit => BoundInv
<1> SUFFICES ASSUME PipelineInit PROVE BoundInv
  OBVIOUS
<1>1. /\ dbScore = [s \in Sessions |-> 0] /\ flags = <<>>
      /\ \A c \in Conns : worker[c].pc = "idle"
  BY DEF PipelineInit, Idle
<1>2. \A s \in Sessions : FlagsOf(s) = {}
  BY <1>1 DEF FlagsOf
<1>3. \A s \in Sessions : FlagSum(s) = 0
  BY <1>2, SumEmpty DEF FlagSum
<1> QED
  BY <1>1, <1>3 DEF BoundInv, ScoreWithinFlags

(* A step that writes no flag and no score, and in which a worker at most  *)
(* opens a transaction.                                                    *)
LEMMA BoundStill ==
    ASSUME BoundInv, flags' = flags, dbScore' = dbScore,
           \A c \in Conns : \/ worker'[c] = worker[c]
                            \/ worker'[c].pc # "persist"
                            \/ worker'[c].read = dbScore[SessionOf[c]]
    PROVE  BoundInv'
<1>1. \A s \in Sessions : FlagSum(s)' = FlagSum(s)
  BY DEF FlagSum, FlagsOf, ScoreDelta
<1>2. \A c \in Conns : SessionOf[c] \in Sessions
  BY PipelineAssumption
<1> QED
  BY <1>1, <1>2 DEF BoundInv, ScoreWithinFlags

(* A commit writes at most the sum it adds to: what its transaction read   *)
(* was within the sum then, and the sum has only grown.                    *)
LEMMA BoundCommit ==
    ASSUME BoundInv, FlowInv, NEW c \in Conns, PersistCommit(c)
    PROVE  BoundInv'
<1> DEFINE s == SessionOf[c]
<1>1. /\ dbScore \in [Sessions -> Nat] /\ \A d \in Conns : SessionOf[d] \in Sessions
      /\ \A t \in Sessions : dbScore[t] =< FlagSum(t)
  BY PipelineAssumption DEF BoundInv, ScoreWithinFlags
<1>2. /\ worker[c].pc = "persist"
      /\ \A d \in Conns : worker'[d].pc = "persist" => d # c /\ worker'[d] = worker[d]
  BY <1>1, CommitAdds
<1>3. PICK delta \in Nat :
         /\ dbScore' = [dbScore EXCEPT ![s] = IF delta > 0 THEN worker[c].read + delta ELSE @]
         /\ \A t \in Sessions :
               /\ FlagSum(t) \in Int
               /\ FlagSum(t)' = IF t = s THEN FlagSum(t) + delta ELSE FlagSum(t)
  BY <1>1, CommitAdds
<1>4. worker[c].read \in Nat /\ worker[c].read =< FlagSum(s)
  BY <1>2 DEF BoundInv
<1>5. dbScore' \in [Sessions -> Nat]
  BY <1>1, <1>3, <1>4
<1>6. \A t \in Sessions :
         /\ FlagSum(t)' \in Int /\ FlagSum(t) =< FlagSum(t)'
         /\ dbScore'[t] = IF t = s /\ delta > 0 THEN worker[c].read + delta ELSE dbScore[t]
  BY <1>1, <1>3
<1>7. ASSUME NEW t \in Sessions PROVE dbScore'[t] =< FlagSum(t)'
  BY <1>1, <1>3, <1>4, <1>6
<1>8. ASSUME NEW d \in Conns, worker'[d].pc = "persist"
      PROVE  worker'[d].read \in Nat /\ worker'[d].read =< FlagSum(SessionOf[d])'
  <2>1. worker'[d] = worker[d] /\ worker[d].pc = "persist"
    BY <1>2, <1>8
  <2>2. worker[d].read \in Nat /\ worker[d].read =< FlagSum(SessionOf[d])
    BY <2>1 DEF BoundInv
  <2>3. PICK t \in Sessions : t = SessionOf[d]
    BY <1>1
  <2> QED
    BY <1>3, <1>6, <2>1, <2>2, <2>3
<1> QED
  BY <1>5, <1>6, <1>7, <1>8 DEF BoundInv, ScoreWithinFlags

(* Every step keeps the bound, whichever transactions overlap.             *)
LEMMA BoundStep ==
    ASSUME BoundInv, FlowInv, [PipelineNext]_pipelineVars
    PROVE  BoundInv'
<1>0. DOMAIN worker = Conns
  BY DEF FlowInv, FlowTypes
<1>1. ASSUME NEW c \in Conns, PersistCommit(c) PROVE BoundInv'
  BY <1>1, BoundCommit
<1>2. ASSUME NEW c \in Conns, PersistBegin(c) PROVE BoundInv'
  <2>1. /\ flags' = flags /\ dbScore' = dbScore
        /\ worker' = [worker EXCEPT ![c] = [pc |-> "persist", item |-> Head(queue[c]),
                                            read |-> dbScore[SessionOf[c]]]]
    BY <1>2 DEF PersistBegin, dbVars
  <2>2. worker'[c].read = dbScore[SessionOf[c]] /\ \A d \in Conns : d # c => worker'[d] = worker[d]
    BY <1>0, <2>1
  <2> QED BY <2>1, <2>2, BoundStill
<1>3. ASSUME NEW c \in Conns,
             \/ WorkerExit(c) \/ PersistRejected(c) \/ PersistFault(c)
             \/ KillRead(c) \/ KillInsert(c) \/ KillUpdate(c) \/ KillFault(c)
      PROVE  BoundInv'
  <2>1. Rest(c).pc # "persist" /\ Stopped.pc # "persist"
    BY DEF Rest, Idle, Stopped
  <2>2. /\ UNCHANGED <<flags, dbScore>>
        /\ \/ worker' = [worker EXCEPT ![c] = Rest(c)]
           \/ worker' = [worker EXCEPT ![c] = Stopped]
           \/ \E pc \in {"kill_insert", "kill_update"} :
                 worker' = [worker EXCEPT ![c] = [pc |-> pc, flag |-> worker[c].flag]]
    BY <1>3 DEF WorkerExit, PersistRejected, PersistFault, KillRead, KillInsert,
                KillUpdate, KillFault, dbVars
  <2>3. \A d \in Conns : worker'[d] = worker[d] \/ worker'[d].pc # "persist"
    BY <1>0, <2>1, <2>2
  <2> QED
    BY <2>2, <2>3, BoundStill
<1>4. ASSUME UNCHANGED <<worker, flags, dbScore>> PROVE BoundInv'
  BY <1>4, BoundStill
<1>5. ASSUME NEW c \in Conns,
             \/ Connect(c) \/ Disconnect(c) \/ StopDispatcher(c)
             \/ DrainBatch(c) \/ Dispatch(c)
             \/ \E kind \in Kinds : Receive(c, kind)
      PROVE  BoundInv'
  BY <1>4, <1>5 DEF Connect, Disconnect, StopDispatcher, DrainBatch, Dispatch,
                    Receive, threadVars, dbVars
<1>6. ASSUME NEW t \in Sessions, NEW f, PostTerminate(t, f) PROVE BoundInv'
  BY <1>4, <1>6 DEF PostTerminate, threadVars
<1>7. CASE UNCHANGED pipelineVars
  BY <1>4, <1>7 DEF pipelineVars, threadVars, dbVars
<1> QED
  BY <1>1, <1>2, <1>3, <1>5, <1>6, <1>7 DEF PipelineNext, WorkerStep

(* However many connections of one session overlap, the score stored for   *)
(* it never exceeds the sum of the increments of its flags: an overlap can *)
(* lose an increment and can never invent one (persist_flag_decision).     *)
THEOREM ScoreNeverExceedsFlags == PipelineSpec => []ScoreWithinFlags
<1>1. BoundInv /\ FlowInv /\ [PipelineNext]_pipelineVars => BoundInv'
  BY BoundStep
<1>2. BoundInv => ScoreWithinFlags
  BY DEF BoundInv
<1> QED
  BY <1>1, <1>2, BoundInit, FlowInvariant, PTL DEF PipelineSpec
=============================================================================
