------------------------ MODULE TelemetryEventBuffer ------------------------
(***************************************************************************)
(* The bounded ingest buffer between the WebSocket handlers and the frame  *)
(* dispatchers (websocket/server.py, class TelemetryEventBuffer).  push    *)
(* and drain each run under one lock, so each is one action.  The deque    *)
(* has a maxlen: appending to a full deque discards its oldest element.    *)
(* Several handlers push and several dispatcher threads drain, because     *)
(* api.py builds one buffer for the whole process.                         *)
(***************************************************************************)
EXTENDS Integers, Sequences

CONSTANTS Messages,   \* parsed client messages
          Consumers,  \* dispatcher threads that drain the buffer
          MaxLen,     \* maxlen of the deque
          MaxPushes   \* bound of the model: messages pushed in a behaviour

ASSUME MaxLenAssumption == MaxLen \in Nat \ {0}

VARIABLES buf,        \* _buf: the deque of buffered events
          seq,        \* _seq: the next sequence number
          dropped,    \* _dropped: the overflow counter
          pushed,     \* history: every message pushed, in order
          taken       \* history: every event drained, in order, and by whom

vars == <<buf, seq, dropped, pushed, taken>>

(* A BufferedEvent: the message and the number it was given on arrival.    *)
BufferedEvent == [message : Messages, seq : Nat]

(* TelemetryEventBuffer.__init__.                                          *)
Init == /\ buf = <<>>
        /\ seq = 0
        /\ dropped = 0
        /\ pushed = <<>>
        /\ taken = <<>>

(* Whether the next append will discard the oldest element.                *)
WasFull == Len(buf) = MaxLen

(* Mutant: the new element is discarded instead of the oldest.             *)
AppendedDropNewest(event) == IF WasFull THEN buf ELSE Append(buf, event)

(* deque(maxlen=MaxLen).append(event).                                     *)
Appended(event) == Append(IF WasFull THEN Tail(buf) ELSE buf, event)

(* Mutant of push: the overflow is not counted.                            *)
PushUncounted(m) == /\ seq < MaxPushes
                    /\ buf' = Appended([message |-> m, seq |-> seq])
                    /\ seq' = seq + 1
                    /\ pushed' = Append(pushed, m)
                    /\ UNCHANGED <<dropped, taken>>

(* push: number the message, append it, count the overflow.                *)
Push(m) == /\ seq < MaxPushes
           /\ buf' = Appended([message |-> m, seq |-> seq])
           /\ seq' = seq + 1
           /\ dropped' = IF WasFull THEN dropped + 1 ELSE dropped
           /\ pushed' = Append(pushed, m)
           /\ UNCHANGED taken

(* The events a drain hands over, tagged with the thread that took them.   *)
TakenBy(c) ==
    [i \in 1 .. Len(buf) |->
        [message |-> buf[i].message, seq |-> buf[i].seq, by |-> c]]

(* Mutant of drain: the snapshot is returned but the deque is not cleared. *)
DrainWithoutClear(c) == /\ buf # <<>>
                        /\ Len(taken) < 2 * MaxPushes
                        /\ taken' = taken \o TakenBy(c)
                        /\ UNCHANGED <<buf, seq, dropped, pushed>>

(* drain: hand over the whole contents in order and clear the deque.       *)
Drain(c) == /\ buf # <<>>
            /\ taken' = taken \o TakenBy(c)
            /\ buf' = <<>>
            /\ UNCHANGED <<seq, dropped, pushed>>

Next == \/ \E m \in Messages : Push(m)
        \/ \E c \in Consumers : Drain(c)

Spec == Init /\ [][Next]_vars

-----------------------------------------------------------------------------
(* Every variable has its type and the deque respects its maxlen.          *)
TypeOK == /\ buf \in Seq(BufferedEvent)
          /\ Len(buf) =< MaxLen
          /\ seq \in Nat
          /\ dropped \in Nat
          /\ pushed \in Seq(Messages)
          /\ taken \in Seq([message : Messages, seq : Nat, by : Consumers])

(* However pushes and drains interleave, the deque holds a contiguous run  *)
(* of the arrivals that ends with the newest one, each with the message it *)
(* arrived with: overflow may only discard from the old end (server.py     *)
(* push, "If the buffer is full, the oldest event is silently dropped").   *)
NewestRunKept ==
    \A i \in 1 .. Len(buf) :
        /\ buf[i].seq = seq - Len(buf) + i - 1
        /\ buf[i].message = pushed[buf[i].seq + 1]

(* dropped_count accounts for every arrival: what was pushed is exactly    *)
(* what was handed to some dispatcher, what still waits, and what          *)
(* dropped_count reports.                                                  *)
DroppedAccountsForLoss ==
    /\ seq = Len(pushed)
    /\ seq = Len(taken) + Len(buf) + dropped

(* Across all draining threads the events come out in arrival order, none  *)
(* twice, each with the message it arrived with, and all of them older     *)
(* than anything still buffered.                                           *)
FifoAcrossConsumers ==
    /\ \A i \in 1 .. Len(taken) :
          /\ taken[i].seq < seq - Len(buf)
          /\ taken[i].message = pushed[taken[i].seq + 1]
    /\ \A i, j \in 1 .. Len(taken) : i < j => taken[i].seq < taken[j].seq
=============================================================================
