---------------------------- MODULE EvidenceStore ----------------------------
(***************************************************************************)
(* Evidence sealing and retention.  A seal request uploads a blob, reads   *)
(* it back to compare checksums and then inserts the EvidenceArtifact row; *)
(* the retention job deletes the blobs of expired rows and then the rows.  *)
(* The object store and the database fail independently, API replicas and  *)
(* the job run concurrently, and any of them may die between two calls.    *)
(***************************************************************************)
EXTENDS Naturals, FiniteSets

CONSTANTS
    Flags, Sessions, Kinds,   \* the parts of a storage key
    Contents,                 \* blobs a client may upload, told apart by digest
    Uploads,                  \* the <<session, flag, kind, blob>> that clients send
    Seals,                    \* POST .../evidence requests, 1..n: also row ids
    Workers,                  \* overlapping executions of the retention job
    BatchSize,
    Horizons,                 \* explicit retention_expires_at values
    MaxTime,                  \* bound on the clock
    MaxFaults,                \* bound on failed calls and crashes
    Garbage,                  \* what a corrupted upload leaves
    NoBlob, NoRow, Unsent, Refused, NoHorizon

VARIABLES
    now,
    faults,
    blobs,      \* the bucket: key -> content
    rows,       \* evidence_artifacts by flag (uq_evidence_artifacts_one_per_flag)
    seal,       \* per request: parameters and how far it has come
    job         \* per worker: how far run_retention_deletion has come

vars == <<now, faults, blobs, rows, seal, job>>

-----------------------------------------------------------------------------
Keys == Sessions \X Flags \X Kinds

(* Distinct (session, flag, type) triples have distinct keys.              *)
build_storage_key(session_id, flag_id, artifact_type) ==
    <<session_id, flag_id, artifact_type>>

(* The row keeps the key as an s3:// URI; the job strips the prefix again. *)
_extract_storage_key(a) == a.key

Row == [id : Seals, key : Keys, sha : Contents, retention : 0..MaxTime]

SealState == {"upload", "verify", "discard", "insert",
              "sealed", "failed", "crashed"}

InFlight == {"upload", "verify", "discard", "insert"}

Request == [flag : Flags, key : Keys, blob : Contents,
            retention : 0..MaxTime, pc : SealState]

ASSUME StoreAssumption ==
    /\ Seals \subseteq Nat
    /\ BatchSize \in Nat \ {0}
    /\ MaxTime \in Nat
    /\ MaxFaults \in Nat
    /\ Uploads \subseteq Sessions \X Flags \X Kinds \X Contents
    /\ Horizons \subseteq 0..MaxTime
    /\ Garbage \notin Contents /\ NoBlob \notin Contents \cup {Garbage}
    /\ NoRow \notin Row \cup [sha : Contents, retention : 0..MaxTime]
    /\ {Unsent, Refused} \cap Request = {}

JobRecord ==
    [pc : {"idle", "select", "sweep", "row"}, now : 0..MaxTime,
     failed : SUBSET Seals, batch : SUBSET Row, deleted : SUBSET Row,
     cur : SUBSET Row]

IdleJob == [pc |-> "idle", now |-> 0, failed |-> {}, batch |-> {},
            deleted |-> {}, cur |-> {}]

(* Every variable has its type.                                            *)
TypeOK ==
    /\ now \in 0..MaxTime
    /\ faults \in 0..MaxFaults
    /\ blobs \in [Keys -> Contents \cup {Garbage, NoBlob}]
    /\ rows \in [Flags -> Row \cup {NoRow}]
    /\ seal \in [Seals -> Request \cup {Unsent, Refused}]
    /\ job \in [Workers -> JobRecord]

Init ==
    /\ now = 0
    /\ faults = 0
    /\ blobs = [k \in Keys |-> NoBlob]
    /\ rows = [f \in Flags |-> NoRow]
    /\ seal = [q \in Seals |-> Unsent]
    /\ job = [w \in Workers |-> IdleJob]

Tick == /\ now < MaxTime
        /\ now' = now + 1
        /\ UNCHANGED <<faults, blobs, rows, seal, job>>

Fault == faults < MaxFaults /\ faults' = faults + 1
NoFault == faults' = faults
-----------------------------------------------------------------------------
(* POST /sessions/{session_id}/flags/{flag_id}/evidence.  The session of   *)
(* the path is not compared with the flag's.  Without an explicit horizon  *)
(* the route passes the present instant, so the service's default never    *)
(* applies.                                                                *)
post_seal_evidence(q, session_id, flag_id, kind, blob, horizon) ==
    /\ seal[q] = Unsent
    /\ seal' = [seal EXCEPT ![q] =
         [flag |-> flag_id,
          key |-> build_storage_key(session_id, flag_id, kind),
          blob |-> blob,
          retention |-> IF horizon = NoHorizon THEN now ELSE horizon,
          pc |-> "upload"]]
    /\ UNCHANGED <<now, faults, blobs, rows, job>>

(* A malformed request, an unknown flag or an oversized blob is refused    *)
(* before the first call to the store.                                     *)
RefuseSeal(q) ==
    /\ seal[q] = Unsent
    /\ seal' = [seal EXCEPT ![q] = Refused]
    /\ UNCHANGED <<now, faults, blobs, rows, job>>

(* The object store: S3EvidenceStore.                                      *)
upload(key, content) == [blobs EXCEPT ![key] = content]

delete(key) == [blobs EXCEPT ![key] = NoBlob]

compute_checksum(key) == blobs[key]

Goto(q, pc) == seal' = [seal EXCEPT ![q].pc = pc]

Accepted(q) == seal[q] \notin {Unsent, Refused}

At(q, pc) == Accepted(q) /\ seal[q].pc = pc

(* store.upload overwrites whatever the key held.  A call that raises may  *)
(* have taken effect, and one that returns may have stored other bytes.    *)
UploadBlob(q) ==
    /\ At(q, "upload")
    /\ \/ /\ blobs' = upload(seal[q].key, seal[q].blob)
          /\ Goto(q, "verify")
          /\ NoFault
       \/ /\ blobs' = upload(seal[q].key, Garbage)
          /\ Goto(q, "verify")
          /\ Fault
       \/ /\ blobs' \in {blobs, upload(seal[q].key, seal[q].blob)}
          /\ Goto(q, "failed")
          /\ Fault
    /\ UNCHANGED <<now, rows, job>>

(* Mutant: the upload is trusted.                                          *)
VerifyBlobSkipped(q) ==
    /\ At(q, "verify")
    /\ Goto(q, "insert")
    /\ NoFault
    /\ UNCHANGED <<now, blobs, rows, job>>

(* store.compute_checksum downloads the object again.                      *)
VerifyBlob(q) ==
    /\ At(q, "verify")
    /\ \/ /\ Goto(q, CASE compute_checksum(seal[q].key) = NoBlob -> "failed"
                       [] compute_checksum(seal[q].key) = seal[q].blob -> "insert"
                       [] OTHER -> "discard")
          /\ NoFault
       \/ Goto(q, "failed") /\ Fault
    /\ UNCHANGED <<now, blobs, rows, job>>

(* A mismatch deletes whatever is at the key; an error doing so is ignored. *)
DiscardBlob(q) ==
    /\ At(q, "discard")
    /\ Goto(q, "failed")
    /\ \/ blobs' = delete(seal[q].key) /\ NoFault
       \/ blobs' = blobs /\ Fault
    /\ UNCHANGED <<now, rows, job>>

(* A worker's uncommitted DELETE keeps a conflicting INSERT waiting.       *)
RowLocked(f) == \E w \in Workers : rows[f] \in job[w].deleted

(* Mutant: the row is upserted.                                            *)
InsertRowOverwriting(q) ==
    /\ At(q, "insert")
    /\ ~RowLocked(seal[q].flag)
    /\ rows' = [rows EXCEPT ![seal[q].flag] =
                  [id |-> q, key |-> seal[q].key, sha |-> seal[q].blob,
                   retention |-> seal[q].retention]]
    /\ Goto(q, "sealed")
    /\ NoFault
    /\ UNCHANGED <<now, blobs, job>>

(* INSERT and COMMIT.  A second row for the flag, another constraint or a  *)
(* database error rolls back; the blob stays.  "sealed" says that the row  *)
(* is committed, not that the client was told: a COMMIT that raises after  *)
(* it took effect ends there too, since the handler then touches neither   *)
(* store nor database again.                                               *)
InsertRow(q) ==
    /\ At(q, "insert")
    /\ ~RowLocked(seal[q].flag)
    /\ \/ /\ rows[seal[q].flag] = NoRow
          /\ rows' = [rows EXCEPT ![seal[q].flag] =
                        [id |-> q, key |-> seal[q].key, sha |-> seal[q].blob,
                         retention |-> seal[q].retention]]
          /\ Goto(q, "sealed")
          /\ NoFault
       \/ /\ rows[seal[q].flag] # NoRow
          /\ Goto(q, "failed")
          /\ UNCHANGED rows
          /\ NoFault
       \/ /\ Goto(q, "failed")
          /\ UNCHANGED rows
          /\ Fault
    /\ UNCHANGED <<now, blobs, job>>

CrashSeal(q) ==
    /\ Accepted(q) /\ seal[q].pc \in InFlight
    /\ Goto(q, "crashed")
    /\ Fault
    /\ UNCHANGED <<now, blobs, rows, job>>

-----------------------------------------------------------------------------
(* run_retention_deletion.                                                 *)
Expired(t) == {rows[f] : f \in {g \in Flags : rows[g] # NoRow
                                              /\ rows[g].retention < t}}

StartJob(w) ==
    /\ job[w].pc = "idle"
    /\ job' = [job EXCEPT ![w] = [IdleJob EXCEPT !.pc = "select", !.now = now]]
    /\ UNCHANGED <<now, faults, blobs, rows, seal>>

(* Expired rows that have not failed in this run, lowest ids first.        *)
IsBatch(B, candidates) ==
    /\ B \subseteq candidates
    /\ Cardinality(B) <= BatchSize
    /\ \A a \in candidates \ B :
         Cardinality(B) = BatchSize /\ \A b \in B : b.id < a.id

SelectBatch(w) ==
    /\ job[w].pc = "select"
    /\ LET candidates == {a \in Expired(job[w].now) : a.id \notin job[w].failed}
       IN  IF candidates = {}
           THEN job' = [job EXCEPT ![w] = IdleJob]
           ELSE \E B \in SUBSET candidates :
                  /\ IsBatch(B, candidates)
                  /\ job' = [job EXCEPT ![w].pc = "sweep", ![w].batch = B]
    /\ UNCHANGED <<now, faults, blobs, rows, seal>>

NextInBatch(w, a) == /\ a \in job[w].batch
                     /\ \A b \in job[w].batch : a.id <= b.id

(* Mutant: the row is deleted although its blob could not be.              *)
SweepBlobIgnoringErrors(w) ==
    /\ job[w].pc = "sweep"
    /\ \E a \in job[w].batch :
         /\ NextInBatch(w, a)
         /\ \/ blobs' = delete(_extract_storage_key(a)) /\ NoFault
            \/ blobs' = blobs /\ Fault
         /\ job' = [job EXCEPT ![w].batch = @ \ {a}, ![w].cur = {a},
                               ![w].pc = "row"]
    /\ UNCHANGED <<now, rows, seal>>

(* store.delete is idempotent; one that raises may have taken effect.      *)
SweepBlob(w) ==
    /\ job[w].pc = "sweep"
    /\ \E a \in job[w].batch :
         /\ NextInBatch(w, a)
         /\ \/ /\ blobs' = delete(_extract_storage_key(a))
               /\ job' = [job EXCEPT ![w].batch = @ \ {a}, ![w].cur = {a},
                                     ![w].pc = "row"]
               /\ NoFault
            \/ /\ blobs' \in {blobs,
                    delete(_extract_storage_key(a))}
               /\ job' = [job EXCEPT ![w].batch = @ \ {a},
                                     ![w].failed = @ \cup {a.id}]
               /\ Fault
    /\ UNCHANGED <<now, rows, seal>>

(* db.delete and flush: the row is locked until the batch commits.  Two    *)
(* overlapping runs wait for each other here; a row already gone is only a *)
(* warning.  A failure rolls back every deletion of the batch so far.      *)
SweepRow(w) ==
    /\ job[w].pc = "row"
    /\ \E a \in job[w].cur :
         /\ \A v \in Workers \ {w} : a \notin job[v].deleted
         /\ \/ /\ job' = [job EXCEPT ![w].deleted = @ \cup {a}, ![w].cur = {},
                                     ![w].pc = "sweep"]
               /\ NoFault
            \/ /\ job' = [job EXCEPT ![w].deleted = {}, ![w].cur = {},
                                     ![w].failed = @ \cup {a.id},
                                     ![w].pc = "sweep"]
               /\ Fault
    /\ UNCHANGED <<now, blobs, rows, seal>>

(* Mutant: deletions are flushed and never committed.                      *)
CommitBatchForgotten(w) ==
    /\ job[w].pc = "sweep" /\ job[w].batch = {}
    /\ job' = [job EXCEPT ![w].deleted = {}, ![w].pc = "select"]
    /\ UNCHANGED <<now, faults, blobs, rows, seal>>

(* COMMIT ends the batch; a failed one rolls it back and ends the run.     *)
CommitBatch(w) ==
    /\ job[w].pc = "sweep" /\ job[w].batch = {}
    /\ \/ /\ rows' = [f \in Flags |-> IF rows[f] \in job[w].deleted
                                      THEN NoRow ELSE rows[f]]
          /\ job' = [job EXCEPT ![w].deleted = {}, ![w].pc = "select"]
          /\ NoFault
       \/ /\ job' = [job EXCEPT ![w] = IdleJob]
          /\ Fault
          /\ UNCHANGED rows
    /\ UNCHANGED <<now, blobs, seal>>

CrashJob(w) ==
    /\ job[w].pc # "idle"
    /\ job' = [job EXCEPT ![w] = IdleJob]
    /\ Fault
    /\ UNCHANGED <<now, blobs, rows, seal>>

-----------------------------------------------------------------------------
SealStep(q) ==
    \/ \E u \in Uploads, h \in Horizons \cup {NoHorizon} :
         post_seal_evidence(q, u[1], u[2], u[3], u[4], h)
    \/ RefuseSeal(q)
    \/ UploadBlob(q) \/ VerifyBlob(q) \/ DiscardBlob(q) \/ InsertRow(q)
    \/ CrashSeal(q)

JobStep(w) == \/ StartJob(w) \/ SelectBatch(w) \/ SweepBlob(w)
              \/ SweepRow(w) \/ CommitBatch(w)

Next == \/ Tick
        \/ \E q \in Seals : SealStep(q)
        \/ \E w \in Workers : JobStep(w) \/ CrashJob(w)

Spec == Init /\ [][Next]_vars

(* The scheduler runs the job again and again (external), and a running    *)
(* job proceeds; the number of faults is bounded.                          *)
FairSpec == Spec /\ \A w \in Workers : WF_vars(JobStep(w))

-----------------------------------------------------------------------------
(* A row's blob is the one whose checksum the row records, unless the row  *)
(* has expired or another request has written to the same key.  In         *)
(* particular neither a failing store nor a crash separates them.          *)
RowEvidenceIntact ==
    \A f \in Flags : rows[f] # NoRow =>
        \/ blobs[rows[f].key] = rows[f].sha
        \/ rows[f].retention < now
        \/ \E q \in Seals \ {rows[f].id} :
              /\ Accepted(q) /\ seal[q].pc # "upload"
              /\ seal[q].key = rows[f].key

(* The retention job leaks no blob: an object no row points at is what a   *)
(* seal in flight, or one that ended without a row, has left behind.       *)
NoBlobOutlivesItsRow ==
    \A k \in Keys : blobs[k] # NoBlob =>
        \/ \E f \in Flags : rows[f] # NoRow /\ rows[f].key = k
        \/ \E q \in Seals : /\ Accepted(q) /\ seal[q].key = k
                            /\ seal[q].pc \notin {"upload", "sealed"}

(* Rows are written once, never changed, and removed only after expiry.    *)
Contract == INSTANCE EvidenceContract WITH
    Flags <- Flags,
    Digests <- Contents,
    Horizons <- 0..MaxTime,
    NoArtifact <- NoRow,
    archive <- [f \in Flags |-> IF rows[f] = NoRow THEN NoRow
                                ELSE [sha |-> rows[f].sha,
                                      retention |-> rows[f].retention]],
    clock <- now

ImplementsContract == Contract!CSpec

(* Every expired row is removed, whatever failed in earlier runs.          *)
ExpiredRowsReclaimed ==
    \A f \in Flags, q \in Seals :
        (rows[f] # NoRow /\ rows[f].id = q /\ rows[f].retention < now)
            ~> (rows[f] = NoRow \/ rows[f].id # q)
=============================================================================
