-------------------------- MODULE EvidenceStoreProofs --------------------------
(***************************************************************************)
(* The evidence store for any number of requests, replicas, overlapping    *)
(* retention runs and failures: it implements EvidenceContract, a row's    *)
(* blob stays with it and the job leaks none.                              *)
(*                                                                         *)
(* Every row, and every row a retention run still has in hand, came from a *)
(* request that is sealed for good (Sealed).  What is at a request's key   *)
(* when it inserts its row is what it verified, unless a rival has written *)
(* there (Verified).  A row that waits for its deletion to be committed    *)
(* has no blob, or one that a failed or unfinished request left (Cleared). *)
(***************************************************************************)
EXTENDS EvidenceStore, TLAPS

Sealed(a) == /\ Accepted(a.id) /\ seal[a.id].pc = "sealed"
             /\ seal[a.id].key = a.key /\ seal[a.id].retention = a.retention

Rival(q, key) == \E p \in Seals \ {q} :
                    Accepted(p) /\ seal[p].pc # "upload" /\ seal[p].key = key

Left(key) == \E q \in Seals : /\ Accepted(q) /\ seal[q].key = key
                              /\ seal[q].pc \notin {"upload", "sealed"}

KeysNameFlags == \A q \in Seals : Accepted(q) => seal[q].key[2] = seal[q].flag

RowsSealed == \A f \in Flags : rows[f] # NoRow =>
                 Sealed(rows[f]) /\ rows[f].key[2] = f

InHand(j) == j.batch \cup j.cur \cup j.deleted

Holding(j) == /\ j.now <= now
              /\ \A a \in InHand(j) : Sealed(a) /\ a.retention < now

Verified == \A q \in Seals : At(q, "insert") =>
               blobs[seal[q].key] = seal[q].blob \/ Rival(q, seal[q].key)

Cleared(j) == \A f \in Flags : rows[f] \in j.cur \cup j.deleted =>
                 blobs[rows[f].key] = NoBlob \/ Left(rows[f].key)

StoreInv == /\ TypeOK /\ KeysNameFlags /\ RowsSealed
            /\ \A w \in Workers : Holding(job[w]) /\ Cleared(job[w])
            /\ Verified /\ RowEvidenceIntact /\ NoBlobOutlivesItsRow

-----------------------------------------------------------------------------
(* A request that moves on keeps its parameters; the others do not move.   *)
LEMMA Moves ==
    ASSUME TypeOK, NEW q \in Seals, Accepted(q), NEW pc \in SealState, Goto(q, pc)
    PROVE  /\ seal' \in [Seals -> Request \cup {Unsent, Refused}]
           /\ seal[q] \in Request /\ seal'[q] \in Request
           /\ Accepted(q)' /\ seal'[q].pc = pc
           /\ seal'[q].key = seal[q].key /\ seal'[q].flag = seal[q].flag
           /\ seal'[q].blob = seal[q].blob /\ seal'[q].retention = seal[q].retention
           /\ \A p \in Seals \ {q} : seal'[p] = seal[p]
           /\ \A p \in Seals \ {q} : Accepted(p)' <=> Accepted(p)
<1> DEFINE r == [seal[q] EXCEPT !.pc = pc]
<1>1. seal[q] \in Request /\ seal \in [Seals -> Request \cup {Unsent, Refused}]
  BY DEF TypeOK, Accepted
<1>2. /\ r \in Request /\ r.pc = pc /\ r.key = seal[q].key
      /\ r.flag = seal[q].flag /\ r.blob = seal[q].blob
      /\ r.retention = seal[q].retention
  BY <1>1 DEF Request
<1>3. seal' = [seal EXCEPT ![q] = r]
  BY <1>1 DEF Goto
<1>4. /\ seal' \in [Seals -> Request \cup {Unsent, Refused}] /\ seal'[q] = r
      /\ \A p \in Seals \ {q} : seal'[p] = seal[p]
  <2> HIDE DEF r
  <2> QED
    BY <1>1, <1>2, <1>3
<1>5. Accepted(q)'
  BY <1>2, <1>4, StoreAssumption DEF Accepted
<1> QED
  BY <1>1, <1>2, <1>4, <1>5 DEF Accepted

(* A request moves on without a row: every call to the object store, every *)
(* failure and every crash.  It changes at most the blob at its own key,   *)
(* and only if it has not got past the upload or discards a corrupted one. *)
LEMMA SealMoveKeeps ==
    ASSUME StoreInv, NEW q \in Seals, Accepted(q), seal[q].pc \in InFlight,
           NEW pc \in SealState \ {"upload", "sealed"}, Goto(q, pc),
           UNCHANGED <<now, rows, job>>, faults' \in 0..MaxFaults,
           blobs' \in [Keys -> Contents \cup {Garbage, NoBlob}],
           NEW key \in Keys, key = seal[q].key,
           \A k \in Keys : k # key => blobs'[k] = blobs[k],
           pc = "insert" => blobs'[key] = seal[q].blob
    PROVE  StoreInv'
<1>0. /\ TypeOK /\ KeysNameFlags /\ RowsSealed /\ Verified
      /\ RowEvidenceIntact /\ NoBlobOutlivesItsRow
      /\ \A w \in Workers : Holding(job[w]) /\ Cleared(job[w])
  BY DEF StoreInv
<1>1. /\ seal' \in [Seals -> Request \cup {Unsent, Refused}]
      /\ seal[q] \in Request /\ seal'[q] \in Request
      /\ Accepted(q)' /\ seal'[q].pc = pc
      /\ seal'[q].key = key /\ seal'[q].flag = seal[q].flag
      /\ seal'[q].blob = seal[q].blob /\ seal'[q].retention = seal[q].retention
      /\ \A p \in Seals \ {q} : seal'[p] = seal[p]
      /\ \A p \in Seals \ {q} : Accepted(p)' <=> Accepted(p)
  BY <1>0, Moves
<1>2. seal[q].pc # "sealed" /\ pc # "upload" /\ pc # "sealed"
  BY <1>1 DEF Request, InFlight
<1>3. TypeOK'
  BY <1>0, <1>1 DEF TypeOK
<1>4. KeysNameFlags'
  BY <1>0, <1>1 DEF KeysNameFlags
<1>5. \A p \in Seals : Accepted(p) => /\ Accepted(p)'
                                      /\ seal'[p].key = seal[p].key
                                      /\ seal[p].pc # "upload" => seal'[p].pc # "upload"
  BY <1>1, <1>2
<1>6. \A a \in Row : Sealed(a) => Sealed(a)' /\ a.id # q
  BY <1>1, <1>2 DEF Sealed, Row
<1>7. \A p \in Seals, k \in Keys : Rival(p, k) => Rival(p, k)'
  BY <1>5 DEF Rival
<1>8. \A p \in Seals \ {q} : Rival(p, key)'
  BY <1>1, <1>2 DEF Rival
<1>9. Left(key)' /\ \A k \in Keys : Left(k) => Left(k)'
  BY <1>1, <1>2 DEF Left
<1>10. \A f \in Flags : rows[f] # NoRow => rows[f] \in Row /\ rows[f].key \in Keys
                                          /\ rows[f].id \in Seals
  BY <1>0 DEF TypeOK, Row
<1>11. RowsSealed'
  BY <1>0, <1>6, <1>10 DEF RowsSealed
<1>12. ASSUME NEW w \in Workers PROVE Holding(job[w])' /\ Cleared(job[w])'
  <2>1. job[w] \in JobRecord /\ InHand(job[w]) \subseteq Row
    BY <1>0 DEF TypeOK, JobRecord, InHand
  <2>2. Holding(job[w])'
    BY <1>0, <1>6, <2>1 DEF Holding, InHand
  <2>3. Cleared(job[w])'
    <3> SUFFICES ASSUME NEW f \in Flags, NEW k \in Keys, k = rows[f].key,
                        rows[f] \in job[w].cur \cup job[w].deleted
                 PROVE  blobs'[k] = NoBlob \/ Left(k)'
      BY <2>1 DEF Cleared, InHand, Row
    <3>1. blobs[k] = NoBlob \/ Left(k)
      BY <1>0 DEF Cleared
    <3> QED
      BY <1>9, <3>1
  <2> QED
    BY <2>2, <2>3
<1>13. Verified'
  <2> SUFFICES ASSUME NEW p \in Seals, At(p, "insert")', NEW k \in Keys,
                      k = seal'[p].key
               PROVE  blobs'[k] = seal'[p].blob \/ Rival(p, k)'
    <3>1. \A p \in Seals : At(p, "insert")' => seal'[p].key \in Keys
      BY <1>3 DEF At, TypeOK, Accepted, Request
    <3> QED
      BY <3>1 DEF Verified
  <2>1. CASE p = q
    BY <1>1, <2>1 DEF At
  <2>2. CASE p # q
    <3>1. At(p, "insert") /\ seal'[p] = seal[p]
      BY <1>1, <2>2 DEF At
    <3>2. blobs[k] = seal[p].blob \/ Rival(p, k)
      BY <1>0, <3>1 DEF Verified
    <3> QED
      BY <1>7, <1>8, <2>2, <3>1, <3>2
  <2> QED
    BY <2>1, <2>2
<1>14. RowEvidenceIntact'
  <2> SUFFICES ASSUME NEW f \in Flags, rows[f] # NoRow,
                      NEW k \in Keys, k = rows[f].key,
                      NEW i \in Seals, i = rows[f].id
               PROVE  \/ blobs'[k] = rows[f].sha \/ rows[f].retention < now
                      \/ Rival(i, k)'
    BY <1>10 DEF RowEvidenceIntact, Rival
  <2>1. i # q
    BY <1>0, <1>6, <1>10 DEF RowsSealed
  <2>2. \/ blobs[k] = rows[f].sha \/ rows[f].retention < now \/ Rival(i, k)
    BY <1>0 DEF RowEvidenceIntact, Rival
  <2> QED
    BY <1>7, <1>8, <2>1, <2>2
<1>15. NoBlobOutlivesItsRow'
  <2> SUFFICES ASSUME NEW k \in Keys, blobs'[k] # NoBlob
               PROVE  (\E f \in Flags : rows[f] # NoRow /\ rows[f].key = k) \/ Left(k)'
    BY DEF NoBlobOutlivesItsRow, Left
  <2>1. CASE k = key
    BY <1>9, <2>1, Zenon
  <2>2. CASE k # key
    <3>1. (\E f \in Flags : rows[f] # NoRow /\ rows[f].key = k) \/ Left(k)
      BY <1>0, <2>2 DEF NoBlobOutlivesItsRow, Left
    <3> QED
      BY <1>9, <3>1
  <2> QED
    BY <2>1, <2>2
<1> QED
  BY <1>3, <1>4, <1>11, <1>12, <1>13, <1>14, <1>15 DEF StoreInv

(* The calls a request makes before its row.                               *)
LEMMA SealCallKeeps ==
    ASSUME StoreInv, NEW q \in Seals,
           UploadBlob(q) \/ VerifyBlob(q) \/ DiscardBlob(q) \/ CrashSeal(q)
    PROVE  StoreInv'
<1>0. /\ TypeOK /\ faults \in 0..MaxFaults
      /\ blobs \in [Keys -> Contents \cup {Garbage, NoBlob}]
  BY DEF StoreInv, TypeOK
<1>1. Fault \/ NoFault => faults' \in 0..MaxFaults
  BY <1>0, StoreAssumption DEF Fault, NoFault
<1>2. Accepted(q) /\ seal[q].pc \in InFlight
  BY DEF UploadBlob, VerifyBlob, DiscardBlob, CrashSeal, At, InFlight
<1>3. seal[q] \in Request
  BY <1>0, <1>2 DEF TypeOK, Accepted
<1>4. PICK key \in Keys : key = seal[q].key
  BY <1>3 DEF Request
<1>5. seal[q].blob \in Contents
  BY <1>3 DEF Request
<1>6. ASSUME NEW pc \in {"verify", "discard", "insert", "failed", "crashed"},
             Goto(q, pc), Fault \/ NoFault, UNCHANGED <<now, rows, job>>,
             NEW content \in Contents \cup {Garbage, NoBlob},
             blobs' = [blobs EXCEPT ![key] = content] \/ blobs' = blobs,
             pc = "insert" => blobs' = blobs /\ blobs[key] = seal[q].blob
      PROVE  StoreInv'
  <2>1. pc \in SealState \ {"upload", "sealed"}
    BY <1>6 DEF SealState
  <2>2. /\ blobs' \in [Keys -> Contents \cup {Garbage, NoBlob}]
        /\ \A k \in Keys : k # key => blobs'[k] = blobs[k]
    BY <1>0, <1>6
  <2>3. faults' \in 0..MaxFaults
    BY <1>1, <1>6
  <2>4. pc = "insert" => blobs'[key] = seal[q].blob
    BY <1>6
  <2> QED
    BY <1>2, <1>4, <1>6, <2>1, <2>2, <2>3, <2>4, SealMoveKeeps
<1>7. CASE UploadBlob(q)
  BY <1>4, <1>5, <1>6, <1>7 DEF UploadBlob, upload
<1>8. CASE VerifyBlob(q)
  <2>1. UNCHANGED <<now, blobs, rows, job>>
    BY <1>8 DEF VerifyBlob
  <2>2. CASE Goto(q, "failed") /\ Fault
    BY <1>5, <1>6, <2>1, <2>2
  <2>3. CASE /\ Goto(q, CASE compute_checksum(seal[q].key) = NoBlob -> "failed"
                          [] compute_checksum(seal[q].key) = seal[q].blob -> "insert"
                          [] OTHER -> "discard")
             /\ NoFault
    <3>1. CASE blobs[key] = NoBlob
      <4>1. Goto(q, "failed")
        BY <1>4, <1>5, <2>3, <3>1, StoreAssumption DEF compute_checksum
      <4> QED
        BY <1>5, <1>6, <2>1, <2>3, <4>1
    <3>2. CASE blobs[key] = seal[q].blob /\ blobs[key] # NoBlob
      <4>1. Goto(q, "insert")
        BY <1>4, <2>3, <3>2 DEF compute_checksum
      <4> QED
        BY <1>5, <1>6, <2>1, <2>3, <3>2, <4>1
    <3>3. CASE blobs[key] # seal[q].blob /\ blobs[key] # NoBlob
      <4>1. Goto(q, "discard")
        BY <1>4, <2>3, <3>3 DEF compute_checksum
      <4> QED
        BY <1>5, <1>6, <2>1, <2>3, <4>1
    <3> QED
      BY <3>1, <3>2, <3>3
  <2> QED
    BY <1>8, <2>2, <2>3 DEF VerifyBlob
<1>9. CASE DiscardBlob(q)
  BY <1>4, <1>6, <1>9 DEF DiscardBlob, delete
<1>10. CASE CrashSeal(q)
  BY <1>5, <1>6, <1>10 DEF CrashSeal
<1> QED
  BY <1>7, <1>8, <1>9, <1>10

(* A request that arrives, or is refused, has touched nothing yet.         *)
LEMMA ArrivalKeeps ==
    ASSUME StoreInv, NEW q \in Seals, seal[q] = Unsent,
           NEW r \in Request \cup {Refused}, seal' = [seal EXCEPT ![q] = r],
           r # Refused => r.pc = "upload" /\ r.key[2] = r.flag,
           UNCHANGED <<now, faults, blobs, rows, job>>
    PROVE  StoreInv'
<1>0. /\ TypeOK /\ KeysNameFlags /\ RowsSealed /\ Verified
      /\ RowEvidenceIntact /\ NoBlobOutlivesItsRow
      /\ \A w \in Workers : Holding(job[w]) /\ Cleared(job[w])
  BY DEF StoreInv
<1>1. /\ seal' \in [Seals -> Request \cup {Unsent, Refused}] /\ seal'[q] = r
      /\ \A p \in Seals \ {q} : seal'[p] = seal[p]
      /\ ~Accepted(q)
  BY <1>0 DEF TypeOK, Accepted
<1>2. \A p \in Seals : Accepted(p) => Accepted(p)' /\ seal'[p] = seal[p]
  BY <1>1 DEF Accepted
<1>3. TypeOK' /\ KeysNameFlags'
  BY <1>0, <1>1, <1>2 DEF TypeOK, KeysNameFlags, Accepted
<1>4. \A a \in Row : Sealed(a) => Sealed(a)'
  BY <1>2 DEF Sealed, Row
<1>5. /\ \A p \in Seals, k \in Keys : Rival(p, k) => Rival(p, k)'
      /\ \A k \in Keys : Left(k) => Left(k)'
  BY <1>2 DEF Rival, Left
<1>6. \A f \in Flags : rows[f] # NoRow => rows[f] \in Row /\ rows[f].key \in Keys
                                          /\ rows[f].id \in Seals
  BY <1>0 DEF TypeOK, Row
<1>7. RowsSealed'
  BY <1>0, <1>4, <1>6 DEF RowsSealed
<1>8. ASSUME NEW w \in Workers PROVE Holding(job[w])' /\ Cleared(job[w])'
  <2>1. InHand(job[w]) \subseteq Row
    BY <1>0 DEF TypeOK, JobRecord, InHand
  <2>2. Holding(job[w])'
    BY <1>0, <1>4, <2>1 DEF Holding, InHand
  <2>3. Cleared(job[w])'
    <3> SUFFICES ASSUME NEW f \in Flags, NEW k \in Keys, k = rows[f].key,
                        rows[f] \in job[w].cur \cup job[w].deleted
                 PROVE  blobs'[k] = NoBlob \/ Left(k)'
      BY <2>1 DEF Cleared, InHand, Row
    <3> QED
      BY <1>0, <1>5 DEF Cleared
  <2> QED
    BY <2>2, <2>3
<1>9. Verified'
  <2> SUFFICES ASSUME NEW p \in Seals, At(p, "insert")', NEW k \in Keys,
                      k = seal'[p].key
               PROVE  blobs'[k] = seal'[p].blob \/ Rival(p, k)'
    <3>1. \A p \in Seals : At(p, "insert")' => seal'[p].key \in Keys
      BY <1>3 DEF At, TypeOK, Accepted, Request
    <3> QED
      BY <3>1 DEF Verified
  <2>1. At(p, "insert") /\ seal'[p] = seal[p]
    BY <1>1 DEF At, Accepted
  <2> QED
    BY <1>0, <1>5, <2>1 DEF Verified
<1>10. RowEvidenceIntact'
  <2> SUFFICES ASSUME NEW f \in Flags, rows[f] # NoRow,
                      NEW k \in Keys, k = rows[f].key,
                      NEW i \in Seals, i = rows[f].id
               PROVE  \/ blobs'[k] = rows[f].sha \/ rows[f].retention < now
                      \/ Rival(i, k)'
    BY <1>6 DEF RowEvidenceIntact, Rival
  <2>1. \/ blobs[k] = rows[f].sha \/ rows[f].retention < now \/ Rival(i, k)
    BY <1>0 DEF RowEvidenceIntact, Rival
  <2> QED
    BY <1>5, <2>1
<1>11. NoBlobOutlivesItsRow'
  <2> SUFFICES ASSUME NEW k \in Keys, blobs[k] # NoBlob
               PROVE  (\E f \in Flags : rows[f] # NoRow /\ rows[f].key = k) \/ Left(k)'
    BY DEF NoBlobOutlivesItsRow, Left
  <2>1. (\E f \in Flags : rows[f] # NoRow /\ rows[f].key = k) \/ Left(k)
    BY <1>0 DEF NoBlobOutlivesItsRow, Left
  <2> QED
    BY <1>5, <2>1
<1> QED
  BY <1>3, <1>7, <1>8, <1>9, <1>10, <1>11 DEF StoreInv

(* The row a request inserts for a flag that has none.                     *)
LEMMA InsertKeeps ==
    ASSUME StoreInv, NEW q \in Seals, InsertRow(q)
    PROVE  StoreInv'
<1> DEFINE r == seal[q]
           new == [id |-> q, key |-> r.key, sha |-> r.blob,
                   retention |-> r.retention]
<1>0. /\ TypeOK /\ KeysNameFlags /\ RowsSealed /\ Verified
      /\ RowEvidenceIntact /\ NoBlobOutlivesItsRow
      /\ \A w \in Workers : Holding(job[w]) /\ Cleared(job[w])
  BY DEF StoreInv
<1>1. Accepted(q) /\ r.pc = "insert" /\ r \in Request
  BY <1>0 DEF InsertRow, At, TypeOK, Accepted
<1>2. /\ r.key \in Keys /\ r.flag \in Flags /\ r.blob \in Contents
      /\ r.retention \in 0..MaxTime
  BY <1>1 DEF Request
<1>3. faults' \in 0..MaxFaults
  BY <1>0, StoreAssumption DEF InsertRow, Fault, NoFault, TypeOK
<1>4. CASE Goto(q, "failed") /\ UNCHANGED rows
  <2>1. PICK key \in Keys : key = r.key
    BY <1>2
  <2>2. "failed" \in SealState \ {"upload", "sealed"} /\ r.pc \in InFlight
    BY <1>1 DEF SealState, InFlight
  <2>3. UNCHANGED <<now, blobs, job>>
    BY DEF InsertRow
  <2> QED
    BY <1>0, <1>1, <1>3, <1>4, <2>1, <2>2, <2>3, SealMoveKeeps DEF TypeOK
<1>5. CASE /\ rows[r.flag] = NoRow /\ Goto(q, "sealed")
           /\ rows' = [rows EXCEPT ![r.flag] = new]
  <2>1. PICK key \in Keys, flag \in Flags : key = r.key /\ flag = r.flag
    BY <1>2
  <2>2. "sealed" \in SealState /\ UNCHANGED <<now, blobs, job>>
    BY DEF SealState, InsertRow
  <2>3. /\ seal' \in [Seals -> Request \cup {Unsent, Refused}]
        /\ seal'[q] \in Request /\ Accepted(q)' /\ seal'[q].pc = "sealed"
        /\ seal'[q].key = key /\ seal'[q].flag = flag
        /\ seal'[q].blob = r.blob /\ seal'[q].retention = r.retention
        /\ \A p \in Seals \ {q} : seal'[p] = seal[p]
        /\ \A p \in Seals \ {q} : Accepted(p)' <=> Accepted(p)
    BY <1>0, <1>1, <1>5, <2>1, <2>2, Moves
  <2>4. new \in Row /\ new.id = q /\ new.key = key /\ new.sha = r.blob
        /\ new.retention = r.retention
    BY <1>2, <2>1 DEF Row
  <2>5. /\ rows' \in [Flags -> Row \cup {NoRow}] /\ rows'[flag] = new
        /\ \A f \in Flags \ {flag} : rows'[f] = rows[f]
    <3> HIDE DEF new
    <3> QED
      BY <1>0, <1>5, <2>1, <2>4 DEF TypeOK
  <2>6. TypeOK'
    BY <1>0, <1>3, <2>2, <2>3, <2>5 DEF TypeOK
  <2>7. KeysNameFlags' /\ key[2] = flag
    BY <1>0, <1>1, <2>1, <2>3 DEF KeysNameFlags
  <2>8. \A a \in Row : Sealed(a) => Sealed(a)' /\ a.id # q
    BY <1>1, <2>3 DEF Sealed, Row
  <2>9. \A p \in Seals, k \in Keys : Rival(p, k) => Rival(p, k)'
    BY <1>1, <2>1, <2>3 DEF Rival
  <2>10. \A k \in Keys : k # key => (Left(k) => Left(k)')
    BY <2>1, <2>3 DEF Left
  <2>11. \A f \in Flags : rows'[f] # NoRow =>
            rows'[f] \in Row /\ rows'[f].key \in Keys /\ rows'[f].id \in Seals
    BY <2>5 DEF Row
  <2>12. new # NoRow
    BY <2>4, StoreAssumption
  <2>13. RowsSealed'
    <3> SUFFICES ASSUME NEW f \in Flags, rows'[f] # NoRow,
                        NEW a \in Row, a = rows'[f]
                 PROVE  Sealed(a)' /\ a.key[2] = f
      BY <2>11 DEF RowsSealed
    <3>1. CASE f = flag
      BY <2>3, <2>4, <2>5, <2>7, <3>1 DEF Sealed
    <3>2. CASE f # flag
      BY <1>0, <2>5, <2>8, <3>2 DEF RowsSealed
    <3> QED
      BY <3>1, <3>2
  <2>14. ASSUME NEW w \in Workers PROVE Holding(job[w])' /\ Cleared(job[w])'
    <3>1. InHand(job[w]) \subseteq Row
      BY <1>0 DEF TypeOK, JobRecord, InHand
    <3>2. \A a \in InHand(job[w]) : a.id # q /\ Sealed(a)'
      BY <1>0, <2>8, <3>1 DEF Holding
    <3>3. Holding(job[w])'
      BY <1>0, <2>2, <3>2 DEF Holding, InHand
    <3>4. Cleared(job[w])'
      <4> SUFFICES ASSUME NEW f \in Flags, NEW k \in Keys, k = rows'[f].key,
                          rows'[f] \in job[w].cur \cup job[w].deleted
                   PROVE  blobs'[k] = NoBlob \/ Left(k)'
        BY <2>2, <3>1 DEF Cleared, InHand, Row
      <4>1. rows'[f].id # q
        BY <3>2 DEF InHand
      <4>2. f # flag
        BY <2>4, <2>5, <4>1
      <4>3. rows'[f] = rows[f]
        BY <2>5, <4>2
      <4>4. rows[f] # NoRow
        BY <3>1, <4>3, StoreAssumption DEF InHand
      <4>5. k # key
        BY <1>0, <2>7, <4>2, <4>3, <4>4 DEF RowsSealed
      <4>6. blobs[k] = NoBlob \/ Left(k)
        BY <1>0, <4>3 DEF Cleared
      <4> QED
        BY <2>2, <2>10, <4>5, <4>6
    <3> QED
      BY <3>3, <3>4
  <2>15. Verified'
    <3> SUFFICES ASSUME NEW p \in Seals, At(p, "insert")', NEW k \in Keys,
                        k = seal'[p].key
                 PROVE  blobs'[k] = seal'[p].blob \/ Rival(p, k)'
      <4>1. \A p \in Seals : At(p, "insert")' => seal'[p].key \in Keys
        BY <2>6 DEF At, TypeOK, Accepted, Request
      <4> QED
        BY <4>1 DEF Verified
    <3>1. p # q
      BY <2>3 DEF At
    <3>2. At(p, "insert") /\ seal'[p] = seal[p]
      BY <2>3, <3>1 DEF At
    <3> QED
      BY <1>0, <2>2, <2>9, <3>2 DEF Verified
  <2>16. RowEvidenceIntact'
    <3> SUFFICES ASSUME NEW f \in Flags, rows'[f] # NoRow,
                        NEW k \in Keys, k = rows'[f].key,
                        NEW i \in Seals, i = rows'[f].id
                 PROVE  \/ blobs'[k] = rows'[f].sha \/ rows'[f].retention < now'
                        \/ Rival(i, k)'
      BY <2>11 DEF RowEvidenceIntact, Rival
    <3>1. CASE f = flag
      <4>1. i = q /\ k = key /\ rows'[f].sha = r.blob
        BY <2>4, <2>5, <3>1
      <4>2. blobs[key] = r.blob \/ Rival(q, key)
        BY <1>0, <1>1, <2>1 DEF Verified, At
      <4> QED
        BY <2>2, <2>9, <4>1, <4>2
    <3>2. CASE f # flag
      <4>1. rows'[f] = rows[f]
        BY <2>5, <3>2
      <4>2. \/ blobs[k] = rows[f].sha \/ rows[f].retention < now \/ Rival(i, k)
        BY <1>0, <4>1 DEF RowEvidenceIntact, Rival
      <4> QED
        BY <2>2, <2>9, <4>1, <4>2
    <3> QED
      BY <3>1, <3>2
  <2>17. NoBlobOutlivesItsRow'
    <3> SUFFICES ASSUME NEW k \in Keys, blobs[k] # NoBlob
                 PROVE  (\E f \in Flags : rows'[f] # NoRow /\ rows'[f].key = k)
                        \/ Left(k)'
      BY <2>2 DEF NoBlobOutlivesItsRow, Left
    <3>1. CASE k = key
      BY <2>4, <2>5, <2>12, <3>1
    <3>2. CASE k # key
      <4>1. (\E f \in Flags : rows[f] # NoRow /\ rows[f].key = k) \/ Left(k)
        BY <1>0 DEF NoBlobOutlivesItsRow, Left
      <4>2. \A f \in Flags : rows[f] # NoRow => rows'[f] = rows[f]
        BY <1>5, <2>1, <2>5
      <4> QED
        BY <2>10, <3>2, <4>1, <4>2
    <3> QED
      BY <3>1, <3>2
  <2> QED
    BY <2>6, <2>7, <2>13, <2>14, <2>15, <2>16, <2>17 DEF StoreInv
<1> QED
  BY <1>4, <1>5 DEF InsertRow

-----------------------------------------------------------------------------
(* A retention run that moves on with rows it may delete.                  *)
LEMMA JobMoveKeeps ==
    ASSUME StoreInv, NEW w \in Workers, NEW j \in JobRecord,
           job' = [job EXCEPT ![w] = j], Holding(j), Cleared(j),
           UNCHANGED <<now, blobs, rows, seal>>, faults' \in 0..MaxFaults
    PROVE  StoreInv'
<1>1. /\ job' \in [Workers -> JobRecord] /\ job'[w] = j
      /\ \A v \in Workers \ {w} : job'[v] = job[v]
  BY DEF StoreInv, TypeOK
<1>2. TypeOK'
  BY <1>1 DEF StoreInv, TypeOK
<1>3. \A v \in Workers : Holding(job'[v]) /\ Cleared(job'[v])
  BY <1>1 DEF StoreInv
<1>4. ASSUME NEW v \in Workers PROVE Holding(job[v])' /\ Cleared(job[v])'
  BY <1>3 DEF Holding, InHand, Sealed, Accepted, Cleared, Left
<1>5. KeysNameFlags' /\ RowsSealed' /\ Verified'
  BY DEF StoreInv, KeysNameFlags, RowsSealed, Verified, Sealed, Rival, At, Accepted
<1>6. RowEvidenceIntact' /\ NoBlobOutlivesItsRow'
  BY DEF StoreInv, RowEvidenceIntact, NoBlobOutlivesItsRow, Accepted
<1> QED
  BY <1>2, <1>4, <1>5, <1>6 DEF StoreInv

(* An idle run has nothing in hand.                                        *)
LEMMA IdleHoldsNothing ==
    ASSUME TypeOK
    PROVE  IdleJob \in JobRecord /\ Holding(IdleJob) /\ Cleared(IdleJob)
<1>1. now \in Nat /\ 0 \in 0..MaxTime
  BY StoreAssumption DEF TypeOK
<1> QED
  BY <1>1 DEF IdleJob, JobRecord, Holding, InHand, Cleared

(* A run starts, selects a batch, deletes a row in its transaction, fails  *)
(* to commit or crashes.                                                   *)
LEMMA JobStepKeeps ==
    ASSUME StoreInv, NEW w \in Workers,
           \/ StartJob(w) \/ SelectBatch(w) \/ SweepRow(w) \/ CrashJob(w)
           \/ /\ job[w].pc = "sweep" /\ job' = [job EXCEPT ![w] = IdleJob]
              /\ Fault /\ UNCHANGED <<now, blobs, rows, seal>>
    PROVE  StoreInv'
<1>0. /\ TypeOK /\ RowsSealed /\ job \in [Workers -> JobRecord]
      /\ job[w] \in JobRecord /\ Holding(job[w]) /\ Cleared(job[w])
      /\ now \in Nat /\ now \in 0..MaxTime
      /\ rows \in [Flags -> Row \cup {NoRow}]
  BY StoreAssumption DEF StoreInv, TypeOK
<1>1. Fault \/ NoFault => faults' \in 0..MaxFaults
  BY <1>0, StoreAssumption DEF TypeOK, Fault, NoFault
<1>2. IdleJob \in JobRecord /\ Holding(IdleJob) /\ Cleared(IdleJob)
  BY <1>0, IdleHoldsNothing
<1>3. CASE StartJob(w)
  <2> DEFINE j == [IdleJob EXCEPT !.pc = "select", !.now = now]
  <2>1. IdleJob.batch = {} /\ IdleJob.cur = {} /\ IdleJob.deleted = {}
    BY DEF IdleJob
  <2>2. j \in JobRecord /\ Holding(j) /\ Cleared(j)
    <3>1. /\ j \in JobRecord /\ j.now = now
          /\ j.batch = {} /\ j.cur = {} /\ j.deleted = {}
      BY <1>0, <1>2, <2>1 DEF JobRecord
    <3> HIDE DEF j
    <3> QED
      BY <1>0, <3>1 DEF Holding, InHand, Cleared
  <2>3. faults' \in 0..MaxFaults
    BY <1>0, <1>3 DEF StartJob, TypeOK
  <2> QED
    BY <1>3, <2>2, <2>3, JobMoveKeeps DEF StartJob
<1>4. CASE SelectBatch(w)
  <2> DEFINE candidates == {a \in Expired(job[w].now) : a.id \notin job[w].failed}
  <2>0. faults' \in 0..MaxFaults /\ UNCHANGED <<now, blobs, rows, seal>>
    BY <1>0, <1>4 DEF SelectBatch, TypeOK
  <2>1. CASE job' = [job EXCEPT ![w] = IdleJob]
    BY <1>2, <2>0, <2>1, JobMoveKeeps
  <2>2. ASSUME NEW B \in SUBSET candidates,
               job' = [job EXCEPT ![w].pc = "sweep", ![w].batch = B]
        PROVE  StoreInv'
    <3> DEFINE j == [job[w] EXCEPT !.pc = "sweep", !.batch = B]
    <3>1. job' = [job EXCEPT ![w] = j]
      BY <1>0, <2>2
    <3>2. ASSUME NEW a \in B PROVE a \in Row /\ Sealed(a) /\ a.retention < now
      <4>1. PICK f \in Flags : /\ rows[f] # NoRow /\ rows[f].retention < job[w].now
                               /\ a = rows[f]
        BY <2>2 DEF Expired
      <4>2. a \in Row /\ Sealed(a)
        BY <1>0, <4>1 DEF RowsSealed
      <4>3. a.retention \in Nat /\ job[w].now \in Nat /\ job[w].now <= now
        BY <1>0, <4>2, StoreAssumption DEF Row, JobRecord, Holding
      <4> QED
        BY <1>0, <4>1, <4>2, <4>3
    <3>3. /\ j \in JobRecord /\ j.now = job[w].now /\ j.batch = B
          /\ j.cur = job[w].cur /\ j.deleted = job[w].deleted
      <4>1. B \in SUBSET Row
        BY <3>2
      <4> QED
        BY <1>0, <4>1 DEF JobRecord
    <3>4. Holding(j) /\ Cleared(j)
      BY <1>0, <3>2, <3>3 DEF Holding, InHand, Cleared
    <3> QED
      BY <2>0, <3>1, <3>3, <3>4, JobMoveKeeps
  <2> QED
    BY <1>4, <2>1, <2>2 DEF SelectBatch
<1>5. CASE SweepRow(w)
  <2>0. UNCHANGED <<now, blobs, rows, seal>>
    BY <1>5 DEF SweepRow
  <2>1. PICK a \in job[w].cur :
           \/ /\ job' = [job EXCEPT ![w].deleted = @ \cup {a}, ![w].cur = {},
                                    ![w].pc = "sweep"]
              /\ NoFault
           \/ /\ job' = [job EXCEPT ![w].deleted = {}, ![w].cur = {},
                                    ![w].failed = @ \cup {a.id},
                                    ![w].pc = "sweep"]
              /\ Fault
    BY <1>5 DEF SweepRow
  <2>2. a \in Row /\ a.id \in Seals
    BY <1>0 DEF JobRecord, Row
  <2>3. CASE /\ job' = [job EXCEPT ![w].deleted = @ \cup {a}, ![w].cur = {},
                                   ![w].pc = "sweep"]
             /\ NoFault
    <3> DEFINE j == [job[w] EXCEPT !.deleted = job[w].deleted \cup {a},
                                   !.cur = {}, !.pc = "sweep"]
    <3>1. job' = [job EXCEPT ![w] = j]
      BY <1>0, <2>3
    <3>2. /\ j \in JobRecord /\ j.now = job[w].now /\ j.batch = job[w].batch
          /\ j.cur = {} /\ j.deleted = job[w].deleted \cup {a}
      BY <1>0, <2>2 DEF JobRecord
    <3>3. Holding(j) /\ Cleared(j)
      BY <1>0, <3>2 DEF Holding, InHand, Cleared
    <3> QED
      BY <1>1, <2>0, <2>3, <3>1, <3>2, <3>3, JobMoveKeeps
  <2>4. CASE /\ job' = [job EXCEPT ![w].deleted = {}, ![w].cur = {},
                                   ![w].failed = @ \cup {a.id},
                                   ![w].pc = "sweep"]
             /\ Fault
    <3> DEFINE j == [job[w] EXCEPT !.deleted = {}, !.cur = {},
                                   !.failed = job[w].failed \cup {a.id},
                                   !.pc = "sweep"]
    <3>1. job' = [job EXCEPT ![w] = j]
      BY <1>0, <2>4
    <3>2. /\ j \in JobRecord /\ j.now = job[w].now /\ j.batch = job[w].batch
          /\ j.cur = {} /\ j.deleted = {}
      BY <1>0, <2>2 DEF JobRecord
    <3>3. Holding(j) /\ Cleared(j)
      BY <1>0, <3>2 DEF Holding, InHand, Cleared
    <3> QED
      BY <1>1, <2>0, <2>4, <3>1, <3>2, <3>3, JobMoveKeeps
  <2> QED
    BY <2>1, <2>3, <2>4
<1>6. CASE /\ job' = [job EXCEPT ![w] = IdleJob] /\ Fault
           /\ UNCHANGED <<now, blobs, rows, seal>>
  BY <1>1, <1>2, <1>6, JobMoveKeeps
<1> QED
  BY <1>3, <1>4, <1>5, <1>6 DEF CrashJob

(* The object store deletes the blob of a row that has expired.            *)
LEMMA SweepBlobKeeps ==
    ASSUME StoreInv, NEW w \in Workers, SweepBlob(w)
    PROVE  StoreInv'
<1>0. /\ TypeOK /\ KeysNameFlags /\ RowsSealed /\ Verified
      /\ RowEvidenceIntact /\ NoBlobOutlivesItsRow
      /\ \A v \in Workers : Holding(job[v]) /\ Cleared(job[v])
      /\ job \in [Workers -> JobRecord] /\ job[w] \in JobRecord
      /\ blobs \in [Keys -> Contents \cup {Garbage, NoBlob}]
  BY DEF StoreInv, TypeOK
<1>1. UNCHANGED <<now, rows, seal>>
  BY DEF SweepBlob
<1>2. PICK a \in job[w].batch :
        \/ /\ blobs' = delete(_extract_storage_key(a)) /\ NoFault
           /\ job' = [job EXCEPT ![w].batch = @ \ {a}, ![w].cur = {a},
                                 ![w].pc = "row"]
        \/ /\ blobs' \in {blobs, delete(_extract_storage_key(a))} /\ Fault
           /\ job' = [job EXCEPT ![w].batch = @ \ {a},
                                 ![w].failed = @ \cup {a.id}]
  BY DEF SweepBlob
<1>3. PICK key \in Keys, i \in Seals : key = a.key /\ i = a.id
  BY <1>0 DEF JobRecord, Row
<1>4. a \in Row /\ Sealed(a) /\ a.retention < now
  BY <1>0 DEF Holding, InHand, JobRecord
<1>5. /\ blobs' \in [Keys -> Contents \cup {Garbage, NoBlob}]
      /\ \A k \in Keys : blobs'[k] = blobs[k] \/ blobs'[k] = NoBlob
      /\ \A k \in Keys : k # key => blobs'[k] = blobs[k]
  BY <1>0, <1>2, <1>3 DEF delete, _extract_storage_key
<1>6. PICK j \in JobRecord :
        /\ job' = [job EXCEPT ![w] = j] /\ j.now = job[w].now
        /\ j.batch = job[w].batch \ {a} /\ j.deleted = job[w].deleted
        /\ \/ j.cur = {a} /\ blobs'[key] = NoBlob
           \/ j.cur = job[w].cur
  <2>1. CASE /\ blobs' = delete(_extract_storage_key(a))
             /\ job' = [job EXCEPT ![w].batch = @ \ {a}, ![w].cur = {a},
                                   ![w].pc = "row"]
    <3> DEFINE j == [job[w] EXCEPT !.batch = job[w].batch \ {a},
                                   !.cur = {a}, !.pc = "row"]
    <3>1. job' = [job EXCEPT ![w] = j]
      BY <1>0, <2>1
    <3>2. /\ j \in JobRecord /\ j.now = job[w].now /\ j.cur = {a}
          /\ j.batch = job[w].batch \ {a} /\ j.deleted = job[w].deleted
      BY <1>0, <1>4 DEF JobRecord
    <3>3. blobs'[key] = NoBlob
      BY <1>0, <1>3, <2>1 DEF delete, _extract_storage_key
    <3> HIDE DEF j
    <3> QED
      BY <3>1, <3>2, <3>3
  <2>2. CASE job' = [job EXCEPT ![w].batch = @ \ {a},
                                ![w].failed = @ \cup {a.id}]
    <3> DEFINE j == [job[w] EXCEPT !.batch = job[w].batch \ {a},
                                   !.failed = job[w].failed \cup {a.id}]
    <3>1. job' = [job EXCEPT ![w] = j]
      BY <1>0, <2>2
    <3>2. /\ j \in JobRecord /\ j.now = job[w].now /\ j.cur = job[w].cur
          /\ j.batch = job[w].batch \ {a} /\ j.deleted = job[w].deleted
      BY <1>0, <1>3 DEF JobRecord
    <3> HIDE DEF j
    <3> QED
      BY <3>1, <3>2
  <2> QED
    BY <1>2, <2>1, <2>2
<1>7. /\ job' \in [Workers -> JobRecord] /\ job'[w] = j
      /\ \A v \in Workers \ {w} : job'[v] = job[v]
  BY <1>0, <1>6
<1>8. faults' \in 0..MaxFaults
  BY <1>0, <1>2, StoreAssumption DEF TypeOK, Fault, NoFault
<1>9. TypeOK'
  BY <1>0, <1>1, <1>5, <1>7, <1>8 DEF TypeOK
<1>10. KeysNameFlags' /\ RowsSealed'
  BY <1>0, <1>1 DEF KeysNameFlags, RowsSealed, Sealed, Accepted
<1>11. ASSUME NEW v \in Workers PROVE Holding(job[v])' /\ Cleared(job[v])'
  <2>1. /\ Holding(job'[v])
        /\ \A f \in Flags : rows[f] \in job'[v].cur \cup job'[v].deleted =>
              blobs'[rows[f].key] = NoBlob \/ Left(rows[f].key)
    <3>1. \A f \in Flags, u \in Workers :
             rows[f] \in job[u].cur \cup job[u].deleted =>
               blobs'[rows[f].key] = NoBlob \/ Left(rows[f].key)
      <4> SUFFICES ASSUME NEW f \in Flags, NEW u \in Workers,
                          rows[f] \in job[u].cur \cup job[u].deleted
                   PROVE  blobs'[rows[f].key] = NoBlob \/ Left(rows[f].key)
        OBVIOUS
      <4>1. rows[f].key \in Keys
        BY <1>0 DEF TypeOK, JobRecord, Row
      <4> QED
        BY <1>0, <1>5, <4>1 DEF Cleared
    <3>2. CASE v = w
      BY <1>0, <1>3, <1>4, <1>6, <1>7, <3>1, <3>2 DEF Holding, InHand
    <3>3. CASE v # w
      BY <1>0, <1>7, <3>1, <3>3
    <3> QED
      BY <3>2, <3>3
  <2> QED
    BY <1>1, <2>1 DEF Holding, InHand, Sealed, Accepted, Cleared, Left
<1>12. \A q \in Seals : q # i => Rival(q, key)
  BY <1>3, <1>4 DEF Rival, Sealed
<1>13. Verified'
  <2>1. ASSUME NEW q \in Seals, At(q, "insert")
        PROVE  blobs'[seal[q].key] = seal[q].blob \/ Rival(q, seal[q].key)
    <3>1. seal[q].key \in Keys /\ q # i
      BY <1>0, <1>3, <1>4, <2>1 DEF At, Accepted, TypeOK, Request, Sealed
    <3> QED
      BY <1>0, <1>5, <1>12, <2>1, <3>1 DEF Verified
  <2> QED
    BY <1>1, <2>1 DEF Verified, At, Accepted, Rival
<1>14. RowEvidenceIntact'
  <2>1. ASSUME NEW f \in Flags, rows[f] # NoRow
        PROVE  \/ blobs'[rows[f].key] = rows[f].sha \/ rows[f].retention < now
               \/ Rival(rows[f].id, rows[f].key)
    <3>1. rows[f].key \in Keys /\ rows[f].id \in Seals
      BY <1>0, <2>1 DEF TypeOK, Row
    <3>2. rows[f].id = i => rows[f].retention = a.retention
      BY <1>0, <1>3, <1>4, <2>1 DEF RowsSealed, Sealed
    <3>3. \/ blobs[rows[f].key] = rows[f].sha \/ rows[f].retention < now
          \/ Rival(rows[f].id, rows[f].key)
      BY <1>0, <2>1 DEF RowEvidenceIntact, Rival
    <3> QED
      BY <1>4, <1>5, <1>12, <3>1, <3>2, <3>3
  <2> QED
    BY <1>1, <2>1 DEF RowEvidenceIntact, Rival, Accepted
<1>15. NoBlobOutlivesItsRow'
  BY <1>0, <1>1, <1>5 DEF NoBlobOutlivesItsRow, Accepted
<1> QED
  BY <1>9, <1>10, <1>11, <1>13, <1>14, <1>15 DEF StoreInv

(* A batch commits: rows go whose blobs are gone.                          *)
LEMMA CommitKeeps ==
    ASSUME StoreInv, NEW w \in Workers, CommitBatch(w)
    PROVE  StoreInv'
<1>0. /\ TypeOK /\ KeysNameFlags /\ RowsSealed /\ Verified
      /\ RowEvidenceIntact /\ NoBlobOutlivesItsRow
      /\ \A v \in Workers : Holding(job[v]) /\ Cleared(job[v])
      /\ job \in [Workers -> JobRecord] /\ job[w] \in JobRecord
      /\ rows \in [Flags -> Row \cup {NoRow}]
  BY DEF StoreInv, TypeOK
<1>1. UNCHANGED <<now, blobs, seal>>
  BY DEF CommitBatch
<1>2. CASE job' = [job EXCEPT ![w] = IdleJob] /\ Fault /\ UNCHANGED rows
  BY <1>1, <1>2, JobStepKeeps DEF CommitBatch
<1>3. CASE /\ rows' = [f \in Flags |-> IF rows[f] \in job[w].deleted
                                       THEN NoRow ELSE rows[f]]
           /\ job' = [job EXCEPT ![w].deleted = {}, ![w].pc = "select"]
           /\ NoFault
  <2> DEFINE j == [job[w] EXCEPT !.deleted = {}, !.pc = "select"]
  <2>1. job' = [job EXCEPT ![w] = j]
    BY <1>0, <1>3
  <2>2. /\ j \in JobRecord /\ j.now = job[w].now /\ j.batch = job[w].batch
        /\ j.cur = job[w].cur /\ j.deleted = {}
    BY <1>0 DEF JobRecord
  <2>3. /\ job' \in [Workers -> JobRecord] /\ job'[w] = j
        /\ \A v \in Workers \ {w} : job'[v] = job[v]
    <3> HIDE DEF j
    <3> QED
      BY <1>0, <2>1, <2>2
  <2>4. /\ rows' \in [Flags -> Row \cup {NoRow}]
        /\ \A f \in Flags : rows'[f] # NoRow => rows'[f] = rows[f]
        /\ \A f \in Flags : rows'[f] = rows[f] \/ rows[f] \in job[w].deleted
    BY <1>0, <1>3
  <2>5. TypeOK'
    BY <1>0, <1>1, <1>3, <2>3, <2>4 DEF TypeOK, NoFault
  <2>6. KeysNameFlags' /\ RowsSealed'
    BY <1>0, <1>1, <2>4 DEF KeysNameFlags, RowsSealed, Sealed, Accepted
  <2>7. ASSUME NEW v \in Workers PROVE Holding(job[v])' /\ Cleared(job[v])'
    <3>1. /\ job'[v].now = job[v].now /\ job'[v].batch = job[v].batch
          /\ job'[v].cur = job[v].cur /\ job'[v].deleted \subseteq job[v].deleted
      <4> HIDE DEF j
      <4> QED
        BY <2>2, <2>3
    <3>2. Holding(job[v])'
      BY <1>0, <1>1, <3>1 DEF Holding, InHand, Sealed, Accepted
    <3>3. \A f \in Flags : rows'[f] \in job'[v].cur \cup job'[v].deleted =>
             rows'[f] = rows[f] /\ rows[f] \in job[v].cur \cup job[v].deleted
      BY <1>0, <2>4, <3>1, StoreAssumption DEF JobRecord
    <3>4. Cleared(job[v])'
      BY <1>0, <1>1, <3>3 DEF Cleared, Left, Accepted
    <3> QED
      BY <3>2, <3>4
  <2>8. Verified'
    BY <1>0, <1>1 DEF Verified, At, Accepted, Rival
  <2>9. RowEvidenceIntact'
    BY <1>0, <1>1, <2>4 DEF RowEvidenceIntact, Accepted
  <2>10. NoBlobOutlivesItsRow'
    <3>1. ASSUME NEW k \in Keys, blobs[k] # NoBlob
          PROVE  (\E f \in Flags : rows'[f] # NoRow /\ rows'[f].key = k) \/ Left(k)
      <4>1. CASE Left(k)
        BY <4>1
      <4>2. ASSUME NEW f \in Flags, rows[f] # NoRow, rows[f].key = k
            PROVE  (\E g \in Flags : rows'[g] # NoRow /\ rows'[g].key = k) \/ Left(k)
        <5>1. CASE rows[f] \in job[w].deleted
          BY <1>0, <3>1, <4>2, <5>1 DEF Cleared
        <5>2. CASE rows'[f] = rows[f]
          BY <4>2, <5>2
        <5> QED
          BY <2>4, <5>1, <5>2
      <4> QED
        BY <1>0, <3>1, <4>1, <4>2 DEF NoBlobOutlivesItsRow, Left
    <3> QED
      BY <1>1, <3>1 DEF NoBlobOutlivesItsRow, Left, Accepted
  <2> QED
    BY <2>5, <2>6, <2>7, <2>8, <2>9, <2>10 DEF StoreInv
<1> QED
  BY <1>2, <1>3 DEF CommitBatch

-----------------------------------------------------------------------------
(* The initial state satisfies the invariant.                              *)
LEMMA StoreInit == Init => StoreInv
<1> SUFFICES ASSUME Init PROVE StoreInv
  OBVIOUS
<1>1. TypeOK
  <2>1. IdleJob \in JobRecord
    BY StoreAssumption DEF IdleJob, JobRecord
  <2> QED
    BY <2>1, StoreAssumption DEF Init, TypeOK
<1>2. \A q \in Seals : ~Accepted(q)
  BY DEF Init, Accepted
<1>3. KeysNameFlags /\ RowsSealed /\ Verified
  BY <1>2 DEF Init, KeysNameFlags, RowsSealed, Verified, At
<1>4. RowEvidenceIntact /\ NoBlobOutlivesItsRow
  BY DEF Init, RowEvidenceIntact, NoBlobOutlivesItsRow
<1>5. \A w \in Workers : Holding(job[w]) /\ Cleared(job[w])
  BY <1>1, IdleHoldsNothing DEF Init
<1> QED
  BY <1>1, <1>3, <1>4, <1>5 DEF StoreInv

(* Time passes: what had expired stays expired.                            *)
LEMMA TickKeeps ==
    ASSUME StoreInv, Tick
    PROVE  StoreInv'
<1>0. /\ TypeOK /\ now \in Nat /\ now' \in Nat /\ now < now'
      /\ UNCHANGED <<faults, blobs, rows, seal, job>>
  BY StoreAssumption DEF StoreInv, TypeOK, Tick
<1>1. TypeOK'
  BY <1>0, StoreAssumption DEF TypeOK, Tick
<1>2. KeysNameFlags' /\ RowsSealed' /\ Verified'
  BY <1>0 DEF StoreInv, KeysNameFlags, RowsSealed, Verified, Sealed, Rival, At,
              Accepted
<1>3. NoBlobOutlivesItsRow'
  BY <1>0 DEF StoreInv, NoBlobOutlivesItsRow, Accepted
<1>4. RowEvidenceIntact'
  <2>1. \A f \in Flags : rows[f] # NoRow =>
           (rows[f].retention < now => rows[f].retention < now')
    BY <1>0, StoreAssumption DEF TypeOK, Row
  <2> QED
    BY <1>0, <2>1 DEF StoreInv, RowEvidenceIntact, Accepted
<1>5. ASSUME NEW w \in Workers PROVE Holding(job[w])' /\ Cleared(job[w])'
  <2>1. /\ job[w].now \in Nat
        /\ \A a \in InHand(job[w]) : a.retention \in Nat
    BY <1>0, StoreAssumption DEF TypeOK, JobRecord, InHand, Row
  <2>2. Holding(job[w]) /\ Cleared(job[w])
    BY DEF StoreInv
  <2>3. Holding(job[w])'
    BY <1>0, <2>1, <2>2 DEF Holding, InHand, Sealed, Accepted
  <2>4. Cleared(job[w])'
    BY <1>0, <2>2 DEF Cleared, Left, Accepted
  <2> QED
    BY <2>3, <2>4
<1> QED
  BY <1>1, <1>2, <1>3, <1>4, <1>5 DEF StoreInv

(* Every step of a request keeps the invariant.                            *)
LEMMA SealStepKeeps ==
    ASSUME StoreInv, NEW q \in Seals, SealStep(q)
    PROVE  StoreInv'
<1>1. ASSUME NEW u \in Uploads, NEW h \in Horizons \cup {NoHorizon},
             post_seal_evidence(q, u[1], u[2], u[3], u[4], h)
      PROVE  StoreInv'
  <2> DEFINE r == [flag |-> u[2], key |-> build_storage_key(u[1], u[2], u[3]),
                   blob |-> u[4], retention |-> IF h = NoHorizon THEN now ELSE h,
                   pc |-> "upload"]
  <2>1. u[1] \in Sessions /\ u[2] \in Flags /\ u[3] \in Kinds /\ u[4] \in Contents
    BY StoreAssumption
  <2>2. build_storage_key(u[1], u[2], u[3]) \in Keys
        /\ build_storage_key(u[1], u[2], u[3])[2] = u[2]
    BY <2>1 DEF build_storage_key, Keys
  <2>3. (IF h = NoHorizon THEN now ELSE h) \in 0..MaxTime
    BY StoreAssumption DEF StoreInv, TypeOK
  <2>4. r \in Request /\ r.pc = "upload" /\ r.key[2] = r.flag
    BY <2>1, <2>2, <2>3 DEF Request, SealState
  <2>5. /\ seal[q] = Unsent /\ seal' = [seal EXCEPT ![q] = r]
        /\ UNCHANGED <<now, faults, blobs, rows, job>>
    BY <1>1 DEF post_seal_evidence
  <2> HIDE DEF r
  <2> QED
    BY <2>4, <2>5, ArrivalKeeps
<1>2. CASE RefuseSeal(q)
  BY <1>2, ArrivalKeeps DEF RefuseSeal
<1> QED
  BY <1>1, <1>2, SealCallKeeps, InsertKeeps DEF SealStep

(* Every step keeps the invariant.                                         *)
LEMMA StoreStep == StoreInv /\ [Next]_vars => StoreInv'
<1> SUFFICES ASSUME StoreInv, [Next]_vars PROVE StoreInv'
  OBVIOUS
<1>1. CASE UNCHANGED vars
  <2>1. UNCHANGED <<now, faults, blobs, rows, seal, job>>
    BY <1>1 DEF vars
  <2>2. TypeOK' /\ KeysNameFlags' /\ RowsSealed' /\ Verified'
    BY <2>1 DEF StoreInv, TypeOK, KeysNameFlags, RowsSealed, Verified, Sealed,
                Rival, At, Accepted
  <2>3. RowEvidenceIntact' /\ NoBlobOutlivesItsRow'
    BY <2>1 DEF StoreInv, RowEvidenceIntact, NoBlobOutlivesItsRow, Accepted
  <2>4. \A w \in Workers : Holding(job[w])' /\ Cleared(job[w])'
    BY <2>1 DEF StoreInv, Holding, InHand, Sealed, Cleared, Left, Accepted
  <2> QED
    BY <2>2, <2>3, <2>4 DEF StoreInv
<1>2. ASSUME NEW w \in Workers, JobStep(w) \/ CrashJob(w) PROVE StoreInv'
  BY <1>2, JobStepKeeps, SweepBlobKeeps, CommitKeeps DEF JobStep
<1> QED
  BY <1>1, <1>2, TickKeeps, SealStepKeeps DEF Next

(* The invariant holds throughout.                                         *)
LEMMA StoreAlways == Spec => []StoreInv
  BY StoreInit, StoreStep, PTL DEF Spec

-----------------------------------------------------------------------------
(* The archive that the rows stand for.                                    *)
Archive == [f \in Flags |-> IF rows[f] = NoRow THEN NoRow
                            ELSE [sha |-> rows[f].sha,
                                  retention |-> rows[f].retention]]

(* A flag has an archived artifact exactly when it has a row.              *)
LEMMA ArchivedIffRow ==
    ASSUME TypeOK, NEW f \in Flags
    PROVE  /\ Archive[f] = NoRow <=> rows[f] = NoRow
           /\ rows[f] # NoRow => /\ Archive[f] \in Contract!Artifact
                                 /\ Archive[f].retention = rows[f].retention
<1>1. rows[f] # NoRow => rows[f].sha \in Contents /\ rows[f].retention \in 0..MaxTime
  BY DEF TypeOK, Row
<1>2. rows[f] # NoRow => Archive[f] \in [sha : Contents, retention : 0..MaxTime]
  BY <1>1 DEF Archive
<1> QED
  BY <1>2, StoreAssumption DEF Archive, Contract!Artifact

(* Every step of the store is a step of the contract or leaves it alone.   *)
LEMMA StoreStepRefines ==
    StoreInv /\ [Next]_vars => [Contract!CNext]_(Contract!cvars)
<1> SUFFICES ASSUME StoreInv, [Next]_vars
             PROVE  [Contract!CNext]_<<Archive, now>>
  BY DEF Contract!cvars, Archive
<1>0. TypeOK /\ rows \in [Flags -> Row \cup {NoRow}] /\ now \in Nat
  BY StoreAssumption DEF StoreInv, TypeOK
<1>1. CASE UNCHANGED <<rows, now>>
  BY <1>1 DEF Archive
<1>2. CASE Tick
  BY <1>2 DEF Tick, Archive, Contract!CNext, Contract!Advance
<1>3. ASSUME NEW q \in Seals, InsertRow(q), ~UNCHANGED rows
      PROVE  Contract!CNext
  <2> DEFINE new == [id |-> q, key |-> seal[q].key, sha |-> seal[q].blob,
                     retention |-> seal[q].retention]
             a == [sha |-> seal[q].blob, retention |-> seal[q].retention]
  <2>1. /\ rows[seal[q].flag] = NoRow /\ UNCHANGED now
        /\ rows' = [rows EXCEPT ![seal[q].flag] = new]
    BY <1>3 DEF InsertRow
  <2>2. seal[q] \in Request
    BY <1>0, <1>3 DEF InsertRow, At, Accepted, TypeOK
  <2>3. PICK f \in Flags : f = seal[q].flag
    BY <2>2 DEF Request
  <2>4. a \in Contract!Artifact /\ new \in Row
        /\ new.sha = a.sha /\ new.retention = a.retention
    BY <2>2 DEF Request, Row, Contract!Artifact
  <2>5. Archive' = [Archive EXCEPT ![f] = a]
    <3>1. new # NoRow
      BY <2>4, StoreAssumption
    <3>2. /\ rows'[f] = new /\ \A g \in Flags \ {f} : rows'[g] = rows[g]
      BY <1>0, <2>1, <2>3
    <3> QED
      BY <2>4, <3>1, <3>2 DEF Archive
  <2>6. Archive[f] = NoRow
    BY <2>1, <2>3 DEF Archive
  <2>7. Contract!Record(f)
    BY <2>1, <2>4, <2>5, <2>6 DEF Contract!Record, Archive
  <2> QED
    BY <2>7 DEF Contract!CNext
<1>4. ASSUME NEW w \in Workers, CommitBatch(w), ~UNCHANGED rows
      PROVE  Contract!CNext
  <2>0. PICK F \in SUBSET Flags : F = {f \in Flags : rows[f] \in job[w].deleted}
    OBVIOUS
  <2>1. /\ UNCHANGED now
        /\ rows' = [f \in Flags |-> IF rows[f] \in job[w].deleted
                                    THEN NoRow ELSE rows[f]]
    BY <1>4 DEF CommitBatch
  <2>2. \A f \in F : rows[f] # NoRow /\ rows[f].retention < now
    <3>1. job[w].deleted \subseteq Row /\ Holding(job[w])
      BY DEF StoreInv, TypeOK, JobRecord
    <3> QED
      BY <2>0, <3>1, StoreAssumption DEF Holding, InHand
  <2>3. \A f \in F : Archive[f] # NoRow /\ Archive[f].retention < now
    BY <1>0, <2>2, ArchivedIffRow
  <2>4. Archive' = [f \in Flags |-> IF f \in F THEN NoRow ELSE Archive[f]]
    BY <2>0, <2>1 DEF Archive
  <2>5. Contract!Purge(F)
    BY <2>1, <2>3, <2>4 DEF Contract!Purge, Archive
  <2> QED
    BY <2>5 DEF Contract!CNext
<1>5. CASE Next /\ ~Tick
  <2>1. UNCHANGED now
    BY <1>5 DEF Next, SealStep, post_seal_evidence, RefuseSeal, UploadBlob,
                VerifyBlob, DiscardBlob, InsertRow, CrashSeal, JobStep, StartJob,
                SelectBatch, SweepBlob, SweepRow, CommitBatch, CrashJob
  <2>2. \/ UNCHANGED rows
        \/ \E q \in Seals : InsertRow(q)
        \/ \E w \in Workers : CommitBatch(w)
    BY <1>5 DEF Next, SealStep, post_seal_evidence, RefuseSeal, UploadBlob,
                VerifyBlob, DiscardBlob, CrashSeal, JobStep, StartJob,
                SelectBatch, SweepBlob, SweepRow, CrashJob
  <2> QED
    BY <1>1, <1>3, <1>4, <2>1, <2>2
<1>6. CASE UNCHANGED vars
  BY <1>1, <1>6 DEF vars
<1> QED
  BY <1>2, <1>5, <1>6

-----------------------------------------------------------------------------
(* The types of bucket, rows, requests and runs.                           *)
THEOREM StoreTypeCorrect == Spec => []TypeOK
<1>1. StoreInv => TypeOK
  BY DEF StoreInv
<1> QED
  BY <1>1, StoreAlways, PTL

(* Sealing and retention keep the promise of EvidenceContract: a flag's    *)
(* artifact is recorded once, never altered and removed only after expiry, *)
(* whatever calls fail and whichever requests and runs overlap or die.     *)
THEOREM StoreImplementsContract == Spec => ImplementsContract
<1>1. Init => Contract!CInit
  BY DEF Init, Contract!CInit
<1> QED
  BY <1>1, StoreAlways, StoreStepRefines, PTL
     DEF Spec, ImplementsContract, Contract!CSpec

(* A row's blob is the one it vouches for, unless the row has expired or   *)
(* another request has written to its key.                                 *)
THEOREM EvidenceIntact == Spec => []RowEvidenceIntact
<1>1. StoreInv => RowEvidenceIntact
  BY DEF StoreInv
<1> QED
  BY <1>1, StoreAlways, PTL

(* run_retention_deletion leaks no blob: what is left without a row was    *)
(* left by a request that has not sealed.                                  *)
THEOREM NoBlobLeaked == Spec => []NoBlobOutlivesItsRow
<1>1. StoreInv => NoBlobOutlivesItsRow
  BY DEF StoreInv
<1> QED
  BY <1>1, StoreAlways, PTL
=============================================================================
