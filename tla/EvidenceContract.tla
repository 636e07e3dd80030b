--------------------------- MODULE EvidenceContract ---------------------------
(***************************************************************************)
(* What the evidence store promises about a flag's primary artifact        *)
(* (docs/06-evidence-audit-store-design.md): it is recorded once, is never *)
(* altered, and disappears only after its retention horizon has passed.    *)
(* EvidenceStore is shown to implement it.                                 *)
(***************************************************************************)
EXTENDS Naturals

CONSTANTS Flags,        \* flags that may carry evidence
          Digests,      \* SHA-256 values of the blobs clients offer
          Horizons,     \* retention horizons
          NoArtifact    \* the flag has no artifact

VARIABLES archive,      \* archive[f]: the artifact recorded for f
          clock

cvars == <<archive, clock>>

Artifact == [sha : Digests, retention : Horizons]

CInit == /\ archive = [f \in Flags |-> NoArtifact]
         /\ clock = 0

(* An artifact is recorded for a flag that has none.                       *)
Record(f) ==
    /\ archive[f] = NoArtifact
    /\ \E a \in Artifact : archive' = [archive EXCEPT ![f] = a]
    /\ clock' = clock

(* A set of expired artifacts is removed at once.                          *)
Purge(F) ==
    /\ \A f \in F : archive[f] # NoArtifact /\ archive[f].retention < clock
    /\ archive' = [f \in Flags |-> IF f \in F THEN NoArtifact ELSE archive[f]]
    /\ clock' = clock

Advance == clock' = clock + 1 /\ archive' = archive

CNext == \/ \E f \in Flags : Record(f)
         \/ \E F \in SUBSET Flags : Purge(F)
         \/ Advance

CSpec == CInit /\ [][CNext]_cvars
=============================================================================
