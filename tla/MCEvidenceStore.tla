--------------------------- MODULE MCEvidenceStore ---------------------------
(***************************************************************************)
(* TLC instance of EvidenceStore.  The uploads include two different blobs *)
(* for one key, a second flag, and one flag under a second key.            *)
(***************************************************************************)
EXTENDS EvidenceStore

CONSTANTS f1, f2, s1, clip, frame, c1, c2

MCUploads == {<<s1, f1, clip, c1>>, <<s1, f1, clip, c2>>,
              <<s1, f1, frame, c1>>, <<s1, f2, clip, c1>>}
=============================================================================
