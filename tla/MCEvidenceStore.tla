-------------------------- MODULE MCEvidenceStore ---------------------------
(***************************************************************************)
(* Three seconds and one kind of event: two events may have one name or    *)
(* two.  The queue and the cleaning are scaled down so that a full queue,  *)
(* a directory with too few files and one with enough of them all occur.   *)
(***************************************************************************)
EXTENDS EvidenceStore
=============================================================================
