-------------------------- MODULE MCViolationLatch --------------------------
(***************************************************************************)
(* Two workers, one of whom may be forgotten when both have been locked.   *)
(***************************************************************************)
EXTENDS ViolationLatch

CONSTANTS t1, t2
=============================================================================
