-------------------------- MODULE MCBuzzerRequest ---------------------------
(***************************************************************************)
(* The camera's retry time of the code and two packets on their way, so    *)
(* that a change can overtake the slave once.                              *)
(***************************************************************************)
EXTENDS BuzzerRequest
=============================================================================
