---------------------------- MODULE MCSlaveNode -----------------------------
(***************************************************************************)
(* SlaveNode with the limits of the code, in ticks of 500 ms.              *)
(***************************************************************************)
EXTENDS SlaveSensors
=============================================================================
