---------------------------- MODULE MCSlaveAlarm ----------------------------
(***************************************************************************)
(* SlaveAlarm is finite as it stands.                                      *)
(***************************************************************************)
EXTENDS SlaveAlarm
=============================================================================
