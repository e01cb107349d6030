----------------------------- MODULE MCUiAlarms -----------------------------
(***************************************************************************)
(* The UI thread with the real timers, in half seconds, and a score of     *)
(* three steps, so that violations and an emergency bring it to its bottom.*)
(***************************************************************************)
EXTENDS UiAlarms
=============================================================================
