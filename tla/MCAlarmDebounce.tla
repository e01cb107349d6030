-------------------------- MODULE MCAlarmDebounce ---------------------------
(***************************************************************************)
(* The two detectors.  The code confirms both with one report; the gas     *)
(* detector gets two here, so that the count and its window are used too.  *)
(***************************************************************************)
EXTENDS AlarmDebounce

CONSTANTS fire, gas

MCConfirm == [c \in {fire, gas} |-> IF c = fire THEN 1 ELSE 2]
=============================================================================
