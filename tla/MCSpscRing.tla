----------------------------- MODULE MCSpscRing -----------------------------
(***************************************************************************)
(* A ring of four slots and two item values: three items fit, so the wrap  *)
(* of both indices, the full ring and the empty ring are all reached.      *)
(***************************************************************************)
EXTENDS SpscRing
=============================================================================
