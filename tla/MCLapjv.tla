------------------------------ MODULE MCLapjv ------------------------------
(***************************************************************************)
(* Every table of up to three tracks and three detections, five together,  *)
(* over three costs: 0, one just below and one above the limit of four.    *)
(* Ties are frequent, so that rows displace one another, wait for a second *)
(* round and need augmenting paths of several steps.                       *)
(***************************************************************************)
EXTENDS Lapjv
=============================================================================
