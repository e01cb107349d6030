---------------------------- MODULE MCTrackLife ----------------------------
(***************************************************************************)
(* Four tracks over six frames, three of which a track may stay lost: it   *)
(* can be born, lost, found after it expired, and be a double of another   *)
(* that is older or as old.                                                *)
(***************************************************************************)
EXTENDS TrackLife
=============================================================================
