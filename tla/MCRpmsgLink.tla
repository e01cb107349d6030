---------------------------- MODULE MCRpmsgLink ----------------------------
(***************************************************************************)
(* Descriptor numbers for RpmsgLink: 0 to 2 are the standard streams.      *)
(* Three numbers hold the endpoint, a file and the control device at once, *)
(* or two endpoints while an old one waits for its close, so that numbers  *)
(* are reused and also run out.                                            *)
(***************************************************************************)
EXTENDS RpmsgLink
=============================================================================
