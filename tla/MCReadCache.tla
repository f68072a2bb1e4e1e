---------------------------- MODULE MCReadCache ----------------------------
(* Instances of ReadCache for model checking.                              *)
EXTENDS ReadCache, TLC
=============================================================================
