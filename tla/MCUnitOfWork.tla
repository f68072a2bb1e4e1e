---------------------------- MODULE MCUnitOfWork ----------------------------
(* Instances of UnitOfWork for model checking.  Tasks run the same program *)
(* and rows are alike.                                                     *)
EXTENDS UnitOfWork, TLC

TaskAndRowSymmetry == Permutations(Tasks) \union Permutations(Rows)
=============================================================================
