---------------------------- MODULE MCRepository ----------------------------
(* Instances of Repository for model checking.  Units run the same program. *)
EXTENDS Repository, TLC

CONSTANT FirstRow

UnitSymmetry == Permutations(Units)

(* Versioned tables with a unique key, with soft delete and without, and   *)
(* the others with soft delete.                                            *)
SomeModels == {m \in Model : m.versioned = m.unique /\ (m.versioned \/ m.soft)}

(* An update that is lost to a row that was deleted and inserted again     *)
(* takes three calls; the rest takes two, and keys that repeat two rows.   *)
CallsOf == [m \in SomeModels |-> IF m.versioned /\ ~m.soft THEN 3 ELSE 2]

KeysOf == [m \in SomeModels |-> IF m.versioned THEN {FirstRow} ELSE Rows]
=============================================================================
