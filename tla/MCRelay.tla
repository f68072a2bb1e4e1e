------------------------------ MODULE MCRelay ------------------------------
(* Instances of Relay for model checking.  Producers are interchangeable;  *)
(* workers are not, each has its own publisher.                            *)
EXTENDS Relay, TLC

ProducerSymmetry == Permutations(Producers)
=============================================================================
