------------------------- MODULE MCBufferedInserter -------------------------
(* Instances of BufferedInserter for model checking.                       *)
EXTENDS BufferedInserter, TLC
=============================================================================
