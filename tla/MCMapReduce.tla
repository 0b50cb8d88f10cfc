----------------------------- MODULE MCMapReduce -----------------------------
(***************************************************************************)
(* The MapReduce job instantiated for TLC: two input files, of which the   *)
(* first has a key for each partition and the second for one of them.      *)
(***************************************************************************)
EXTENDS MapReduceProperties

MCEmits == [m \in MapTask |-> IF m = 0 THEN {2, 3} ELSE {3}]

=============================================================================
