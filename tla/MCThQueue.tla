------------------------------ MODULE MCThQueue ------------------------------
(* TLC's instance of ThQueue: threads that call every operation of a queue. *)
EXTENDS ThQueue, TLC

AllOperations == {"Add"} \cup Plain

ThreadSymmetry == Permutations(Thread)
=============================================================================
