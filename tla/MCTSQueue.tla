------------------------------ MODULE MCTSQueue ------------------------------
(* TLC's instance of TSQueue: three threads calling every operation.       *)
EXTENDS TSQueue, TLC

AllOperations == {"append"} \cup Plain \cup {"setCapacity"}

\* What a client does that resizes a queue in use.
QueueAndResize == {"append", "removeFirst", "setCapacity"}

\* The threads are interchangeable: no action and no property names one.
ThreadSymmetry == Permutations(Thread)
=============================================================================
