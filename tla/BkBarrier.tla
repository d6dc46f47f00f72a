------------------------------ MODULE BkBarrier ------------------------------
(***************************************************************************)
(* The barrier of Vath_pth/vath_pth/include/BkBarrier.h, at which the       *)
(* workers of a pool sleep until a client releases them.  The header only   *)
(* declares it; its operations are compiled into libvath.a, and this is     *)
(* what the objects there do, as far as the pools' code can tell.  Each     *)
(* runs under the barrier's mutex, and each waits in a loop that tests its  *)
(* condition again, so a spurious wakeup changes nothing.                   *)
(***************************************************************************)
EXTENDS Integers

CONSTANT Worker         \* the threads that meet at the barrier
CONSTANT nTh            \* how many of them there are

VARIABLES counter,      \* how many workers have yet to arrive
          cycle,        \* toggled by every release
          is_idle,      \* set by the last worker to arrive
          myCycle       \* myCycle[w]: the cycle when worker w last arrived

barrierVars == <<counter, cycle, is_idle, myCycle>>

Init ==
    /\ counter = nTh
    /\ cycle = TRUE
    /\ is_idle = FALSE
    /\ myCycle = [w \in Worker |-> TRUE]

\* Wait(), up to the point where the worker goes to sleep.
Arrive(w) ==
    /\ myCycle' = [myCycle EXCEPT ![w] = cycle]
    /\ counter' = IF counter = 1 THEN nTh ELSE counter - 1
    /\ is_idle' = (is_idle \/ counter = 1)
    /\ UNCHANGED cycle

\* Wait() returns to worker w.
Leave(w) == cycle # myCycle[w] /\ UNCHANGED barrierVars

\* WaitForIdle() returns to the client.
WaitForIdle == is_idle /\ UNCHANGED barrierVars

ReleaseThreads ==
    /\ is_idle' = FALSE
    /\ cycle' = ~cycle
    /\ UNCHANGED <<counter, myCycle>>

Asleep(w) == cycle = myCycle[w]

TypeOK ==
    /\ counter \in 1 .. nTh
    /\ cycle \in BOOLEAN
    /\ is_idle \in BOOLEAN
    /\ myCycle \in [Worker -> BOOLEAN]
=============================================================================
