---------------------------- MODULE ClosableFIFO ----------------------------
(***************************************************************************)
(* What the closable queues of Vath_pth/vath_pth/include/ThQueue.h promise  *)
(* their clients: bounded first-in first-out queues that take no more       *)
(* elements once closed, go on delivering those they hold, and report the   *)
(* end to a consumer only when closed and empty.                            *)
(***************************************************************************)
EXTENDS Naturals, Sequences

CONSTANTS Thread, Queue, Item,
          NoItem,      \* what comes with an answer that carries no element
          bound        \* how many elements a queue may hold

VARIABLES queue,       \* queue[q]: the elements of queue q, oldest first
          open,        \* open[q]: queue q has not been closed
          output       \* output[t]: the last answer thread t was given

vars == <<queue, open, output>>

Init ==
    /\ queue = [q \in Queue |-> << >>]
    /\ open = [q \in Queue |-> TRUE]
    /\ output = [t \in Thread |-> [what |-> "none", elem |-> NoItem]]

Answer(t, what, elem) ==
    output' = [output EXCEPT ![t] = [what |-> what, elem |-> elem]]

Put(t, q, elem) ==
    /\ open[q]
    /\ Len(queue[q]) < bound
    /\ queue' = [queue EXCEPT ![q] = Append(@, elem)]
    /\ Answer(t, "added", NoItem)
    /\ UNCHANGED open

Refuse(t, q) ==
    /\ ~open[q]
    /\ Answer(t, "refused", NoItem)
    /\ UNCHANGED <<queue, open>>

Take(t, q) ==
    /\ queue[q] # << >>
    /\ queue' = [queue EXCEPT ![q] = Tail(@)]
    /\ Answer(t, "elem", Head(queue[q]))
    /\ UNCHANGED open

Look(t, q) ==
    /\ queue[q] # << >>
    /\ Answer(t, "elem", Head(queue[q]))
    /\ UNCHANGED <<queue, open>>

\* A consumer that does not wait finds nothing.
Miss(t, q) ==
    /\ queue[q] = << >>
    /\ Answer(t, "nothing", NoItem)
    /\ UNCHANGED <<queue, open>>

End(t, q) ==
    /\ queue[q] = << >>
    /\ ~open[q]
    /\ Answer(t, "end", NoItem)
    /\ UNCHANGED <<queue, open>>

Close(q) ==
    /\ open' = [open EXCEPT ![q] = FALSE]
    /\ UNCHANGED <<queue, output>>

Next ==
    \E q \in Queue :
       \/ Close(q)
       \/ \E t \in Thread :
             \/ \E elem \in Item : Put(t, q, elem)
             \/ Refuse(t, q) \/ Take(t, q) \/ Look(t, q) \/ Miss(t, q) \/ End(t, q)

Spec == Init /\ [][Next]_vars
=============================================================================
