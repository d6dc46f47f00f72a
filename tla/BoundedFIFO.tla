----------------------------- MODULE BoundedFIFO -----------------------------
(***************************************************************************)
(* What the thread-safe queues of pthreads/08.sharedQueue promise their     *)
(* clients: a bounded first-in first-out queue whose operations take effect *)
(* one at a time.  It says nothing of locks, waiting or array positions.    *)
(***************************************************************************)
EXTENDS Naturals, Sequences

CONSTANTS Thread,      \* the client threads
          Item,        \* the values a queue stores
          NoItem,      \* what a thread holds before its first result
          Bounds       \* the capacities a queue may have

VARIABLES queue,       \* the stored items, oldest first
          bound,       \* how many items the queue may hold
          output       \* output[t]: the last item an operation gave thread t

vars == <<queue, bound, output>>

Init ==
    /\ queue = << >>
    /\ bound \in Bounds
    /\ output = [t \in Thread |-> NoItem]

Put(item) ==
    /\ Len(queue) < bound
    /\ queue' = Append(queue, item)
    /\ UNCHANGED <<bound, output>>

Take(t) ==
    /\ queue # << >>
    /\ output' = [output EXCEPT ![t] = Head(queue)]
    /\ queue' = Tail(queue)
    /\ UNCHANGED bound

LookAt(t, i) ==
    /\ i \in 1 .. Len(queue)
    /\ output' = [output EXCEPT ![t] = queue[i]]
    /\ UNCHANGED <<queue, bound>>

Clear ==
    /\ queue' = << >>
    /\ UNCHANGED <<bound, output>>

\* The oldest items survive a change of capacity, as many as now fit.
Resize(newBound) ==
    /\ bound' = newBound
    /\ queue' = SubSeq(queue, 1, IF newBound < Len(queue) THEN newBound
                                                          ELSE Len(queue))
    /\ UNCHANGED output

Next ==
    \/ \E item \in Item : Put(item)
    \/ \E t \in Thread : Take(t) \/ LookAt(t, 1) \/ LookAt(t, Len(queue))
    \/ Clear
    \/ \E newBound \in Bounds : Resize(newBound)

Spec == Init /\ [][Next]_vars
=============================================================================
