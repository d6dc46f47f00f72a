------------------------------- MODULE ThQueue -------------------------------
(***************************************************************************)
(* The queues of Vath_pth/vath_pth/include/ThQueue.h: an STL queue with a   *)
(* capacity that can be closed, one mutex, and the conditions not_empty and *)
(* not_full.  They are broadcast, but only when the size leaves zero or the *)
(* capacity.  A pipeline has several such queues, so there is a set of      *)
(* them.                                                                    *)
(*                                                                          *)
(* A thread's call is an invocation followed by steps of the thread, each a *)
(* critical section of qlock, or the part of one up to pthread_cond_wait.   *)
(* The field size is always the length of c and is not kept.                *)
(***************************************************************************)
EXTENDS Naturals, Sequences

CONSTANTS Thread, Queue,
          Item,         \* the values of the template parameter T
          NoItem,       \* the fake value, and the answer of Add
          capacity,     \* the argument of the constructor
          Operations    \* the operations the program calls

ASSUME CapacityAssumption == capacity \in Nat \ {0}
ASSUME NoItemAssumption == NoItem \notin Item

VARIABLES c,            \* c[q]: the elements of queue q, oldest first
          active,       \* active[q]: queue q has not been closed
          not_empty,    \* not_empty[q]: the threads asleep on its not_empty
          not_full,     \* not_full[q]: the threads asleep on its not_full
          call,         \* call[t]: what thread t is executing
          result,       \* result[t]: the answer t's last call got
          tried         \* tried[q]: TryRemove took an element from the full
                        \* queue q, which has not been full again (history)

vars == <<c, active, not_empty, not_full, call, result, tried>>

Idle == [op |-> "idle"]

Plain == {"Remove", "DrainQueue", "TryRemove", "Read", "CloseQueue"}

\* A call as a client makes it.
Invocations ==
    {k \in [op : {"Add"}, q : Queue, elem : Item] \cup [op : Plain, q : Queue] :
        k.op \in Operations}

\* A call in progress: Remove has unlocked and has yet to broadcast.
Waking(q) == [op |-> "Waking", q |-> q]

Init ==
    /\ c = [q \in Queue |-> << >>]
    /\ active = [q \in Queue |-> TRUE]
    /\ not_empty = [q \in Queue |-> {}]
    /\ not_full = [q \in Queue |-> {}]
    /\ call = [t \in Thread |-> Idle]
    /\ result = [t \in Thread |-> [what |-> "none", elem |-> NoItem]]
    /\ tried = [q \in Queue |-> FALSE]

Asleep(t) == \E q \in Queue : t \in not_empty[q] \cup not_full[q]

\* Thread t, awake, runs one of the named operations on queue q.
Runs(t, q, ops) == call[t].op \in ops /\ call[t].q = q /\ ~Asleep(t)

Answer(t, what, elem) ==
    result' = [result EXCEPT ![t] = [what |-> what, elem |-> elem]]

Return(t) == call' = [call EXCEPT ![t] = Idle]

Invoke(t, k) ==
    /\ call[t] = Idle
    /\ call' = [call EXCEPT ![t] = k]
    /\ UNCHANGED <<c, active, not_empty, not_full, result, tried>>

\* pthread_cond_broadcast on the condition of q with waiters W, if test holds.
Broadcast(W, q, test) == IF test THEN [W EXCEPT ![q] = {}] ELSE W
-----------------------------------------------------------------------------
\* Mutant of Full: one element too many.
FullTooLate(q) == Len(c[q]) = capacity + 1

Full(q) == Len(c[q]) = capacity

\* Mutant of Accepts: Add takes no notice that the queue was closed.
AcceptsAlways(q) == TRUE

Accepts(q) == active[q]

AddWait(t, q) ==
    /\ Runs(t, q, {"Add"})
    /\ Full(q)
    /\ not_full' = [not_full EXCEPT ![q] = @ \cup {t}]
    /\ UNCHANGED <<c, active, not_empty, call, result, tried>>

AddElement(t, q) ==
    /\ Runs(t, q, {"Add"})
    /\ ~Full(q)
    /\ Accepts(q)
    /\ c' = [c EXCEPT ![q] = Append(@, call[t].elem)]
    /\ not_empty' = Broadcast(not_empty, q, Len(c[q]) + 1 = 1)
    /\ Answer(t, "added", NoItem)
    /\ Return(t)
    /\ tried' = [tried EXCEPT ![q] = @ /\ Len(c[q]) + 1 # capacity]
    /\ UNCHANGED <<active, not_full>>

AddRefused(t, q) ==
    /\ Runs(t, q, {"Add"})
    /\ ~Full(q)
    /\ ~Accepts(q)
    /\ Answer(t, "refused", NoItem)
    /\ Return(t)
    /\ UNCHANGED <<c, active, not_empty, not_full, tried>>

Removals == {"Remove", "DrainQueue"}

\* Remove and Read wait in the same way.
WaitNotEmpty(t, q) ==
    /\ Runs(t, q, Removals \cup {"Read"})
    /\ c[q] = << >>
    /\ active[q]
    /\ not_empty' = [not_empty EXCEPT ![q] = @ \cup {t}]
    /\ UNCHANGED <<c, active, not_full, call, result, tried>>

\* Mutant of Ended: a closed queue does not give out what is left in it.
EndedEarly(q) == ~active[q]

Ended(q) == c[q] = << >> /\ ~active[q]

\* Remove of a closed and empty queue: it unlocks first, and then broadcasts.
RemoveEnd(t, q) ==
    /\ Runs(t, q, Removals)
    /\ Ended(q)
    /\ Answer(t, "end", NoItem)
    /\ call' = [call EXCEPT ![t] = Waking(q)]
    /\ UNCHANGED <<c, active, not_empty, not_full, tried>>

WakeOthers(t, q) ==
    /\ call[t] = Waking(q)
    /\ not_empty' = Broadcast(not_empty, q, TRUE)
    /\ Return(t)
    /\ UNCHANGED <<c, active, not_full, result, tried>>

\* Mutant of NoLongerFull: the size is compared before it was decremented.
NoLongerFullLate(q) == Len(c[q]) = capacity - 1

\* The size that Remove leaves is one below the capacity.
NoLongerFull(q) == Len(c[q]) - 1 = capacity - 1

\* Mutant of Front: the newest element.
FrontIsBack(q) == c[q][Len(c[q])]

Front(q) == Head(c[q])

\* DrainQueue removes until Remove reports the end.
RemoveElement(t, q) ==
    /\ Runs(t, q, Removals)
    /\ c[q] # << >>
    /\ c' = [c EXCEPT ![q] = Tail(@)]
    /\ not_full' = Broadcast(not_full, q, NoLongerFull(q))
    /\ Answer(t, "elem", Front(q))
    /\ IF call[t].op = "DrainQueue" THEN UNCHANGED call ELSE Return(t)
    /\ UNCHANGED <<active, not_empty, tried>>

\* TryRemove never broadcasts not_full.
TryRemove(t, q) ==
    /\ Runs(t, q, {"TryRemove"})
    /\ \/ /\ c[q] = << >>
          /\ Answer(t, "nothing", NoItem)
          /\ UNCHANGED <<c, tried>>
       \/ /\ c[q] # << >>
          /\ c' = [c EXCEPT ![q] = Tail(@)]
          /\ Answer(t, "elem", Front(q))
          /\ tried' = [tried EXCEPT ![q] = @ \/ Full(q)]
    /\ Return(t)
    /\ UNCHANGED <<active, not_empty, not_full>>

Read(t, q) ==
    /\ Runs(t, q, {"Read"})
    /\ \/ Ended(q) /\ Answer(t, "end", NoItem)
       \/ c[q] # << >> /\ Answer(t, "elem", Front(q))
    /\ Return(t)
    /\ UNCHANGED <<c, active, not_empty, not_full, tried>>

\* Mutant of CloseWakes: consumers that wait are forgotten.
CloseWakesNobody(q) == FALSE

CloseWakes(q) == c[q] = << >>

CloseQueue(t, q) ==
    /\ Runs(t, q, {"CloseQueue"})
    /\ active' = [active EXCEPT ![q] = FALSE]
    /\ not_empty' = Broadcast(not_empty, q, CloseWakes(q))
    /\ Return(t)
    /\ UNCHANGED <<c, not_full, result, tried>>

\* POSIX lets pthread_cond_wait return although nobody broadcast.
SpuriousWakeup(t) ==
    /\ Asleep(t)
    /\ not_empty' = [q \in Queue |-> not_empty[q] \ {t}]
    /\ not_full' = [q \in Queue |-> not_full[q] \ {t}]
    /\ UNCHANGED <<c, active, call, result, tried>>
-----------------------------------------------------------------------------
Step(t) ==
    \E q \in Queue :
       \/ AddWait(t, q) \/ AddElement(t, q) \/ AddRefused(t, q)
       \/ WaitNotEmpty(t, q)
       \/ RemoveEnd(t, q) \/ WakeOthers(t, q) \/ RemoveElement(t, q)
       \/ TryRemove(t, q) \/ Read(t, q) \/ CloseQueue(t, q)

Next ==
    \E t \in Thread :
       \/ \E k \in Invocations : Invoke(t, k)
       \/ Step(t)
       \/ SpuriousWakeup(t)

Spec == Init /\ [][Next]_vars
-----------------------------------------------------------------------------
\* The type of every variable; a queue never holds more than its capacity.
TypeOK ==
    /\ c \in [Queue -> Seq(Item)]
    /\ \A q \in Queue : Len(c[q]) <= capacity
    /\ active \in [Queue -> BOOLEAN]
    /\ not_empty \in [Queue -> SUBSET Thread]
    /\ not_full \in [Queue -> SUBSET Thread]
    /\ call \in [Thread -> [op : {"Add"}, q : Queue, elem : Item]
                             \cup [op : Plain \cup {"Waking"}, q : Queue] \cup {Idle}]
    /\ result \in [Thread -> [what : {"none", "added", "refused", "elem", "nothing", "end"},
                              elem : Item \cup {NoItem}]]
    /\ tried \in [Queue -> BOOLEAN]

\* Broadcasting only when the size leaves zero or the capacity is enough: a
\* consumer sleeps only while its queue is empty and open, a producer only
\* while its queue is full, unless TryRemove, which broadcasts nothing, has
\* made room.  No wakeup but that one is ever owed to anybody.
ConsumersSleepOnEmpty ==
    \A q \in Queue : not_empty[q] # {} => c[q] = << >> /\ active[q]

ProducersSleepOnFull ==
    \A q \in Queue : not_full[q] # {} => Full(q) \/ tried[q]

SleepersHaveReason == ConsumersSleepOnEmpty /\ ProducersSleepOnFull

\* ThQueue.h implements the closable queue: in order, within the capacity, no
\* element accepted after the close, and the end never reported too early.
Abstract == INSTANCE ClosableFIFO WITH
    bound <- capacity, queue <- c, open <- active, output <- result

ImplementsClosableFIFO == Abstract!Spec
=============================================================================
