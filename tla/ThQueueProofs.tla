---------------------------- MODULE ThQueueProofs ----------------------------
(***************************************************************************)
(* Theorems about ThQueue, for any threads, queues, elements and capacity,  *)
(* and whatever operations the program calls.                               *)
(***************************************************************************)
EXTENDS ThQueue, TLAPS

\* What a thread can be executing.
Calls == [op : {"Add"}, q : Queue, elem : Item]
           \cup [op : Plain \cup {"Waking"}, q : Queue] \cup {Idle}

\* A thread that runs Add has an element to add.
LEMMA AddCarriesElement ==
    ASSUME TypeOK, NEW t \in Thread, NEW q \in Queue, Runs(t, q, {"Add"})
    PROVE  call[t].elem \in Item
<1>1. call[t] \in Calls /\ call[t].op = "Add"
  BY DEF TypeOK, Runs, Calls
<1>2. call[t] \in [op : {"Add"}, q : Queue, elem : Item]
  BY <1>1 DEF Calls, Plain, Idle
<1>3. QED
  BY <1>2

\* Waking up some of the waiters keeps the type of the sets of waiters.
LEMMA BroadcastType ==
    ASSUME NEW W \in [Queue -> SUBSET Thread], NEW q \in Queue, NEW test
    PROVE  Broadcast(W, q, test) \in [Queue -> SUBSET Thread]
  BY DEF Broadcast

\* Answering a thread keeps the type of the answers.
LEMMA AnswerType ==
    ASSUME TypeOK, NEW t \in Thread, NEW elem \in Item \cup {NoItem},
           NEW what \in {"none", "added", "refused", "elem", "nothing", "end"},
           Answer(t, what, elem)
    PROVE  result' \in [Thread -> [what : {"none", "added", "refused", "elem",
                                           "nothing", "end"},
                                   elem : Item \cup {NoItem}]]
  BY DEF TypeOK, Answer

\* Returning keeps the type of the calls.
LEMMA ReturnType ==
    ASSUME TypeOK, NEW t \in Thread, Return(t)
    PROVE  call' \in [Thread -> Calls]
  BY DEF TypeOK, Return, Calls

\* Appending to a queue with room keeps it within its capacity.
LEMMA PutType ==
    ASSUME TypeOK, NEW q \in Queue, NEW elem \in Item, ~Full(q),
           c' = [c EXCEPT ![q] = Append(@, elem)]
    PROVE  /\ c' \in [Queue -> Seq(Item)]
           /\ \A r \in Queue : Len(c'[r]) <= capacity
<1>1. /\ c[q] \in Seq(Item) /\ Len(c[q]) \in Nat /\ Len(c[q]) <= capacity
      /\ Len(c[q]) # capacity
  BY DEF TypeOK, Full
<1>2. Append(c[q], elem) \in Seq(Item) /\ Len(Append(c[q], elem)) = Len(c[q]) + 1
  BY <1>1
<1>3. Len(c[q]) + 1 <= capacity
  BY <1>1, CapacityAssumption
<1>4. QED
  BY <1>2, <1>3 DEF TypeOK

\* Removing the oldest element keeps a queue within its capacity.
LEMMA TakeType ==
    ASSUME TypeOK, NEW q \in Queue, c[q] # << >>,
           c' = [c EXCEPT ![q] = Tail(@)]
    PROVE  /\ c' \in [Queue -> Seq(Item)]
           /\ \A r \in Queue : Len(c'[r]) <= capacity
           /\ Front(q) \in Item
<1>1. c[q] \in Seq(Item) /\ Len(c[q]) \in Nat /\ Len(c[q]) <= capacity
  BY DEF TypeOK
<1>2. /\ Tail(c[q]) \in Seq(Item) /\ Len(Tail(c[q])) = Len(c[q]) - 1
      /\ Head(c[q]) \in Item
  BY <1>1
<1>3. Len(c[q]) - 1 <= capacity
  BY <1>1, CapacityAssumption
<1>4. QED
  BY <1>2, <1>3 DEF TypeOK, Front

\* No step takes a field outside its type.
LEMMA TypeStep ==
    ASSUME TypeOK, [Next]_vars
    PROVE  TypeOK'
<1>type. /\ c \in [Queue -> Seq(Item)]
         /\ \A r \in Queue : Len(c[r]) <= capacity
         /\ active \in [Queue -> BOOLEAN]
         /\ not_empty \in [Queue -> SUBSET Thread]
         /\ not_full \in [Queue -> SUBSET Thread]
         /\ call \in [Thread -> Calls]
         /\ tried \in [Queue -> BOOLEAN]
  BY DEF TypeOK, Calls
<1>1. ASSUME NEW t \in Thread, NEW k \in Invocations, Invoke(t, k)
      PROVE  TypeOK'
  BY <1>1 DEF TypeOK, Invoke, Invocations
<1>2. ASSUME NEW t \in Thread, SpuriousWakeup(t)
      PROVE  TypeOK'
  BY <1>2 DEF TypeOK, SpuriousWakeup
<1>3. ASSUME NEW t \in Thread, NEW q \in Queue, AddWait(t, q)
      PROVE  TypeOK'
  BY <1>3 DEF TypeOK, AddWait
<1>4. ASSUME NEW t \in Thread, NEW q \in Queue, AddElement(t, q)
      PROVE  TypeOK'
  <2>1. call[t].elem \in Item
    BY <1>4, AddCarriesElement DEF AddElement
  <2>2. /\ c' \in [Queue -> Seq(Item)]
        /\ \A r \in Queue : Len(c'[r]) <= capacity
    BY <1>4, <2>1, PutType DEF AddElement
  <2>3. not_empty' \in [Queue -> SUBSET Thread]
    BY <1>4, <1>type, BroadcastType DEF AddElement
  <2>4. call' \in [Thread -> Calls]
    BY <1>4, ReturnType DEF AddElement
  <2>5. tried' \in [Queue -> BOOLEAN]
    BY <1>4, <1>type DEF AddElement
  <2>6. QED
    BY <1>4, <2>2, <2>3, <2>4, <2>5, AnswerType DEF TypeOK, AddElement, Calls
<1>5. ASSUME NEW t \in Thread, NEW q \in Queue, AddRefused(t, q)
      PROVE  TypeOK'
  BY <1>5, AnswerType, ReturnType DEF TypeOK, AddRefused, Calls
<1>6. ASSUME NEW t \in Thread, NEW q \in Queue, WaitNotEmpty(t, q)
      PROVE  TypeOK'
  BY <1>6 DEF TypeOK, WaitNotEmpty
<1>7. ASSUME NEW t \in Thread, NEW q \in Queue, RemoveEnd(t, q)
      PROVE  TypeOK'
  BY <1>7, AnswerType DEF TypeOK, RemoveEnd, Waking
<1>8. ASSUME NEW t \in Thread, NEW q \in Queue, WakeOthers(t, q)
      PROVE  TypeOK'
  BY <1>8, ReturnType, BroadcastType DEF TypeOK, WakeOthers, Calls
<1>9. ASSUME NEW t \in Thread, NEW q \in Queue, RemoveElement(t, q)
      PROVE  TypeOK'
  <2>1. /\ c' \in [Queue -> Seq(Item)]
        /\ \A r \in Queue : Len(c'[r]) <= capacity
        /\ Front(q) \in Item
    BY <1>9, TakeType DEF RemoveElement
  <2>2. not_full' \in [Queue -> SUBSET Thread]
    BY <1>9, <1>type, BroadcastType DEF RemoveElement
  <2>3. call' \in [Thread -> Calls]
    BY <1>9, <1>type, ReturnType DEF RemoveElement
  <2>4. QED
    BY <1>9, <2>1, <2>2, <2>3, AnswerType DEF TypeOK, RemoveElement, Calls
<1>10. ASSUME NEW t \in Thread, NEW q \in Queue, TryRemove(t, q)
       PROVE  TypeOK'
  <2>1. CASE c[q] = << >> /\ Answer(t, "nothing", NoItem) /\ UNCHANGED <<c, tried>>
    BY <1>10, <2>1, AnswerType, ReturnType DEF TypeOK, TryRemove, Calls
  <2>2. CASE /\ c[q] # << >>
             /\ c' = [c EXCEPT ![q] = Tail(@)]
             /\ Answer(t, "elem", Front(q))
             /\ tried' = [tried EXCEPT ![q] = @ \/ Full(q)]
    <3>1. /\ c' \in [Queue -> Seq(Item)]
          /\ \A r \in Queue : Len(c'[r]) <= capacity
          /\ Front(q) \in Item
      BY <2>2, TakeType
    <3>2. tried' \in [Queue -> BOOLEAN]
      BY <2>2, <1>type
    <3>3. QED
      BY <1>10, <2>2, <3>1, <3>2, AnswerType, ReturnType DEF TypeOK, TryRemove, Calls
  <2>3. QED
    BY <1>10, <2>1, <2>2 DEF TryRemove
<1>11. ASSUME NEW t \in Thread, NEW q \in Queue, Read(t, q)
       PROVE  TypeOK'
  <2>1. c[q] # << >> => Front(q) \in Item
    BY <1>type DEF Front
  <2>2. QED
    BY <1>11, <2>1, AnswerType, ReturnType DEF TypeOK, Read, Calls
<1>12. ASSUME NEW t \in Thread, NEW q \in Queue, CloseQueue(t, q)
       PROVE  TypeOK'
  BY <1>12, ReturnType, BroadcastType DEF TypeOK, CloseQueue, Calls
<1>13. CASE UNCHANGED vars
  BY <1>13 DEF TypeOK, vars
<1>14. QED
  BY <1>1, <1>2, <1>3, <1>4, <1>5, <1>6, <1>7, <1>8, <1>9, <1>10, <1>11, <1>12,
     <1>13 DEF Next, Step

\* Every field keeps its type, and no queue exceeds its capacity, whatever
\* the threads of ThQueue.h's clients call and in whatever order.
THEOREM TypeCorrect == Spec => []TypeOK
<1>1. Init => TypeOK
  BY CapacityAssumption DEF Init, TypeOK
<1>2. TypeOK /\ [Next]_vars => TypeOK'
  BY TypeStep
<1>3. QED
  BY <1>1, <1>2, PTL DEF Spec
-----------------------------------------------------------------------------
\* The reason to sleep, queue by queue.
Reason(q) ==
    /\ not_empty[q] # {} => c[q] = << >> /\ active[q]
    /\ not_full[q] # {} => Full(q) \/ tried[q]

LEMMA ReasonIsEnough == SleepersHaveReason <=> \A q \in Queue : Reason(q)
  BY DEF SleepersHaveReason, ConsumersSleepOnEmpty, ProducersSleepOnFull, Reason

\* A queue nobody touched leaves its sleepers with their reason; so does one
\* that lost sleepers.
LEMMA ReasonFrame ==
    ASSUME NEW q \in Queue, Reason(q),
           c'[q] = c[q], active'[q] = active[q], tried'[q] = tried[q],
           not_empty'[q] \subseteq not_empty[q], not_full'[q] \subseteq not_full[q]
    PROVE  Reason(q)'
  BY DEF Reason, Full

\* Add wakes the consumers of an empty queue, and fills it up or leaves the
\* producers that still sleep to what TryRemove has done.
LEMMA ReasonAfterAdd ==
    ASSUME TypeOK, NEW t \in Thread, NEW q \in Queue, Reason(q), AddElement(t, q)
    PROVE  Reason(q)'
<1>1. /\ c[q] \in Seq(Item) /\ Len(c[q]) \in Nat
      /\ c'[q] = Append(c[q], call[t].elem)
      /\ Len(c'[q]) = Len(c[q]) + 1
  BY DEF TypeOK, AddElement
<1>2. not_empty'[q] = {}
  <2>1. CASE c[q] = << >>
    BY <2>1, <1>1 DEF AddElement, Broadcast, TypeOK
  <2>2. CASE c[q] # << >>
    BY <2>2 DEF AddElement, Broadcast, TypeOK, Reason
  <2>3. QED
    BY <2>1, <2>2
<1>3. not_full'[q] # {} => Full(q)' \/ tried'[q]
  <2>1. tried'[q] = (tried[q] /\ Len(c[q]) + 1 # capacity)
    BY DEF AddElement, TypeOK
  <2>2. Full(q)' <=> Len(c[q]) + 1 = capacity
    BY <1>1 DEF Full
  <2>3. not_full'[q] # {} => tried[q]
    BY DEF AddElement, Reason
  <2>4. QED
    BY <2>1, <2>2, <2>3
<1>4. QED
  BY <1>2, <1>3 DEF Reason

\* Remove wakes the producers of a full queue; those it leaves asleep were
\* left so by TryRemove.
LEMMA ReasonAfterRemove ==
    ASSUME TypeOK, NEW t \in Thread, NEW q \in Queue, Reason(q), RemoveElement(t, q)
    PROVE  Reason(q)'
<1>1. not_empty'[q] = {}
  BY DEF RemoveElement, Reason
<1>2. not_full'[q] # {} => tried'[q]
  <2>1. Len(c[q]) \in Nat /\ capacity \in Nat /\ not_full' = Broadcast(not_full, q, NoLongerFull(q))
    BY CapacityAssumption DEF TypeOK, RemoveElement
  <2>2. CASE Full(q)
    <3>1. NoLongerFull(q)
      BY <2>2 DEF Full, NoLongerFull
    <3>2. QED
      BY <2>1, <3>1 DEF Broadcast, TypeOK
  <2>3. CASE ~Full(q)
    <3>1. not_full'[q] # {} => not_full[q] # {}
      BY <2>1 DEF Broadcast, TypeOK
    <3>2. QED
      BY <2>3, <3>1 DEF RemoveElement, Reason
  <2>4. QED
    BY <2>2, <2>3
<1>3. QED
  BY <1>1, <1>2 DEF Reason

\* No step leaves a thread asleep without a reason.
LEMMA ReasonStep ==
    ASSUME TypeOK, \A q \in Queue : Reason(q), [Next]_vars
    PROVE  \A q \in Queue : Reason(q)'
<1> SUFFICES ASSUME NEW r \in Queue
             PROVE  Reason(r)'
  OBVIOUS
<1>0. Reason(r)
  OBVIOUS
<1>1. ASSUME NEW t \in Thread, NEW k \in Invocations, Invoke(t, k)
      PROVE  Reason(r)'
  BY <1>0, <1>1, ReasonFrame DEF Invoke
<1>2. ASSUME NEW t \in Thread, SpuriousWakeup(t)
      PROVE  Reason(r)'
  BY <1>0, <1>2, ReasonFrame DEF SpuriousWakeup
<1>3. ASSUME NEW t \in Thread, NEW q \in Queue, AddWait(t, q)
      PROVE  Reason(r)'
  <2>1. CASE r = q
    BY <1>0, <1>3, <2>1 DEF AddWait, Reason, Full
  <2>2. CASE r # q
    BY <1>0, <1>3, <2>2, ReasonFrame DEF AddWait, TypeOK
  <2>3. QED
    BY <2>1, <2>2
<1>4. ASSUME NEW t \in Thread, NEW q \in Queue, AddElement(t, q)
      PROVE  Reason(r)'
  <2>1. CASE r # q
    BY <1>0, <1>4, <2>1, ReasonFrame DEF AddElement, TypeOK, Broadcast
  <2>2. QED
    BY <1>0, <1>4, <2>1, ReasonAfterAdd
<1>5. ASSUME NEW t \in Thread, NEW q \in Queue, AddRefused(t, q)
      PROVE  Reason(r)'
  BY <1>0, <1>5, ReasonFrame DEF AddRefused
<1>6. ASSUME NEW t \in Thread, NEW q \in Queue, WaitNotEmpty(t, q)
      PROVE  Reason(r)'
  <2>1. CASE r = q
    BY <1>0, <1>6, <2>1 DEF WaitNotEmpty, Reason, Full
  <2>2. CASE r # q
    BY <1>0, <1>6, <2>2, ReasonFrame DEF WaitNotEmpty, TypeOK
  <2>3. QED
    BY <2>1, <2>2
<1>7. ASSUME NEW t \in Thread, NEW q \in Queue, RemoveEnd(t, q)
      PROVE  Reason(r)'
  BY <1>0, <1>7, ReasonFrame DEF RemoveEnd
<1>8. ASSUME NEW t \in Thread, NEW q \in Queue, WakeOthers(t, q)
      PROVE  Reason(r)'
  BY <1>0, <1>8, ReasonFrame DEF WakeOthers, TypeOK, Broadcast
<1>9. ASSUME NEW t \in Thread, NEW q \in Queue, RemoveElement(t, q)
      PROVE  Reason(r)'
  <2>1. CASE r # q
    BY <1>0, <1>9, <2>1, ReasonFrame DEF RemoveElement, TypeOK, Broadcast
  <2>2. QED
    BY <1>0, <1>9, <2>1, ReasonAfterRemove
<1>10. ASSUME NEW t \in Thread, NEW q \in Queue, TryRemove(t, q)
       PROVE  Reason(r)'
  <2>1. CASE r = q /\ c[q] # << >>
    BY <1>0, <1>10, <2>1 DEF TryRemove, Reason, Full, TypeOK
  <2>2. CASE r # q \/ c[q] = << >>
    BY <1>0, <1>10, <2>2, ReasonFrame DEF TryRemove, TypeOK
  <2>3. QED
    BY <2>1, <2>2
<1>11. ASSUME NEW t \in Thread, NEW q \in Queue, Read(t, q)
       PROVE  Reason(r)'
  BY <1>0, <1>11, ReasonFrame DEF Read
<1>12. ASSUME NEW t \in Thread, NEW q \in Queue, CloseQueue(t, q)
       PROVE  Reason(r)'
  <2>1. CASE r = q
    <3>1. not_empty'[q] = {}
      BY <1>0, <1>12, <2>1 DEF CloseQueue, Broadcast, CloseWakes, Reason, TypeOK
    <3>2. QED
      BY <1>0, <1>12, <2>1, <3>1 DEF CloseQueue, Reason, Full
  <2>2. CASE r # q
    BY <1>0, <1>12, <2>2, ReasonFrame DEF CloseQueue, TypeOK, Broadcast
  <2>3. QED
    BY <2>1, <2>2
<1>13. CASE UNCHANGED vars
  BY <1>0, <1>13, ReasonFrame DEF vars
<1>14. QED
  BY <1>1, <1>2, <1>3, <1>4, <1>5, <1>6, <1>7, <1>8, <1>9, <1>10, <1>11, <1>12,
     <1>13 DEF Next, Step

\* Broadcasting only when the size leaves zero or the capacity is enough, for
\* any number of producers and consumers: ThQueue.h leaves nobody asleep who
\* could proceed, except producers for whom only TryRemove has made room.
THEOREM NobodySleepsInVain == Spec => []SleepersHaveReason
<1>1. Init => \A q \in Queue : Reason(q)
  BY DEF Init, Reason
<1>2. TypeOK /\ (\A q \in Queue : Reason(q)) /\ [Next]_vars
         => (\A q \in Queue : Reason(q))'
  BY ReasonStep
<1>3. (\A q \in Queue : Reason(q)) => SleepersHaveReason
  BY ReasonIsEnough
<1>4. QED
  BY <1>1, <1>2, <1>3, TypeCorrect, PTL DEF Spec
-----------------------------------------------------------------------------
\* Every step of the code is a step of the abstract queues, or invisible.
LEMMA RefinesStep ==
    ASSUME TypeOK, [Next]_vars
    PROVE  [Abstract!Next]_(Abstract!vars)
<1> USE DEF Abstract!Next
<1>0. ASSUME UNCHANGED <<c, active, result>>
      PROVE  UNCHANGED Abstract!vars
  BY <1>0 DEF Abstract!vars
<1>1. ASSUME NEW t \in Thread, NEW k \in Invocations, Invoke(t, k)
      PROVE  UNCHANGED Abstract!vars
  BY <1>0, <1>1 DEF Invoke
<1>2. ASSUME NEW t \in Thread, SpuriousWakeup(t)
      PROVE  UNCHANGED Abstract!vars
  BY <1>0, <1>2 DEF SpuriousWakeup
<1>3. ASSUME NEW t \in Thread, NEW q \in Queue,
             AddWait(t, q) \/ WaitNotEmpty(t, q) \/ WakeOthers(t, q)
      PROVE  UNCHANGED Abstract!vars
  BY <1>0, <1>3 DEF AddWait, WaitNotEmpty, WakeOthers
<1>4. ASSUME NEW t \in Thread, NEW q \in Queue, AddElement(t, q)
      PROVE  Abstract!Next
  <2>1. PICK elem \in Item : elem = call[t].elem
    BY <1>4, AddCarriesElement DEF AddElement
  <2>2. Len(c[q]) < capacity
    <3>1. Len(c[q]) \in Nat /\ Len(c[q]) <= capacity /\ Len(c[q]) # capacity
      BY <1>4 DEF TypeOK, AddElement, Full
    <3>2. QED
      BY <3>1, CapacityAssumption
  <2>3. Abstract!Put(t, q, elem)
    BY <1>4, <2>1, <2>2 DEF AddElement, Accepts, Answer, Abstract!Put, Abstract!Answer
  <2>4. QED
    BY <2>3
<1>5. ASSUME NEW t \in Thread, NEW q \in Queue, AddRefused(t, q)
      PROVE  Abstract!Next
  BY <1>5 DEF AddRefused, Accepts, Answer, Abstract!Refuse, Abstract!Answer
<1>6. ASSUME NEW t \in Thread, NEW q \in Queue, RemoveEnd(t, q)
      PROVE  Abstract!Next
  BY <1>6 DEF RemoveEnd, Ended, Answer, Abstract!End, Abstract!Answer
<1>7. ASSUME NEW t \in Thread, NEW q \in Queue, RemoveElement(t, q)
      PROVE  Abstract!Next
  BY <1>7 DEF RemoveElement, Front, Answer, Abstract!Take, Abstract!Answer
<1>8. ASSUME NEW t \in Thread, NEW q \in Queue, TryRemove(t, q)
      PROVE  Abstract!Next
  <2>1. Abstract!Miss(t, q) \/ Abstract!Take(t, q)
    BY <1>8 DEF TryRemove, Front, Answer, Abstract!Miss, Abstract!Take, Abstract!Answer
  <2>2. QED
    BY <2>1
<1>9. ASSUME NEW t \in Thread, NEW q \in Queue, Read(t, q)
      PROVE  Abstract!Next
  <2>1. Abstract!End(t, q) \/ Abstract!Look(t, q)
    BY <1>9 DEF Read, Ended, Front, Answer, Abstract!End, Abstract!Look, Abstract!Answer
  <2>2. QED
    BY <2>1
<1>10. ASSUME NEW t \in Thread, NEW q \in Queue, CloseQueue(t, q)
       PROVE  Abstract!Next
  BY <1>10 DEF CloseQueue, Abstract!Close
<1>11. CASE UNCHANGED vars
  BY <1>0, <1>11 DEF vars
<1>12. QED
  BY <1>1, <1>2, <1>3, <1>4, <1>5, <1>6, <1>7, <1>8, <1>9, <1>10, <1>11
     DEF Next, Step

\* ThQueue.h implements the closable bounded queues: elements leave in the
\* order they came, none comes after the close, none is forgotten by it, and
\* the end is reported only by a queue that is closed and empty.
THEOREM ThQueueImplementsClosableFIFO == Spec => ImplementsClosableFIFO
<1>1. Init => Abstract!Init
  BY DEF Init, Abstract!Init
<1>2. TypeOK /\ [Next]_vars => [Abstract!Next]_(Abstract!vars)
  BY RefinesStep
<1>3. QED
  BY <1>1, <1>2, TypeCorrect, PTL DEF Spec, ImplementsClosableFIFO, Abstract!Spec
=============================================================================
