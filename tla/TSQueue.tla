------------------------------- MODULE TSQueue -------------------------------
(***************************************************************************)
(* The bounded buffer of pthreads/08.sharedQueue/TS_Queue.c: a circular     *)
(* array guarded by one mutex, with a condition variable for "not empty"    *)
(* and one for "not full".                                                  *)
(*                                                                          *)
(* A thread's call is an invocation followed by steps of the thread.  What  *)
(* the code does between locking and unlocking myLock is one step, enabled  *)
(* while nobody holds the lock; pthread_cond_wait ends a step by releasing  *)
(* the lock, and the thread tests its condition again once woken.           *)
(* setCapacity reads two fields before it locks: those reads are steps.     *)
(***************************************************************************)
EXTENDS Integers, Sequences, CircularArray

CONSTANTS Thread,       \* the threads that share the queue
          Item,         \* the values stored
          NoItem,       \* an array slot or a result that was never written
          Capacities,   \* the capacities createQueue and setCapacity are given
          Operations,   \* the operations the program calls
          ResizeAlone   \* TRUE when setCapacity never overlaps another call

ASSUME CapacitiesAssumption == Capacities \subseteq Nat \ {0}
ASSUME NoItemAssumption == NoItem \notin Item
ASSUME ResizeAloneAssumption == ResizeAlone \in BOOLEAN

VARIABLES myArray, myCapacity, mySize, myFirstIndex, myLastIndex,
          lockLeaked,   \* a call returned without releasing myLock
          notEmpty,     \* threads waiting on myNotEmptyCondition
          notFull,      \* threads waiting on myNotFullCondition
          call,         \* call[t]: what thread t is executing
          result        \* result[t]: what t's last call returned

fields == <<myArray, myCapacity, mySize, myFirstIndex, myLastIndex>>
waiting == <<notEmpty, notFull>>
vars == <<fields, lockLeaked, waiting, call, result>>

Unread == -1
Idle == [op |-> "idle"]

Plain == {"removeFirst", "peekFirst", "peekLast", "clear", "getSize"}

\* A call in progress; setCapacity's two locals fill in as they are loaded.
Calls ==
    [op : {"append"}, item : Item]
      \cup [op : Plain]
      \cup [op : {"setCapacity"}, newCapacity : Capacities,
            j : Nat \cup {Unread}, newSize : Nat \cup {Unread}]

\* A call as a client makes it.
Invocations ==
    {c \in [op : {"append"}, item : Item] \cup [op : Plain]
             \cup [op : {"setCapacity"}, newCapacity : Capacities,
                   j : {Unread}, newSize : {Unread}] : c.op \in Operations}

-----------------------------------------------------------------------------
CreateQueue(capacity) ==
    /\ myArray = [i \in RingSlots(capacity) |-> NoItem]
    /\ myCapacity = capacity
    /\ mySize = 0
    /\ myFirstIndex = 0
    /\ myLastIndex = -1
    /\ lockLeaked = FALSE
    /\ notEmpty = {}
    /\ notFull = {}

Init ==
    /\ \E capacity \in Capacities : CreateQueue(capacity)
    /\ call = [t \in Thread |-> Idle]
    /\ result = [t \in Thread |-> NoItem]

\* Mutant of Signal: the wakeup is forgotten.
SignalNobody(W, W2) == W2 = W

\* pthread_cond_signal on the condition whose waiters are W leaves W2 waiting.
Signal(W, W2) ==
    \/ W = {} /\ W2 = {}
    \/ \E t \in W : W2 = W \ {t}

\* Thread t runs the named operation, is not asleep, and can have the lock.
Runs(t, op) ==
    /\ call[t].op = op
    /\ t \notin notEmpty \cup notFull
    /\ ~lockLeaked

Return(t) == call' = [call EXCEPT ![t] = Idle]

Resizing(t) == call[t].op = "setCapacity"

Invoke(t, c) ==
    /\ call[t] = Idle
    /\ ResizeAlone => \A u \in Thread : /\ ~Resizing(u)
                                        /\ c.op = "setCapacity" => call[u] = Idle
    /\ call' = [call EXCEPT ![t] = c]
    /\ UNCHANGED <<fields, lockLeaked, waiting, result>>
-----------------------------------------------------------------------------
\* Mutant of Full: one slot too many.
FullTooLate == mySize = myCapacity + 1

Full == mySize = myCapacity

\* Mutant of NextSlot: wraps one slot beyond the array.
NextSlotBeyond(i) == (i + 1) % (myCapacity + 1)

NextSlot(i) == (i + 1) % myCapacity

AppendWait(t) ==
    /\ Runs(t, "append")
    /\ Full
    /\ notFull' = notFull \cup {t}
    /\ UNCHANGED <<fields, lockLeaked, notEmpty, call, result>>

AppendItem(t) ==
    /\ Runs(t, "append")
    /\ ~Full
    /\ myLastIndex' = NextSlot(myLastIndex)
    /\ myArray' = [myArray EXCEPT ![myLastIndex'] = call[t].item]
    /\ mySize' = mySize + 1
    /\ Signal(notEmpty, notEmpty')
    /\ Return(t)
    /\ UNCHANGED <<myCapacity, myFirstIndex, lockLeaked, notFull, result>>

\* removeFirst and the two peeks wait in the same way.
WaitNotEmpty(t, op) ==
    /\ Runs(t, op)
    /\ mySize = 0
    /\ notEmpty' = notEmpty \cup {t}
    /\ UNCHANGED <<fields, lockLeaked, notFull, call, result>>

RemoveFirstWait(t) == WaitNotEmpty(t, "removeFirst")

\* Mutant of Oldest: a stack instead of a queue.
Newest == myArray[myLastIndex]

Oldest == myArray[myFirstIndex]

RemoveFirst(t) ==
    /\ Runs(t, "removeFirst")
    /\ mySize # 0
    /\ result' = [result EXCEPT ![t] = Oldest]
    /\ myFirstIndex' = NextSlot(myFirstIndex)
    /\ mySize' = mySize - 1
    /\ Signal(notFull, notFull')
    /\ Return(t)
    /\ UNCHANGED <<myArray, myCapacity, myLastIndex, lockLeaked, notEmpty>>

\* A load of a slot; one beyond the array yields whatever memory holds there.
Load(i) == IF i \in RingSlots(myCapacity) THEN myArray[i] ELSE NoItem

PeekFirst(t) ==
    \/ WaitNotEmpty(t, "peekFirst")
    \/ /\ Runs(t, "peekFirst")
       /\ mySize # 0
       /\ result' = [result EXCEPT ![t] = Load(myFirstIndex)]
       /\ Return(t)
       /\ UNCHANGED <<fields, lockLeaked, waiting>>

PeekLast(t) ==
    \/ WaitNotEmpty(t, "peekLast")
    \/ /\ Runs(t, "peekLast")
       /\ mySize # 0
       /\ result' = [result EXCEPT ![t] = Load(myLastIndex)]
       /\ Return(t)
       /\ UNCHANGED <<fields, lockLeaked, waiting>>

\* clear resets the positions and signals nobody.
Clear(t) ==
    /\ Runs(t, "clear")
    /\ mySize' = 0
    /\ myFirstIndex' = 0
    /\ myLastIndex' = -1
    /\ Return(t)
    /\ UNCHANGED <<myArray, myCapacity, lockLeaked, waiting, result>>

\* The size it returns is not kept: no property reads it here.
GetSize(t) ==
    /\ Runs(t, "getSize")
    /\ Return(t)
    /\ UNCHANGED <<fields, lockLeaked, waiting, result>>
-----------------------------------------------------------------------------
\* The two unlocked loads at the top of setCapacity.  They are plain loads of
\* different fields, so the build may issue them in either order.
SetCapacityReadFirst(t) ==
    /\ Resizing(t)
    /\ call[t].j = Unread
    /\ call' = [call EXCEPT ![t].j = myFirstIndex]
    /\ UNCHANGED <<fields, lockLeaked, waiting, result>>

SetCapacityReadSize(t) ==
    /\ Resizing(t)
    /\ call[t].newSize = Unread
    /\ call' = [call EXCEPT ![t].newSize = mySize]
    /\ UNCHANGED <<fields, lockLeaked, waiting, result>>

SetCapacityLocks(t) ==
    /\ Runs(t, "setCapacity")
    /\ call[t].j # Unread
    /\ call[t].newSize # Unread

\* The early return for an unchanged capacity skips the unlock.
SetCapacitySame(t) ==
    /\ SetCapacityLocks(t)
    /\ call[t].newCapacity = myCapacity
    /\ lockLeaked' = TRUE
    /\ Return(t)
    /\ UNCHANGED <<fields, waiting, result>>

\* Mutant of Copied: the walk over the old array does not wrap.
CopiedStraight(j, i) == Load(j + i)

\* The i-th item copied: the walk starts at j and wraps at the old capacity.
Copied(j, i) == Load(IF i = 0 THEN j ELSE (j + i) % myCapacity)

SetCapacityCopy(t) ==
    /\ SetCapacityLocks(t)
    /\ LET c == call[t]
           stop == IF c.newCapacity < mySize THEN c.newCapacity ELSE mySize
       IN /\ c.newCapacity # myCapacity
          /\ myArray' = [i \in RingSlots(c.newCapacity) |->
                           IF i < stop THEN Copied(c.j, i) ELSE NoItem]
          /\ mySize' = IF c.newCapacity < mySize THEN c.newCapacity ELSE c.newSize
          /\ myCapacity' = c.newCapacity
    /\ myFirstIndex' = 0
    /\ myLastIndex' = mySize' - 1
    /\ Return(t)
    /\ UNCHANGED <<lockLeaked, waiting, result>>

\* POSIX lets pthread_cond_wait return although nobody signalled.
SpuriousWakeup(t) ==
    /\ t \in notEmpty \cup notFull
    /\ notEmpty' = notEmpty \ {t}
    /\ notFull' = notFull \ {t}
    /\ UNCHANGED <<fields, lockLeaked, call, result>>
-----------------------------------------------------------------------------
Step(t) ==
    \/ AppendWait(t) \/ AppendItem(t)
    \/ RemoveFirstWait(t) \/ RemoveFirst(t)
    \/ PeekFirst(t) \/ PeekLast(t)
    \/ Clear(t) \/ GetSize(t)
    \/ SetCapacityReadFirst(t) \/ SetCapacityReadSize(t)
    \/ SetCapacitySame(t) \/ SetCapacityCopy(t)

Next ==
    \E t \in Thread :
       \/ \E c \in Invocations : Invoke(t, c)
       \/ Step(t)
       \/ SpuriousWakeup(t)

Spec == Init /\ [][Next]_vars
-----------------------------------------------------------------------------
\* The stored items, oldest first: what the circular array represents.
Contents == Ring(myArray, myCapacity, myFirstIndex, mySize)

\* The type of every variable.  The first index is a slot of the array and the
\* last one at least -1; it may lie behind the array once a setCapacity that
\* overlapped other calls has installed a stale size.
TypeOK ==
    /\ myCapacity \in Capacities
    /\ IsArray(myArray, myCapacity, Item \cup {NoItem})
    /\ mySize \in Nat
    /\ myFirstIndex \in RingSlots(myCapacity)
    /\ myLastIndex \in Nat \cup {-1}
    /\ lockLeaked \in BOOLEAN
    /\ notEmpty \subseteq Thread
    /\ notFull \subseteq Thread
    /\ call \in [Thread -> Calls \cup {Idle}]
    /\ result \in [Thread -> Item \cup {NoItem}]

\* However setCapacity overlaps, append stores its item in a slot of the array
\* (TS_Queue.c:168-169) and removeFirst returns what a slot holds
\* (TS_Queue.c:196), although the last index may have left the array.
AccessesInside ==
    \A t \in Thread :
       /\ AppendItem(t) => /\ myLastIndex' \in DOMAIN myArray
                          /\ myArray'[myLastIndex'] = call[t].item
       /\ RemoveFirst(t) => /\ myFirstIndex \in DOMAIN myArray
                           /\ result'[t] = myArray[myFirstIndex]

\* The positions agree with the size: the slot after the newest item is the
\* slot mySize after the oldest, and the queue never holds more than fits.
IndexInvariant ==
    /\ mySize <= myCapacity
    /\ myLastIndex \in -1 .. myCapacity - 1
    /\ mySize > 0 => myLastIndex \in RingSlots(myCapacity)
    /\ (myLastIndex + 1) % myCapacity = (myFirstIndex + mySize) % myCapacity

\* TS_Queue.c implements the abstract queue: every step of the code is one of
\* its operations on the represented items, or changes nothing a client sees.
Abstract == INSTANCE BoundedFIFO WITH
    Bounds <- Capacities, queue <- Contents, bound <- myCapacity, output <- result

ImplementsBoundedFIFO == Abstract!Spec

\* What setCapacity promises (TS_Queue.c, its POST): it leaves "tsq's Items in
\* their correct (new) positions", that is, the oldest ones that fit, in order.
SetCapacityKeepsItems ==
    [][myCapacity' # myCapacity =>
         LET kept == IF myCapacity' < mySize THEN myCapacity' ELSE mySize
         IN Contents' = SubSeq(Contents, 1, kept)]_vars
=============================================================================
