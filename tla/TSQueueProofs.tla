---------------------------- MODULE TSQueueProofs ----------------------------
(***************************************************************************)
(* Theorems about TSQueue, for every set of threads, items and capacities:  *)
(* its type invariant whatever setCapacity overlaps, and, while setCapacity *)
(* overlaps no other call, the agreement of its indices with its size and   *)
(* the refinement of BoundedFIFO.                                           *)
(***************************************************************************)
EXTENDS TSQueue, SequenceTheorems, TLAPS

(* Circular arrays: the remainder arithmetic of their indices, and how      *)
(* writing behind the newest item, dropping the oldest one and copying to   *)
(* an array of another size change the stored sequence.                     *)

\* A remainder is a slot of the array.
LEMMA ModRange ==
    ASSUME NEW c \in Nat \ {0}, NEW a \in Int
    PROVE  a % c \in 0 .. c - 1
  OBVIOUS

\* A slot is its own remainder.
LEMMA ModSmall ==
    ASSUME NEW c \in Nat \ {0}, NEW a \in 0 .. c - 1
    PROVE  a % c = a
  OBVIOUS

\* An index less than one turn beyond the array wraps once.
LEMMA ModWrap ==
    ASSUME NEW c \in Nat \ {0}, NEW a \in c .. 2 * c - 1
    PROVE  a % c = a - c
  OBVIOUS

\* Wrapping an index before moving on does not change where one arrives:
\* how TS_Queue.c steps a wrapped index.
LEMMA ModShift ==
    ASSUME NEW c \in Nat \ {0}, NEW a \in Nat, NEW b \in Nat, a + b < 2 * c
    PROVE  ((a % c) + b) % c = (a + b) % c
<1>1. CASE a < c
  BY <1>1, ModSmall
<1>2. CASE a >= c
  <2>1. a % c = a - c /\ (a + b) % c = a + b - c
    <3>1. a \in c .. 2 * c - 1 /\ a + b \in c .. 2 * c - 1
      BY <1>2
    <3>2. a % c = a - c
      BY <3>1, ModWrap
    <3>3. (a + b) % c = a + b - c
      BY <3>1, ModWrap
    <3>4. QED
      BY <3>2, <3>3
  <2>2. (a - c + b) % c = a - c + b
    <3>1. a - c + b \in 0 .. c - 1
      BY <1>2
    <3>2. QED
      BY <3>1, ModSmall
  <2>3. QED
    BY <2>1, <2>2
<1>3. QED
  BY <1>1, <1>2

\* Two slots with the same successor are the same slot.
LEMMA ModSuccInjective ==
    ASSUME NEW c \in Nat \ {0}, NEW a \in 0 .. c - 1, NEW b \in 0 .. c - 1,
           (a + 1) % c = (b + 1) % c
    PROVE  a = b
<1>1. ASSUME NEW x \in 0 .. c - 1
      PROVE  (x + 1) % c = IF x + 1 = c THEN 0 ELSE x + 1
  <2>1. CASE x + 1 = c
    BY <2>1, ModWrap
  <2>2. CASE x + 1 # c
    BY <2>2, ModSmall
  <2>3. QED
    BY <2>1, <2>2
<1>2. QED
  BY <1>1

\* Fewer than c steps from a slot never lead back to a slot passed before.
LEMMA ModDistinct ==
    ASSUME NEW c \in Nat \ {0}, NEW a \in 0 .. c - 1,
           NEW i \in Nat, NEW k \in Nat, i < k, k < c
    PROVE  (a + i) % c # (a + k) % c
<1>1. CASE a + k < c
  BY <1>1, ModSmall
<1>2. CASE a + i < c /\ a + k >= c
  BY <1>2, ModSmall, ModWrap
<1>3. CASE a + i >= c
  BY <1>3, ModWrap
<1>4. QED
  BY <1>1, <1>2, <1>3
-----------------------------------------------------------------------------
\* The ring is a sequence of n values, and its items are the ring's items.
RingView(V, arr, c, f, n) ==
    /\ Ring(arr, c, f, n) \in Seq(V)
    /\ Len(Ring(arr, c, f, n)) = n
    /\ \A i \in 1 .. n : Ring(arr, c, f, n)[i] = RingItem(arr, c, f, i)

\* What a circular array stores is a sequence of values of the length asked for.
LEMMA RingIsSeq ==
    ASSUME NEW V, NEW c \in Nat \ {0}, NEW arr, IsArray(arr, c, V),
           NEW f \in RingSlots(c), NEW n \in Nat
    PROVE  RingView(V, arr, c, f, n)
<1>1. ASSUME NEW i \in 1 .. n
      PROVE  RingItem(arr, c, f, i) \in V
  <2>1. f + (i - 1) \in Int
    BY DEF RingSlots
  <2>2. (f + (i - 1)) % c \in RingSlots(c)
    BY <2>1, ModRange DEF RingSlots
  <2>3. QED
    BY <2>2 DEF RingItem, IsArray
<1>2. Ring(arr, c, f, n) \in [1 .. n -> V]
  BY <1>1 DEF Ring
<1>3. Ring(arr, c, f, n) \in Seq(V)
  BY <1>2, SeqDef
<1>4. Len(Ring(arr, c, f, n)) = n
  BY <1>2, <1>3, LenProperties
<1>5. QED
  BY <1>3, <1>4 DEF Ring, RingView

\* arr2 is arr with v written in the slot behind the n-th item.
IsWritten(arr2, arr, c, f, n, v) == arr2 = [arr EXCEPT ![(f + n) % c] = v]

\* s2 is s with v behind it.
IsExtended(s2, s, v) == s2 = Append(s, v)

\* Writing behind the newest item of an array with a free slot appends to what
\* it stores, and disturbs no other item: TS_Queue.c, append.
LEMMA RingAppend ==
    ASSUME NEW V, NEW c \in Nat \ {0}, NEW arr, IsArray(arr, c, V),
           NEW f \in RingSlots(c), NEW n \in Nat, n < c,
           NEW v \in V, NEW arr2, IsWritten(arr2, arr, c, f, n, v),
           NEW m \in Nat, m = n + 1
    PROVE  IsExtended(Ring(arr2, c, f, m), Ring(arr, c, f, n), v)
<1>last. PICK last : last = (f + n) % c
  OBVIOUS
<1>written. arr2 = [arr EXCEPT ![last] = v]
  BY <1>last DEF IsWritten
<1>isArray. IsArray(arr2, c, V)
  BY <1>written DEF IsArray
<1>inArray. last \in RingSlots(c)
  <2>1. f + n \in Int
    BY DEF RingSlots
  <2>2. QED
    BY <1>last, <2>1, ModRange DEF RingSlots
<1>new. PICK new : new = Ring(arr2, c, f, m)
  OBVIOUS
<1>old. PICK old : old = Ring(arr, c, f, n)
  OBVIOUS
<1>1. /\ new \in Seq(V)
      /\ Len(new) = n + 1
      /\ \A i \in 1 .. n + 1 : new[i] = RingItem(arr2, c, f, i)
  <2>1. m \in Nat
    OBVIOUS
  <2>2. RingView(V, arr2, c, f, m)
    BY <1>isArray, RingIsSeq
  <2>3. QED
    BY <1>new, <2>1, <2>2 DEF RingView
<1>2. /\ old \in Seq(V)
      /\ Len(old) = n
      /\ \A i \in 1 .. n : old[i] = RingItem(arr, c, f, i)
  <2>1. RingView(V, arr, c, f, n)
    BY RingIsSeq
  <2>2. QED
    BY <1>old, <2>1 DEF RingView
<1>3. /\ Append(old, v) \in Seq(V)
      /\ Len(Append(old, v)) = n + 1
      /\ \A i \in 1 .. n : Append(old, v)[i] = old[i]
      /\ Append(old, v)[n + 1] = v
  BY <1>2, AppendProperties
<1>4. ASSUME NEW i \in 1 .. n
      PROVE  new[i] = Append(old, v)[i]
  <2>1. /\ i - 1 \in Nat /\ i - 1 < n /\ f + (i - 1) \in Int
        /\ i \in 1 .. n + 1 /\ f \in 0 .. c - 1
    BY DEF RingSlots
  <2>2. (f + (i - 1)) % c # (f + n) % c
    BY <2>1, ModDistinct
  <2>3. (f + (i - 1)) % c \in RingSlots(c)
    BY <2>1, ModRange DEF RingSlots
  <2>4. RingItem(arr2, c, f, i) = RingItem(arr, c, f, i)
    BY <1>written, <1>last, <2>2, <2>3 DEF RingItem, IsArray
  <2>5. QED
    BY <1>1, <1>2, <1>3, <2>1, <2>4
<1>5. new[n + 1] = v
  <2>1. f + ((n + 1) - 1) = f + n /\ n + 1 \in 1 .. n + 1
    BY DEF RingSlots
  <2>2. RingItem(arr2, c, f, n + 1) = v
    BY <1>written, <1>inArray, <1>last, <2>1 DEF RingItem, IsArray
  <2>3. QED
    BY <1>1, <2>1, <2>2
<1>6. \A i \in 1 .. n + 1 : new[i] = Append(old, v)[i]
  <2>1. \A i \in 1 .. n + 1 : i = n + 1 \/ i \in 1 .. n
    OBVIOUS
  <2>2. QED
    BY <1>3, <1>4, <1>5, <2>1
<1>7. new = Append(old, v)
  BY <1>1, <1>3, <1>6, SeqEqual
<1>8. QED
  BY <1>7, <1>written, <1>new, <1>old DEF IsExtended

\* The oldest item is at the first index, and advancing that index drops it:
\* TS_Queue.c, removeFirst.
LEMMA RingTail ==
    ASSUME NEW V, NEW c \in Nat \ {0}, NEW arr, IsArray(arr, c, V),
           NEW f \in RingSlots(c), NEW n \in Nat \ {0}, n <= c
    PROVE  /\ Ring(arr, c, f, n) # << >>
           /\ Head(Ring(arr, c, f, n)) = arr[f]
           /\ Ring(arr, c, (f + 1) % c, n - 1) = Tail(Ring(arr, c, f, n))
<1>1. PICK g \in RingSlots(c) : g = (f + 1) % c
  <2>1. f + 1 \in Int
    BY DEF RingSlots
  <2>2. QED
    BY <2>1, ModRange DEF RingSlots
<1>new. PICK new : new = Ring(arr, c, g, n - 1)
  OBVIOUS
<1>old. PICK old : old = Ring(arr, c, f, n)
  OBVIOUS
<1>2. /\ old \in Seq(V)
      /\ Len(old) = n
      /\ \A i \in 1 .. n : old[i] = RingItem(arr, c, f, i)
  <2>1. RingView(V, arr, c, f, n)
    BY RingIsSeq
  <2>2. QED
    BY <1>old, <2>1 DEF RingView
<1>3. /\ new \in Seq(V)
      /\ Len(new) = n - 1
      /\ \A i \in 1 .. n - 1 : new[i] = RingItem(arr, c, g, i)
  <2>1. PICK m \in Nat : m = n - 1
    OBVIOUS
  <2>2. RingView(V, arr, c, g, m)
    BY RingIsSeq
  <2>3. QED
    BY <1>new, <2>1, <2>2 DEF RingView
<1>4. old # << >>
  BY <1>2, EmptySeq
<1>5. /\ Tail(old) \in Seq(V)
      /\ Len(Tail(old)) = n - 1
      /\ \A i \in 1 .. n - 1 : Tail(old)[i] = old[i + 1]
  BY <1>2, <1>4, HeadTailProperties
<1>6. ASSUME NEW i \in 1 .. n - 1
      PROVE  new[i] = Tail(old)[i]
  <2>1. /\ f + 1 \in Nat /\ i - 1 \in Nat /\ (f + 1) + (i - 1) < 2 * c
        /\ (f + 1) + (i - 1) = f + ((i + 1) - 1)
        /\ i + 1 \in 1 .. n
    BY DEF RingSlots
  <2>2. (((f + 1) % c) + (i - 1)) % c = ((f + 1) + (i - 1)) % c
    BY <2>1, ModShift
  <2>3. RingItem(arr, c, g, i) = RingItem(arr, c, f, i + 1)
    BY <1>1, <2>1, <2>2 DEF RingItem
  <2>4. QED
    BY <1>2, <1>3, <1>5, <2>1, <2>3
<1>7. new = Tail(old)
  BY <1>3, <1>5, <1>6, SeqEqual
<1>8. Head(old) = arr[f]
  <2>1. f + (1 - 1) = f /\ 1 \in 1 .. n /\ f % c = f
    BY ModSmall DEF RingSlots
  <2>2. RingItem(arr, c, f, 1) = arr[f]
    BY <2>1 DEF RingItem
  <2>3. old[1] = arr[f]
    BY <1>2, <2>1, <2>2
  <2>4. QED
    BY <1>2, <2>3
<1>9. QED
  BY <1>1, <1>4, <1>7, <1>8, <1>new, <1>old

\* The first stop slots of copy hold the items that arr stores from f on.
IsCopy(copy, d, arr, c, f, stop) ==
    \A i \in RingSlots(d) :
       i < stop => copy[i] = arr[IF i = 0 THEN f ELSE (f + i) % c]

\* A copy that walks round the old array holds the oldest items in order:
\* TS_Queue.c, the loop of setCapacity.
LEMMA RingCopy ==
    ASSUME NEW V, NEW c \in Nat \ {0}, NEW arr, IsArray(arr, c, V),
           NEW f \in RingSlots(c), NEW n \in Nat,
           NEW d \in Nat \ {0}, NEW copy, IsArray(copy, d, V),
           NEW stop \in Nat, stop <= n, stop <= d,
           IsCopy(copy, d, arr, c, f, stop), NEW zero, zero = 0
    PROVE  Ring(copy, d, zero, stop) = SubSeq(Ring(arr, c, f, n), 1, stop)
<1>new. PICK new : new = Ring(copy, d, 0, stop)
  OBVIOUS
<1>old. PICK old : old = Ring(arr, c, f, n)
  OBVIOUS
<1>1. /\ old \in Seq(V)
      /\ Len(old) = n
      /\ \A i \in 1 .. n : old[i] = RingItem(arr, c, f, i)
  <2>1. RingView(V, arr, c, f, n)
    BY RingIsSeq
  <2>2. QED
    BY <1>old, <2>1 DEF RingView
<1>2. /\ new \in Seq(V)
      /\ Len(new) = stop
      /\ \A i \in 1 .. stop : new[i] = RingItem(copy, d, 0, i)
  <2>1. PICK z \in RingSlots(d) : z = 0
    BY DEF RingSlots
  <2>2. RingView(V, copy, d, z, stop)
    BY RingIsSeq
  <2>3. QED
    BY <1>new, <2>1, <2>2 DEF RingView
<1>3. /\ SubSeq(old, 1, stop) \in Seq(V)
      /\ Len(SubSeq(old, 1, stop)) = stop
      /\ \A i \in 1 .. stop : SubSeq(old, 1, stop)[i] = old[i]
  <2>1. ASSUME NEW i \in 1 .. stop
        PROVE  old[i] \in V
    <3>1. i \in 1 .. n
      OBVIOUS
    <3>2. QED
      BY <1>1, <3>1, ElementOfSeq
  <2>2. /\ SubSeq(old, 1, stop) \in Seq(V)
        /\ Len(SubSeq(old, 1, stop)) = IF 1 <= stop THEN stop - 1 + 1 ELSE 0
        /\ \A i \in 1 .. stop - 1 + 1 : SubSeq(old, 1, stop)[i] = old[1 + i - 1]
    BY <2>1, SubSeqProperties
  <2>3. QED
    BY <2>2
<1>4. ASSUME NEW i \in 1 .. stop
      PROVE  new[i] = old[i]
  <2>1. i - 1 \in RingSlots(d) /\ i - 1 < stop /\ 0 + (i - 1) = i - 1
        /\ i \in 1 .. n
    BY DEF RingSlots
  <2>2. (i - 1) % d = i - 1
    BY <2>1, ModSmall DEF RingSlots
  <2>3. RingItem(copy, d, 0, i) = arr[IF i - 1 = 0 THEN f ELSE (f + (i - 1)) % c]
    BY <2>1, <2>2 DEF RingItem, IsCopy
  <2>4. CASE i - 1 = 0
    <3>1. f + (i - 1) = f /\ f % c = f
      BY <2>4, ModSmall DEF RingSlots
    <3>2. RingItem(arr, c, f, i) = arr[f]
      BY <3>1 DEF RingItem
    <3>3. QED
      BY <1>1, <1>2, <2>1, <2>3, <2>4, <3>2
  <2>5. CASE i - 1 # 0
    <3>1. RingItem(copy, d, 0, i) = RingItem(arr, c, f, i)
      BY <2>3, <2>5 DEF RingItem
    <3>2. QED
      BY <1>1, <1>2, <2>1, <3>1
  <2>6. QED
    BY <2>4, <2>5
<1>5. new = SubSeq(old, 1, stop)
  BY <1>2, <1>3, <1>4, SeqEqual
<1>6. QED
  BY <1>5, <1>new, <1>old
-----------------------------------------------------------------------------
\* A signal wakes waiters and puts nobody to sleep.
LEMMA SignalShrinks ==
    ASSUME NEW W, NEW W2, Signal(W, W2)
    PROVE  W2 \subseteq W
  BY DEF Signal

\* createQueue establishes the type invariant.
LEMMA TypeInit == Init => TypeOK
<1> SUFFICES ASSUME Init, NEW capacity \in Capacities, CreateQueue(capacity)
             PROVE  TypeOK
  BY DEF Init
<1>1. 0 \in RingSlots(capacity)
  BY CapacitiesAssumption DEF RingSlots
<1>2. IsArray(myArray, myCapacity, Item \cup {NoItem})
  BY DEF CreateQueue, IsArray
<1>3. QED
  BY <1>1, <1>2 DEF Init, CreateQueue, TypeOK

\* Every step of every operation keeps the type invariant.
LEMMA TypeStep ==
    ASSUME TypeOK, [Next]_vars
    PROVE  TypeOK'
<1>0. myCapacity \in Nat \ {0}
  BY CapacitiesAssumption DEF TypeOK
<1>slot. ASSUME NEW i \in Int
       PROVE  NextSlot(i) \in RingSlots(myCapacity)
  BY <1>0, ModRange DEF NextSlot, RingSlots
<1>1. ASSUME NEW t \in Thread, NEW c \in Invocations, Invoke(t, c)
      PROVE  TypeOK'
  <2>1. c \in Calls
    BY DEF Invocations, Calls
  <2>2. QED
    BY <1>1, <2>1 DEF Invoke, TypeOK, fields, waiting
<1>2. ASSUME NEW t \in Thread, AppendWait(t)
      PROVE  TypeOK'
  BY <1>2 DEF AppendWait, TypeOK, fields
<1>3. ASSUME NEW t \in Thread, AppendItem(t)
      PROVE  TypeOK'
  <2>1. call[t].item \in Item
    BY <1>3 DEF AppendItem, Runs, TypeOK, Calls, Idle, Plain
  <2>2. myLastIndex' \in RingSlots(myCapacity)
    BY <1>slot, <1>3 DEF AppendItem, TypeOK
  <2>3. notEmpty' \subseteq notEmpty
    BY <1>3, SignalShrinks DEF AppendItem
  <2>4. IsArray(myArray', myCapacity', Item \cup {NoItem})
    BY <1>3, <2>1, <2>2 DEF AppendItem, TypeOK, IsArray
  <2>5. mySize' \in Nat /\ myLastIndex' \in Nat \cup {-1}
    BY <1>0, <1>3, <2>2 DEF AppendItem, TypeOK, RingSlots
  <2>6. QED
    BY <1>3, <2>3, <2>4, <2>5 DEF AppendItem, Return, TypeOK
<1>4. ASSUME NEW t \in Thread, NEW op, WaitNotEmpty(t, op)
      PROVE  TypeOK'
  BY <1>4 DEF WaitNotEmpty, TypeOK, fields
<1>5. ASSUME NEW t \in Thread, RemoveFirst(t)
      PROVE  TypeOK'
  <2>1. myFirstIndex' \in RingSlots(myCapacity)
    BY <1>0, <1>slot, <1>5 DEF RemoveFirst, TypeOK, RingSlots
  <2>2. notFull' \subseteq notFull
    BY <1>5, SignalShrinks DEF RemoveFirst
  <2>3. Oldest \in Item \cup {NoItem}
    BY DEF Oldest, TypeOK, IsArray
  <2>4. mySize' \in Nat
    BY <1>5 DEF RemoveFirst, TypeOK
  <2>5. QED
    BY <1>5, <2>1, <2>2, <2>3, <2>4 DEF RemoveFirst, Return, TypeOK
<1>6. ASSUME NEW i PROVE Load(i) \in Item \cup {NoItem}
  BY DEF Load, TypeOK, IsArray
<1>7. ASSUME NEW t \in Thread, PeekFirst(t) \/ PeekLast(t)
      PROVE  TypeOK'
  BY <1>4, <1>6, <1>7 DEF PeekFirst, PeekLast, Return, TypeOK, fields, waiting
<1>8. ASSUME NEW t \in Thread, Clear(t) \/ GetSize(t)
      PROVE  TypeOK'
  BY <1>0, <1>8 DEF Clear, GetSize, Return, TypeOK, fields, waiting, RingSlots
<1>9. ASSUME NEW t \in Thread, SetCapacityReadFirst(t)
      PROVE  TypeOK'
  BY <1>0, <1>9 DEF SetCapacityReadFirst, Resizing, TypeOK, fields, waiting,
                     Calls, Idle, Plain, RingSlots
<1>10. ASSUME NEW t \in Thread, SetCapacityReadSize(t)
       PROVE  TypeOK'
  BY <1>0, <1>10 DEF SetCapacityReadSize, Resizing, TypeOK, fields, waiting,
                      Calls, Idle, Plain, RingSlots
<1>11. ASSUME NEW t \in Thread, SetCapacitySame(t)
       PROVE  TypeOK'
  BY <1>11 DEF SetCapacitySame, Return, TypeOK, fields, waiting
<1>12. ASSUME NEW t \in Thread, SetCapacityCopy(t)
       PROVE  TypeOK'
  <2>1. /\ call[t].newCapacity \in Capacities
        /\ call[t].newSize \in Nat
    BY <1>12 DEF SetCapacityCopy, SetCapacityLocks, Runs, TypeOK, Calls,
                  Idle, Plain, Unread
  <2>2. IsArray(myArray', myCapacity', Item \cup {NoItem})
    BY <1>6, <1>12 DEF SetCapacityCopy, Copied, IsArray
  <2>3. mySize' \in Nat
    BY <1>12, <2>1, CapacitiesAssumption DEF SetCapacityCopy
  <2>4. /\ myCapacity' \in Capacities
        /\ call' \in [Thread -> Calls \cup {Idle}]
        /\ UNCHANGED <<lockLeaked, notEmpty, notFull, result>>
    BY <1>12, <2>1 DEF SetCapacityCopy, Return, TypeOK, waiting
  <2>5. /\ myFirstIndex' \in RingSlots(myCapacity')
        /\ myLastIndex' \in Nat \cup {-1}
    BY <1>12, <2>3, <2>4, CapacitiesAssumption DEF SetCapacityCopy, RingSlots
  <2>6. QED
    BY <2>2, <2>3, <2>4, <2>5 DEF TypeOK
<1>13. ASSUME NEW t \in Thread, SpuriousWakeup(t)
       PROVE  TypeOK'
  BY <1>13 DEF SpuriousWakeup, TypeOK, fields
<1>14. CASE UNCHANGED vars
  BY <1>14 DEF vars, TypeOK, fields, waiting
<1>15. QED
  BY <1>1, <1>2, <1>3, <1>4, <1>5, <1>7, <1>8, <1>9, <1>10, <1>11, <1>12,
     <1>13, <1>14 DEF Next, Step, RemoveFirstWait

\* The types alone put the next slot, the oldest item's slot and a new item's
\* slot inside the array, wherever the last index is.
LEMMA AccessesStep ==
    ASSUME TypeOK
    PROVE  AccessesInside
<1>1. myCapacity \in Nat \ {0}
  BY CapacitiesAssumption DEF TypeOK
<1>2. DOMAIN myArray = RingSlots(myCapacity)
  BY DEF TypeOK, IsArray
<1>3. ASSUME NEW t \in Thread, AppendItem(t)
      PROVE  /\ myLastIndex' \in DOMAIN myArray
             /\ myArray'[myLastIndex'] = call[t].item
  <2>1. myLastIndex + 1 \in Int
    BY DEF TypeOK
  <2>2. myLastIndex' \in RingSlots(myCapacity)
    BY <1>1, <1>3, <2>1, ModRange DEF AppendItem, NextSlot, RingSlots
  <2>3. myArray' = [myArray EXCEPT ![myLastIndex'] = call[t].item]
    BY <1>3 DEF AppendItem
  <2>4. QED
    BY <1>2, <2>2, <2>3
<1>4. ASSUME NEW t \in Thread, RemoveFirst(t)
      PROVE  /\ myFirstIndex \in DOMAIN myArray
             /\ result'[t] = myArray[myFirstIndex]
  BY <1>2, <1>4 DEF RemoveFirst, Oldest, TypeOK
<1>5. QED
  BY <1>3, <1>4 DEF AccessesInside

\* However calls overlap, those of setCapacity included, every field of the
\* queue, every wait set and every call in progress keeps its type, and append
\* and removeFirst store and load inside the array (TS_Queue.c:168-169, 196).
\* The last index itself may lie behind the array: see AccessesInside.
THEOREM TypeCorrect == Spec => []TypeOK /\ [][AccessesInside]_vars
<1>1. TypeOK /\ [Next]_vars => TypeOK'
  BY TypeStep
<1>2. TypeOK => AccessesInside
  BY AccessesStep
<1>3. QED
  BY TypeInit, <1>1, <1>2, PTL DEF Spec
-----------------------------------------------------------------------------
\* While setCapacity runs alone, what it read before locking is still true.
ResizeReadsFresh ==
    \A t \in Thread :
       Resizing(t) => /\ call[t].j \in {Unread, myFirstIndex}
                      /\ call[t].newSize \in {Unread, mySize}
                      /\ \A u \in Thread \ {t} : call[u] = Idle

\* The inductive invariant, beside TypeOK.
Inv == IndexInvariant /\ ResizeReadsFresh

\* A new queue has agreeing indices and no setCapacity under way.
LEMMA InvInit == Init => Inv
<1> SUFFICES ASSUME Init, NEW capacity \in Capacities, CreateQueue(capacity)
             PROVE  Inv
  BY DEF Init
<1>1. ResizeReadsFresh
  BY DEF Init, ResizeReadsFresh, Resizing, Idle
<1>2. capacity \in Nat \ {0}
  BY CapacitiesAssumption
<1>3. IndexInvariant
  BY <1>2 DEF CreateQueue, IndexInvariant
<1>4. QED
  BY <1>1, <1>3 DEF Inv

\* A step that leaves the fields and every setCapacity call alone.
LEMMA InvFrame ==
    ASSUME TypeOK, Inv, UNCHANGED fields,
           \A u \in Thread : call'[u] = call[u] \/ call'[u] = Idle
    PROVE  Inv'
<1>1. IndexInvariant'
  BY DEF Inv, IndexInvariant, fields
<1>2. ResizeReadsFresh'
  BY DEF Inv, ResizeReadsFresh, Resizing, fields, Idle
<1>3. QED
  BY <1>1, <1>2 DEF Inv

\* A step of an operation other than setCapacity finds no setCapacity running.
LEMMA NobodyResizes ==
    ASSUME Inv, NEW t \in Thread, call[t] # Idle, ~Resizing(t)
    PROVE  \A u \in Thread : ~Resizing(u)
  BY DEF Inv, ResizeReadsFresh

\* No step makes the indices disagree while setCapacity runs alone.
LEMMA InvStep ==
    ASSUME ResizeAlone, TypeOK, Inv, [Next]_vars
    PROVE  Inv'
<1>0. /\ myCapacity \in Nat \ {0}
      /\ mySize \in Nat /\ mySize <= myCapacity
      /\ myFirstIndex \in 0 .. myCapacity - 1
      /\ myLastIndex \in -1 .. myCapacity - 1
      /\ mySize > 0 => myLastIndex \in RingSlots(myCapacity)
  BY CapacitiesAssumption DEF TypeOK, Inv, IndexInvariant, RingSlots
<1>1. ASSUME NEW t \in Thread, NEW c \in Invocations, Invoke(t, c)
      PROVE  Inv'
  <2>1. IndexInvariant'
    BY <1>1 DEF Invoke, Inv, IndexInvariant, fields
  <2>2. c.op = "setCapacity" => c.j = Unread /\ c.newSize = Unread
    BY DEF Invocations, Plain
  <2>3. /\ \A u \in Thread : ~Resizing(u)
        /\ call' = [call EXCEPT ![t] = c]
        /\ c.op = "setCapacity" => \A u \in Thread : call[u] = Idle
    BY <1>1, ResizeAloneAssumption DEF Invoke
  <2>4. ResizeReadsFresh'
    BY <2>2, <2>3 DEF ResizeReadsFresh, Resizing, TypeOK
  <2>5. QED
    BY <2>1, <2>4 DEF Inv
<1>2. ASSUME NEW t \in Thread, AppendItem(t)
      PROVE  Inv'
  <2>1. ResizeReadsFresh'
    BY <1>2, NobodyResizes
       DEF AppendItem, Runs, Return, ResizeReadsFresh, Resizing, Idle, TypeOK
  <2>2. mySize < myCapacity /\ mySize' = mySize + 1 /\ myCapacity' = myCapacity
        /\ myFirstIndex' = myFirstIndex
    BY <1>0, <1>2 DEF AppendItem, Full
  <2>3. myLastIndex' = (myFirstIndex + mySize) % myCapacity
    BY <1>2 DEF AppendItem, NextSlot, Inv, IndexInvariant
  <2>4. myLastIndex' \in 0 .. myCapacity - 1
    BY <1>0, <2>3, ModRange
  <2>5. (myLastIndex' + 1) % myCapacity = (myFirstIndex + mySize + 1) % myCapacity
    BY <1>0, <2>2, <2>3, ModShift
  <2>6. myLastIndex' \in RingSlots(myCapacity)
    BY <2>4 DEF RingSlots
  <2>7. QED
    BY <1>0, <2>1, <2>2, <2>4, <2>5, <2>6 DEF Inv, IndexInvariant
<1>3. ASSUME NEW t \in Thread, RemoveFirst(t)
      PROVE  Inv'
  <2>1. ResizeReadsFresh'
    BY <1>3, NobodyResizes
       DEF RemoveFirst, Runs, Return, ResizeReadsFresh, Resizing, Idle, TypeOK
  <2>2. mySize > 0 /\ mySize' = mySize - 1 /\ myCapacity' = myCapacity
        /\ myLastIndex' = myLastIndex
    BY <1>0, <1>3 DEF RemoveFirst
  <2>3. myFirstIndex' = (myFirstIndex + 1) % myCapacity
    BY <1>3 DEF RemoveFirst, NextSlot
  <2>4. (myFirstIndex' + mySize') % myCapacity = (myFirstIndex + mySize) % myCapacity
    <3>1. myFirstIndex + 1 \in Nat /\ mySize' \in Nat
          /\ (myFirstIndex + 1) + mySize' < 2 * myCapacity
          /\ (myFirstIndex + 1) + mySize' = myFirstIndex + mySize
      BY <1>0, <2>2
    <3>2. QED
      BY <1>0, <2>3, <3>1, ModShift, ZenonT(40)
  <2>5. QED
    BY <1>0, <2>1, <2>2, <2>4 DEF Inv, IndexInvariant
<1>4. ASSUME NEW t \in Thread, Clear(t)
      PROVE  Inv'
  <2>1. ResizeReadsFresh'
    BY <1>4, NobodyResizes
       DEF Clear, Runs, Return, ResizeReadsFresh, Resizing, Idle, TypeOK
  <2>2. QED
    BY <1>0, <1>4, <2>1 DEF Clear, Inv, IndexInvariant
<1>5. ASSUME NEW t \in Thread, SetCapacityReadFirst(t) \/ SetCapacityReadSize(t)
      PROVE  Inv'
  <2>1. IndexInvariant'
    BY <1>5 DEF SetCapacityReadFirst, SetCapacityReadSize, Inv, IndexInvariant, fields
  <2>2. ResizeReadsFresh'
    BY <1>5 DEF SetCapacityReadFirst, SetCapacityReadSize, Inv, ResizeReadsFresh,
                Resizing, Idle, TypeOK, fields, Calls
  <2>3. QED
    BY <2>1, <2>2 DEF Inv
<1>6. ASSUME NEW t \in Thread, SetCapacityCopy(t)
      PROVE  Inv'
  <2>1. Resizing(t) /\ call' = [call EXCEPT ![t] = Idle]
    BY <1>6 DEF SetCapacityCopy, SetCapacityLocks, Runs, Return, Resizing
  <2>2. ResizeReadsFresh'
    <3>1. \A u \in Thread : call'[u] = Idle
      BY <2>1 DEF Inv, ResizeReadsFresh, TypeOK
    <3>2. QED
      BY <3>1 DEF ResizeReadsFresh, Resizing, Idle
  <2>3. call[t].newSize = mySize
    BY <1>6, <2>1 DEF SetCapacityCopy, SetCapacityLocks, Inv, ResizeReadsFresh
  <2>4. call[t].newCapacity \in Nat \ {0}
    <3>1. call[t].newCapacity \in Capacities
      BY <2>1 DEF TypeOK, Calls, Resizing, Idle, Plain
    <3>2. QED
      BY <3>1, CapacitiesAssumption
  <2>5. PICK size \in Nat : /\ size <= call[t].newCapacity
                            /\ mySize' = size
    <3>1. mySize' = IF call[t].newCapacity < mySize THEN call[t].newCapacity
                                                    ELSE call[t].newSize
      BY <1>6 DEF SetCapacityCopy
    <3>2. QED
      BY <1>0, <2>3, <2>4, <3>1
  <2>6. /\ myCapacity' = call[t].newCapacity
        /\ myFirstIndex' = 0
        /\ myLastIndex' = size - 1
    BY <1>6, <2>5 DEF SetCapacityCopy
  <2>7. /\ size - 1 \in -1 .. call[t].newCapacity - 1
        /\ (size - 1) + 1 = size
        /\ 0 + size = size
        /\ size > 0 => size - 1 \in RingSlots(call[t].newCapacity)
    BY <2>4, <2>5 DEF RingSlots
  <2>8. IndexInvariant'
    BY <2>5, <2>6, <2>7 DEF IndexInvariant
  <2>9. QED
    BY <2>2, <2>8 DEF Inv
<1>7. ASSUME NEW t \in Thread,
             \/ AppendWait(t) \/ RemoveFirstWait(t) \/ PeekFirst(t) \/ PeekLast(t)
             \/ GetSize(t) \/ SetCapacitySame(t) \/ SpuriousWakeup(t)
      PROVE  Inv'
  <2>1. UNCHANGED fields
    BY <1>7 DEF AppendWait, RemoveFirstWait, PeekFirst, PeekLast, GetSize,
                SetCapacitySame, SpuriousWakeup, WaitNotEmpty
  <2>2. \A u \in Thread : call'[u] = call[u] \/ call'[u] = Idle
    BY <1>7 DEF AppendWait, RemoveFirstWait, PeekFirst, PeekLast, GetSize, TypeOK,
                SetCapacitySame, SpuriousWakeup, WaitNotEmpty, Return
  <2>3. QED
    BY <2>1, <2>2, InvFrame
<1>8. CASE UNCHANGED vars
  BY <1>8, InvFrame DEF vars
<1>9. QED
  BY <1>1, <1>2, <1>3, <1>4, <1>5, <1>6, <1>7, <1>8 DEF Next, Step

\* The array positions always agree with the size and the queue never holds
\* more than its capacity, when setCapacity overlaps no other call.
THEOREM IndexInvariantHolds ==
    ASSUME ResizeAlone
    PROVE  Spec => []IndexInvariant
<1>1. Init => Inv
  BY InvInit
<1>2. TypeOK /\ Inv /\ [Next]_vars => Inv'
  BY InvStep
<1>3. Inv => IndexInvariant
  BY DEF Inv
<1>4. QED
  BY <1>1, <1>2, <1>3, TypeCorrect, PTL DEF Spec
-----------------------------------------------------------------------------
\* The represented contents, in the form the lemmas on circular arrays take.
LEMMA ContentsView ==
    ASSUME TypeOK
    PROVE  /\ myCapacity \in Nat \ {0}
           /\ IsArray(myArray, myCapacity, Item \cup {NoItem})
           /\ myFirstIndex \in RingSlots(myCapacity)
           /\ mySize \in Nat
           /\ Contents \in Seq(Item \cup {NoItem})
           /\ Len(Contents) = mySize
           /\ \A i \in 1 .. mySize :
                 Contents[i] = RingItem(myArray, myCapacity, myFirstIndex, i)
<1>1. /\ myCapacity \in Nat \ {0}
      /\ IsArray(myArray, myCapacity, Item \cup {NoItem})
      /\ myFirstIndex \in RingSlots(myCapacity)
      /\ mySize \in Nat
  BY CapacitiesAssumption DEF TypeOK
<1>2. RingView(Item \cup {NoItem}, myArray, myCapacity, myFirstIndex, mySize)
  BY <1>1, RingIsSeq
<1>3. QED
  BY <1>1, <1>2 DEF RingView, Contents

\* A new queue is an empty queue with room for its capacity.
LEMMA RefinesInit == Init => Abstract!Init
<1> SUFFICES ASSUME Init
             PROVE  Abstract!Init
  OBVIOUS
<1>1. TypeOK /\ mySize = 0
  BY TypeInit DEF Init, CreateQueue
<1>2. Contents = << >>
  BY <1>1, ContentsView, EmptySeq
<1>3. QED
  BY <1>1, <1>2 DEF Init, TypeOK, Abstract!Init

\* append, once there is room, puts its item behind all others.
LEMMA RefinesAppend ==
    ASSUME TypeOK, Inv, NEW t \in Thread, AppendItem(t)
    PROVE  \E item \in Item : Abstract!Put(item)
<1>1. PICK item \in Item : item = call[t].item
  BY DEF AppendItem, Runs, TypeOK, Calls, Idle, Plain
<1>2. /\ mySize < myCapacity /\ mySize' = mySize + 1
      /\ UNCHANGED <<myCapacity, myFirstIndex, result>>
      /\ myLastIndex' = (myFirstIndex + mySize) % myCapacity
      /\ myArray' = [myArray EXCEPT ![myLastIndex'] = item]
  BY <1>1, ContentsView DEF AppendItem, Full, NextSlot, Inv, IndexInvariant
<1>3. Ring([myArray EXCEPT ![myLastIndex'] = item],
           myCapacity, myFirstIndex, mySize + 1)
        = Append(Ring(myArray, myCapacity, myFirstIndex, mySize), item)
  <2>1. PICK V : V = Item \cup {NoItem}
    OBVIOUS
  <2>2. PICK last : last = myLastIndex'
    OBVIOUS
  <2>3. PICK c \in Nat \ {0} : c = myCapacity
    BY ContentsView
  <2>4. PICK n \in Nat : n = mySize
    BY ContentsView
  <2>5. PICK f \in RingSlots(c) : f = myFirstIndex
    BY <2>3, ContentsView
  <2>6. item \in V /\ IsArray(myArray, c, V)
    BY <2>1, <2>3, ContentsView
  <2>7. last = (f + n) % c /\ n < c
    BY <1>2, <2>2, <2>3, <2>4, <2>5
  <2>8. PICK arr2 : arr2 = [myArray EXCEPT ![last] = item]
    OBVIOUS
  <2>9. PICK m \in Nat : m = n + 1
    OBVIOUS
  <2>written. IsWritten(arr2, myArray, c, f, n, item)
    BY <2>7, <2>8 DEF IsWritten
  <2>10. IsExtended(Ring(arr2, c, f, m), Ring(myArray, c, f, n), item)
    BY <2>6, <2>7, <2>9, <2>written, RingAppend
  <2>11. QED
    BY <2>2, <2>3, <2>4, <2>5, <2>8, <2>9, <2>10 DEF IsExtended
<1>4. Contents' = Append(Contents, item)
  BY <1>2, <1>3 DEF Contents
<1>5. Len(Contents) < myCapacity
  BY <1>2, ContentsView
<1>6. QED
  BY <1>2, <1>4, <1>5 DEF Abstract!Put

\* removeFirst, once there is an item, takes the oldest one.
LEMMA RefinesRemove ==
    ASSUME TypeOK, Inv, NEW t \in Thread, RemoveFirst(t)
    PROVE  Abstract!Take(t)
<1>1. /\ mySize \in Nat \ {0} /\ mySize <= myCapacity /\ mySize' = mySize - 1
      /\ UNCHANGED <<myArray, myCapacity>>
      /\ myFirstIndex' = (myFirstIndex + 1) % myCapacity
      /\ result' = [result EXCEPT ![t] = myArray[myFirstIndex]]
  BY ContentsView DEF RemoveFirst, NextSlot, Oldest, Inv, IndexInvariant
<1>2. /\ Contents # << >>
      /\ Head(Contents) = myArray[myFirstIndex]
      /\ Ring(myArray, myCapacity, (myFirstIndex + 1) % myCapacity, mySize - 1)
           = Tail(Contents)
  <2>1. PICK V : V = Item \cup {NoItem}
    OBVIOUS
  <2>2. PICK c \in Nat \ {0} : c = myCapacity
    BY ContentsView
  <2>3. PICK n \in Nat \ {0} : n = mySize
    BY <1>1
  <2>4. PICK f \in RingSlots(c) : f = myFirstIndex
    BY <2>2, ContentsView
  <2>5. IsArray(myArray, c, V) /\ n <= c
    BY <1>1, <2>1, <2>2, <2>3, ContentsView
  <2>6. /\ Ring(myArray, c, f, n) # << >>
        /\ Head(Ring(myArray, c, f, n)) = myArray[f]
        /\ Ring(myArray, c, (f + 1) % c, n - 1) = Tail(Ring(myArray, c, f, n))
    BY <2>5, RingTail, ZenonT(40)
  <2>7. QED
    BY <2>2, <2>3, <2>4, <2>6 DEF Contents
<1>3. Contents' = Tail(Contents)
  BY <1>1, <1>2 DEF Contents
<1>4. QED
  BY <1>1, <1>2, <1>3 DEF Abstract!Take

\* The newest item is where myLastIndex points.
LEMMA NewestItem ==
    ASSUME TypeOK, Inv, mySize # 0
    PROVE  Load(myLastIndex) = Contents[mySize]
<1> DEFINE c == myCapacity
           k == myFirstIndex + (mySize - 1)
<1>1. /\ c \in Nat \ {0} /\ mySize \in 1 .. c
      /\ myFirstIndex \in 0 .. c - 1 /\ myLastIndex \in 0 .. c - 1
      /\ (myLastIndex + 1) % c = (myFirstIndex + mySize) % c
      /\ myFirstIndex + mySize = k + 1
      /\ k \in 0 .. 2 * c - 2
  BY ContentsView DEF Inv, IndexInvariant, RingSlots
<1>2. k % c = myLastIndex
  <2> HIDE DEF k
  <2>1. ((k % c) + 1) % c = (myLastIndex + 1) % c
    BY <1>1, ModShift
  <2>2. k % c \in 0 .. c - 1
    BY <1>1, ModRange
  <2>3. PICK r \in 0 .. c - 1 : r = k % c
    BY <2>2
  <2>4. (r + 1) % c = (myLastIndex + 1) % c
    BY <2>1, <2>3
  <2>5. r = myLastIndex
    BY <1>1, <2>4, ModSuccInjective
  <2>6. QED
    BY <2>3, <2>5
<1>3. Load(myLastIndex) = RingItem(myArray, c, myFirstIndex, mySize)
  BY <1>1, <1>2 DEF Load, RingItem, RingSlots
<1>4. QED
  BY <1>1, <1>3, ContentsView

\* The peeks return the oldest and the newest item and change nothing.
LEMMA RefinesPeek ==
    ASSUME TypeOK, Inv, NEW t \in Thread, mySize # 0,
           UNCHANGED fields,
           \/ result' = [result EXCEPT ![t] = Load(myFirstIndex)]
           \/ result' = [result EXCEPT ![t] = Load(myLastIndex)]
    PROVE  Abstract!LookAt(t, 1) \/ Abstract!LookAt(t, Len(Contents))
<1>1. UNCHANGED <<Contents, myCapacity>>
  BY DEF Contents, fields
<1>2. 1 \in 1 .. Len(Contents) /\ Len(Contents) \in 1 .. Len(Contents)
  BY ContentsView
<1>3. Load(myFirstIndex) = Contents[1]
  <2>1. PICK f \in RingSlots(myCapacity) : f = myFirstIndex
    BY ContentsView
  <2>2. f + (1 - 1) = f /\ f % myCapacity = f
    BY ContentsView, ModSmall DEF RingSlots
  <2>3. Load(myFirstIndex) = RingItem(myArray, myCapacity, myFirstIndex, 1)
    BY <2>1, <2>2 DEF Load, RingItem
  <2>4. QED
    BY <1>2, <2>3, ContentsView
<1>4. Load(myLastIndex) = Contents[Len(Contents)]
  BY NewestItem, ContentsView
<1>5. QED
  BY <1>1, <1>2, <1>3, <1>4 DEF Abstract!LookAt

\* clear empties the queue.
LEMMA RefinesClear ==
    ASSUME TypeOK, TypeOK', NEW t \in Thread, Clear(t)
    PROVE  Abstract!Clear
<1>1. mySize' = 0 /\ UNCHANGED <<myCapacity, result>>
  BY DEF Clear
<1>2. Contents' = << >>
  BY <1>1 DEF Contents, Ring
<1>3. QED
  BY <1>1, <1>2 DEF Abstract!Clear

\* setCapacity keeps the oldest items, in order, as many as fit.
LEMMA RefinesResize ==
    ASSUME TypeOK, Inv, NEW t \in Thread, SetCapacityCopy(t)
    PROVE  \E newBound \in Capacities : Abstract!Resize(newBound)
<1>1. PICK d \in Capacities : d = call[t].newCapacity
  BY DEF SetCapacityCopy, SetCapacityLocks, Runs, TypeOK, Calls, Idle, Plain
<1>2. /\ call[t].j = myFirstIndex /\ call[t].newSize = mySize
  BY DEF SetCapacityCopy, SetCapacityLocks, Runs, Resizing, Inv, ResizeReadsFresh
<1> DEFINE stop == IF d < mySize THEN d ELSE mySize
<1>3. d \in Nat \ {0} /\ stop \in Nat /\ stop <= mySize /\ stop <= d
  BY CapacitiesAssumption, ContentsView
<1>4. /\ myArray' = [i \in RingSlots(d) |->
                       IF i < stop THEN Copied(myFirstIndex, i) ELSE NoItem]
      /\ mySize' = stop
      /\ myCapacity' = d
      /\ myFirstIndex' = 0
      /\ UNCHANGED result
  BY <1>1, <1>2 DEF SetCapacityCopy
<1> HIDE DEF stop
<1>5. PICK copy : copy = [i \in RingSlots(d) |->
                            IF i < stop THEN Copied(myFirstIndex, i) ELSE NoItem]
  OBVIOUS
<1>6. ASSUME NEW i
      PROVE  Load(i) \in Item \cup {NoItem}
  BY ContentsView DEF Load, IsArray
<1>7. IsArray(copy, d, Item \cup {NoItem})
  BY <1>5, <1>6 DEF IsArray, Copied
<1>8. ASSUME NEW i \in RingSlots(d), i < stop
      PROVE  copy[i] = myArray[IF i = 0 THEN myFirstIndex
                                        ELSE (myFirstIndex + i) % myCapacity]
  <2>1. (myFirstIndex + i) % myCapacity \in RingSlots(myCapacity)
    <3>1. myFirstIndex + i \in Int
      BY ContentsView DEF RingSlots
    <3>2. QED
      BY <3>1, ContentsView, ModRange DEF RingSlots
  <2>2. QED
    BY <1>5, <1>8, <2>1, ContentsView DEF Copied, Load
<1>9. Ring(copy, d, 0, stop)
        = SubSeq(Ring(myArray, myCapacity, myFirstIndex, mySize), 1, stop)
  <2>1. PICK V : V = Item \cup {NoItem}
    OBVIOUS
  <2>2. PICK c \in Nat \ {0} : c = myCapacity
    BY ContentsView
  <2>3. PICK n \in Nat : n = mySize
    BY ContentsView
  <2>4. PICK f \in RingSlots(c) : f = myFirstIndex
    BY <2>2, ContentsView
  <2>5. /\ IsArray(myArray, c, V) /\ IsArray(copy, d, V)
        /\ stop \in Nat /\ stop <= n /\ stop <= d
    BY <1>3, <1>7, <2>1, <2>2, <2>3, ContentsView
  <2>6. IsCopy(copy, d, myArray, c, f, stop)
    BY <1>8, <2>2, <2>4 DEF IsCopy
  <2>7. PICK zero : zero = 0
    OBVIOUS
  <2>8. Ring(copy, d, zero, stop) = SubSeq(Ring(myArray, c, f, n), 1, stop)
    BY <1>3, <2>5, <2>6, <2>7, RingCopy
  <2>9. QED
    BY <2>2, <2>3, <2>4, <2>7, <2>8
<1>10. Contents' = SubSeq(Contents, 1, stop)
  BY <1>4, <1>5, <1>9 DEF Contents
<1>11. stop = IF d < Len(Contents) THEN d ELSE Len(Contents)
  BY ContentsView DEF stop
<1>12. QED
  BY <1>1, <1>4, <1>10, <1>11 DEF Abstract!Resize

\* Every step is an abstract operation or invisible to clients.
LEMMA RefinesStep ==
    ASSUME TypeOK, Inv, [Next]_vars
    PROVE  [Abstract!Next]_(Abstract!vars)
<1> USE DEF Abstract!Next
<1>1. ASSUME NEW t \in Thread, NEW c \in Invocations, Invoke(t, c)
      PROVE  UNCHANGED Abstract!vars
  BY <1>1 DEF Invoke, fields, Contents, Abstract!vars
<1>2. ASSUME NEW t \in Thread,
             \/ AppendWait(t) \/ RemoveFirstWait(t) \/ GetSize(t)
             \/ SetCapacityReadFirst(t) \/ SetCapacityReadSize(t)
             \/ SetCapacitySame(t) \/ SpuriousWakeup(t)
      PROVE  UNCHANGED Abstract!vars
  BY <1>2 DEF AppendWait, RemoveFirstWait, WaitNotEmpty, GetSize,
     SetCapacityReadFirst, SetCapacityReadSize, SetCapacitySame, SpuriousWakeup,
     fields, Contents, Abstract!vars
<1>3. ASSUME NEW t \in Thread, AppendItem(t)
      PROVE  Abstract!Next
  BY <1>3, RefinesAppend
<1>4. ASSUME NEW t \in Thread, RemoveFirst(t)
      PROVE  Abstract!Next
  BY <1>4, RefinesRemove
<1>5. ASSUME NEW t \in Thread, NEW op, WaitNotEmpty(t, op)
      PROVE  UNCHANGED Abstract!vars
  BY <1>5 DEF WaitNotEmpty, fields, Contents, Abstract!vars
<1>6. ASSUME NEW t \in Thread, PeekFirst(t) \/ PeekLast(t)
      PROVE  [Abstract!Next]_(Abstract!vars)
  <2>1. CASE WaitNotEmpty(t, "peekFirst") \/ WaitNotEmpty(t, "peekLast")
    BY <1>5, <2>1
  <2>2. CASE /\ mySize # 0
             /\ UNCHANGED fields
             /\ \/ result' = [result EXCEPT ![t] = Load(myFirstIndex)]
                \/ result' = [result EXCEPT ![t] = Load(myLastIndex)]
    BY <2>2, RefinesPeek
  <2>3. QED
    BY <1>6, <2>1, <2>2 DEF PeekFirst, PeekLast
<1>7. ASSUME NEW t \in Thread, Clear(t)
      PROVE  Abstract!Next
  BY <1>7, TypeStep, RefinesClear
<1>8. ASSUME NEW t \in Thread, SetCapacityCopy(t)
      PROVE  Abstract!Next
  BY <1>8, RefinesResize
<1>9. CASE UNCHANGED vars
  BY <1>9 DEF vars, fields, Contents, Abstract!vars
<1>10. QED
  BY <1>1, <1>2, <1>3, <1>4, <1>6, <1>7, <1>8, <1>9 DEF Next, Step

\* For any number of threads, any items and any capacities, the circular array
\* with its lock and wait sets implements the bounded FIFO queue: no item is
\* lost, repeated or overtaken, and every removal and peek returns the item the
\* abstract queue would, as long as setCapacity overlaps no other call.
THEOREM QueueImplementsBoundedFIFO ==
    ASSUME ResizeAlone
    PROVE  Spec => ImplementsBoundedFIFO
<1>1. Init => Inv /\ Abstract!Init
  BY InvInit, RefinesInit
<1>2. TypeOK /\ Inv /\ [Next]_vars => Inv'
  BY InvStep
<1>3. TypeOK /\ Inv /\ [Next]_vars => [Abstract!Next]_(Abstract!vars)
  BY RefinesStep
<1>4. QED
  BY <1>1, <1>2, <1>3, TypeCorrect, PTL DEF Spec, ImplementsBoundedFIFO, Abstract!Spec

=============================================================================
