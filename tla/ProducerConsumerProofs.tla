------------------------ MODULE ProducerConsumerProofs ------------------------
(***************************************************************************)
(* Theorems about ProducerConsumer, for any number of producers and         *)
(* consumers and any capacity: its types, that no wakeup is lost, that the  *)
(* items are conserved and stay in their producer's order, and, with as     *)
(* many consumers as producers, that the assertion of main holds.           *)
(***************************************************************************)
EXTENDS ProducerConsumer, CircularArray, SequenceTheorems, FiniteSetTheorems, TLAPS

(* Circular arrays, as for TSQueue: the remainder arithmetic of their       *)
(* indices, and how writing behind the newest item and dropping the oldest  *)
(* one change the stored sequence.                                          *)

\* A remainder is a slot of the array.
LEMMA ModRange ==
    ASSUME NEW c \in Nat \ {0}, NEW a \in Int
    PROVE  a % c \in 0 .. c - 1
  OBVIOUS

\* A slot is its own remainder.
LEMMA ModSmall ==
    ASSUME NEW c \in Nat \ {0}, NEW a \in 0 .. c - 1
    PROVE  a % c = a
  OBVIOUS

\* An index less than one turn beyond the array wraps once.
LEMMA ModWrap ==
    ASSUME NEW c \in Nat \ {0}, NEW a \in c .. 2 * c - 1
    PROVE  a % c = a - c
  OBVIOUS

\* Wrapping an index before moving on does not change where one arrives:
\* how TS_Queue.c steps a wrapped index.
LEMMA ModShift ==
    ASSUME NEW c \in Nat \ {0}, NEW a \in Nat, NEW b \in Nat, a + b < 2 * c
    PROVE  ((a % c) + b) % c = (a + b) % c
<1>1. CASE a < c
  BY <1>1, ModSmall
<1>2. CASE a >= c
  <2>1. a % c = a - c /\ (a + b) % c = a + b - c
    <3>1. a \in c .. 2 * c - 1 /\ a + b \in c .. 2 * c - 1
      BY <1>2
    <3>2. a % c = a - c
      BY <3>1, ModWrap
    <3>3. (a + b) % c = a + b - c
      BY <3>1, ModWrap
    <3>4. QED
      BY <3>2, <3>3
  <2>2. (a - c + b) % c = a - c + b
    <3>1. a - c + b \in 0 .. c - 1
      BY <1>2
    <3>2. QED
      BY <3>1, ModSmall
  <2>3. QED
    BY <2>1, <2>2
<1>3. QED
  BY <1>1, <1>2

\* Fewer than c steps from a slot never lead back to a slot passed before.
LEMMA ModDistinct ==
    ASSUME NEW c \in Nat \ {0}, NEW a \in 0 .. c - 1,
           NEW i \in Nat, NEW k \in Nat, i < k, k < c
    PROVE  (a + i) % c # (a + k) % c
<1>1. CASE a + k < c
  BY <1>1, ModSmall
<1>2. CASE a + i < c /\ a + k >= c
  BY <1>2, ModSmall, ModWrap
<1>3. CASE a + i >= c
  BY <1>3, ModWrap
<1>4. QED
  BY <1>1, <1>2, <1>3
-----------------------------------------------------------------------------
\* The ring is a sequence of n values, and its items are the ring's items.
RingView(V, arr, c, f, n) ==
    /\ Ring(arr, c, f, n) \in Seq(V)
    /\ Len(Ring(arr, c, f, n)) = n
    /\ \A i \in 1 .. n : Ring(arr, c, f, n)[i] = RingItem(arr, c, f, i)

\* What a circular array stores is a sequence of values of the length asked for.
LEMMA RingIsSeq ==
    ASSUME NEW V, NEW c \in Nat \ {0}, NEW arr, IsArray(arr, c, V),
           NEW f \in RingSlots(c), NEW n \in Nat
    PROVE  RingView(V, arr, c, f, n)
<1>1. ASSUME NEW i \in 1 .. n
      PROVE  RingItem(arr, c, f, i) \in V
  <2>1. f + (i - 1) \in Int
    BY DEF RingSlots
  <2>2. (f + (i - 1)) % c \in RingSlots(c)
    BY <2>1, ModRange DEF RingSlots
  <2>3. QED
    BY <2>2 DEF RingItem, IsArray
<1>2. Ring(arr, c, f, n) \in [1 .. n -> V]
  BY <1>1 DEF Ring
<1>3. Ring(arr, c, f, n) \in Seq(V)
  BY <1>2, SeqDef
<1>4. Len(Ring(arr, c, f, n)) = n
  BY <1>2, <1>3, LenProperties
<1>5. QED
  BY <1>3, <1>4 DEF Ring, RingView

\* arr2 is arr with v written in the slot behind the n-th item.
IsWritten(arr2, arr, c, f, n, v) == arr2 = [arr EXCEPT ![(f + n) % c] = v]

\* s2 is s with v behind it.
IsExtended(s2, s, v) == s2 = Append(s, v)

\* Writing behind the newest item of an array with a free slot appends to what
\* it stores, and disturbs no other item: TS_Queue.c, append.
LEMMA RingAppend ==
    ASSUME NEW V, NEW c \in Nat \ {0}, NEW arr, IsArray(arr, c, V),
           NEW f \in RingSlots(c), NEW n \in Nat, n < c,
           NEW v \in V, NEW arr2, IsWritten(arr2, arr, c, f, n, v),
           NEW m \in Nat, m = n + 1
    PROVE  IsExtended(Ring(arr2, c, f, m), Ring(arr, c, f, n), v)
<1>last. PICK last : last = (f + n) % c
  OBVIOUS
<1>written. arr2 = [arr EXCEPT ![last] = v]
  BY <1>last DEF IsWritten
<1>isArray. IsArray(arr2, c, V)
  BY <1>written DEF IsArray
<1>inArray. last \in RingSlots(c)
  <2>1. f + n \in Int
    BY DEF RingSlots
  <2>2. QED
    BY <1>last, <2>1, ModRange DEF RingSlots
<1>new. PICK new : new = Ring(arr2, c, f, m)
  OBVIOUS
<1>old. PICK old : old = Ring(arr, c, f, n)
  OBVIOUS
<1>1. /\ new \in Seq(V)
      /\ Len(new) = n + 1
      /\ \A i \in 1 .. n + 1 : new[i] = RingItem(arr2, c, f, i)
  <2>1. m \in Nat
    OBVIOUS
  <2>2. RingView(V, arr2, c, f, m)
    BY <1>isArray, RingIsSeq
  <2>3. QED
    BY <1>new, <2>1, <2>2 DEF RingView
<1>2. /\ old \in Seq(V)
      /\ Len(old) = n
      /\ \A i \in 1 .. n : old[i] = RingItem(arr, c, f, i)
  <2>1. RingView(V, arr, c, f, n)
    BY RingIsSeq
  <2>2. QED
    BY <1>old, <2>1 DEF RingView
<1>3. /\ Append(old, v) \in Seq(V)
      /\ Len(Append(old, v)) = n + 1
      /\ \A i \in 1 .. n : Append(old, v)[i] = old[i]
      /\ Append(old, v)[n + 1] = v
  BY <1>2, AppendProperties
<1>4. ASSUME NEW i \in 1 .. n
      PROVE  new[i] = Append(old, v)[i]
  <2>1. /\ i - 1 \in Nat /\ i - 1 < n /\ f + (i - 1) \in Int
        /\ i \in 1 .. n + 1 /\ f \in 0 .. c - 1
    BY DEF RingSlots
  <2>2. (f + (i - 1)) % c # (f + n) % c
    BY <2>1, ModDistinct
  <2>3. (f + (i - 1)) % c \in RingSlots(c)
    BY <2>1, ModRange DEF RingSlots
  <2>4. RingItem(arr2, c, f, i) = RingItem(arr, c, f, i)
    BY <1>written, <1>last, <2>2, <2>3 DEF RingItem, IsArray
  <2>5. QED
    BY <1>1, <1>2, <1>3, <2>1, <2>4
<1>5. new[n + 1] = v
  <2>1. f + ((n + 1) - 1) = f + n /\ n + 1 \in 1 .. n + 1
    BY DEF RingSlots
  <2>2. RingItem(arr2, c, f, n + 1) = v
    BY <1>written, <1>inArray, <1>last, <2>1 DEF RingItem, IsArray
  <2>3. QED
    BY <1>1, <2>1, <2>2
<1>6. \A i \in 1 .. n + 1 : new[i] = Append(old, v)[i]
  <2>1. \A i \in 1 .. n + 1 : i = n + 1 \/ i \in 1 .. n
    OBVIOUS
  <2>2. QED
    BY <1>3, <1>4, <1>5, <2>1
<1>7. new = Append(old, v)
  BY <1>1, <1>3, <1>6, SeqEqual
<1>8. QED
  BY <1>7, <1>written, <1>new, <1>old DEF IsExtended

\* The oldest item is at the first index, and advancing that index drops it:
\* TS_Queue.c, removeFirst.
LEMMA RingTail ==
    ASSUME NEW V, NEW c \in Nat \ {0}, NEW arr, IsArray(arr, c, V),
           NEW f \in RingSlots(c), NEW n \in Nat \ {0}, n <= c
    PROVE  /\ Ring(arr, c, f, n) # << >>
           /\ Head(Ring(arr, c, f, n)) = arr[f]
           /\ Ring(arr, c, (f + 1) % c, n - 1) = Tail(Ring(arr, c, f, n))
<1>1. PICK g \in RingSlots(c) : g = (f + 1) % c
  <2>1. f + 1 \in Int
    BY DEF RingSlots
  <2>2. QED
    BY <2>1, ModRange DEF RingSlots
<1>new. PICK new : new = Ring(arr, c, g, n - 1)
  OBVIOUS
<1>old. PICK old : old = Ring(arr, c, f, n)
  OBVIOUS
<1>2. /\ old \in Seq(V)
      /\ Len(old) = n
      /\ \A i \in 1 .. n : old[i] = RingItem(arr, c, f, i)
  <2>1. RingView(V, arr, c, f, n)
    BY RingIsSeq
  <2>2. QED
    BY <1>old, <2>1 DEF RingView
<1>3. /\ new \in Seq(V)
      /\ Len(new) = n - 1
      /\ \A i \in 1 .. n - 1 : new[i] = RingItem(arr, c, g, i)
  <2>1. PICK m \in Nat : m = n - 1
    OBVIOUS
  <2>2. RingView(V, arr, c, g, m)
    BY RingIsSeq
  <2>3. QED
    BY <1>new, <2>1, <2>2 DEF RingView
<1>4. old # << >>
  BY <1>2, EmptySeq
<1>5. /\ Tail(old) \in Seq(V)
      /\ Len(Tail(old)) = n - 1
      /\ \A i \in 1 .. n - 1 : Tail(old)[i] = old[i + 1]
  BY <1>2, <1>4, HeadTailProperties
<1>6. ASSUME NEW i \in 1 .. n - 1
      PROVE  new[i] = Tail(old)[i]
  <2>1. /\ f + 1 \in Nat /\ i - 1 \in Nat /\ (f + 1) + (i - 1) < 2 * c
        /\ (f + 1) + (i - 1) = f + ((i + 1) - 1)
        /\ i + 1 \in 1 .. n
    BY DEF RingSlots
  <2>2. (((f + 1) % c) + (i - 1)) % c = ((f + 1) + (i - 1)) % c
    BY <2>1, ModShift
  <2>3. RingItem(arr, c, g, i) = RingItem(arr, c, f, i + 1)
    BY <1>1, <2>1, <2>2 DEF RingItem
  <2>4. QED
    BY <1>2, <1>3, <1>5, <2>1, <2>3
<1>7. new = Tail(old)
  BY <1>3, <1>5, <1>6, SeqEqual
<1>8. Head(old) = arr[f]
  <2>1. f + (1 - 1) = f /\ 1 \in 1 .. n /\ f % c = f
    BY ModSmall DEF RingSlots
  <2>2. RingItem(arr, c, f, 1) = arr[f]
    BY <2>1 DEF RingItem
  <2>3. old[1] = arr[f]
    BY <1>2, <2>1, <2>2
  <2>4. QED
    BY <1>2, <2>3
<1>9. QED
  BY <1>1, <1>4, <1>7, <1>8, <1>new, <1>old
-----------------------------------------------------------------------------
\* A producer is named by its number; no producer is a consumer or main.
LEMMA ThreadNames ==
    /\ \A p \in Producer : p[2] \in 1 .. numProducers /\ p = <<"producer", p[2]>>
    /\ \A c \in Consumer : c[2] \in 1 .. numConsumers /\ c = <<"consumer", c[2]>>
    /\ \A p \in Producer : p \notin Consumer /\ p # Main
    /\ \A c \in Consumer : c \notin Producer /\ c # Main
    /\ Main \notin Producer /\ Main \notin Consumer
    /\ \A i \in 1 .. numProducers : <<"producer", i>> \in Producer
    /\ \A i \in 1 .. numConsumers : <<"consumer", i>> \in Consumer
  BY DEF Producer, Consumer, Main

\* There are as many producers as the program is told, and as many consumers.
LEMMA ThreadCounts ==
    /\ IsFiniteSet(Producer) /\ Cardinality(Producer) = numProducers
    /\ IsFiniteSet(Consumer) /\ Cardinality(Consumer) = numConsumers
<1>0. numProducers \in Nat /\ numConsumers \in Nat
  BY CountsAssumption
<1>1. ASSUME NEW S, NEW n \in Nat, NEW name, S = {<<name, id>> : id \in 1 .. n}
      PROVE  IsFiniteSet(S) /\ Cardinality(S) = n
  <2> DEFINE f == [id \in 1 .. n |-> <<name, id>>]
  <2>1. f \in Bijection(1 .. n, S)
    <3>1. f \in [1 .. n -> S]
      BY <1>1
    <3>2. \A i, j \in 1 .. n : f[i] = f[j] => i = j
      OBVIOUS
    <3>3. \A s \in S : \E i \in 1 .. n : f[i] = s
      BY <1>1
    <3>4. QED
      BY <3>1, <3>2, <3>3 DEF Bijection, Injection, Surjection, IsInjective
  <2>2. ExistsBijection(1 .. n, S)
    BY <2>1 DEF ExistsBijection
  <2>3. IsFiniteSet(1 .. n)
    BY FS_Interval
  <2>4. QED
    BY <2>2, <2>3, FS_CountingElements, FS_Bijection
<1>2. Producer = {<<"producer", id>> : id \in 1 .. numProducers}
  BY DEF Producer
<1>3. Consumer = {<<"consumer", id>> : id \in 1 .. numConsumers}
  BY DEF Consumer
<1>4. IsFiniteSet(Producer) /\ Cardinality(Producer) = numProducers
  BY <1>0, <1>1, <1>2
<1>5. IsFiniteSet(Consumer) /\ Cardinality(Consumer) = numConsumers
  BY <1>0, <1>1, <1>3
<1>6. QED
  BY <1>4, <1>5

\* The items of one producer are numbered upwards and no two appends have the
\* same item: the program writes 10*id+i with i below 10.
LEMMA ItemNumbers ==
    ASSUME NEW p \in Producer, NEW i \in 0 .. numItems - 1
    PROVE  /\ ItemOf(p, i) \in Item
           /\ ItemOf(p, i) \in Nat
           /\ ItemOf(p, i) \div 10 = p[2]
           /\ \A q \in Producer, j \in 0 .. numItems - 1 :
                 /\ ItemOf(p, i) = ItemOf(q, j) => p = q /\ i = j
                 /\ ItemOf(p, i) \div 10 = ItemOf(q, j) \div 10 => p = q
<1>1. numItems \in 1 .. 10 /\ numProducers \in Nat
  BY CountsAssumption
<1>2. ASSUME NEW q \in Producer, NEW j \in 0 .. numItems - 1
      PROVE  ItemOf(q, j) \in Nat /\ ItemOf(q, j) \div 10 = q[2]
             /\ ItemOf(q, j) = 10 * q[2] + j
  <2>1. PICK k \in Nat : k = q[2]
    BY <1>1, ThreadNames
  <2>2. j \in 0 .. 9
    BY <1>1
  <2>3. 10 * k + j \in Nat /\ (10 * k + j) \div 10 = k
    BY <2>2
  <2>4. QED
    BY <2>1, <2>3 DEF ItemOf
<1>3. ItemOf(p, i) \in Item
  BY DEF Item
<1>4. ASSUME NEW q \in Producer, NEW j \in 0 .. numItems - 1,
             ItemOf(p, i) \div 10 = ItemOf(q, j) \div 10
      PROVE  p = q
  BY <1>2, <1>4, ThreadNames
<1>5. ASSUME NEW q \in Producer, NEW j \in 0 .. numItems - 1,
             ItemOf(p, i) = ItemOf(q, j)
      PROVE  p = q /\ i = j
  <2>1. p = q
    BY <1>4, <1>5
  <2>2. PICK k \in Nat : k = p[2]
    BY <1>1, ThreadNames
  <2>3. 10 * k + i = 10 * k + j
    BY <1>5, <2>1, <2>2 DEF ItemOf
  <2>4. QED
    BY <1>1, <2>1, <2>3
<1>6. QED
  BY <1>2, <1>3, <1>4, <1>5
-----------------------------------------------------------------------------
N == numConsumers + numProducers

AppendCall(p) == [op |-> "append", item |-> ItemOf(p, sent[p] - 1)]
RemoveCall == [op |-> "removeFirst"]
SizeCall == [op |-> "getSize"]

\* What each thread can be executing: a producer appends the item its loop
\* counter has just passed, a consumer removes while it has not had its share,
\* main asks for the size once.
CallShape ==
    /\ \A p \in Producer : \/ call[p] = Queue!Idle
                           \/ sent[p] > 0 /\ call[p] = AppendCall(p)
    /\ \A c \in Consumer : \/ call[c] = Queue!Idle
                           \/ Len(got[c]) < numItems /\ call[c] = RemoveCall
    /\ \A c \in Consumer : Len(got[c]) <= numItems
    /\ \/ call[Main] = Queue!Idle
       \/ mainAt = "assert" /\ call[Main] = SizeCall

\* Only consumers in removeFirst wait for items, only producers in append for
\* room.
SleepShape ==
    /\ \A t \in notEmpty : t \in Consumer /\ call[t] = RemoveCall
    /\ \A t \in notFull : t \in Producer /\ call[t] = AppendCall(t)

\* Where main is tells how many threads it has started and joined, and the
\* threads it has joined have finished.
MainShape ==
    /\ IF mainAt = "create" THEN started < N ELSE started = N
    /\ mainAt = "create" => joined = 0
    /\ mainAt = "join" => joined < N
    /\ mainAt \in {"assert", "destroy", "done", "aborted"} => joined = N
    /\ \A i \in 1 .. joined : Finished(ThreadAt(i))

\* The queue stores items, at positions that agree with its size.
QueueShape ==
    /\ Queue!TypeOK
    /\ Queue!IndexInvariant
    /\ Queue!Contents \in Seq(Item)

\* The inductive invariant behind TypeOK.
Shape == TypeOK /\ QueueShape /\ CallShape /\ SleepShape /\ MainShape

\* x has been removed by a consumer, or is in the queue.
Held(x) ==
    \/ \E c \in Consumer : \E i \in 1 .. Len(got[c]) : got[c][i] = x
    \/ \E k \in 1 .. mySize : Queue!Contents[k] = x

Before(x, y) == x \div 10 = y \div 10 => x < y

\* ItemsConserved without its cardinalities, and ProducerOrder with the order
\* of the queued items among themselves.
Items ==
    /\ \A x \in Item : Held(x) <=> \E p \in Producer : x \in Appended(p)
    /\ \A k, l \in 1 .. mySize : k # l => Queue!Contents[k] # Queue!Contents[l]
    /\ \A c \in Consumer : \A i \in 1 .. Len(got[c]) :
          /\ \A j \in 1 .. Len(got[c]) : i # j => got[c][i] # got[c][j]
          /\ \A k \in 1 .. mySize : got[c][i] # Queue!Contents[k]
          /\ \A d \in Consumer \ {c} : \A j \in 1 .. Len(got[d]) : got[c][i] # got[d][j]
Order ==
    /\ \A k, l \in 1 .. mySize : k < l => Before(Queue!Contents[k], Queue!Contents[l])
    /\ \A c \in Consumer : \A i \in 1 .. Len(got[c]) :
          /\ \A j \in 1 .. Len(got[c]) : i < j => Before(got[c][i], got[c][j])
          /\ \A k \in 1 .. mySize : Before(got[c][i], Queue!Contents[k])
-----------------------------------------------------------------------------
\* What the queue stores, in the form the lemmas on circular arrays take.
LEMMA ContentsView ==
    ASSUME Queue!TypeOK
    PROVE  /\ myCapacity = QueueCapacity /\ myCapacity \in Nat \ {0}
           /\ IsArray(myArray, myCapacity, Item \cup {NoItem})
           /\ myFirstIndex \in RingSlots(myCapacity)
           /\ mySize \in Nat
           /\ Queue!Contents = Ring(myArray, myCapacity, myFirstIndex, mySize)
           /\ Queue!Contents \in Seq(Item \cup {NoItem})
           /\ Len(Queue!Contents) = mySize
<1>1. /\ myCapacity = QueueCapacity /\ myCapacity \in Nat \ {0}
      /\ IsArray(myArray, myCapacity, Item \cup {NoItem})
      /\ myFirstIndex \in RingSlots(myCapacity)
      /\ mySize \in Nat
  BY CountsAssumption DEF Queue!TypeOK, Queue!IsArray, Queue!RingSlots, IsArray, RingSlots
<1>2. RingView(Item \cup {NoItem}, myArray, myCapacity, myFirstIndex, mySize)
  BY <1>1, RingIsSeq
<1>3. Queue!Contents = Ring(myArray, myCapacity, myFirstIndex, mySize)
  BY DEF Queue!Contents, Queue!Ring, Queue!RingItem, Ring, RingItem
<1>4. QED
  BY <1>1, <1>2, <1>3 DEF RingView

\* append, once there is room, puts its item behind all others and keeps the
\* positions in agreement.
LEMMA AppendEffect ==
    ASSUME QueueShape, NEW t \in Thread, Queue!AppendItem(t),
           call[t].item \in Item
    PROVE  /\ Queue!Contents' = Append(Queue!Contents, call[t].item)
           /\ mySize < myCapacity /\ mySize' = mySize + 1
           /\ QueueShape'
<1>c. PICK c \in Nat \ {0} : c = myCapacity
  BY ContentsView DEF QueueShape
<1>0. PICK n \in Nat, f \in RingSlots(c), last \in Int, item \in Item :
         /\ n = mySize /\ f = myFirstIndex /\ last = myLastIndex
         /\ item = call[t].item
  BY <1>c, ContentsView DEF QueueShape, Queue!TypeOK
<1>1. /\ n < c /\ mySize' = n + 1
      /\ myCapacity' = c /\ myFirstIndex' = f
      /\ myLastIndex' = (last + 1) % c
      /\ myArray' = [myArray EXCEPT ![myLastIndex'] = item]
      /\ (last + 1) % c = (f + n) % c
  BY <1>c, <1>0 DEF Queue!AppendItem, Queue!Full, Queue!NextSlot, QueueShape, Queue!IndexInvariant
<1>2. (f + n) % c \in 0 .. c - 1
  <2>1. f + n \in Int
    BY DEF RingSlots
  <2>2. QED
    BY <2>1, ModRange
<1>3. Ring(myArray', c, f, n + 1) = Append(Ring(myArray, c, f, n), item)
  <2>0. PICK V : V = Item \cup {NoItem}
    OBVIOUS
  <2>1. IsArray(myArray, c, V)
    BY <1>c, <1>0, <2>0, ContentsView DEF QueueShape
  <2>2. IsWritten(myArray', myArray, c, f, n, item)
    BY <1>1 DEF IsWritten
  <2>3. PICK arr2 : arr2 = myArray'
    OBVIOUS
  <2>m. PICK m \in Nat : m = n + 1
    OBVIOUS
  <2>4. IsWritten(arr2, myArray, c, f, n, item)
    BY <2>2, <2>3
  <2>5. IsExtended(Ring(arr2, c, f, m), Ring(myArray, c, f, n), item)
    BY <1>c, <1>0, <1>1, <2>0, <2>1, <2>3, <2>m, <2>4, RingAppend
  <2>6. QED
    BY <2>3, <2>m, <2>5 DEF IsExtended
<1>4. /\ Queue!Contents' = Ring(myArray', myCapacity', myFirstIndex', mySize')
      /\ Queue!Contents = Ring(myArray, c, f, n)
  BY <1>c, <1>0, ContentsView DEF QueueShape, Queue!Contents, Queue!Ring, Queue!RingItem, Ring, RingItem
<1>5. Queue!Contents' = Append(Queue!Contents, item)
  BY <1>1, <1>3, <1>4
<1>6. Queue!IndexInvariant'
  <2>1. myLastIndex' \in 0 .. c - 1
    BY <1>1, <1>2
  <2>2. (myLastIndex' + 1) % c = (f + n + 1) % c
    <3>1. f + n \in Nat /\ (f + n) + 1 < 2 * c
      BY <1>1 DEF RingSlots
    <3>2. (((f + n) % c) + 1) % c = ((f + n) + 1) % c
      BY <3>1, ModShift
    <3>3. QED
      BY <1>1, <3>2
  <2>3. mySize' <= c /\ f + n + 1 = f + (n + 1)
    BY <1>1 DEF RingSlots
  <2>4. QED
    BY <1>1, <2>1, <2>2, <2>3 DEF Queue!IndexInvariant, Queue!RingSlots
<1>7. Queue!TypeOK'
  <2>1. Queue!IsArray(myArray', c, Item \cup {NoItem})
    BY <1>c, <1>0, <1>1, <1>2 DEF QueueShape, Queue!TypeOK, Queue!IsArray, Queue!RingSlots
  <2>2. notEmpty' \subseteq notEmpty
    BY DEF Queue!AppendItem, Queue!Signal
  <2>3. myLastIndex' \in Nat
    BY <1>1, <1>2
  <2>4. call' \in [Thread -> Queue!Calls \cup {Queue!Idle}]
    BY DEF Queue!AppendItem, Queue!Return, QueueShape, Queue!TypeOK
  <2>5. UNCHANGED <<myCapacity, myFirstIndex, lockLeaked, notFull, result>>
    BY DEF Queue!AppendItem
  <2>6. QED
    BY <1>c, <1>0, <1>1, <2>1, <2>2, <2>3, <2>4, <2>5 DEF QueueShape, Queue!TypeOK
<1>8. Queue!Contents' \in Seq(Item)
  BY <1>5 DEF QueueShape
<1>9. QED
  BY <1>c, <1>0, <1>1, <1>5, <1>6, <1>7, <1>8 DEF QueueShape

\* removeFirst, once there is an item, takes the oldest one and keeps the
\* positions in agreement.
LEMMA RemoveEffect ==
    ASSUME QueueShape, NEW t \in Thread, Queue!RemoveFirst(t)
    PROVE  /\ Queue!Contents # << >>
           /\ result'[t] = Head(Queue!Contents)
           /\ Queue!Contents' = Tail(Queue!Contents)
           /\ mySize > 0 /\ mySize' = mySize - 1
           /\ QueueShape'
<1>c. PICK c \in Nat \ {0} : c = myCapacity
  BY ContentsView DEF QueueShape
<1>0. PICK n \in Nat, f \in RingSlots(c), last \in Int :
         n = mySize /\ f = myFirstIndex /\ last = myLastIndex
  BY <1>c, ContentsView DEF QueueShape, Queue!TypeOK
<1>1. /\ n > 0 /\ n <= c /\ mySize' = n - 1
      /\ myCapacity' = c /\ myFirstIndex' = (f + 1) % c
      /\ myLastIndex' = last /\ myArray' = myArray
      /\ result' = [result EXCEPT ![t] = myArray[f]]
  BY <1>c, <1>0 DEF Queue!RemoveFirst, Queue!Oldest, Queue!NextSlot, QueueShape, Queue!IndexInvariant
<1>2. (f + 1) % c \in RingSlots(c)
  <2>1. f + 1 \in Int
    BY DEF RingSlots
  <2>2. QED
    BY <2>1, ModRange DEF RingSlots
<1>3. /\ Ring(myArray, c, f, n) # << >>
      /\ Head(Ring(myArray, c, f, n)) = myArray[f]
      /\ Ring(myArray, c, (f + 1) % c, n - 1) = Tail(Ring(myArray, c, f, n))
  <2>0. PICK V : V = Item \cup {NoItem}
    OBVIOUS
  <2>1. IsArray(myArray, c, V)
    BY <1>c, <1>0, <2>0, ContentsView DEF QueueShape
  <2>2. n \in Nat \ {0}
    BY <1>1
  <2>3. QED
    BY <1>1, <2>1, <2>2, RingTail, ZenonT(40)
<1>4. /\ Queue!Contents' = Ring(myArray', myCapacity', myFirstIndex', mySize')
      /\ Queue!Contents = Ring(myArray, c, f, n)
  BY <1>c, <1>0, ContentsView DEF QueueShape, Queue!Contents, Queue!Ring, Queue!RingItem, Ring, RingItem
<1>5. /\ Queue!Contents # << >>
      /\ Queue!Contents' = Tail(Queue!Contents)
      /\ result'[t] = Head(Queue!Contents)
  BY <1>1, <1>3, <1>4 DEF QueueShape, Queue!TypeOK
<1>6. Queue!IndexInvariant'
  <2>1. (last + 1) % c = (f + n) % c /\ last \in -1 .. c - 1 /\ last \in 0 .. c - 1
    BY <1>c, <1>0, <1>1 DEF QueueShape, Queue!IndexInvariant, Queue!RingSlots
  <2>2. (((f + 1) % c) + (n - 1)) % c = (f + n) % c
    <3>1. f + 1 \in Nat /\ n - 1 \in Nat /\ (f + 1) + (n - 1) < 2 * c
          /\ (f + 1) + (n - 1) = f + n
      BY <1>1 DEF RingSlots
    <3>2. QED
      BY <3>1, ModShift
  <2>3. QED
    BY <1>1, <2>1, <2>2 DEF Queue!IndexInvariant, Queue!RingSlots
<1>7. Queue!TypeOK'
  <2>1. notFull' \subseteq notFull
    BY DEF Queue!RemoveFirst, Queue!Signal
  <2>2. call' \in [Thread -> Queue!Calls \cup {Queue!Idle}]
    BY DEF Queue!RemoveFirst, Queue!Return, QueueShape, Queue!TypeOK
  <2>3. result' \in [Thread -> Item \cup {NoItem}]
    BY <1>c, <1>0, <1>1, ContentsView DEF QueueShape, Queue!TypeOK, IsArray
  <2>4. myFirstIndex' \in Queue!RingSlots(myCapacity')
    BY <1>1, <1>2 DEF RingSlots, Queue!RingSlots
  <2>5. UNCHANGED <<myArray, myCapacity, myLastIndex, lockLeaked, notEmpty>>
    BY DEF Queue!RemoveFirst
  <2>6. QED
    BY <1>c, <1>0, <1>1, <2>1, <2>2, <2>3, <2>4, <2>5 DEF QueueShape, Queue!TypeOK
<1>8. Queue!Contents' \in Seq(Item)
  BY <1>5 DEF QueueShape
<1>9. QED
  BY <1>c, <1>0, <1>1, <1>5, <1>6, <1>7, <1>8 DEF QueueShape

\* A step that leaves the queue's fields and results alone.
LEMMA QueueFrame ==
    ASSUME QueueShape,
           UNCHANGED <<myArray, myCapacity, mySize, myFirstIndex, myLastIndex,
                       lockLeaked, result>>,
           notEmpty' \subseteq Thread, notFull' \subseteq Thread,
           call' \in [Thread -> Queue!Calls \cup {Queue!Idle}]
    PROVE  QueueShape' /\ Queue!Contents' = Queue!Contents
<1>1. Queue!Contents' = Queue!Contents
  BY DEF Queue!Contents
<1>2. Queue!TypeOK'
  BY DEF QueueShape, Queue!TypeOK
<1>3. Queue!IndexInvariant'
  BY DEF QueueShape, Queue!IndexInvariant
<1>4. QED
  BY <1>1, <1>2, <1>3 DEF QueueShape
-----------------------------------------------------------------------------
\* The threads main starts are the producers and the consumers.
LEMMA ThreadOrder ==
    /\ \A i \in 1 .. N : ThreadAt(i) \in Producer \cup Consumer
    /\ \A t \in Producer \cup Consumer : \E i \in 1 .. N : ThreadAt(i) = t
<1>0. numProducers \in Nat /\ numConsumers \in Nat
  BY CountsAssumption
<1>1. ASSUME NEW i \in 1 .. N
      PROVE  ThreadAt(i) \in Producer \cup Consumer
  <2>1. CASE i <= numConsumers
    BY <1>0, <2>1, ThreadNames DEF ThreadAt, N
  <2>2. CASE ~(i <= numConsumers)
    <3>1. i - numConsumers \in 1 .. numProducers
      BY <1>0, <2>2 DEF N
    <3>2. QED
      BY <2>2, <3>1, ThreadNames DEF ThreadAt
  <2>3. QED
    BY <2>1, <2>2
<1>2. ASSUME NEW p \in Producer
      PROVE  \E i \in 1 .. N : ThreadAt(i) = p
  <2>1. PICK k \in 1 .. numProducers : k = p[2]
    BY ThreadNames
  <2>2. /\ numConsumers + k \in 1 .. N
        /\ ~(numConsumers + k <= numConsumers)
        /\ (numConsumers + k) - numConsumers = k
    BY <1>0 DEF N
  <2>3. QED
    BY <2>1, <2>2, ThreadNames DEF ThreadAt
<1>3. ASSUME NEW c \in Consumer
      PROVE  \E i \in 1 .. N : ThreadAt(i) = c
  <2>1. PICK k \in 1 .. numConsumers : k = c[2]
    BY ThreadNames
  <2>2. k \in 1 .. N /\ k <= numConsumers
    BY <1>0 DEF N
  <2>3. QED
    BY <2>1, <2>2, ThreadNames DEF ThreadAt
<1>4. QED
  BY <1>1, <1>2, <1>3

\* No step touches the call or the loop of a thread that has returned.
LeavesFinished ==
    \A t \in Producer \cup Consumer :
       Finished(t) => /\ call'[t] = call[t]
                      /\ IF t \in Producer THEN sent'[t] = sent[t]
                                           ELSE got'[t] = got[t]

\* A thread that has been joined stays finished.
LEMMA FinishedStays ==
    ASSUME Shape, LeavesFinished, started' \in Nat, started <= started'
    PROVE  \A i \in 1 .. joined : Finished(ThreadAt(i))'
<1> SUFFICES ASSUME NEW i \in 1 .. joined
             PROVE  Finished(ThreadAt(i))'
  OBVIOUS
<1>1. PICK t \in Producer \cup Consumer : t = ThreadAt(i)
  <2>1. i \in 1 .. N
    BY CountsAssumption DEF Shape, TypeOK, N
  <2>2. QED
    BY <2>1, ThreadOrder
<1>2. Finished(t)
  BY <1>1 DEF Shape, MainShape
<1>3. Started(t)'
  <2>1. started \in Nat
    BY CountsAssumption DEF Shape, TypeOK
  <2>2. PICK k \in 1 .. started : ThreadAt(k) = t
    BY <1>2 DEF Finished, Started
  <2>3. k \in 1 .. started'
    BY <2>1
  <2>4. QED
    BY <2>2, <2>3 DEF Started, ThreadAt
<1>4. Finished(t)'
  BY <1>2, <1>3 DEF Finished, Queue!Idle, LeavesFinished
<1>5. ThreadAt(i)' = ThreadAt(i)
  BY DEF ThreadAt
<1>6. QED
  BY <1>1, <1>4, <1>5

\* A step that leaves main alone.
LEMMA MainFrame ==
    ASSUME Shape, UNCHANGED <<mainAt, started, joined>>, LeavesFinished
    PROVE  MainShape'
<1>1. started \in Nat
  BY CountsAssumption DEF Shape, TypeOK
<1>2. QED
  BY <1>1, FinishedStays DEF Shape, MainShape

\* The calls the program makes are calls of TS_Queue.
LEMMA CallTypes ==
    /\ \A p \in Producer, i \in 0 .. numItems - 1 :
          [op |-> "append", item |-> ItemOf(p, i)] \in Queue!Calls
    /\ RemoveCall \in Queue!Calls
    /\ SizeCall \in Queue!Calls
<1>1. ASSUME NEW p \in Producer, NEW i \in 0 .. numItems - 1
      PROVE  [op |-> "append", item |-> ItemOf(p, i)] \in Queue!Calls
  BY ItemNumbers DEF Queue!Calls
<1>2. RemoveCall \in Queue!Calls /\ SizeCall \in Queue!Calls
  BY DEF Queue!Calls, Queue!Plain, RemoveCall, SizeCall
<1>3. QED
  BY <1>1, <1>2

\* The program starts with an empty queue, its threads not yet created.
LEMMA ShapeInit == Init => Shape
<1> SUFFICES ASSUME Init
             PROVE  Shape
  OBVIOUS
<1> USE DEF Init, Queue!Init, Queue!CreateQueue
<1>0. QueueCapacity \in Nat \ {0} /\ N \in Nat /\ numItems \in 1 .. 10
  BY CountsAssumption DEF N
<1>1. Queue!TypeOK
  <2>1. myCapacity = QueueCapacity
    OBVIOUS
  <2>2. Queue!IsArray(myArray, myCapacity, Item \cup {NoItem})
    BY <2>1 DEF Queue!IsArray, Queue!RingSlots
  <2>3. 0 \in Queue!RingSlots(QueueCapacity)
    BY <1>0 DEF Queue!RingSlots
  <2>4. QED
    BY <2>1, <2>2, <2>3 DEF Queue!TypeOK
<1>2. QueueShape
  <2>1. Queue!IndexInvariant
    BY <1>0 DEF Queue!IndexInvariant
  <2>2. Queue!Contents = << >>
    BY <1>0, EmptySeq DEF Queue!Contents, Queue!Ring
  <2>3. QED
    BY <1>1, <2>1, <2>2 DEF QueueShape
<1>3. CallShape /\ SleepShape
  BY <1>0, ThreadNames DEF CallShape, SleepShape, Thread
<1>4. MainShape
  <2>1. joined = 0 /\ started = 0 /\ mainAt = IF N = 0 THEN "assert" ELSE "create"
    BY DEF N
  <2>2. \A i \in 1 .. joined : Finished(ThreadAt(i))
    BY <2>1
  <2>3. QED
    BY <1>0, <2>1, <2>2 DEF MainShape
<1>5. TypeOK
  BY <1>0, <1>1, CountsAssumption DEF TypeOK
<1>6. QED
  BY <1>2, <1>3, <1>4, <1>5 DEF Shape

\* Where main moves on, the queue and the threads' loops being left alone.
LEMMA ShapeMain ==
    ASSUME Shape, CreateThread \/ JoinThread \/ Destroy
    PROVE  Shape'
<1>0. N \in Nat /\ TypeOK /\ QueueShape /\ CallShape /\ SleepShape /\ MainShape
  BY CountsAssumption DEF Shape, N
<1>1. /\ UNCHANGED queueVars /\ UNCHANGED <<sent, got>>
      /\ mainAt # "assert" /\ started \in Nat
  BY <1>0, CountsAssumption DEF CreateThread, JoinThread, Destroy, TypeOK
<1>2. QueueShape'
  BY <1>0, <1>1, QueueFrame DEF queueVars, QueueShape, Queue!TypeOK
<1>3. CallShape' /\ SleepShape'
  BY <1>0, <1>1 DEF CallShape, SleepShape, AppendCall, queueVars
<1>4. LeavesFinished
  BY <1>1 DEF LeavesFinished, queueVars
<1>5. /\ mainAt' \in {"create", "join", "assert", "destroy", "done"}
      /\ started' \in 0 .. N /\ joined' \in 0 .. N
      /\ MainShape'
  <2>1. CASE CreateThread
    <3>1. /\ started \in 0 .. N - 1 /\ joined = 0 /\ joined' = 0
          /\ started' = started + 1
          /\ mainAt' = IF started' = N THEN "join" ELSE "create"
      BY <1>0, <2>1 DEF CreateThread, TypeOK, MainShape, N
    <3>2. \A i \in 1 .. joined : Finished(ThreadAt(i))'
      BY <3>1, <1>4, FinishedStays
    <3>3. QED
      BY <1>0, <3>1, <3>2 DEF MainShape
  <2>2. CASE JoinThread
    <3>1. /\ joined \in 0 .. N - 1 /\ joined' = joined + 1
          /\ started = N /\ started' = N /\ mainAt = "join"
          /\ mainAt' = IF joined' = N THEN "assert" ELSE "join"
          /\ Finished(ThreadAt(joined + 1))
      BY <1>0, <2>2 DEF JoinThread, Joinable, TypeOK, MainShape, N
    <3>2. \A i \in 1 .. joined : Finished(ThreadAt(i))'
      BY <3>1, <1>0, <1>4, FinishedStays
    <3>k. PICK k \in 1 .. N : k = joined + 1
      BY <1>0, <3>1
    <3>3. Finished(ThreadAt(k))'
      BY <1>1, <3>1, <3>k DEF Finished, Started, ThreadAt, queueVars
    <3>4. \A i \in 1 .. joined' : i \in 1 .. joined \/ i = k
      BY <3>1, <3>k
    <3>5. \A i \in 1 .. joined' : Finished(ThreadAt(i))'
      BY <3>2, <3>3, <3>4
    <3>6. QED
      BY <1>0, <3>1, <3>5 DEF MainShape
  <2>3. CASE Destroy
    <3>1. \A i \in 1 .. joined : Finished(ThreadAt(i))'
      BY <1>1, <1>4, <2>3, FinishedStays DEF Destroy
    <3>2. QED
      BY <1>0, <2>3, <3>1 DEF Destroy, MainShape, TypeOK, N
  <2>4. QED
    BY <2>1, <2>2, <2>3
<1>6. TypeOK'
  BY <1>0, <1>1, <1>2, <1>5 DEF TypeOK, QueueShape, N
<1>7. QED
  BY <1>2, <1>3, <1>5, <1>6 DEF Shape

\* Where main asks for the size and tests it.
LEMMA ShapeAssert ==
    ASSUME Shape, AssertEmpty
    PROVE  Shape'
<1>0. /\ N \in Nat /\ TypeOK /\ QueueShape /\ CallShape /\ SleepShape /\ MainShape
      /\ call \in [Thread -> Queue!Calls \cup {Queue!Idle}]
      /\ notEmpty \subseteq Thread /\ notFull \subseteq Thread
      /\ Main \in Thread
  BY CountsAssumption DEF Shape, TypeOK, Queue!TypeOK, Thread, N
<1>1. /\ mainAt = "assert" /\ UNCHANGED <<started, joined, sent, got>>
      /\ mainAt' \in {"assert", "destroy", "aborted"}
      /\ UNCHANGED <<myArray, myCapacity, mySize, myFirstIndex, myLastIndex, lockLeaked, result>>
      /\ UNCHANGED <<notEmpty, notFull>>
      /\ \/ call' = [call EXCEPT ![Main] = SizeCall] /\ mainAt' = "assert"
         \/ call' = [call EXCEPT ![Main] = Queue!Idle]
  BY DEF AssertEmpty, Queue!Invoke, Queue!GetSize, Queue!Return, Queue!fields,
         Queue!waiting, SizeCall
<1>2. call' \in [Thread -> Queue!Calls \cup {Queue!Idle}]
  BY <1>0, <1>1, CallTypes
<1>3. QueueShape'
  BY <1>0, <1>1, <1>2, QueueFrame
<1>4. /\ \A t \in Producer \cup Consumer : call'[t] = call[t]
      /\ call'[Main] = Queue!Idle \/ (mainAt' = "assert" /\ call'[Main] = SizeCall)
  <2>1. \A t \in Producer \cup Consumer : t \in Thread /\ t # Main
    BY ThreadNames DEF Thread
  <2>2. \A t \in Thread \ {Main} : call'[t] = call[t]
    BY <1>0, <1>1
  <2>3. call'[Main] = Queue!Idle \/ (mainAt' = "assert" /\ call'[Main] = SizeCall)
    <3>1. PICK m \in Thread : m = Main
      BY <1>0
    <3>2. CASE call' = [call EXCEPT ![m] = SizeCall] /\ mainAt' = "assert"
      BY <1>0, <3>1, <3>2
    <3>3. CASE call' = [call EXCEPT ![m] = Queue!Idle]
      BY <1>0, <3>1, <3>3
    <3>4. QED
      BY <1>1, <3>1, <3>2, <3>3
  <2>4. QED
    BY <2>1, <2>2, <2>3
<1>5. CallShape' /\ SleepShape'
  BY <1>0, <1>1, <1>4 DEF CallShape, SleepShape, AppendCall
<1>6. LeavesFinished
  BY <1>1, <1>4 DEF LeavesFinished
<1>7. MainShape'
  <2>1. started \in Nat
    BY <1>0, CountsAssumption DEF TypeOK
  <2>2. \A i \in 1 .. joined : Finished(ThreadAt(i))'
    BY <1>1, <1>6, <2>1, FinishedStays
  <2>3. QED
    BY <1>0, <1>1, <2>2 DEF MainShape
<1>8. TypeOK'
  BY <1>0, <1>1, <1>3 DEF TypeOK, QueueShape
<1>9. QED
  BY <1>3, <1>5, <1>7, <1>8 DEF Shape

\* Where a producer calls append, waits for room or stores its item.
LEMMA ShapeProduce ==
    ASSUME Shape, NEW p \in Producer, Produce(p)
    PROVE  Shape'
<1>0. /\ numItems \in 1 .. 10 /\ N \in Nat
      /\ TypeOK /\ QueueShape /\ CallShape /\ SleepShape /\ MainShape
      /\ call \in [Thread -> Queue!Calls \cup {Queue!Idle}]
      /\ notEmpty \subseteq Thread /\ notFull \subseteq Thread
      /\ Producer \subseteq Thread /\ Consumer \subseteq Thread /\ Main \in Thread
      /\ sent \in [Producer -> 0 .. numItems] /\ got \in [Consumer -> Seq(Item)]
  BY CountsAssumption DEF Shape, TypeOK, Queue!TypeOK, Thread, N
<1>1. /\ UNCHANGED <<mainAt, started, joined, got>>
      /\ p \in Thread /\ p \notin Consumer /\ p # Main
      /\ UNCHANGED <<lockLeaked, result>>
  BY <1>0, ThreadNames DEF Produce, Queue!Invoke, Queue!AppendWait, Queue!AppendItem,
     Queue!fields, Queue!waiting
<1>2. ASSUME sent[p] < numItems, call[p] = Queue!Idle,
             call' = [call EXCEPT ![p] = [op |-> "append", item |-> ItemOf(p, sent[p])]],
             sent' = [sent EXCEPT ![p] = @ + 1],
             UNCHANGED <<myArray, myCapacity, mySize, myFirstIndex, myLastIndex>>,
             UNCHANGED <<notEmpty, notFull>>
      PROVE  Shape'
  <2>1. sent[p] \in 0 .. numItems - 1
    BY <1>0, <1>2
  <2>2. call' \in [Thread -> Queue!Calls \cup {Queue!Idle}]
    BY <1>0, <1>2, <2>1, CallTypes
  <2>3. QueueShape'
    BY <1>0, <1>1, <1>2, <2>2, QueueFrame
  <2>4. /\ sent'[p] = sent[p] + 1 /\ sent'[p] > 0 /\ sent'[p] - 1 = sent[p]
        /\ sent' \in [Producer -> 0 .. numItems]
        /\ \A q \in Producer \ {p} : sent'[q] = sent[q]
    BY <1>0, <1>2, <2>1
  <2>5. /\ call'[p] = [op |-> "append", item |-> ItemOf(p, sent[p])]
        /\ \A t \in Thread \ {p} : call'[t] = call[t]
    BY <1>0, <1>1, <1>2
  <2>6. CallShape'
    BY <1>0, <1>1, <2>4, <2>5 DEF CallShape, AppendCall
  <2>7. SleepShape'
    <3>1. p \notin notEmpty \cup notFull
      <4>1. call[p].op = "idle" /\ AppendCall(p).op = "append"
        BY <1>2 DEF AppendCall, Queue!Idle
      <4>2. QED
        BY <1>0, <1>1, <4>1 DEF SleepShape
    <3>2. QED
      BY <1>0, <1>2, <2>4, <2>5, <3>1 DEF SleepShape, AppendCall
  <2>8. LeavesFinished
    BY <1>0, <1>1, <1>2, <2>4, <2>5 DEF LeavesFinished, Finished
  <2>9. TypeOK' /\ MainShape'
    BY <1>0, <1>1, <2>3, <2>4, <2>8, MainFrame DEF TypeOK, QueueShape
  <2>10. QED
    BY <2>3, <2>6, <2>7, <2>9 DEF Shape
<1>3. ASSUME Queue!AppendWait(p), UNCHANGED sent
      PROVE  Shape'
  <2>1. /\ UNCHANGED <<myArray, myCapacity, mySize, myFirstIndex, myLastIndex>>
        /\ UNCHANGED <<notEmpty, call>> /\ notFull' = notFull \cup {p}
        /\ call[p] = AppendCall(p)
    BY <1>0, <1>3 DEF Queue!AppendWait, Queue!Runs, Queue!fields, CallShape, Queue!Idle
  <2>2. QueueShape'
    BY <1>0, <1>1, <2>1, QueueFrame
  <2>3. CallShape' /\ SleepShape'
    BY <1>0, <1>1, <1>3, <2>1 DEF CallShape, SleepShape, AppendCall
  <2>4. LeavesFinished
    BY <1>1, <1>3, <2>1 DEF LeavesFinished
  <2>5. QED
    BY <1>0, <1>1, <1>3, <2>2, <2>3, <2>4, MainFrame DEF Shape, TypeOK, QueueShape
<1>4. ASSUME Queue!AppendItem(p), UNCHANGED sent
      PROVE  Shape'
  <2>1. /\ call[p] = AppendCall(p) /\ sent[p] > 0
        /\ call' = [call EXCEPT ![p] = Queue!Idle]
        /\ notFull' = notFull /\ notEmpty' \subseteq notEmpty
    BY <1>0, <1>4 DEF Queue!AppendItem, Queue!Runs, Queue!Return, CallShape, Queue!Idle,
                      Queue!Signal
  <2>2. call[p].item \in Item
    <3>1. sent[p] - 1 \in 0 .. numItems - 1
      BY <1>0, <2>1
    <3>2. QED
      BY <2>1, <3>1, ItemNumbers DEF AppendCall
  <2>3. QueueShape'
    BY <1>0, <1>1, <1>4, <2>2, AppendEffect
  <2>4. /\ call'[p] = Queue!Idle
        /\ \A t \in Thread \ {p} : call'[t] = call[t]
        /\ p \notin notFull
    BY <1>0, <1>1, <1>4, <2>1 DEF Queue!AppendItem, Queue!Runs
  <2>5. CallShape' /\ SleepShape'
    BY <1>0, <1>1, <1>4, <2>1, <2>4 DEF CallShape, SleepShape, AppendCall
  <2>6. LeavesFinished
    BY <1>0, <1>1, <1>4, <2>1, <2>4 DEF LeavesFinished, Finished, AppendCall, Queue!Idle
  <2>7. QED
    BY <1>0, <1>1, <1>4, <2>3, <2>5, <2>6, MainFrame DEF Shape, TypeOK, QueueShape
<1>5. CASE /\ Started(p) /\ sent[p] < numItems
           /\ Queue!Invoke(p, [op |-> "append", item |-> ItemOf(p, sent[p])])
           /\ sent' = [sent EXCEPT ![p] = @ + 1]
  BY <1>2, <1>5 DEF Queue!Invoke, Queue!fields, Queue!waiting
<1>6. QED
  BY <1>3, <1>4, <1>5 DEF Produce

\* Where a consumer calls removeFirst, waits for an item or takes one.
LEMMA ShapeConsume ==
    ASSUME Shape, NEW c \in Consumer, Consume(c)
    PROVE  Shape'
<1>0. /\ numItems \in 1 .. 10 /\ N \in Nat
      /\ TypeOK /\ QueueShape /\ CallShape /\ SleepShape /\ MainShape
      /\ call \in [Thread -> Queue!Calls \cup {Queue!Idle}]
      /\ notEmpty \subseteq Thread /\ notFull \subseteq Thread
      /\ Producer \subseteq Thread /\ Consumer \subseteq Thread /\ Main \in Thread
      /\ sent \in [Producer -> 0 .. numItems] /\ got \in [Consumer -> Seq(Item)]
  BY CountsAssumption DEF Shape, TypeOK, Queue!TypeOK, Thread, N
<1>1. /\ UNCHANGED <<mainAt, started, joined, sent>>
      /\ c \in Thread /\ c \notin Producer /\ c # Main
      /\ UNCHANGED lockLeaked
  BY <1>0, ThreadNames DEF Consume, Queue!Invoke, Queue!RemoveFirstWait, Queue!RemoveFirst,
     Queue!WaitNotEmpty, Queue!fields, Queue!waiting
<1>2. ASSUME Len(got[c]) < numItems, call[c] = Queue!Idle,
             call' = [call EXCEPT ![c] = RemoveCall],
             UNCHANGED <<myArray, myCapacity, mySize, myFirstIndex, myLastIndex, result>>,
             UNCHANGED <<notEmpty, notFull, got>>
      PROVE  Shape'
  <2>1. call' \in [Thread -> Queue!Calls \cup {Queue!Idle}]
    BY <1>0, <1>2, CallTypes
  <2>2. QueueShape'
    BY <1>0, <1>1, <1>2, <2>1, QueueFrame
  <2>3. /\ call'[c] = RemoveCall
        /\ \A t \in Thread \ {c} : call'[t] = call[t]
    BY <1>0, <1>1, <1>2
  <2>4. CallShape' /\ SleepShape'
    BY <1>0, <1>1, <1>2, <2>3 DEF CallShape, SleepShape, AppendCall
  <2>5. LeavesFinished
    BY <1>0, <1>1, <1>2, <2>3 DEF LeavesFinished, Finished
  <2>6. QED
    BY <1>0, <1>1, <1>2, <2>2, <2>4, <2>5, MainFrame DEF Shape, TypeOK, QueueShape
<1>3. ASSUME Queue!RemoveFirstWait(c), UNCHANGED got
      PROVE  Shape'
  <2>1. /\ UNCHANGED <<myArray, myCapacity, mySize, myFirstIndex, myLastIndex, result>>
        /\ UNCHANGED <<notFull, call>> /\ notEmpty' = notEmpty \cup {c}
        /\ call[c] = RemoveCall
    BY <1>0, <1>3 DEF Queue!RemoveFirstWait, Queue!WaitNotEmpty, Queue!Runs, Queue!fields,
                      CallShape, Queue!Idle
  <2>2. QueueShape'
    BY <1>0, <1>1, <2>1, QueueFrame
  <2>3. CallShape' /\ SleepShape'
    BY <1>0, <1>1, <1>3, <2>1 DEF CallShape, SleepShape, AppendCall
  <2>4. LeavesFinished
    BY <1>1, <1>3, <2>1 DEF LeavesFinished
  <2>5. QED
    BY <1>0, <1>1, <1>3, <2>2, <2>3, <2>4, MainFrame DEF Shape, TypeOK, QueueShape
<1>4. ASSUME Queue!RemoveFirst(c), got' = [got EXCEPT ![c] = Append(@, result'[c])]
      PROVE  Shape'
  <2>1. /\ call[c] = RemoveCall /\ Len(got[c]) < numItems
        /\ call' = [call EXCEPT ![c] = Queue!Idle]
        /\ notEmpty' = notEmpty /\ notFull' \subseteq notFull
    BY <1>0, <1>4 DEF Queue!RemoveFirst, Queue!Runs, Queue!Return, CallShape, Queue!Idle,
                      Queue!Signal
  <2>2. QueueShape' /\ result'[c] \in Item
    BY <1>0, <1>1, <1>4, RemoveEffect, SMTT(40) DEF QueueShape
  <2>3. /\ call'[c] = Queue!Idle
        /\ \A t \in Thread \ {c} : call'[t] = call[t]
        /\ c \notin notEmpty
    BY <1>0, <1>1, <1>4, <2>1 DEF Queue!RemoveFirst, Queue!Runs
  <2>4. /\ got' \in [Consumer -> Seq(Item)]
        /\ Len(got'[c]) = Len(got[c]) + 1 /\ Len(got[c]) \in Nat
        /\ \A d \in Consumer \ {c} : got'[d] = got[d]
    BY <1>0, <1>4, <2>2
  <2>5. CallShape'
    <3>1. Len(got'[c]) <= numItems
      BY <1>0, <2>1, <2>4
    <3>2. \A p \in Producer : p \in Thread \ {c} /\ AppendCall(p)' = AppendCall(p)
      BY <1>0, <1>1 DEF AppendCall
    <3>3. QED
      BY <1>0, <1>1, <2>3, <2>4, <3>1, <3>2 DEF CallShape
  <2>6. SleepShape'
    BY <1>0, <1>1, <2>1, <2>3 DEF SleepShape, AppendCall
  <2>7. LeavesFinished
    BY <1>0, <1>1, <2>1, <2>3, <2>4 DEF LeavesFinished, Finished, RemoveCall, Queue!Idle
  <2>8. QED
    BY <1>0, <1>1, <2>2, <2>4, <2>5, <2>6, <2>7, MainFrame DEF Shape, TypeOK, QueueShape
<1>5. CASE /\ Len(got[c]) < numItems
           /\ Queue!Invoke(c, [op |-> "removeFirst"])
           /\ UNCHANGED got
  BY <1>2, <1>5 DEF Queue!Invoke, Queue!fields, Queue!waiting, RemoveCall
<1>6. QED
  BY <1>3, <1>4, <1>5 DEF Consume

\* Where a waiter wakes up of itself, and where nothing happens.
LEMMA ShapeWakeup ==
    ASSUME Shape,
           (\E t \in Producer \cup Consumer : Wakeup(t)) \/ UNCHANGED vars
    PROVE  Shape'
<1>0. /\ numItems \in 1 .. 10 /\ N \in Nat
      /\ TypeOK /\ QueueShape /\ CallShape /\ SleepShape /\ MainShape
      /\ call \in [Thread -> Queue!Calls \cup {Queue!Idle}]
      /\ notEmpty \subseteq Thread /\ notFull \subseteq Thread
      /\ Producer \subseteq Thread /\ Consumer \subseteq Thread /\ Main \in Thread
      /\ sent \in [Producer -> 0 .. numItems] /\ got \in [Consumer -> Seq(Item)]
  BY CountsAssumption DEF Shape, TypeOK, Queue!TypeOK, Thread, N
<1>1. /\ UNCHANGED <<myArray, myCapacity, mySize, myFirstIndex, myLastIndex, lockLeaked, result>>
      /\ UNCHANGED <<call, mainAt, started, joined, sent, got>>
      /\ notEmpty' \subseteq notEmpty /\ notFull' \subseteq notFull
  BY DEF Wakeup, Queue!SpuriousWakeup, Queue!fields, vars, queueVars
<1>2. QueueShape'
  BY <1>0, <1>1, QueueFrame
<1>3. CallShape' /\ SleepShape'
  BY <1>0, <1>1 DEF CallShape, SleepShape, AppendCall
<1>4. LeavesFinished
  BY <1>1 DEF LeavesFinished
<1>5. QED
  BY <1>0, <1>1, <1>2, <1>3, <1>4, MainFrame DEF Shape, TypeOK, QueueShape

\* Every step of the program keeps the inductive invariant.
LEMMA ShapeStep ==
    ASSUME Shape, [Next]_vars
    PROVE  Shape'
  BY ShapeMain, ShapeAssert, ShapeProduce, ShapeConsume, ShapeWakeup DEF Next, MainThread

\* Every variable keeps its type: no index leaves the array, main starts and
\* joins no more threads than there are, and a consumer only gets items.
THEOREM TypeCorrect == Spec => []TypeOK
<1>1. Shape /\ [Next]_vars => Shape'
  BY ShapeStep
<1>2. Shape => TypeOK
  BY DEF Shape
<1>3. QED
  BY ShapeInit, <1>1, <1>2, PTL DEF Spec
-----------------------------------------------------------------------------
\* The threads awake in a call can be counted.
LEMMA AwakeFinite ==
    /\ IsFiniteSet(AwakeAppends) /\ IsFiniteSet(AwakeRemovals)
    /\ Cardinality(AwakeAppends) \in Nat /\ Cardinality(AwakeRemovals) \in Nat
    /\ IsFiniteSet(AwakeAppends') /\ IsFiniteSet(AwakeRemovals')
    /\ Cardinality(AwakeAppends') \in Nat /\ Cardinality(AwakeRemovals') \in Nat
<1>1. /\ AwakeAppends \in SUBSET Producer /\ AwakeRemovals \in SUBSET Consumer
      /\ AwakeAppends' \in SUBSET Producer /\ AwakeRemovals' \in SUBSET Consumer
  BY DEF AwakeAppends, AwakeRemovals
<1>2. /\ IsFiniteSet(AwakeAppends) /\ IsFiniteSet(AwakeRemovals)
      /\ IsFiniteSet(AwakeAppends') /\ IsFiniteSet(AwakeRemovals')
  BY <1>1, ThreadCounts, FS_Subset
<1>3. QED
  BY <1>2, FS_CardinalityType

\* A step that leaves the queue alone and puts nobody to sleep, while whoever
\* was awake in a call stays so.
LEMMA WakeupFrame ==
    ASSUME NoLostWakeup, mySize \in Nat, myCapacity \in Nat,
           UNCHANGED <<mySize, myCapacity>>,
           notEmpty' \subseteq notEmpty, notFull' \subseteq notFull,
           \A t \in Producer \cup Consumer : call'[t] = call[t] \/ call[t] = Queue!Idle
    PROVE  NoLostWakeup'
<1>1. AwakeAppends \subseteq AwakeAppends' /\ AwakeRemovals \subseteq AwakeRemovals'
  BY DEF AwakeAppends, AwakeRemovals, Queue!Idle
<1>2. /\ Cardinality(AwakeAppends) <= Cardinality(AwakeAppends')
      /\ Cardinality(AwakeRemovals) <= Cardinality(AwakeRemovals')
  BY <1>1, AwakeFinite, FS_Subset
<1>3. notEmpty' # {} => mySize <= Cardinality(AwakeRemovals')
  BY <1>2, AwakeFinite DEF NoLostWakeup
<1>4. notFull' # {} => myCapacity - mySize <= Cardinality(AwakeAppends')
  BY <1>2, AwakeFinite DEF NoLostWakeup
<1>5. QED
  BY <1>3, <1>4 DEF NoLostWakeup

\* A producer that stores an item leaves append, and its signal adds a consumer
\* to those awake, if one was asleep.
LEMMA WakeupAppendItem ==
    ASSUME Shape, NoLostWakeup, NEW p \in Producer, Queue!AppendItem(p)
    PROVE  NoLostWakeup'
<1>0. /\ mySize \in Nat /\ myCapacity \in Nat /\ p \in Thread
      /\ call \in [Thread -> Queue!Calls \cup {Queue!Idle}]
      /\ Consumer \subseteq Thread /\ Producer \subseteq Thread /\ p \notin Consumer
  BY ThreadNames, ContentsView DEF Shape, QueueShape, Queue!TypeOK, Thread
<1>1. /\ mySize' = mySize + 1 /\ myCapacity' = myCapacity /\ notFull' = notFull
      /\ Queue!Signal(notEmpty, notEmpty') /\ call' = [call EXCEPT ![p] = Queue!Idle]
      /\ call[p].op = "append" /\ p \notin notFull
  BY DEF Queue!AppendItem, Queue!Return, Queue!Runs
<1>2. /\ call'[p].op = "idle" /\ \A t \in Thread \ {p} : call'[t] = call[t]
  BY <1>0, <1>1 DEF Queue!Idle
<1>3. AwakeAppends' = AwakeAppends \ {p} /\ p \in AwakeAppends
  BY <1>0, <1>1, <1>2 DEF AwakeAppends
<1>4. Cardinality(AwakeAppends') = Cardinality(AwakeAppends) - 1
  BY <1>3, AwakeFinite, FS_RemoveElement
<1>5. notFull' # {} => myCapacity' - mySize' <= Cardinality(AwakeAppends')
  BY <1>0, <1>1, <1>4, AwakeFinite DEF NoLostWakeup
<1>6. notEmpty' # {} => mySize' <= Cardinality(AwakeRemovals')
  <2>1. CASE notEmpty = {}
    BY <1>1, <2>1 DEF Queue!Signal
  <2>2. CASE notEmpty # {}
    <3>1. PICK t \in notEmpty : notEmpty' = notEmpty \ {t}
      BY <1>1, <2>2 DEF Queue!Signal
    <3>2. t \in Consumer /\ call[t].op = "removeFirst"
      BY <3>1 DEF Shape, SleepShape, RemoveCall
    <3>3. AwakeRemovals' = AwakeRemovals \cup {t} /\ t \notin AwakeRemovals
      BY <1>0, <1>2, <3>1, <3>2 DEF AwakeRemovals
    <3>4. Cardinality(AwakeRemovals') = Cardinality(AwakeRemovals) + 1
      BY <3>3, AwakeFinite, FS_AddElement
    <3>5. QED
      BY <1>0, <1>1, <2>2, <3>4, AwakeFinite DEF NoLostWakeup
  <2>3. QED
    BY <2>1, <2>2
<1>7. QED
  BY <1>5, <1>6 DEF NoLostWakeup

\* A consumer that takes an item leaves removeFirst, and its signal adds a
\* producer to those awake, if one was asleep.
LEMMA WakeupRemoveFirst ==
    ASSUME Shape, NoLostWakeup, NEW c \in Consumer, Queue!RemoveFirst(c)
    PROVE  NoLostWakeup'
<1>0. /\ mySize \in Nat /\ myCapacity \in Nat /\ c \in Thread
      /\ call \in [Thread -> Queue!Calls \cup {Queue!Idle}]
      /\ Consumer \subseteq Thread /\ Producer \subseteq Thread /\ c \notin Producer
  BY ThreadNames, ContentsView DEF Shape, QueueShape, Queue!TypeOK, Thread
<1>1. /\ mySize' = mySize - 1 /\ myCapacity' = myCapacity /\ notEmpty' = notEmpty
      /\ Queue!Signal(notFull, notFull') /\ call' = [call EXCEPT ![c] = Queue!Idle]
      /\ call[c].op = "removeFirst" /\ c \notin notEmpty
  BY DEF Queue!RemoveFirst, Queue!Return, Queue!Runs
<1>2. /\ call'[c].op = "idle" /\ \A t \in Thread \ {c} : call'[t] = call[t]
  BY <1>0, <1>1 DEF Queue!Idle
<1>3. AwakeRemovals' = AwakeRemovals \ {c} /\ c \in AwakeRemovals
  BY <1>0, <1>1, <1>2 DEF AwakeRemovals
<1>4. Cardinality(AwakeRemovals') = Cardinality(AwakeRemovals) - 1
  BY <1>3, AwakeFinite, FS_RemoveElement
<1>5. notEmpty' # {} => mySize' <= Cardinality(AwakeRemovals')
  BY <1>0, <1>1, <1>4, AwakeFinite DEF NoLostWakeup
<1>6. notFull' # {} => myCapacity' - mySize' <= Cardinality(AwakeAppends')
  <2>1. CASE notFull = {}
    BY <1>1, <2>1 DEF Queue!Signal
  <2>2. CASE notFull # {}
    <3>1. PICK t \in notFull : notFull' = notFull \ {t}
      BY <1>1, <2>2 DEF Queue!Signal
    <3>2. t \in Producer /\ call[t].op = "append"
      <4>1. t \in Producer /\ call[t] = AppendCall(t)
        BY <3>1 DEF Shape, SleepShape
      <4>2. AppendCall(t).op = "append"
        BY DEF AppendCall
      <4>3. QED
        BY <4>1, <4>2
    <3>3. AwakeAppends' = AwakeAppends \cup {t} /\ t \notin AwakeAppends
      BY <1>0, <1>2, <3>1, <3>2 DEF AwakeAppends
    <3>4. Cardinality(AwakeAppends') = Cardinality(AwakeAppends) + 1
      BY <3>3, AwakeFinite, FS_AddElement
    <3>5. QED
      BY <1>0, <1>1, <2>2, <3>4, AwakeFinite DEF NoLostWakeup
  <2>3. QED
    BY <2>1, <2>2
<1>7. QED
  BY <1>5, <1>6 DEF NoLostWakeup

\* No step leaves a sleeper beside work that only it could do.
LEMMA WakeupStep ==
    ASSUME Shape, NoLostWakeup, [Next]_vars
    PROVE  NoLostWakeup'
<1>0. /\ mySize \in Nat /\ myCapacity \in Nat
      /\ call \in [Thread -> Queue!Calls \cup {Queue!Idle}]
      /\ Producer \subseteq Thread /\ Consumer \subseteq Thread
      /\ Main \notin Producer \cup Consumer
  BY ThreadNames, ContentsView DEF Shape, QueueShape, Queue!TypeOK, Thread
<1> DEFINE Others == \A t \in Producer \cup Consumer : call'[t] = call[t] \/ call[t] = Queue!Idle
<1>1. CASE MainThread
  <2>1. UNCHANGED <<mySize, myCapacity, notEmpty, notFull>>
    BY <1>1 DEF MainThread, CreateThread, JoinThread, Destroy, AssertEmpty, queueVars,
       Queue!Invoke, Queue!GetSize, Queue!fields, Queue!waiting
  <2>2. Others
    <3>1. CASE AssertEmpty
      <4>1. \/ call' = [call EXCEPT ![Main] = [op |-> "getSize"]]
            \/ call' = [call EXCEPT ![Main] = Queue!Idle]
        BY <3>1 DEF AssertEmpty, Queue!Invoke, Queue!GetSize, Queue!Return
      <4>2. QED
        BY <1>0, <4>1
    <3>2. CASE CreateThread \/ JoinThread \/ Destroy
      BY <3>2 DEF CreateThread, JoinThread, Destroy, queueVars
    <3>3. QED
      BY <1>1, <3>1, <3>2 DEF MainThread
  <2>3. QED
    BY <1>0, <2>1, <2>2, WakeupFrame
<1>2. ASSUME NEW p \in Producer, Produce(p)
      PROVE  NoLostWakeup'
  <2>1. CASE Queue!AppendItem(p)
    BY <2>1, WakeupAppendItem
  <2>2. CASE Queue!AppendWait(p)
    <3>1. /\ mySize = myCapacity /\ UNCHANGED <<mySize, myCapacity, notEmpty, call>>
      BY <2>2 DEF Queue!AppendWait, Queue!Full, Queue!fields
    <3>2. AwakeRemovals' = AwakeRemovals
      BY <3>1 DEF AwakeRemovals
    <3>3. QED
      BY <1>0, <3>1, <3>2, AwakeFinite DEF NoLostWakeup
  <2>3. CASE \E x : Queue!Invoke(p, x)
    <3>1. UNCHANGED <<mySize, myCapacity, notEmpty, notFull>>
      BY <2>3 DEF Queue!Invoke, Queue!fields, Queue!waiting
    <3>2. Others
      BY <1>0, <2>3 DEF Queue!Invoke
    <3>3. QED
      BY <1>0, <3>1, <3>2, WakeupFrame
  <2>4. QED
    BY <1>2, <2>1, <2>2, <2>3 DEF Produce
<1>3. ASSUME NEW c \in Consumer, Consume(c)
      PROVE  NoLostWakeup'
  <2>1. CASE Queue!RemoveFirst(c)
    BY <2>1, WakeupRemoveFirst
  <2>2. CASE Queue!RemoveFirstWait(c)
    <3>1. /\ mySize = 0 /\ UNCHANGED <<mySize, myCapacity, notFull, call>>
      BY <2>2 DEF Queue!RemoveFirstWait, Queue!WaitNotEmpty, Queue!fields
    <3>2. AwakeAppends' = AwakeAppends
      BY <3>1 DEF AwakeAppends
    <3>3. QED
      BY <1>0, <3>1, <3>2, AwakeFinite DEF NoLostWakeup
  <2>3. CASE \E x : Queue!Invoke(c, x)
    <3>1. UNCHANGED <<mySize, myCapacity, notEmpty, notFull>>
      BY <2>3 DEF Queue!Invoke, Queue!fields, Queue!waiting
    <3>2. Others
      BY <1>0, <2>3 DEF Queue!Invoke
    <3>3. QED
      BY <1>0, <3>1, <3>2, WakeupFrame
  <2>4. QED
    BY <1>3, <2>1, <2>2, <2>3 DEF Consume
<1>4. CASE (\E t \in Producer \cup Consumer : Wakeup(t)) \/ UNCHANGED vars
  <2>1. /\ UNCHANGED <<mySize, myCapacity, call>>
        /\ notEmpty' \subseteq notEmpty /\ notFull' \subseteq notFull
    BY <1>4 DEF Wakeup, Queue!SpuriousWakeup, Queue!fields, vars, queueVars
  <2>2. QED
    BY <1>0, <2>1, WakeupFrame
<1>5. QED
  BY <1>1, <1>2, <1>3, <1>4 DEF Next

\* One signal for each append and each removal is enough, however many threads
\* share the queue: nobody sleeps beside work that only it could do.
THEOREM NoLostWakeupHolds == Spec => []NoLostWakeup
<1>1. Init => NoLostWakeup
  BY DEF Init, Queue!Init, Queue!CreateQueue, NoLostWakeup
<1>2. Shape /\ [Next]_vars => Shape'
  BY ShapeStep
<1>3. Shape /\ NoLostWakeup /\ [Next]_vars => NoLostWakeup'
  BY WakeupStep
<1>4. QED
  BY ShapeInit, <1>1, <1>2, <1>3, PTL DEF Spec
-----------------------------------------------------------------------------
\* What a step does to the items: nothing, or it puts the item that producer p
\* has last counted into the queue, or it hands consumer c the oldest one.
Quiet ==
    /\ UNCHANGED <<got, mySize>> /\ Queue!Contents' = Queue!Contents
    /\ \A p \in Producer : Appended(p)' = Appended(p)

Newest(p) == ItemOf(p, sent[p] - 1)

Puts(p) ==
    /\ sent[p] \in 1 .. numItems
    /\ Queue!Contents' = Append(Queue!Contents, Newest(p)) /\ mySize' = mySize + 1
    /\ Appended(p) = {ItemOf(p, i) : i \in 0 .. sent[p] - 2}
    /\ Appended(p)' = Appended(p) \cup {Newest(p)}
    /\ \A q \in Producer \ {p} : Appended(q)' = Appended(q)
    /\ UNCHANGED got

Takes(c) ==
    /\ mySize > 0
    /\ Queue!Contents' = Tail(Queue!Contents) /\ mySize' = mySize - 1
    /\ got' = [got EXCEPT ![c] = Append(@, Queue!Contents[1])]
    /\ \A p \in Producer : Appended(p)' = Appended(p)

\* A step of a producer is of the first two kinds.
LEMMA ProduceKind ==
    ASSUME Shape, NEW p \in Producer, Produce(p)
    PROVE  Quiet \/ Puts(p)
<1>0. /\ numItems \in 1 .. 10 /\ QueueShape /\ CallShape /\ p \in Thread
      /\ call \in [Thread -> Queue!Calls \cup {Queue!Idle}] /\ Producer \subseteq Thread
      /\ sent \in [Producer -> 0 .. numItems]
  BY CountsAssumption DEF Shape, TypeOK, Queue!TypeOK, Thread
<1>1. UNCHANGED got
  BY DEF Produce
<1>2. CASE /\ sent[p] < numItems
           /\ Queue!Invoke(p, [op |-> "append", item |-> ItemOf(p, sent[p])])
           /\ sent' = [sent EXCEPT ![p] = @ + 1]
  <2>1. /\ call[p].op = "idle" /\ call'[p].op = "append" /\ sent'[p] = sent[p] + 1
        /\ \A q \in Producer \ {p} : call'[q] = call[q] /\ sent'[q] = sent[q]
        /\ UNCHANGED <<myArray, myCapacity, mySize, myFirstIndex>>
    BY <1>0, <1>2 DEF Queue!Invoke, Queue!Idle, Queue!fields
  <2>2. sent[p] - 1 = (sent[p] + 1) - 2
    BY <1>0
  <2>3. \A q \in Producer : Appended(q)' = Appended(q)
    BY <2>1, <2>2 DEF Appended
  <2>4. QED
    BY <1>1, <2>1, <2>3 DEF Quiet, Queue!Contents
<1>3. CASE Queue!AppendWait(p) /\ UNCHANGED sent
  BY <1>1, <1>3 DEF Queue!AppendWait, Queue!fields, Quiet, Queue!Contents, Appended
<1>4. CASE Queue!AppendItem(p) /\ UNCHANGED sent
  <2>1. /\ call[p] = AppendCall(p) /\ sent[p] > 0
        /\ call' = [call EXCEPT ![p] = Queue!Idle]
    BY <1>0, <1>4 DEF Queue!AppendItem, Queue!Runs, Queue!Return, CallShape, Queue!Idle
  <2>2. /\ call[p].op = "append" /\ call[p].item = Newest(p) /\ call'[p].op = "idle"
        /\ \A q \in Producer \ {p} : call'[q] = call[q]
    <3>1. AppendCall(p).op = "append" /\ AppendCall(p).item = Newest(p)
      BY DEF AppendCall, Newest
    <3>2. QED
      BY <1>0, <2>1, <3>1 DEF Queue!Idle
  <2>3. sent[p] \in 1 .. numItems /\ sent[p] - 1 \in 0 .. numItems - 1
    BY <1>0, <2>1
  <2>4. Newest(p) \in Item
    BY <2>3, ItemNumbers DEF Newest
  <2>5. Queue!Contents' = Append(Queue!Contents, Newest(p)) /\ mySize' = mySize + 1
    BY <1>0, <1>4, <2>2, <2>4, AppendEffect
  <2>6. Appended(p) = {ItemOf(p, i) : i \in 0 .. sent[p] - 2}
    BY <2>2 DEF Appended
  <2>7. Appended(p)' = {ItemOf(p, i) : i \in 0 .. sent[p] - 1}
    BY <1>4, <2>2 DEF Appended
  <2>8. \A i : i \in 0 .. sent[p] - 1 <=> i \in 0 .. sent[p] - 2 \/ i = sent[p] - 1
    BY <2>3
  <2>9. Appended(p)' = Appended(p) \cup {Newest(p)}
    BY <2>6, <2>7, <2>8 DEF Newest
  <2>10. \A q \in Producer \ {p} : Appended(q)' = Appended(q)
    BY <1>4, <2>2 DEF Appended
  <2>11. QED
    BY <1>1, <2>3, <2>5, <2>6, <2>9, <2>10 DEF Puts
<1>5. QED
  BY <1>2, <1>3, <1>4 DEF Produce

\* A step of a consumer is of the first or the last kind.
LEMMA ConsumeKind ==
    ASSUME Shape, NEW c \in Consumer, Consume(c)
    PROVE  Quiet \/ Takes(c)
<1>0. /\ QueueShape /\ c \in Thread /\ Producer \subseteq Thread /\ c \notin Producer
      /\ call \in [Thread -> Queue!Calls \cup {Queue!Idle}]
  BY ThreadNames DEF Shape, TypeOK, Queue!TypeOK, Thread
<1>1. UNCHANGED sent
  BY DEF Consume
<1>2. call' = call \/ \E x : call' = [call EXCEPT ![c] = x]
  <2>1. ASSUME NEW x, Queue!Invoke(c, x)
        PROVE  call' = [call EXCEPT ![c] = x]
    BY <2>1 DEF Queue!Invoke
  <2>2. Queue!RemoveFirst(c) => call' = [call EXCEPT ![c] = Queue!Idle]
    BY DEF Queue!RemoveFirst, Queue!Return
  <2>3. Queue!RemoveFirstWait(c) => call' = call
    BY DEF Queue!RemoveFirstWait, Queue!WaitNotEmpty
  <2>4. QED
    BY <2>1, <2>2, <2>3 DEF Consume
<1>3. \A p \in Producer : Appended(p)' = Appended(p)
  <2>1. \A p \in Producer : call'[p] = call[p]
    BY <1>0, <1>2
  <2>2. QED
    BY <1>1, <2>1 DEF Appended
<1>4. CASE /\ Queue!RemoveFirst(c)
           /\ got' = [got EXCEPT ![c] = Append(@, result'[c])]
  <2>1. /\ Queue!Contents # << >>
        /\ result'[c] = Head(Queue!Contents)
        /\ Queue!Contents' = Tail(Queue!Contents)
        /\ mySize > 0 /\ mySize' = mySize - 1
    BY <1>0, <1>4, RemoveEffect
  <2>2. Head(Queue!Contents) = Queue!Contents[1]
    BY <1>0, <2>1 DEF QueueShape
  <2>3. QED
    BY <1>3, <1>4, <2>1, <2>2 DEF Takes
<1>5. CASE /\ Queue!RemoveFirstWait(c) \/ \E x : Queue!Invoke(c, x)
           /\ UNCHANGED got
  BY <1>3, <1>5 DEF Queue!RemoveFirstWait, Queue!WaitNotEmpty, Queue!Invoke,
     Queue!fields, Quiet, Queue!Contents
<1>6. QED
  BY <1>4, <1>5 DEF Consume

\* Every step is of one of the three kinds.
LEMMA StepKinds ==
    ASSUME Shape, [Next]_vars
    PROVE  \/ Quiet
           \/ \E p \in Producer : Puts(p)
           \/ \E c \in Consumer : Takes(c)
<1>0. /\ call \in [Thread -> Queue!Calls \cup {Queue!Idle}] /\ Producer \subseteq Thread
      /\ Main \notin Producer
  BY ThreadNames DEF Shape, TypeOK, Queue!TypeOK, Thread
<1>1. CASE AssertEmpty
  <2>1. /\ UNCHANGED <<sent, got, myArray, myCapacity, mySize, myFirstIndex>>
        /\ \/ call' = [call EXCEPT ![Main] = [op |-> "getSize"]]
           \/ call' = [call EXCEPT ![Main] = Queue!Idle]
    BY <1>1 DEF AssertEmpty, Queue!Invoke, Queue!GetSize, Queue!Return, Queue!fields
  <2>2. \A p \in Producer : call'[p] = call[p]
    BY <1>0, <2>1
  <2>3. QED
    BY <2>1, <2>2 DEF Quiet, Appended, Queue!Contents
<1>2. CASE CreateThread \/ JoinThread \/ Destroy
  BY <1>2 DEF CreateThread, JoinThread, Destroy, queueVars, Quiet, Appended, Queue!Contents
<1>3. CASE (\E t \in Producer \cup Consumer : Wakeup(t)) \/ UNCHANGED vars
  BY <1>3 DEF Wakeup, Queue!SpuriousWakeup, Queue!fields, vars, queueVars, Quiet,
     Appended, Queue!Contents
<1>4. QED
  BY <1>1, <1>2, <1>3, ProduceKind, ConsumeKind DEF Next, MainThread

\* The queue and what each consumer has got are sequences of items.
LEMMA ItemSeqs ==
    ASSUME Shape
    PROVE  /\ Queue!Contents \in Seq(Item) /\ Len(Queue!Contents) = mySize
           /\ mySize \in Nat
           /\ got \in [Consumer -> Seq(Item)]
  BY ContentsView DEF Shape, TypeOK, QueueShape

\* The item a producer is about to store is nowhere yet, and comes after all
\* earlier items of that producer.
LEMMA NewestIsNew ==
    ASSUME Shape, Items, NEW p \in Producer, Puts(p), NEW x \in Item, Held(x)
    PROVE  x # Newest(p) /\ Before(x, Newest(p))
<1>1. PICK q \in Producer : x \in Appended(q)
  BY DEF Items
<1>2. numItems \in 1 .. 10 /\ sent \in [Producer -> 0 .. numItems]
  BY CountsAssumption DEF Shape, TypeOK
<1>3. PICK i \in 0 .. numItems - 1 : x = ItemOf(q, i)
  BY <1>1, <1>2 DEF Appended
<1>4. sent[p] - 1 \in 0 .. numItems - 1
  BY <1>2 DEF Puts
<1>5. CASE q # p
  BY <1>3, <1>4, <1>5, ItemNumbers DEF Newest, Before
<1>6. CASE q = p
  <2>1. PICK j \in 0 .. sent[p] - 2 : x = ItemOf(p, j)
    BY <1>1, <1>6 DEF Puts
  <2>2. PICK k \in Nat, m \in Nat : k = p[2] /\ m = sent[p] - 1
    BY <1>4, CountsAssumption, ThreadNames
  <2>3. 10 * k + j < 10 * k + m
    BY <1>2, <2>2
  <2>4. x < Newest(p) /\ x \in Nat
    BY <1>3, <2>1, <2>2, <2>3, ItemNumbers DEF Newest, ItemOf
  <2>5. QED
    BY <2>4 DEF Before
<1>7. QED
  BY <1>5, <1>6

\* Storing an item nobody has keeps items distinct and ordered.
LEMMA ItemsPut ==
    ASSUME Shape, Items, Order, NEW p \in Producer, Puts(p)
    PROVE  Items' /\ Order'
<1>1. PICK Q \in Seq(Item), n \in Nat : Q = Queue!Contents /\ n = mySize /\ Len(Q) = n
  BY ItemSeqs
<1>2. PICK x \in Item : x = Newest(p)
  <2>1. sent[p] - 1 \in 0 .. numItems - 1
    BY CountsAssumption DEF Puts
  <2>2. QED
    BY <2>1, ItemNumbers DEF Newest
<1>m. PICK m \in Nat : m = n + 1
  OBVIOUS
<1>R. PICK R \in Seq(Item) : R = Append(Q, x)
  <2>1. Append(Q, x) \in Seq(Item)
    OBVIOUS
  <2>2. QED
    BY <2>1
<1>3. R = Append(Q, x) /\ m = n + 1
  BY <1>m, <1>R
<1>4. /\ Queue!Contents' = R /\ mySize' = m /\ got' = got
  BY <1>1, <1>2, <1>3 DEF Puts
<1>5. /\ \A k \in 1 .. n : k \in 1 .. m /\ R[k] = Q[k] /\ Q[k] \in Item
      /\ m \in 1 .. m /\ R[m] = x
      /\ \A k \in 1 .. m : k \in 1 .. n \/ k = m
      /\ \A k \in 1 .. n : k < m /\ k # m
  BY <1>1, <1>3
<1>6. \A c \in Consumer : \A i \in 1 .. Len(got[c]) : got[c][i] \in Item
  BY ItemSeqs
<1>7. /\ \A k \in 1 .. n : Q[k] # x /\ Before(Q[k], x)
      /\ \A c \in Consumer : \A i \in 1 .. Len(got[c]) :
            got[c][i] # x /\ Before(got[c][i], x)
  BY <1>1, <1>2, <1>5, <1>6, NewestIsNew DEF Held
<1>8. ASSUME NEW y \in Item
      PROVE  Held(y)' <=> \E q \in Producer : y \in Appended(q)'
  <2>1. Held(y)' <=> Held(y) \/ y = x
    <3>1. (\E k \in 1 .. m : R[k] = y) <=> (\E k \in 1 .. n : Q[k] = y) \/ y = x
      BY <1>5
    <3>2. QED
      BY <1>1, <1>4, <3>1 DEF Held
  <2>2. (\E q \in Producer : y \in Appended(q)')
           <=> (\E q \in Producer : y \in Appended(q)) \/ y = x
    BY <1>2 DEF Puts
  <2>3. QED
    BY <2>1, <2>2 DEF Items
<1>9. \A k, l \in 1 .. m : k # l => R[k] # R[l]
  BY <1>1, <1>5, <1>7 DEF Items
<1>10. \A k, l \in 1 .. m : k < l => Before(R[k], R[l])
  <2>1. \A k, l \in 1 .. m : k < l => k \in 1 .. n
    BY <1>3
  <2>2. QED
    BY <1>1, <1>5, <1>7, <2>1 DEF Order
<1>11. ASSUME NEW c \in Consumer, NEW i \in 1 .. Len(got[c]), NEW k \in 1 .. m
       PROVE  got[c][i] # R[k] /\ Before(got[c][i], R[k])
  BY <1>1, <1>5, <1>7, SMTT(40) DEF Items, Order
<1>12. Items'
  BY <1>4, <1>8, <1>9, <1>11 DEF Items
<1>13. Order'
  BY <1>4, <1>10, <1>11 DEF Order, Before
<1>14. QED
  BY <1>12, <1>13

\* Handing the oldest item to a consumer keeps items distinct and ordered.
LEMMA ItemsTake ==
    ASSUME Shape, Items, Order, NEW c \in Consumer, Takes(c)
    PROVE  Items' /\ Order'
<1>1. PICK Q \in Seq(Item), n \in Nat : Q = Queue!Contents /\ n = mySize /\ Len(Q) = n
  BY ItemSeqs
<1>2. n > 0 /\ Q # << >>
  BY <1>1 DEF Takes
<1>m. PICK m \in Nat : m = n - 1
  BY <1>2
<1>R. PICK R \in Seq(Item) : R = Tail(Q)
  <2>1. Tail(Q) \in Seq(Item)
    BY <1>2
  <2>2. QED
    BY <2>1
<1>3. R = Tail(Q) /\ m = n - 1
  BY <1>m, <1>R
<1>G. PICK G \in Seq(Item) : G = got[c]
  BY ItemSeqs
<1>g. PICK g \in Nat : g = Len(G)
  OBVIOUS
<1>4. G = got[c] /\ g = Len(G)
  BY <1>g, <1>G
<1>q. PICK front \in Item : front = Q[1]
  BY <1>1, <1>2
<1>H. PICK H \in Seq(Item) : H = Append(G, front)
  <2>1. Append(G, front) \in Seq(Item)
    OBVIOUS
  <2>2. QED
    BY <2>1
<1>5. H = Append(G, Q[1])
  BY <1>H, <1>q
<1>6. /\ Queue!Contents' = R /\ mySize' = m
      /\ got'[c] = H /\ \A d \in Consumer \ {c} : got'[d] = got[d]
  BY <1>1, <1>3, <1>4, <1>5, ItemSeqs DEF Takes
<1>7. /\ \A k \in 1 .. m : k + 1 \in 1 .. n /\ R[k] = Q[k + 1] /\ 1 # k + 1 /\ 1 < k + 1
      /\ 1 \in 1 .. n
      /\ \A k \in 1 .. n : k = 1 \/ (k - 1 \in 1 .. m /\ R[k - 1] = Q[k])
  BY <1>1, <1>2, <1>3
<1>8. /\ Len(H) = g + 1
      /\ \A i \in 1 .. g : i \in 1 .. Len(H) /\ H[i] = G[i]
      /\ g + 1 \in 1 .. Len(H) /\ H[g + 1] = Q[1]
      /\ \A i \in 1 .. Len(H) : i \in 1 .. g \/ i = g + 1
  BY <1>4, <1>5, SMTT(40)
<1>9. ASSUME NEW y \in Item
      PROVE  Held(y)' <=> \E q \in Producer : y \in Appended(q)'
  <2>1. Held(y)' <=> Held(y)
    <3> DEFINE queued == \E k \in 1 .. n : Q[k] = y
               given == \E i \in 1 .. g : G[i] = y
               others == \E d \in Consumer \ {c} : \E i \in 1 .. Len(got[d]) : got[d][i] = y
    <3>1. queued <=> (\E k \in 1 .. m : R[k] = y) \/ Q[1] = y
      BY <1>7
    <3>2. (\E i \in 1 .. Len(H) : H[i] = y) <=> given \/ Q[1] = y
      BY <1>8
    <3>3. Held(y) <=> queued \/ given \/ others
      BY <1>1, <1>4 DEF Held
    <3>4. Held(y)' <=> \/ (\E k \in 1 .. m : R[k] = y)
                       \/ (\E i \in 1 .. Len(H) : H[i] = y)
                       \/ others
      <4>1. (\E d \in Consumer : \E i \in 1 .. Len(got'[d]) : got'[d][i] = y)
               <=> (\E i \in 1 .. Len(H) : H[i] = y) \/ others
        BY <1>6
      <4>2. (\E k \in 1 .. mySize' : (Queue!Contents')[k] = y)
               <=> \E k \in 1 .. m : R[k] = y
        BY <1>6
      <4>3. Held(y)' <=> \/ (\E d \in Consumer : \E i \in 1 .. Len(got'[d]) : got'[d][i] = y)
                         \/ (\E k \in 1 .. mySize' : (Queue!Contents')[k] = y)
        BY DEF Held
      <4> HIDE DEF others
      <4>4. QED
        BY <4>1, <4>2, <4>3
    <3> HIDE DEF queued, given, others
    <3>5. QED
      BY <3>1, <3>2, <3>3, <3>4
  <2>2. QED
    BY <2>1 DEF Items, Takes
<1>10. /\ \A k, l \in 1 .. m : k # l => R[k] # R[l]
       /\ \A k, l \in 1 .. m : k < l => Before(R[k], R[l])
  BY <1>1, <1>7, SMTT(40) DEF Items, Order
<1>11. /\ \A i, j \in 1 .. Len(H) : i # j => H[i] # H[j]
       /\ \A i, j \in 1 .. Len(H) : i < j => Before(H[i], H[j])
  <2>1. \A i \in 1 .. g : G[i] # Q[1] /\ Before(G[i], Q[1])
    BY <1>1, <1>4, <1>7 DEF Items, Order
  <2>2. \A i, j \in 1 .. g : (i # j => G[i] # G[j]) /\ (i < j => Before(G[i], G[j]))
    BY <1>4 DEF Items, Order
  <2>3. \A i, j \in 1 .. Len(H) : i < j => i \in 1 .. g
    BY <1>8
  <2>4. QED
    BY <1>8, <2>1, <2>2, <2>3
<1>12. \A i \in 1 .. Len(H), k \in 1 .. m : H[i] # R[k] /\ Before(H[i], R[k])
  <2>1. \A k \in 1 .. m : Q[1] # R[k] /\ Before(Q[1], R[k])
    BY <1>1, <1>7 DEF Items, Order
  <2>2. \A i \in 1 .. g, k \in 1 .. m : G[i] # R[k] /\ Before(G[i], R[k])
    BY <1>1, <1>4, <1>7 DEF Items, Order
  <2>3. QED
    BY <1>8, <2>1, <2>2
<1>13. \A d \in Consumer \ {c} : \A i \in 1 .. Len(got[d]), j \in 1 .. Len(H) : got[d][i] # H[j]
  <2>1. \A d \in Consumer \ {c} : \A i \in 1 .. Len(got[d]) : got[d][i] # Q[1]
    BY <1>1, <1>7 DEF Items
  <2>2. \A d \in Consumer \ {c} : \A i \in 1 .. Len(got[d]), j \in 1 .. g : got[d][i] # G[j]
    <3>1. ASSUME NEW d \in Consumer \ {c}, NEW i \in 1 .. Len(got[d]), NEW j \in 1 .. g
          PROVE  got[d][i] # G[j]
      <4>1. c \in Consumer \ {d} /\ j \in 1 .. Len(got[c])
        BY <1>4
      <4>2. got[d][i] # got[c][j]
        BY <4>1 DEF Items
      <4>3. QED
        BY <1>4, <4>2
    <3>2. QED
      BY <3>1
  <2>3. ASSUME NEW d \in Consumer \ {c}, NEW i \in 1 .. Len(got[d]), NEW j \in 1 .. Len(H)
        PROVE  got[d][i] # H[j]
    <3>1. CASE j \in 1 .. g
      BY <1>8, <2>2, <3>1
    <3>2. CASE j = g + 1
      BY <1>8, <2>1, <3>2
    <3>3. QED
      BY <1>8, <3>1, <3>2
  <2>4. QED
    BY <2>3
<1>14. \A d \in Consumer \ {c} : \A i \in 1 .. Len(got[d]), k \in 1 .. m :
          got[d][i] # R[k] /\ Before(got[d][i], R[k])
  BY <1>1, <1>7 DEF Items, Order
<1>15. ASSUME NEW d \in Consumer, NEW i \in 1 .. Len(got'[d])
       PROVE  /\ \A j \in 1 .. Len(got'[d]) : i # j => got'[d][i] # got'[d][j]
              /\ \A j \in 1 .. Len(got'[d]) : i < j => Before(got'[d][i], got'[d][j])
              /\ \A k \in 1 .. m : got'[d][i] # R[k] /\ Before(got'[d][i], R[k])
              /\ \A e \in Consumer \ {d} : \A j \in 1 .. Len(got'[e]) : got'[d][i] # got'[e][j]
  <2>1. CASE d = c
    <3>1. got'[d] = H /\ i \in 1 .. Len(H)
      BY <1>6, <1>15, <2>1
    <3>2. \A e \in Consumer \ {d} : got'[e] = got[e] /\ \A j \in 1 .. Len(got[e]) : H[i] # got[e][j]
      BY <1>6, <1>13, <2>1, <3>1
    <3>3. /\ \A j \in 1 .. Len(H) : i # j => H[i] # H[j]
          /\ \A j \in 1 .. Len(H) : i < j => Before(H[i], H[j])
          /\ \A k \in 1 .. m : H[i] # R[k] /\ Before(H[i], R[k])
      BY <1>11, <1>12, <3>1
    <3>4. QED
      BY <3>1, <3>2, <3>3
  <2>2. CASE d # c
    <3>1. got'[d] = got[d]
      BY <1>6, <2>2
    <3>2. /\ \A j \in 1 .. Len(got[d]) : i # j => got[d][i] # got[d][j]
          /\ \A j \in 1 .. Len(got[d]) : i < j => Before(got[d][i], got[d][j])
          /\ \A e \in Consumer \ {d, c} : \A j \in 1 .. Len(got[e]) : got[d][i] # got[e][j]
      BY <1>15, <3>1 DEF Items, Order
    <3>3. \A k \in 1 .. m : got[d][i] # R[k] /\ Before(got[d][i], R[k])
      BY <1>14, <1>15, <2>2, <3>1
    <3>4. ASSUME NEW e \in Consumer \ {d}, NEW j \in 1 .. Len(got'[e])
          PROVE  got'[d][i] # got'[e][j]
      <4>1. CASE e = c
        BY <1>6, <1>13, <1>15, <2>2, <3>1, <3>4, <4>1
      <4>2. CASE e # c
        BY <1>6, <3>1, <3>2, <3>4, <4>2
      <4>3. QED
        BY <4>1, <4>2
    <3>5. QED
      BY <3>1, <3>2, <3>3, <3>4
  <2>3. QED
    BY <2>1, <2>2
<1>16. Items'
  BY <1>6, <1>9, <1>10, <1>15 DEF Items
<1>17. Order'
  BY <1>6, <1>10, <1>15 DEF Order, Before
<1>18. QED
  BY <1>16, <1>17

\* No step loses, duplicates, makes up or overtakes an item.
LEMMA ItemsStep ==
    ASSUME Shape, Items, Order, [Next]_vars
    PROVE  Items' /\ Order'
<1>1. CASE Quiet
  <2>1. \A x : Held(x)' <=> Held(x)
    BY <1>1 DEF Quiet, Held
  <2>2. QED
    BY <1>1, <2>1 DEF Quiet, Items, Order, Before
<1>2. QED
  BY <1>1, StepKinds, ItemsPut, ItemsTake

\* Nothing has been produced at the start.
LEMMA ItemsInit == Init => Items /\ Order
<1> SUFFICES ASSUME Init
             PROVE  Items /\ Order
  OBVIOUS
<1>1. /\ mySize = 0 /\ \A c \in Consumer : got[c] = << >> /\ Len(got[c]) = 0
      /\ \A p \in Producer : sent[p] = 0 /\ call[p] = Queue!Idle
  BY DEF Init, Queue!Init, Queue!CreateQueue, Thread
<1>2. \A x : ~Held(x)
  BY <1>1 DEF Held
<1>3. \A p \in Producer : Appended(p) = {}
  <2>1. Queue!Idle.op # "append"
    BY DEF Queue!Idle
  <2>2. QED
    BY <1>1, <2>1 DEF Appended
<1>4. QED
  BY <1>1, <1>2, <1>3 DEF Items, Order

\* A sequence without repetition has as many members as its length.
LEMMA DistinctItems ==
    ASSUME NEW T, NEW s \in Seq(T),
           \A k, l \in 1 .. Len(s) : k # l => s[k] # s[l]
    PROVE  Cardinality({s[k] : k \in 1 .. Len(s)}) = Len(s)
<1> DEFINE R == {s[k] : k \in 1 .. Len(s)}
<1>1. PICK n \in Nat : n = Len(s) /\ DOMAIN s = 1 .. n
  OBVIOUS
<1>2. s \in Bijection(1 .. n, R)
  <2>1. s \in [1 .. n -> R]
    BY <1>1
  <2>2. \A k, l \in 1 .. n : s[k] = s[l] => k = l
    BY <1>1
  <2>3. \A r \in R : \E k \in 1 .. n : s[k] = r
    BY <1>1
  <2>4. QED
    BY <2>1, <2>2, <2>3 DEF Bijection, Injection, Surjection, IsInjective
<1>3. ExistsBijection(1 .. n, R)
  BY <1>2 DEF ExistsBijection
<1>4. QED
  BY <1>1, <1>3, FS_CountingElements

\* Between the call of append and the consumers' output no item is lost,
\* duplicated or made up, whatever the number of threads.
THEOREM ItemsConservedHolds == Spec => []ItemsConserved
<1>1. Shape /\ Items => ItemsConserved
  <2> SUFFICES ASSUME Shape, Items
               PROVE  ItemsConserved
    OBVIOUS
  <2> DEFINE queued == {Queue!Contents[k] : k \in 1 .. mySize}
             removedBy(c) == {got[c][i] : i \in DOMAIN got[c]}
  <2>0. \A c \in Consumer : got[c] \in Seq(Item) /\ DOMAIN got[c] = 1 .. Len(got[c])
    BY ItemSeqs
  <2>1. (UNION {removedBy(c) : c \in Consumer}) \cup queued
           = UNION {Appended(p) : p \in Producer}
    <3>1. ASSUME NEW x \in Item
          PROVE  Held(x) <=> x \in (UNION {removedBy(c) : c \in Consumer}) \cup queued
      <4>1. x \in queued <=> \E k \in 1 .. mySize : Queue!Contents[k] = x
        OBVIOUS
      <4>2. \A c \in Consumer :
               x \in removedBy(c) <=> \E i \in 1 .. Len(got[c]) : got[c][i] = x
        BY <2>0
      <4>3. x \in UNION {removedBy(c) : c \in Consumer} <=>
               \E c \in Consumer : x \in removedBy(c)
        OBVIOUS
      <4>4. Held(x) <=> x \in queued \/ \E c \in Consumer : x \in removedBy(c)
        BY <4>1, <4>2 DEF Held
      <4> HIDE DEF queued, removedBy
      <4>5. QED
        BY <4>3, <4>4
    <3>2. (UNION {removedBy(c) : c \in Consumer}) \cup queued \subseteq Item
      <4>1. queued \subseteq Item
        BY ItemSeqs
      <4>2. \A c \in Consumer : removedBy(c) \subseteq Item
        BY <2>0
      <4> HIDE DEF queued, removedBy
      <4>3. QED
        BY <4>1, <4>2
    <3>3. UNION {Appended(p) : p \in Producer} \subseteq Item
      <4>1. ASSUME NEW p \in Producer, NEW x \in Appended(p)
            PROVE  x \in Item
        <5>1. sent[p] \in 0 .. numItems /\ numItems \in 1 .. 10
          BY CountsAssumption DEF Shape, TypeOK
        <5>2. PICK i \in 0 .. numItems - 1 : x = ItemOf(p, i)
          BY <5>1 DEF Appended
        <5>3. QED
          BY <5>2, ItemNumbers
      <4>2. QED
        BY <4>1
    <3>4. ASSUME NEW x \in Item
          PROVE  Held(x) <=> x \in UNION {Appended(p) : p \in Producer}
      BY DEF Items
    <3>5. QED
      BY <3>1, <3>2, <3>3, <3>4
  <2>2. Cardinality(queued) = mySize
    BY ItemSeqs, DistinctItems DEF Items
  <2>3. ASSUME NEW c \in Consumer
        PROVE  /\ Cardinality(removedBy(c)) = Len(got[c])
               /\ removedBy(c) \cap queued = {}
               /\ \A d \in Consumer \ {c} : removedBy(c) \cap removedBy(d) = {}
    <3>1. Cardinality({got[c][i] : i \in 1 .. Len(got[c])}) = Len(got[c])
      BY <2>0, DistinctItems DEF Items
    <3>2. removedBy(c) \cap queued = {}
      BY <2>0 DEF Items
    <3>3. \A d \in Consumer \ {c} : removedBy(c) \cap removedBy(d) = {}
      BY <2>0 DEF Items
    <3>4. QED
      BY <2>0, <3>1, <3>2, <3>3
  <2>4. QED
    BY <2>1, <2>2, <2>3 DEF ItemsConserved
<1>2. Shape /\ Items /\ Order /\ [Next]_vars => Shape' /\ Items' /\ Order'
  BY ShapeStep, ItemsStep
<1>3. QED
  BY ShapeInit, ItemsInit, <1>1, <1>2, PTL DEF Spec

\* Every consumer gets the items of one producer in the order in which that
\* producer appended them, and before those still in the queue.
THEOREM ProducerOrderHolds == Spec => []ProducerOrder
<1>1. Shape /\ Order => ProducerOrder
  <2> SUFFICES ASSUME Shape, Order
               PROVE  ProducerOrder
    OBVIOUS
  <2>1. \A c \in Consumer : DOMAIN got[c] = 1 .. Len(got[c])
    BY ItemSeqs
  <2>2. QED
    BY <2>1 DEF Order, ProducerOrder, Before
<1>2. Shape /\ Items /\ Order /\ [Next]_vars => Shape' /\ Items' /\ Order'
  BY ShapeStep, ItemsStep
<1>3. QED
  BY ShapeInit, ItemsInit, <1>1, <1>2, PTL DEF Spec
-----------------------------------------------------------------------------
\* Once main has joined all threads every one of them has finished.
LEMMA AllFinished ==
    ASSUME Shape, joined = N
    PROVE  \A t \in Producer \cup Consumer : Finished(t)
  BY ThreadOrder DEF Shape, MainShape

\* There are at most numProducers * numItems items.
LEMMA ItemCount ==
    IsFiniteSet(Item) /\ Cardinality(Item) <= numProducers * numItems
<1> DEFINE S == Producer \X (0 .. numItems - 1)
           f == [s \in S |-> ItemOf(s[1], s[2])]
<1>0. numProducers \in Nat /\ numItems \in 1 .. 10
  BY CountsAssumption
<1>1. f \in Surjection(S, Item)
  <2>1. f \in [S -> Item]
    BY DEF Item
  <2>2. \A x \in Item : \E s \in S : f[s] = x
    <3>1. ASSUME NEW x \in Item
          PROVE  \E s \in S : f[s] = x
      <4>1. PICK p \in Producer, i \in 0 .. numItems - 1 : x = ItemOf(p, i)
        BY DEF Item
      <4>2. <<p, i>> \in S /\ f[<<p, i>>] = x
        BY <4>1
      <4>3. QED
        BY <4>2
    <3>2. QED
      BY <3>1
  <2>3. QED
    BY <2>1, <2>2 DEF Surjection
<1>2. IsFiniteSet(0 .. numItems - 1) /\ Cardinality(0 .. numItems - 1) = numItems
  BY <1>0, FS_Interval
<1>3. IsFiniteSet(S) /\ Cardinality(S) = numProducers * numItems
  BY <1>2, ThreadCounts, FS_Product
<1> HIDE DEF S, f
<1>4. QED
  BY <1>1, <1>3, FS_Surjection

\* With as many consumers as producers, when all have had their share nothing
\* is left in the queue: the consumers' items are numConsumers * numItems
\* different ones, and there are no more.
LEMMA NothingLeft ==
    ASSUME Shape, Items, joined = N, numProducers = numConsumers
    PROVE  mySize = 0
<1> SUFFICES ASSUME mySize # 0
             PROVE  FALSE
  OBVIOUS
<1> DEFINE S == Consumer \X (1 .. numItems)
           f == [s \in S |-> got[s[1]][s[2]]]
<1>0. numProducers \in Nat /\ numItems \in 1 .. 10
  BY CountsAssumption
<1>1. PICK x \in Item : x = Queue!Contents[1] /\ 1 \in 1 .. mySize
  BY ItemSeqs
<1>2. \A c \in Consumer : Len(got[c]) = numItems /\ got[c] \in Seq(Item)
  BY AllFinished, ItemSeqs, ThreadNames DEF Finished
<1>3. f \in Injection(S, Item \ {x})
  <2>1. ASSUME NEW s \in S
        PROVE  f[s] \in Item \ {x}
    <3>1. s[1] \in Consumer /\ s[2] \in 1 .. Len(got[s[1]])
      BY <1>2
    <3>2. f[s] = got[s[1]][s[2]]
      OBVIOUS
    <3>3. QED
      BY <1>1, <1>2, <3>1, <3>2 DEF Items
  <2>2. ASSUME NEW s \in S, NEW u \in S, f[s] = f[u]
        PROVE  s = u
    <3>1. /\ s[1] \in Consumer /\ s[2] \in 1 .. Len(got[s[1]]) /\ s = <<s[1], s[2]>>
          /\ u[1] \in Consumer /\ u[2] \in 1 .. Len(got[u[1]]) /\ u = <<u[1], u[2]>>
      BY <1>2
    <3>2. got[s[1]][s[2]] = got[u[1]][u[2]]
      BY <2>2
    <3>3. s[1] = u[1]
      BY <3>1, <3>2 DEF Items
    <3>4. s[2] = u[2]
      BY <3>1, <3>2, <3>3 DEF Items
    <3>5. QED
      BY <3>1, <3>3, <3>4
  <2>3. QED
    BY <2>1, <2>2 DEF Injection, IsInjective
<1>4. IsFiniteSet(S) /\ Cardinality(S) = numConsumers * numItems
  <2>1. IsFiniteSet(1 .. numItems) /\ Cardinality(1 .. numItems) = numItems
    <3>1. 1 \in Int /\ numItems \in Int /\ ~(1 > numItems) /\ numItems - 1 + 1 = numItems
      BY <1>0
    <3>2. QED
      BY <3>1, FS_Interval
  <2>2. QED
    BY <2>1, ThreadCounts, FS_Product
<1>5. /\ IsFiniteSet(Item \ {x}) /\ Cardinality(Item \ {x}) = Cardinality(Item) - 1
      /\ Cardinality(Item) \in Nat
  BY ItemCount, FS_RemoveElement, FS_CardinalityType
<1> HIDE DEF S, f
<1>6. Cardinality(S) <= Cardinality(Item \ {x})
  BY <1>3, <1>5, FS_Injection
<1>7. PICK k \in Nat : k = numProducers * numItems
  BY <1>0
<1>8. QED
  BY <1>4, <1>5, <1>6, <1>7, ItemCount

\* With as many consumers as producers the assertion of main holds, and main
\* destroys the queue when no thread is in it or will be.
THEOREM CleanShutdownHolds ==
    ASSUME numProducers = numConsumers
    PROVE  Spec => []CleanShutdown
<1> DEFINE I == Shape /\ Items /\ Order /\ mainAt # "aborted"
<1>1. Init => I
  BY ShapeInit, ItemsInit DEF Init
<1>2. I /\ [Next]_vars => I'
  <2> SUFFICES ASSUME I, [Next]_vars
               PROVE  I'
    OBVIOUS
  <2>1. Shape' /\ Items' /\ Order'
    BY ShapeStep, ItemsStep
  <2>2. mainAt' # "aborted"
    <3>1. CASE AssertEmpty
      <4>1. joined = N
        BY <3>1 DEF AssertEmpty, Shape, MainShape
      <4>2. QED
        BY <3>1, <4>1, NothingLeft DEF AssertEmpty
    <3>2. CASE CreateThread \/ JoinThread \/ Destroy \/ UNCHANGED mainAt
      BY <3>2 DEF CreateThread, JoinThread, Destroy
    <3>3. QED
      BY <3>1, <3>2 DEF Next, MainThread, Produce, Consume, Wakeup, vars
  <2>3. QED
    BY <2>1, <2>2
<1>3. I => CleanShutdown
  BY AllFinished DEF Shape, MainShape, CleanShutdown
<1>4. QED
  BY <1>1, <1>2, <1>3, PTL DEF Spec
=============================================================================
