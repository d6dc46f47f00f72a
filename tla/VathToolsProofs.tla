--------------------------- MODULE VathToolsProofs ---------------------------
(***************************************************************************)
(* Theorems about the tools of the vath library, for any number of threads, *)
(* stages, rounds, jobs and elements: their types, that the ring buffer     *)
(* implements the bounded FIFO queue, that a posted value is read as often  *)
(* as it should, that the pipeline of locks stays in step,                  *)
(* that a job ends when nothing of it is left to do, that the deque keeps   *)
(* its elements, and that no accumulation is lost.                          *)
(***************************************************************************)
EXTENDS VathTools, CircularArray, SequenceTheorems, FiniteSetTheorems,
        WellFoundedInduction, TLAPS

(* Circular arrays, as for TSQueue: the remainder arithmetic of their       *)
(* indices, and how writing behind the newest item and dropping the oldest  *)
(* one change the stored sequence.                                          *)

\* A remainder is a slot of the array.
LEMMA ModRange ==
    ASSUME NEW slots \in Nat \ {0}, NEW a \in Int
    PROVE  a % slots \in 0 .. slots - 1
  OBVIOUS

\* A slot is its own remainder.
LEMMA ModSmall ==
    ASSUME NEW slots \in Nat \ {0}, NEW a \in 0 .. slots - 1
    PROVE  a % slots = a
  OBVIOUS

\* An index less than one turn beyond the array wraps once.
LEMMA ModWrap ==
    ASSUME NEW slots \in Nat \ {0}, NEW a \in slots .. 2 * slots - 1
    PROVE  a % slots = a - slots
  OBVIOUS

\* Wrapping an index before moving on does not change where one arrives:
\* how TS_Queue.slots steps a wrapped index.
LEMMA ModShift ==
    ASSUME NEW slots \in Nat \ {0}, NEW a \in Nat, NEW b \in Nat, a + b < 2 * slots
    PROVE  ((a % slots) + b) % slots = (a + b) % slots
<1>1. CASE a < slots
  BY <1>1, ModSmall
<1>2. CASE a >= slots
  <2>1. a % slots = a - slots /\ (a + b) % slots = a + b - slots
    <3>1. a \in slots .. 2 * slots - 1 /\ a + b \in slots .. 2 * slots - 1
      BY <1>2
    <3>2. a % slots = a - slots
      BY <3>1, ModWrap
    <3>3. (a + b) % slots = a + b - slots
      BY <3>1, ModWrap
    <3>4. QED
      BY <3>2, <3>3
  <2>2. (a - slots + b) % slots = a - slots + b
    <3>1. a - slots + b \in 0 .. slots - 1
      BY <1>2
    <3>2. QED
      BY <3>1, ModSmall
  <2>3. QED
    BY <2>1, <2>2
<1>3. QED
  BY <1>1, <1>2

\* Fewer than slots steps from a slot never lead back to a slot passed before.
LEMMA ModDistinct ==
    ASSUME NEW slots \in Nat \ {0}, NEW a \in 0 .. slots - 1,
           NEW i \in Nat, NEW k \in Nat, i < k, k < slots
    PROVE  (a + i) % slots # (a + k) % slots
<1>1. CASE a + k < slots
  BY <1>1, ModSmall
<1>2. CASE a + i < slots /\ a + k >= slots
  BY <1>2, ModSmall, ModWrap
<1>3. CASE a + i >= slots
  BY <1>3, ModWrap
<1>4. QED
  BY <1>1, <1>2, <1>3
-----------------------------------------------------------------------------
\* The ring is a sequence of n values, and its items are the ring's items.
RingView(V, arr, slots, f, n) ==
    /\ Ring(arr, slots, f, n) \in Seq(V)
    /\ Len(Ring(arr, slots, f, n)) = n
    /\ \A i \in 1 .. n : Ring(arr, slots, f, n)[i] = RingItem(arr, slots, f, i)

\* What a circular array stores is a sequence of values of the length asked for.
LEMMA RingIsSeq ==
    ASSUME NEW V, NEW slots \in Nat \ {0}, NEW arr, IsArray(arr, slots, V),
           NEW f \in RingSlots(slots), NEW n \in Nat
    PROVE  RingView(V, arr, slots, f, n)
<1>1. ASSUME NEW i \in 1 .. n
      PROVE  RingItem(arr, slots, f, i) \in V
  <2>1. f + (i - 1) \in Int
    BY DEF RingSlots
  <2>2. (f + (i - 1)) % slots \in RingSlots(slots)
    BY <2>1, ModRange DEF RingSlots
  <2>3. QED
    BY <2>2 DEF RingItem, IsArray
<1>2. Ring(arr, slots, f, n) \in [1 .. n -> V]
  BY <1>1 DEF Ring
<1>3. Ring(arr, slots, f, n) \in Seq(V)
  BY <1>2, SeqDef
<1>4. Len(Ring(arr, slots, f, n)) = n
  BY <1>2, <1>3, LenProperties
<1>5. QED
  BY <1>3, <1>4 DEF Ring, RingView

\* arr2 is arr with v written in the slot behind the n-th item.
IsWritten(arr2, arr, slots, f, n, v) == arr2 = [arr EXCEPT ![(f + n) % slots] = v]

\* s2 is s with v behind it.
IsExtended(s2, s, v) == s2 = Append(s, v)

\* Writing behind the newest item of an array with a free slot appends to what
\* it stores, and disturbs no other item: TS_Queue.slots, append.
LEMMA RingAppend ==
    ASSUME NEW V, NEW slots \in Nat \ {0}, NEW arr, IsArray(arr, slots, V),
           NEW f \in RingSlots(slots), NEW n \in Nat, n < slots,
           NEW v \in V, NEW arr2, IsWritten(arr2, arr, slots, f, n, v),
           NEW m \in Nat, m = n + 1
    PROVE  IsExtended(Ring(arr2, slots, f, m), Ring(arr, slots, f, n), v)
<1>last. PICK last : last = (f + n) % slots
  OBVIOUS
<1>written. arr2 = [arr EXCEPT ![last] = v]
  BY <1>last DEF IsWritten
<1>isArray. IsArray(arr2, slots, V)
  BY <1>written DEF IsArray
<1>inArray. last \in RingSlots(slots)
  <2>1. f + n \in Int
    BY DEF RingSlots
  <2>2. QED
    BY <1>last, <2>1, ModRange DEF RingSlots
<1>new. PICK new : new = Ring(arr2, slots, f, m)
  OBVIOUS
<1>old. PICK old : old = Ring(arr, slots, f, n)
  OBVIOUS
<1>1. /\ new \in Seq(V)
      /\ Len(new) = n + 1
      /\ \A i \in 1 .. n + 1 : new[i] = RingItem(arr2, slots, f, i)
  <2>1. m \in Nat
    OBVIOUS
  <2>2. RingView(V, arr2, slots, f, m)
    BY <1>isArray, RingIsSeq
  <2>3. QED
    BY <1>new, <2>1, <2>2 DEF RingView
<1>2. /\ old \in Seq(V)
      /\ Len(old) = n
      /\ \A i \in 1 .. n : old[i] = RingItem(arr, slots, f, i)
  <2>1. RingView(V, arr, slots, f, n)
    BY RingIsSeq
  <2>2. QED
    BY <1>old, <2>1 DEF RingView
<1>3. /\ Append(old, v) \in Seq(V)
      /\ Len(Append(old, v)) = n + 1
      /\ \A i \in 1 .. n : Append(old, v)[i] = old[i]
      /\ Append(old, v)[n + 1] = v
  BY <1>2, AppendProperties
<1>4. ASSUME NEW i \in 1 .. n
      PROVE  new[i] = Append(old, v)[i]
  <2>1. /\ i - 1 \in Nat /\ i - 1 < n /\ f + (i - 1) \in Int
        /\ i \in 1 .. n + 1 /\ f \in 0 .. slots - 1
    BY DEF RingSlots
  <2>2. (f + (i - 1)) % slots # (f + n) % slots
    BY <2>1, ModDistinct
  <2>3. (f + (i - 1)) % slots \in RingSlots(slots)
    BY <2>1, ModRange DEF RingSlots
  <2>4. RingItem(arr2, slots, f, i) = RingItem(arr, slots, f, i)
    BY <1>written, <1>last, <2>2, <2>3 DEF RingItem, IsArray
  <2>5. QED
    BY <1>1, <1>2, <1>3, <2>1, <2>4
<1>5. new[n + 1] = v
  <2>1. f + ((n + 1) - 1) = f + n /\ n + 1 \in 1 .. n + 1
    BY DEF RingSlots
  <2>2. RingItem(arr2, slots, f, n + 1) = v
    BY <1>written, <1>inArray, <1>last, <2>1 DEF RingItem, IsArray
  <2>3. QED
    BY <1>1, <2>1, <2>2
<1>6. \A i \in 1 .. n + 1 : new[i] = Append(old, v)[i]
  <2>1. \A i \in 1 .. n + 1 : i = n + 1 \/ i \in 1 .. n
    OBVIOUS
  <2>2. QED
    BY <1>3, <1>4, <1>5, <2>1
<1>7. new = Append(old, v)
  BY <1>1, <1>3, <1>6, SeqEqual
<1>8. QED
  BY <1>7, <1>written, <1>new, <1>old DEF IsExtended

\* The oldest item is at the first index, and advancing that index drops it:
\* TS_Queue.slots, removeFirst.
LEMMA RingTail ==
    ASSUME NEW V, NEW slots \in Nat \ {0}, NEW arr, IsArray(arr, slots, V),
           NEW f \in RingSlots(slots), NEW n \in Nat \ {0}, n <= slots
    PROVE  /\ Ring(arr, slots, f, n) # << >>
           /\ Head(Ring(arr, slots, f, n)) = arr[f]
           /\ Ring(arr, slots, (f + 1) % slots, n - 1) = Tail(Ring(arr, slots, f, n))
<1>1. PICK g \in RingSlots(slots) : g = (f + 1) % slots
  <2>1. f + 1 \in Int
    BY DEF RingSlots
  <2>2. QED
    BY <2>1, ModRange DEF RingSlots
<1>new. PICK new : new = Ring(arr, slots, g, n - 1)
  OBVIOUS
<1>old. PICK old : old = Ring(arr, slots, f, n)
  OBVIOUS
<1>2. /\ old \in Seq(V)
      /\ Len(old) = n
      /\ \A i \in 1 .. n : old[i] = RingItem(arr, slots, f, i)
  <2>1. RingView(V, arr, slots, f, n)
    BY RingIsSeq
  <2>2. QED
    BY <1>old, <2>1 DEF RingView
<1>3. /\ new \in Seq(V)
      /\ Len(new) = n - 1
      /\ \A i \in 1 .. n - 1 : new[i] = RingItem(arr, slots, g, i)
  <2>1. PICK m \in Nat : m = n - 1
    OBVIOUS
  <2>2. RingView(V, arr, slots, g, m)
    BY RingIsSeq
  <2>3. QED
    BY <1>new, <2>1, <2>2 DEF RingView
<1>4. old # << >>
  BY <1>2, EmptySeq
<1>5. /\ Tail(old) \in Seq(V)
      /\ Len(Tail(old)) = n - 1
      /\ \A i \in 1 .. n - 1 : Tail(old)[i] = old[i + 1]
  BY <1>2, <1>4, HeadTailProperties
<1>6. ASSUME NEW i \in 1 .. n - 1
      PROVE  new[i] = Tail(old)[i]
  <2>1. /\ f + 1 \in Nat /\ i - 1 \in Nat /\ (f + 1) + (i - 1) < 2 * slots
        /\ (f + 1) + (i - 1) = f + ((i + 1) - 1)
        /\ i + 1 \in 1 .. n
    BY DEF RingSlots
  <2>2. (((f + 1) % slots) + (i - 1)) % slots = ((f + 1) + (i - 1)) % slots
    BY <2>1, ModShift
  <2>3. RingItem(arr, slots, g, i) = RingItem(arr, slots, f, i + 1)
    BY <1>1, <2>1, <2>2 DEF RingItem
  <2>4. QED
    BY <1>2, <1>3, <1>5, <2>1, <2>3
<1>7. new = Tail(old)
  BY <1>3, <1>5, <1>6, SeqEqual
<1>8. Head(old) = arr[f]
  <2>1. f + (1 - 1) = f /\ 1 \in 1 .. n /\ f % slots = f
    BY ModSmall DEF RingSlots
  <2>2. RingItem(arr, slots, f, 1) = arr[f]
    BY <2>1 DEF RingItem
  <2>3. old[1] = arr[f]
    BY <1>2, <2>1, <2>2
  <2>4. QED
    BY <1>2, <2>3
<1>9. QED
  BY <1>1, <1>4, <1>7, <1>8, <1>new, <1>old
-----------------------------------------------------------------------------
(* The ring buffer.  The constructor leaves the wrap counter as it finds   *)
(* it, so VathTools has it in zeroed memory.                               *)

\* The counter, the indices and how many items they leave between them.
Indexed(h, t, k) ==
    /\ h \in RingSlots(Size) /\ t \in RingSlots(Size)
    /\ k \in {0, 1}
    /\ (h - t) + k * Size \in 0 .. Size

\* In a buffer that is not full there is room, in one that is not empty an item.
LEMMA RoomAndItems ==
    ASSUME RB!SizeAssumption, RB!TypeOK
    PROVE  /\ RB!Count \in Nat
           /\ ~RB!Full => RB!Count < Size
           /\ ~RB!Empty => RB!Count > 0
<1>1. CASE C = 0
  <2>1. RB!Count = head - tail
    BY <1>1, RB!SizeAssumption DEF RB!Count, RB!TypeOK, RingSlots, RB!RingSlots, RB!SizeAssumption
  <2>2. QED
    BY <1>1, <2>1 DEF RB!Full, RB!Empty, RB!TypeOK, RingSlots, RB!RingSlots, RB!SizeAssumption
<1>2. CASE C = 1
  <2>1. RB!Count = (head - tail) + Size
    BY <1>2, RB!SizeAssumption DEF RB!Count, RB!TypeOK, RingSlots, RB!RingSlots, RB!SizeAssumption
  <2>2. QED
    BY <1>2, <2>1 DEF RB!Full, RB!Empty, RB!TypeOK, RingSlots, RB!RingSlots, RB!SizeAssumption
<1>3. QED
  BY <1>1, <1>2 DEF RB!TypeOK

\* Stepping head adds one to the count, also when it wraps.
LEMMA HeadSteps ==
    ASSUME RB!SizeAssumption, RB!TypeOK, ~RB!Full, RB!NextHead, UNCHANGED tail
    PROVE  Indexed(head', tail', C') /\ RB!Count' = RB!Count + 1
<1>1. RB!Count < Size /\ RB!Count \in Nat
  BY RoomAndItems
<1>type. /\ Size \in Nat \ {0} /\ head \in 0 .. Size - 1 /\ tail \in 0 .. Size - 1
         /\ C \in {0, 1} /\ tail' = tail
  BY DEF RB!TypeOK, RingSlots, RB!RingSlots, RB!SizeAssumption
<1>2. CASE head = Size - 1
  <2>1. head' = 0 /\ C' = C + 1
    BY <1>type, <1>2, ModWrap DEF RB!NextHead
  <2>2. C = 0
    BY <1>1, <1>2, <1>type DEF RB!Count
  <2>3. RB!Count' = (0 - tail) + Size /\ RB!Count = Size - 1 - tail
    BY <1>2, <1>type, <2>1, <2>2 DEF RB!Count
  <2>4. QED
    BY <1>type, <2>1, <2>2, <2>3 DEF Indexed, RingSlots, RB!RingSlots
<1>3. CASE head # Size - 1
  <2>1. head' = head + 1 /\ C' = C
    <3>1. head + 1 \in 0 .. Size - 1
      BY <1>type, <1>3
    <3>2. QED
      BY <1>type, <1>3, <3>1, ModSmall DEF RB!NextHead
  <2>2. CASE C = 0
    <3>1. RB!Count' = head + 1 - tail /\ RB!Count = head - tail
      BY <1>type, <2>1, <2>2 DEF RB!Count
    <3>2. QED
      BY <1>1, <1>3, <1>type, <2>1, <2>2, <3>1 DEF Indexed, RingSlots, RB!RingSlots
  <2>3. CASE C = 1
    <3>1. RB!Count' = (head + 1 - tail) + Size /\ RB!Count = (head - tail) + Size
      BY <1>type, <2>1, <2>3 DEF RB!Count
    <3>2. QED
      BY <1>1, <1>3, <1>type, <2>1, <2>3, <3>1 DEF Indexed, RingSlots, RB!RingSlots
  <2>4. QED
    BY <1>type, <2>2, <2>3
<1>4. QED
  BY <1>2, <1>3

\* Stepping tail takes one from it.
LEMMA TailSteps ==
    ASSUME RB!SizeAssumption, RB!TypeOK, ~RB!Empty, RB!NextTail, UNCHANGED head
    PROVE  Indexed(head', tail', C') /\ RB!Count' = RB!Count - 1
<1>1. RB!Count > 0 /\ RB!Count \in Nat /\ RB!Count <= Size
  BY RoomAndItems DEF RB!TypeOK
<1>type. /\ Size \in Nat \ {0} /\ head \in 0 .. Size - 1 /\ tail \in 0 .. Size - 1
         /\ C \in {0, 1} /\ head' = head
  BY DEF RB!TypeOK, RingSlots, RB!RingSlots, RB!SizeAssumption
<1>2. CASE tail = Size - 1
  <2>1. tail' = 0 /\ C' = C - 1
    BY <1>type, <1>2, ModWrap DEF RB!NextTail
  <2>2. C = 1
    BY <1>1, <1>2, <1>type DEF RB!Count
  <2>3. RB!Count' = head /\ RB!Count = head + 1
    BY <1>2, <1>type, <2>1, <2>2 DEF RB!Count
  <2>4. QED
    BY <1>type, <2>1, <2>2, <2>3 DEF Indexed, RingSlots, RB!RingSlots
<1>3. CASE tail # Size - 1
  <2>1. tail' = tail + 1 /\ C' = C
    <3>1. tail + 1 \in 0 .. Size - 1
      BY <1>type, <1>3
    <3>2. QED
      BY <1>type, <1>3, <3>1, ModSmall DEF RB!NextTail
  <2>2. CASE C = 0
    <3>1. RB!Count' = head - (tail + 1) /\ RB!Count = head - tail
      BY <1>type, <2>1, <2>2 DEF RB!Count
    <3>2. QED
      BY <1>1, <1>3, <1>type, <2>1, <2>2, <3>1 DEF Indexed, RingSlots, RB!RingSlots
  <2>3. CASE C = 1
    <3>1. RB!Count' = (head - (tail + 1)) + Size /\ RB!Count = (head - tail) + Size
      BY <1>type, <2>1, <2>3 DEF RB!Count
    <3>2. QED
      BY <1>1, <1>3, <1>type, <2>1, <2>3, <3>1 DEF Indexed, RingSlots, RB!RingSlots
  <2>4. QED
    BY <1>type, <2>2, <2>3
<1>4. QED
  BY <1>2, <1>3
-----------------------------------------------------------------------------
\* What storing and loading an item leave of the buffer.
LEMMA StoreType ==
    ASSUME RB!SizeAssumption, RB!TypeOK, NEW item \in Item, RB!Store(item)
    PROVE  /\ IsArray(buffer', Size, Item \cup {NoItem})
           /\ Indexed(head', tail', C')
           /\ value' \in [Thread -> Item \cup {NoItem}]
<1>1. Indexed(head', tail', C')
  BY HeadSteps DEF RB!Store
<1>2. QED
  BY <1>1 DEF RB!Store, RB!TypeOK, IsArray, RB!IsArray, RingSlots, RB!RingSlots

LEMMA LoadType ==
    ASSUME RB!SizeAssumption, RB!TypeOK, NEW t \in Thread, RB!Load(t)
    PROVE  /\ IsArray(buffer', Size, Item \cup {NoItem})
           /\ Indexed(head', tail', C')
           /\ value' \in [Thread -> Item \cup {NoItem}]
<1>1. Indexed(head', tail', C')
  BY TailSteps DEF RB!Load
<1>2. QED
  BY <1>1 DEF RB!Load, RB!TypeOK, IsArray, RB!IsArray, RingSlots, RB!RingSlots

LEMMA FieldsType ==
    ASSUME RB!SizeAssumption, RB!TypeOK, UNCHANGED <<RB!fields, value>>
    PROVE  /\ IsArray(buffer', Size, Item \cup {NoItem})
           /\ Indexed(head', tail', C')
           /\ value' \in [Thread -> Item \cup {NoItem}]
  BY DEF RB!TypeOK, RB!fields, Indexed, RB!Count, IsArray, RB!IsArray, RingSlots, RB!RingSlots

\* A thread's own state after each operation.
LEMMA TryingType ==
    ASSUME RB!TypeOK, NEW t \in Thread, NEW next \in {RB!Idle, RB!Extracting} \cup RB!Inserts,
           trying' = [trying EXCEPT ![t] = next]
    PROVE  trying' \in [Thread -> {RB!Idle, RB!Extracting} \cup RB!Inserts]
  BY DEF RB!TypeOK

\* The two together are the type invariant.
LEMMA TypeFrom ==
    ASSUME IsArray(buffer', Size, Item \cup {NoItem}), Indexed(head', tail', C'),
           value' \in [Thread -> Item \cup {NoItem}],
           trying' \in [Thread -> {RB!Idle, RB!Extracting} \cup RB!Inserts]
    PROVE  RB!TypeOK'
  BY DEF RB!TypeOK, Indexed, RB!Count, IsArray, RB!IsArray, RingSlots, RB!RingSlots

\* Each step stores an item, loads one for a thread, or leaves the buffer alone.
LEMMA StepShape ==
    ASSUME [RB!Next]_ring
    PROVE  \/ \E item \in Item : RB!Store(item)
           \/ \E t \in Thread : RB!Load(t)
           \/ UNCHANGED <<RB!fields, value>>
<1>1. ASSUME NEW t \in Thread, NEW item \in Item, RB!Push(t, item) \/ RB!Insert(t, item)
      PROVE  RB!Store(item) \/ UNCHANGED <<RB!fields, value>>
  BY <1>1 DEF RB!Push, RB!Insert
<1>2. ASSUME NEW t \in Thread, RB!Pop(t) \/ RB!Extract(t)
      PROVE  RB!Load(t) \/ UNCHANGED <<RB!fields, value>>
  BY <1>2 DEF RB!Pop, RB!Extract
<1>3. CASE UNCHANGED ring
  BY <1>3 DEF ring, RB!fields
<1>4. QED
  BY <1>1, <1>2, <1>3 DEF RB!Next

LEMMA TypeStep ==
    ASSUME RB!SizeAssumption, RB!TypeOK, [RB!Next]_ring
    PROVE  RB!TypeOK'
<1>1. /\ IsArray(buffer', Size, Item \cup {NoItem})
      /\ Indexed(head', tail', C')
      /\ value' \in [Thread -> Item \cup {NoItem}]
  BY StepShape, StoreType, LoadType, FieldsType
<1>2. trying' \in [Thread -> {RB!Idle, RB!Extracting} \cup RB!Inserts]
  <2>1. ASSUME NEW t \in Thread, NEW item \in Item, RB!Push(t, item)
        PROVE  trying' \in [Thread -> {RB!Idle, RB!Extracting} \cup RB!Inserts]
    BY <2>1 DEF RB!Push, RB!TypeOK
  <2>2. ASSUME NEW t \in Thread, NEW item \in Item, RB!Insert(t, item)
        PROVE  trying' \in [Thread -> {RB!Idle, RB!Extracting} \cup RB!Inserts]
    <3>1. [op |-> "insert", item |-> item] \in RB!Inserts
      BY DEF RB!Inserts
    <3>2. QED
      BY <2>2, <3>1, TryingType DEF RB!Insert
  <2>3. ASSUME NEW t \in Thread, RB!Pop(t)
        PROVE  trying' \in [Thread -> {RB!Idle, RB!Extracting} \cup RB!Inserts]
    BY <2>3 DEF RB!Pop, RB!TypeOK
  <2>4. ASSUME NEW t \in Thread, RB!Extract(t)
        PROVE  trying' \in [Thread -> {RB!Idle, RB!Extracting} \cup RB!Inserts]
    BY <2>4, TryingType DEF RB!Extract
  <2>5. CASE UNCHANGED ring
    BY <2>5 DEF ring, RB!TypeOK
  <2>6. QED
    BY <2>1, <2>2, <2>3, <2>4, <2>5 DEF RB!Next
<1>3. QED
  BY <1>1, <1>2, TypeFrom

LEMMA TypeAtStart ==
    ASSUME RB!SizeAssumption, RB!Init
    PROVE  RB!TypeOK
  BY DEF RB!Init, RB!InitialC, RB!TypeOK, RB!IsArray, RB!RingSlots, RB!Count,
         RB!SizeAssumption

\* A step of the composition is one of the ring buffer or leaves it alone.
LEMMA RingMoves ==
    ASSUME [Next]_vars
    PROVE  [RB!Next]_ring
  BY DEF Next, vars

\* The wrap counter is 0 or 1 and, with the indices, counts the items, for
\* every size: that C tells a full buffer from an empty one.
THEOREM RingTypeCorrect == Spec => []RB!TypeOK
<1>1. RB!SizeAssumption
  BY RingAssumption DEF RB!SizeAssumption
<1>2. Init => RB!TypeOK
  BY <1>1, TypeAtStart DEF Init
<1>3. RB!TypeOK /\ [Next]_vars => RB!TypeOK'
  BY <1>1, RingMoves, TypeStep
<1>4. QED
  BY <1>2, <1>3, PTL DEF Spec
-----------------------------------------------------------------------------
\* What the buffer holds, and what the refinement maps it to.
Contents == Ring(buffer, Size, tail, RB!Count)

\* It is the sequence of the module's own instance of CircularArray.
LEMMA RingsAgree ==
    /\ RB!Ring(buffer, Size, tail, RB!Count) = Contents
    /\ RB!Ring(buffer, Size, tail, RB!Count)' = Contents'
  BY DEF Contents, Ring, RingItem, RB!Ring, RB!RingItem

LEMMA StoreIsPut ==
    ASSUME RB!SizeAssumption, RB!TypeOK, NEW item \in Item, RB!Store(item)
    PROVE  RB!Abstract!Put(item)
<1>1. RB!Count \in Nat /\ RB!Count < Size
  BY RoomAndItems DEF RB!Store
<1>2. RB!Count' = RB!Count + 1
  BY HeadSteps DEF RB!Store
<1>slot. head = (tail + RB!Count) % Size
  <2>type. /\ Size \in Nat \ {0} /\ head \in 0 .. Size - 1 /\ tail \in 0 .. Size - 1
           /\ C \in {0, 1}
    BY DEF RB!TypeOK, RingSlots, RB!RingSlots, RB!SizeAssumption
  <2>1. CASE C = 0
    <3>1. tail + RB!Count = head
      BY <2>type, <2>1 DEF RB!Count
    <3>2. QED
      BY <2>type, <3>1, ModSmall
  <2>2. CASE C = 1
    <3>1. tail + RB!Count = head + Size
      BY <2>type, <2>2 DEF RB!Count
    <3>2. head + Size \in Size .. 2 * Size - 1
      BY <2>type
    <3>3. (head + Size) % Size = head
      BY <2>type, <3>2, ModWrap
    <3>4. QED
      BY <3>1, <3>3
  <2>3. QED
    BY <2>type, <2>1, <2>2
<1>written. IsWritten(buffer', buffer, Size, tail, RB!Count, item)
  BY <1>slot DEF RB!Store, IsWritten
<1>type. /\ IsArray(buffer, Size, Item \cup {NoItem}) /\ Size \in Nat \ {0}
         /\ tail \in RingSlots(Size) /\ tail' = tail
  BY DEF RB!TypeOK, RB!SizeAssumption, RB!Store, IsArray, RB!IsArray, RingSlots, RB!RingSlots
<1>view. RingView(Item \cup {NoItem}, buffer, Size, tail, RB!Count)
  BY <1>1, <1>type, RingIsSeq
<1>3. PICK n \in Nat : n = RB!Count
  BY <1>1
<1>4. PICK m \in Nat : m = n + 1
  OBVIOUS
<1>5. IsExtended(Ring(buffer', Size, tail, m), Ring(buffer, Size, tail, n), item)
  BY <1>1, <1>3, <1>4, <1>type, <1>written, RingAppend
<1>6. Contents' = Ring(buffer', Size, tail, m) /\ Contents = Ring(buffer, Size, tail, n)
  BY <1>2, <1>3, <1>4, <1>type DEF Contents
<1>7. Contents' = Append(Contents, item) /\ Len(Contents) < Size
  BY <1>1, <1>3, <1>5, <1>6, <1>view DEF IsExtended, RingView, Contents
<1>8. QED
  BY <1>7, RingsAgree DEF RB!Abstract!Put, RB!Store

LEMMA LoadIsTake ==
    ASSUME RB!SizeAssumption, RB!TypeOK, NEW t \in Thread, RB!Load(t)
    PROVE  RB!Abstract!Take(t)
<1>1. RB!Count \in Nat \ {0} /\ RB!Count <= Size
  BY RoomAndItems DEF RB!Load, RB!TypeOK
<1>2. RB!Count' = RB!Count - 1
  BY TailSteps DEF RB!Load
<1>type. /\ IsArray(buffer, Size, Item \cup {NoItem}) /\ Size \in Nat \ {0}
         /\ tail \in RingSlots(Size) /\ buffer' = buffer
         /\ tail' = (tail + 1) % Size
  BY DEF RB!TypeOK, RB!SizeAssumption, RB!Load, RB!NextTail, IsArray, RB!IsArray, RingSlots, RB!RingSlots
<1>3. /\ Contents # << >> /\ Head(Contents) = buffer[tail]
      /\ Ring(buffer, Size, (tail + 1) % Size, RB!Count - 1) = Tail(Contents)
  <2>1. PICK n \in Nat \ {0} : n = RB!Count
    BY <1>1
  <2>2. n <= Size
    BY <1>1, <2>1
  <2>3. /\ Ring(buffer, Size, tail, n) # << >>
        /\ Head(Ring(buffer, Size, tail, n)) = buffer[tail]
        /\ Ring(buffer, Size, (tail + 1) % Size, n - 1)
             = Tail(Ring(buffer, Size, tail, n))
    BY <1>type, <2>2, RingTail
  <2>4. QED
    BY <2>1, <2>3 DEF Contents
<1>4. Contents' = Tail(Contents)
  BY <1>2, <1>3, <1>type DEF Contents
<1>5. QED
  BY <1>3, <1>4, RingsAgree DEF RB!Abstract!Take, RB!Load

\* A step that leaves the buffer alone is a stutter of the queue.
LEMMA FrameStutters ==
    ASSUME UNCHANGED <<RB!fields, value>>
    PROVE  UNCHANGED RB!Abstract!vars
<1>1. Contents' = Contents /\ value' = value
  BY DEF Contents, RB!fields, RB!Count
<1>2. QED
  BY <1>1, RingsAgree DEF RB!Abstract!vars

LEMMA InitIsInit ==
    ASSUME RB!SizeAssumption, RB!Init
    PROVE  RB!Abstract!Init
<1>1. RB!Count = 0
  BY DEF RB!Init, RB!InitialC, RB!Count, RB!SizeAssumption
<1>2. Contents = << >>
  BY <1>1 DEF Contents, Ring
<1>3. QED
  BY <1>2, RingsAgree DEF RB!Abstract!Init, RB!Init

\* For every size the ring buffer is a bounded first-in first-out queue:
\* Push and Insert put an item at the end while there is room, Pop and
\* Extract take the oldest, and a call that fails or goes on trying
\* changes nothing.
THEOREM RingRefinement == Spec => ImplementsBoundedFIFO
<1>1. RB!SizeAssumption
  BY RingAssumption DEF RB!SizeAssumption
<1>2. Init => RB!Abstract!Init
  BY <1>1, InitIsInit DEF Init
<1>3. RB!TypeOK /\ [Next]_vars => [RB!Abstract!Next]_(RB!Abstract!vars)
  <2>1. ASSUME RB!TypeOK, NEW item \in Item, RB!Store(item)
        PROVE  RB!Abstract!Next
    BY <1>1, <2>1, StoreIsPut DEF RB!Abstract!Next
  <2>2. ASSUME RB!TypeOK, NEW t \in Thread, RB!Load(t)
        PROVE  RB!Abstract!Next
    BY <1>1, <2>2, LoadIsTake DEF RB!Abstract!Next
  <2>3. QED
    BY <2>1, <2>2, RingMoves, StepShape, FrameStutters
<1>4. Spec => []RB!TypeOK
  BY RingTypeCorrect
<1>5. QED
  BY <1>2, <1>3, <1>4, PTL
  DEF Spec, ImplementsBoundedFIFO, RB!ImplementsBoundedFIFO, RB!Abstract!Spec

-----------------------------------------------------------------------------
(* The pipeline of locks.  A stage that has seen its connector and not yet *)
(* taken it still finds it set; one that is about to set its own still     *)
(* finds it clear; the first stage takes and the last sets nothing.        *)
PipeInv ==
  /\ PB!TypeOK /\ PB!InStep
  /\ stage[Beg] # "taken" /\ stage[End] # "set"
  /\ \A n \in Beg .. End :
        /\ stage[n] = "taken" => connector[n - 1]
        /\ stage[n] = "set" => ~connector[n]
        /\ stage[n] \in {"taken", "work"} => worked[n] < Passes

\* Its constructor's state.
LEMMA PipeInit == PB!Init => PipeInv
<1> SUFFICES ASSUME PB!Init
             PROVE  PipeInv
  OBVIOUS
<1>1. Beg \in Beg .. End /\ End \in Beg .. End
  BY PipeAssumption
<1>2. PB!TypeOK
  BY PipeAssumption DEF PB!Init, PB!TypeOK
<1>3. PB!InStep
  BY PipeAssumption DEF PB!Init, PB!InStep, PB!Stages, PB!Connectors, PB!OneIf
<1>4. QED
  BY <1>1, <1>2, <1>3 DEF PB!Init, PipeInv, PB!Stages

\* One step of one stage, seen from the stage behind it: what it adds on one
\* side of the equation it adds on the other.
LEMMA PipeStep ==
    ASSUME PipeInv, [PB!Next]_pipe
    PROVE  PipeInv'
<1> DEFINE Places == {"wait", "taken", "work", "release", "set"}
           OK(n) == worked[n - 1] = worked[n] + PB!OneIf(stage[n - 1] \in {"release", "set"})
                                      + PB!OneIf(connector[n - 1]) + PB!OneIf(stage[n] = "work")
<1>0. /\ connector \in [Beg .. End - 1 -> BOOLEAN]
      /\ stage \in [Beg .. End -> Places]
      /\ worked \in [Beg .. End -> 0 .. Passes]
  BY DEF PipeInv, PB!TypeOK, PB!Stages, PB!Connectors
<1>1. \A n \in Beg .. End : n # Beg => OK(n)
  BY DEF PipeInv, PB!InStep, PB!Stages
<1>2. /\ stage[Beg] # "taken" /\ stage[End] # "set"
      /\ \A n \in Beg .. End :
            /\ stage[n] = "taken" => connector[n - 1]
            /\ stage[n] = "set" => ~connector[n]
            /\ stage[n] \in {"taken", "work"} => worked[n] < Passes
  BY DEF PipeInv
<1>3. /\ Beg \in Int /\ End \in Int /\ Passes \in Int
      /\ \A n \in Beg .. End : n \in Int /\ n - 1 \in Int /\ n + 1 \in Int
      /\ \A n \in Beg .. End : n # Beg => n - 1 \in Beg .. End /\ n - 1 \in Beg .. End - 1
      /\ \A n \in Beg .. End : n # End => n \in Beg .. End - 1
      /\ \A n \in Beg .. End : worked[n] \in Int
      /\ \A m, n \in Beg .. End : m - 1 = n - 1 => m = n
  BY <1>0, PipeAssumption
<1>b. /\ \A b \in BOOLEAN : PB!OneIf(b) \in {0, 1}
      /\ \A b : b => PB!OneIf(b) = 1
      /\ \A b : ~b => PB!OneIf(b) = 0
  BY DEF PB!OneIf
<1>4. ASSUME /\ connector' \in [Beg .. End - 1 -> BOOLEAN]
             /\ stage' \in [Beg .. End -> Places]
             /\ worked' \in [Beg .. End -> 0 .. Passes],
             \A n \in Beg .. End : n # Beg => OK(n)',
             stage'[Beg] # "taken", stage'[End] # "set",
             \A n \in Beg .. End :
                /\ stage'[n] = "taken" => connector'[n - 1]
                /\ stage'[n] = "set" => ~connector'[n]
                /\ stage'[n] \in {"taken", "work"} => worked'[n] < Passes
      PROVE  PipeInv'
  <2>1. PB!TypeOK'
    BY <1>4 DEF PB!TypeOK, PB!Stages, PB!Connectors
  <2>2. PB!InStep'
    BY <1>4 DEF PB!InStep, PB!Stages
  <2>3. QED
    BY <1>4, <2>1, <2>2 DEF PipeInv
<1>5. ASSUME NEW n \in Beg .. End, PB!Released(n)
      PROVE  PipeInv'
  <2>1. /\ UNCHANGED <<connector, worked>> /\ worked[n] < Passes
        /\ \A m \in Beg .. End : m # n => stage'[m] = stage[m]
        /\ stage[n] = "wait" /\ stage' \in [Beg .. End -> Places]
        /\ \/ n = Beg /\ stage'[n] = "work"
           \/ n # Beg /\ connector[n - 1] /\ stage'[n] = "taken"
    BY <1>0, <1>5 DEF PB!Released, PB!Goes
  <2>2. \A m \in Beg .. End : m # Beg => OK(m)'
    BY <1>1, <1>3, <2>1 DEF PB!OneIf
  <2>f. /\ stage'[Beg] # "taken" /\ stage'[End] # "set"
        /\ \A m \in Beg .. End :
              /\ stage'[m] = "taken" => connector'[m - 1]
              /\ stage'[m] = "set" => ~connector'[m]
              /\ stage'[m] \in {"taken", "work"} => worked'[m] < Passes
    BY <1>2, <1>3, <2>1
  <2> HIDE DEF OK, Places
  <2>q. QED
    BY <1>0, <1>4, <2>1, <2>2, <2>f
<1>6. ASSUME NEW n \in Beg .. End, PB!Take(n)
      PROVE  PipeInv'
  <2>1. /\ UNCHANGED worked
        /\ \A m \in Beg .. End : m # n => stage'[m] = stage[m]
        /\ stage[n] = "taken" /\ stage'[n] = "work" /\ stage' \in [Beg .. End -> Places]
        /\ connector' = [connector EXCEPT ![n - 1] = FALSE]
    BY <1>0, <1>6 DEF PB!Take, PB!Goes
  <2>2. n # Beg /\ connector[n - 1] /\ worked[n] < Passes
    BY <1>2, <2>1
  <2>3. /\ connector' \in [Beg .. End - 1 -> BOOLEAN]
        /\ ~connector'[n - 1]
        /\ \A m \in Beg .. End : m # n => connector'[m - 1] = connector[m - 1]
        /\ \A m \in Beg .. End : connector'[m] => connector[m]
    BY <1>0, <1>3, <2>1, <2>2
  <2>4. \A m \in Beg .. End : m # Beg => OK(m)'
    <3>1. OK(n)'
      <4>1. PB!OneIf(connector[n - 1]) = 1 /\ PB!OneIf(connector'[n - 1]) = 0
        BY <1>b, <2>2, <2>3
      <4>2. PB!OneIf(stage[n] = "work") = 0 /\ PB!OneIf(stage'[n] = "work") = 1
        BY <1>b, <2>1
      <4>3. n - 1 \in Beg .. End /\ n - 1 # n
        BY <1>3, <2>2
      <4>4. stage'[n - 1] = stage[n - 1] /\ UNCHANGED worked
        BY <2>1, <4>3
      <4>5. PB!OneIf(stage[n - 1] \in {"release", "set"}) \in Int
        BY DEF PB!OneIf
      <4>6. worked[n - 1] \in Int /\ worked[n] \in Int
        BY <1>3, <4>3
      <4>7. OK(n)
        BY <1>1, <2>2
      <4>8. QED
        BY <4>1, <4>2, <4>4, <4>5, <4>6, <4>7
    <3>2. ASSUME NEW m \in Beg .. End, m # Beg, m # n PROVE OK(m)'
      <4>1. CASE m - 1 = n
        <5>1. stage'[m] = stage[m] /\ connector'[m - 1] = connector[m - 1]
          BY <2>1, <2>3, <3>2
        <5>2. /\ PB!OneIf(stage[m - 1] \in {"release", "set"}) = 0
              /\ PB!OneIf(stage'[m - 1] \in {"release", "set"}) = 0
          BY <1>b, <2>1, <4>1
        <5>3. OK(m)
          BY <1>1, <3>2
        <5>4. QED
          BY <2>1, <5>1, <5>2, <5>3
      <4>2. CASE m - 1 # n
        BY <1>1, <1>3, <2>1, <2>3, <3>2, <4>2 DEF PB!OneIf
      <4>3. QED
        BY <4>1, <4>2
    <3>3. QED
      BY <2>2, <3>1, <3>2
  <2>f. /\ stage'[Beg] # "taken" /\ stage'[End] # "set"
        /\ \A m \in Beg .. End :
              /\ stage'[m] = "taken" => connector'[m - 1]
              /\ stage'[m] = "set" => ~connector'[m]
              /\ stage'[m] \in {"taken", "work"} => worked'[m] < Passes
    BY <1>2, <1>3, <2>1, <2>2, <2>3
  <2> HIDE DEF OK, Places
  <2>q. QED
    BY <1>0, <1>4, <2>1, <2>3, <2>4, <2>f
<1>7. ASSUME NEW n \in Beg .. End, PB!Work(n)
      PROVE  PipeInv'
  <2>1. /\ UNCHANGED connector
        /\ \A m \in Beg .. End : m # n => stage'[m] = stage[m] /\ worked'[m] = worked[m]
        /\ stage[n] = "work" /\ stage'[n] = "release" /\ stage' \in [Beg .. End -> Places]
        /\ worked'[n] = worked[n] + 1 /\ worked[n] < Passes
    BY <1>0, <1>2, <1>7 DEF PB!Work, PB!Goes
  <2>2. worked' \in [Beg .. End -> 0 .. Passes]
    <3>1. worked[n] + 1 \in 0 .. Passes
      BY <1>0, <1>3, <2>1
    <3>2. worked' = [worked EXCEPT ![n] = worked[n] + 1]
      BY <1>7 DEF PB!Work
    <3>3. QED
      BY <1>0, <3>1, <3>2
  <2>3. \A m \in Beg .. End : m # Beg => OK(m)'
    <3>1. ASSUME n # Beg PROVE OK(n)'
      BY <1>1, <1>3, <2>1, <3>1, SMTT(40) DEF PB!OneIf
    <3>2. ASSUME NEW m \in Beg .. End, m # Beg, m # n PROVE OK(m)'
      <4>1. CASE m - 1 = n
        <5>1. stage'[m] = stage[m] /\ worked'[m] = worked[m] /\ UNCHANGED connector
          BY <2>1, <3>2
        <5>2. /\ PB!OneIf(stage[m - 1] \in {"release", "set"}) = 0
              /\ PB!OneIf(stage'[m - 1] \in {"release", "set"}) = 1
              /\ worked'[m - 1] = worked[m - 1] + 1
          BY <1>b, <2>1, <4>1
        <5>3. OK(m)
          BY <1>1, <3>2
        <5>4. /\ worked[m] \in Int /\ worked[m - 1] \in Int
              /\ PB!OneIf(stage[m] = "work") \in Int
              /\ PB!OneIf(connector[m - 1]) \in Int
          BY <1>3, <3>2 DEF PB!OneIf
        <5>5. QED
          BY <5>1, <5>2, <5>3, <5>4
      <4>2. CASE m - 1 # n
        BY <1>1, <1>3, <2>1, <3>2, <4>2 DEF PB!OneIf
      <4>3. QED
        BY <4>1, <4>2
    <3>3. QED
      BY <3>1, <3>2
  <2>f. /\ stage'[Beg] # "taken" /\ stage'[End] # "set"
        /\ \A m \in Beg .. End :
              /\ stage'[m] = "taken" => connector'[m - 1]
              /\ stage'[m] = "set" => ~connector'[m]
              /\ stage'[m] \in {"taken", "work"} => worked'[m] < Passes
    BY <1>2, <1>3, <2>1
  <2> HIDE DEF OK, Places
  <2>q. QED
    BY <1>0, <1>4, <2>1, <2>2, <2>3, <2>f
<1>8. ASSUME NEW n \in Beg .. End, PB!Free(n)
      PROVE  PipeInv'
  <2>1. /\ UNCHANGED <<connector, worked>>
        /\ \A m \in Beg .. End : m # n => stage'[m] = stage[m]
        /\ stage[n] = "release" /\ stage' \in [Beg .. End -> Places]
        /\ \/ n = End /\ stage'[n] = "wait"
           \/ n # End /\ ~connector[n] /\ stage'[n] = "set"
    BY <1>0, <1>8 DEF PB!Free, PB!Goes, PB!TakenByNext
  <2>2. \A m \in Beg .. End : m # Beg => OK(m)'
    <3>1. ASSUME n # Beg PROVE OK(n)'
      BY <1>1, <1>3, <2>1, <3>1 DEF PB!OneIf
    <3>2. ASSUME NEW m \in Beg .. End, m # Beg, m # n PROVE OK(m)'
      <4>1. CASE m - 1 = n
        <5>1. n # End
          BY <1>3, <4>1
        <5>2. QED
          BY <1>1, <1>3, <2>1, <3>2, <4>1, <5>1 DEF PB!OneIf
      <4>2. CASE m - 1 # n
        BY <1>1, <1>3, <2>1, <3>2, <4>2 DEF PB!OneIf
      <4>3. QED
        BY <4>1, <4>2
    <3>3. QED
      BY <3>1, <3>2
  <2>f. /\ stage'[Beg] # "taken" /\ stage'[End] # "set"
        /\ \A m \in Beg .. End :
              /\ stage'[m] = "taken" => connector'[m - 1]
              /\ stage'[m] = "set" => ~connector'[m]
              /\ stage'[m] \in {"taken", "work"} => worked'[m] < Passes
    BY <1>2, <1>3, <2>1
  <2> HIDE DEF OK, Places
  <2>q. QED
    BY <1>0, <1>4, <2>1, <2>2, <2>f
<1>9. ASSUME NEW n \in Beg .. End, PB!Set(n)
      PROVE  PipeInv'
  <2>1. /\ UNCHANGED worked
        /\ \A m \in Beg .. End : m # n => stage'[m] = stage[m]
        /\ stage[n] = "set" /\ stage'[n] = "wait" /\ stage' \in [Beg .. End -> Places]
        /\ connector' = [connector EXCEPT ![n] = TRUE]
    BY <1>0, <1>9 DEF PB!Set, PB!Goes
  <2>2. n # End /\ ~connector[n]
    BY <1>2, <2>1
  <2>3. /\ connector' \in [Beg .. End - 1 -> BOOLEAN]
        /\ connector'[n]
        /\ \A m \in Beg .. End : m # n => connector'[m] = connector[m]
    BY <1>0, <1>3, <2>1, <2>2
  <2>4. \A m \in Beg .. End : m # Beg => OK(m)'
    <3>1. ASSUME n # Beg PROVE OK(n)'
      <4>1. n - 1 \in Beg .. End /\ n - 1 # n
        BY <1>3, <3>1
      <4>2. stage'[n - 1] = stage[n - 1] /\ connector'[n - 1] = connector[n - 1]
        <5>1. n - 1 \in Beg .. End - 1
          BY <1>3, <3>1
        <5>2. QED
          BY <1>0, <2>1, <4>1, <5>1
      <4>3. PB!OneIf(stage[n] = "work") = 0 /\ PB!OneIf(stage'[n] = "work") = 0
        BY <1>b, <2>1
      <4>4. OK(n)
        BY <1>1, <3>1
      <4>5. QED
        BY <2>1, <4>2, <4>3, <4>4
    <3>2. ASSUME NEW m \in Beg .. End, m # Beg, m # n PROVE OK(m)'
      <4>1. CASE m - 1 = n
        <5>1. stage'[m] = stage[m] /\ UNCHANGED worked
          BY <2>1, <3>2
        <5>2. /\ PB!OneIf(stage[m - 1] \in {"release", "set"}) = 1
              /\ PB!OneIf(stage'[m - 1] \in {"release", "set"}) = 0
          BY <1>b, <2>1, <4>1
        <5>3. PB!OneIf(connector[m - 1]) = 0 /\ PB!OneIf(connector'[m - 1]) = 1
          BY <1>b, <2>2, <2>3, <4>1
        <5>4. OK(m)
          BY <1>1, <3>2
        <5>5. /\ worked[m] \in Int /\ worked[m - 1] \in Int
              /\ PB!OneIf(stage[m] = "work") \in Int
          BY <1>3, <3>2 DEF PB!OneIf
        <5>6. QED
          BY <5>1, <5>2, <5>3, <5>4, <5>5
      <4>2. CASE m - 1 # n
        BY <1>1, <1>3, <2>1, <2>3, <3>2, <4>2 DEF PB!OneIf
      <4>3. QED
        BY <4>1, <4>2
    <3>3. QED
      BY <3>1, <3>2
  <2>5. \A m \in Beg .. End : stage'[m] = "taken" => connector'[m - 1]
    BY <1>2, <1>3, <2>1, <2>3
  <2>f. /\ stage'[Beg] # "taken" /\ stage'[End] # "set"
        /\ \A m \in Beg .. End :
              /\ stage'[m] = "taken" => connector'[m - 1]
              /\ stage'[m] = "set" => ~connector'[m]
              /\ stage'[m] \in {"taken", "work"} => worked'[m] < Passes
    BY <1>2, <1>3, <2>1, <2>3, <2>5
  <2> HIDE DEF OK, Places
  <2>q. QED
    BY <1>0, <1>4, <2>1, <2>3, <2>4, <2>f
<1>10. CASE UNCHANGED pipe
  BY <1>0, <1>1, <1>2, <1>4, <1>10 DEF pipe
<1>11. QED
  BY <1>5, <1>6, <1>7, <1>8, <1>9, <1>10 DEF PB!Next, PB!Step, PB!Stages

-----------------------------------------------------------------------------
\* A step of the composition is, for each tool, one of its steps or none.
LEMMA StepOfEach ==
    ASSUME [Next]_vars
    PROVE  /\ [RB!Next]_ring /\ [SP!Next]_synch /\ [OS!Next]_osynch
           /\ [PB!Next]_pipe /\ [TR!Next]_sum /\ [JM!Next]_jobs /\ [TD!Next]_deque
           /\ UNCHANGED tool
  BY DEF Next, vars

\* The stages of the pipeline of locks stay in step, for any number of them:
\* between ReleaseNext and WaitForRelease no release is lost, taken twice or
\* taken too early.
THEOREM InStepHolds == Spec => []InStep
<1>1. Init => PipeInv
  BY PipeInit DEF Init
<1>2. PipeInv /\ [Next]_vars => PipeInv'
  BY StepOfEach, PipeStep
<1>3. PipeInv => InStep
  BY DEF PipeInv, InStep
<1>4. QED
  BY <1>1, <1>2, <1>3, PTL DEF Spec

-----------------------------------------------------------------------------
(* The jobs of the task pool.  The count of a job is the number of its     *)
(* tasks under way, never more than were submitted.  A worker that is      *)
(* about to unregister a job has seen the count at zero, where it stays;   *)
(* so each worker unregisters a job once at most, and the number of jobs   *)
(* falls below zero no further than that.                                  *)
Places == {"task", "child", "test", "unregister", "jobs", "notify"}
Doing  == {JM!Resting} \cup { JM!At(p, j) : p \in Places, j \in Job }

Busy(j)   == { w \in Worker : worker[w] \in {JM!At("task", j), JM!At("child", j)} }
Adding(j) == { w \in Worker : worker[w] = JM!At("child", j) }

JobTypes ==
  /\ nJobs \in Int /\ poolIdle \in BOOLEAN
  /\ submitted \subseteq Job
  /\ n_tasks \in [Job -> Nat] /\ queued \in [Job -> Nat]
  /\ children \in [Job -> 0 .. Children]
  /\ running \in [Job -> BOOLEAN]
  /\ worker \in [Worker -> Doing]

CountOK(j) ==
  /\ n_tasks[j] = queued[j] + Cardinality(Busy(j)) + Cardinality(Adding(j))
  /\ n_tasks[j] <= Tasks + children[j]
  /\ j \notin submitted => n_tasks[j] = 0
  /\ running[j] = FALSE => n_tasks[j] = 0

EndOK(w, j) ==
  /\ worker[w] = JM!At("test", j) => j \in submitted
  /\ worker[w] = JM!At("unregister", j) => j \in submitted /\ n_tasks[j] = 0

MayUnregister ==
  { x \in Job \X Worker :
      \/ x[1] \notin submitted
      \/ n_tasks[x[1]] > 0
      \/ worker[x[2]] \in {JM!At("test", x[1]), JM!At("unregister", x[1])} }

JobBounds ==
  /\ nJobs <= Cardinality(submitted)
  /\ nJobs + Cardinality(Job \X Worker) >= Cardinality(MayUnregister)

JobsInv ==
  /\ JobTypes /\ JobBounds
  /\ \A j \in Job : CountOK(j)
  /\ \A w \in Worker, j \in Job : EndOK(w, j)

\* What a worker may be doing, and that no two of these are the same.
LEMMA DoingIs ==
    /\ JM!Resting \in Doing
    /\ \A p \in Places, j \in Job : JM!At(p, j) \in Doing /\ JM!At(p, j) # JM!Resting
    /\ \A p, q \in Places, j, k \in Job : JM!At(p, j) = JM!At(q, k) => p = q /\ j = k
<1>1. JM!Resting.at = "rest" /\ "rest" \notin Places
  BY DEF JM!Resting, Places
<1>2. \A p, j : JM!At(p, j).at = p /\ JM!At(p, j).job = j
  BY DEF JM!At
<1>3. JM!Resting \in Doing /\ \A p \in Places, j \in Job : JM!At(p, j) \in Doing
  BY DEF Doing
<1>4. \A p, q \in Places, j, k \in Job : JM!At(p, j) = JM!At(q, k) => p = q /\ j = k
  <2>1. SUFFICES ASSUME NEW p \in Places, NEW q \in Places, NEW j \in Job, NEW k \in Job,
                        JM!At(p, j) = JM!At(q, k)
                 PROVE  p = q /\ j = k
    OBVIOUS
  <2>2. JM!At(p, j).at = p /\ JM!At(p, j).job = j /\ JM!At(q, k).at = q /\ JM!At(q, k).job = k
    BY <1>2
  <2>3. QED
    BY <2>1, <2>2
<1>5. QED
  BY <1>1, <1>2, <1>3, <1>4

\* Whoever works for j, or for nobody, does not work for another job.
ForJob(x, j) == x \in {JM!Resting} \cup { JM!At(p, j) : p \in Places }

LEMMA ForOneJob ==
    /\ \A j \in Job : ForJob(JM!Resting, j)
    /\ \A j \in Job, p \in Places : ForJob(JM!At(p, j), j)
    /\ \A x : \A j, k \in Job, p \in Places : ForJob(x, j) /\ k # j => x # JM!At(p, k)
  BY DoingIs DEF ForJob

\* How many workers of some kind there are, and one more or one less.
LEMMA SomeWorkers ==
    ASSUME NEW S, S \subseteq Worker
    PROVE  IsFiniteSet(S) /\ Cardinality(S) \in Nat
  BY JobsAssumption, FS_Subset, FS_CardinalityType

LEMMA OneMore ==
    ASSUME NEW S, S \subseteq Worker, NEW w, w \notin S
    PROVE  Cardinality(S \cup {w}) = Cardinality(S) + 1
  BY SomeWorkers, FS_AddElement

LEMMA OneLess ==
    ASSUME NEW S, S \subseteq Worker, NEW w, w \in S
    PROVE  Cardinality(S \ {w}) = Cardinality(S) - 1
  BY SomeWorkers, FS_RemoveElement

\* What is left of the sets of workers when w does something else, seen from
\* every job.
LEMMA Reassigned ==
    ASSUME worker \in [Worker -> Doing], NEW w \in Worker, NEW to \in Doing,
           worker' = [worker EXCEPT ![w] = to], NEW j \in Job
    PROVE  /\ worker' \in [Worker -> Doing]
           /\ Busy(j)' = IF to \in {JM!At("task", j), JM!At("child", j)}
                         THEN Busy(j) \cup {w} ELSE Busy(j) \ {w}
           /\ Adding(j)' = IF to = JM!At("child", j) THEN Adding(j) \cup {w} ELSE Adding(j) \ {w}
<1>1. worker'[w] = to /\ \A v \in Worker \ {w} : worker'[v] = worker[v]
  OBVIOUS
<1>2. worker' \in [Worker -> Doing]
  OBVIOUS
<1>3. \A v \in Worker : v \in Busy(j)' <=> worker'[v] \in {JM!At("task", j), JM!At("child", j)}
  BY DEF Busy, JM!At
<1>4. \A v \in Worker : v \in Busy(j) <=> worker[v] \in {JM!At("task", j), JM!At("child", j)}
  BY DEF Busy
<1>5. \A v \in Worker : v \in Adding(j)' <=> worker'[v] = JM!At("child", j)
  BY DEF Adding, JM!At
<1>6. \A v \in Worker : v \in Adding(j) <=> worker[v] = JM!At("child", j)
  BY DEF Adding
<1>7. Busy(j)' \subseteq Worker /\ Busy(j) \subseteq Worker
      /\ Adding(j)' \subseteq Worker /\ Adding(j) \subseteq Worker
  BY DEF Busy, Adding
<1>8. ASSUME NEW v \in Worker
      PROVE  v \in Busy(j)' <=> v \in IF to \in {JM!At("task", j), JM!At("child", j)}
                                       THEN Busy(j) \cup {w} ELSE Busy(j) \ {w}
  BY <1>1, <1>3, <1>4
<1>9. ASSUME NEW v \in Worker
      PROVE  v \in Adding(j)' <=> v \in IF to = JM!At("child", j)
                                         THEN Adding(j) \cup {w} ELSE Adding(j) \ {w}
  BY <1>1, <1>5, <1>6
<1>10. Busy(j)' = IF to \in {JM!At("task", j), JM!At("child", j)}
                  THEN Busy(j) \cup {w} ELSE Busy(j) \ {w}
  BY <1>7, <1>8
<1>11. Adding(j)' = IF to = JM!At("child", j) THEN Adding(j) \cup {w} ELSE Adding(j) \ {w}
  BY <1>7, <1>9
<1>12. QED
  BY <1>2, <1>10, <1>11

\* Another job sees nothing of what a worker does for j.
LEMMA OtherJob ==
    ASSUME worker \in [Worker -> Doing], NEW w \in Worker, NEW to \in Doing,
           worker' = [worker EXCEPT ![w] = to], NEW k \in Job,
           to \notin {JM!At("task", k), JM!At("child", k)},
           worker[w] \notin {JM!At("task", k), JM!At("child", k)}
    PROVE  Busy(k)' = Busy(k) /\ Adding(k)' = Adding(k)
<1>1. w \notin Busy(k) /\ w \notin Adding(k)
  BY DEF Busy, Adding
<1>2. Busy(k) \ {w} = Busy(k) /\ Adding(k) \ {w} = Adding(k)
  BY <1>1
<1>3. Busy(k)' = Busy(k) \ {w} /\ Adding(k)' = Adding(k) \ {w}
  BY Reassigned
<1>4. QED
  BY <1>2, <1>3

\* A worker that executes a task, or is submitting a child, is counted.
LEMMA BusyCounts ==
    ASSUME JobsInv, NEW w \in Worker, NEW j \in Job
    PROVE  /\ worker[w] = JM!At("task", j) => n_tasks[j] >= 1 /\ w \in Busy(j) /\ w \notin Adding(j)
           /\ worker[w] = JM!At("child", j) => n_tasks[j] >= 2 /\ w \in Busy(j) /\ w \in Adding(j)
           /\ n_tasks[j] >= queued[j] /\ n_tasks[j] >= Cardinality(Busy(j))
<1>1. /\ Busy(j) \subseteq Worker /\ Adding(j) \subseteq Worker
      /\ n_tasks[j] = queued[j] + Cardinality(Busy(j)) + Cardinality(Adding(j))
      /\ n_tasks[j] \in Nat /\ queued[j] \in Nat
  BY DEF JobsInv, JobTypes, CountOK, Busy, Adding
<1>2. /\ Cardinality(Busy(j)) \in Nat /\ Cardinality(Adding(j)) \in Nat
      /\ IsFiniteSet(Busy(j)) /\ IsFiniteSet(Adding(j))
  BY <1>1, SomeWorkers
<1>3. "task" \in Places /\ "child" \in Places
  BY DEF Places
<1>4. ASSUME worker[w] = JM!At("task", j)
      PROVE  n_tasks[j] >= 1 /\ w \in Busy(j) /\ w \notin Adding(j)
  <2>1. w \in Busy(j) /\ w \notin Adding(j)
    BY <1>3, <1>4, DoingIs DEF Busy, Adding
  <2>2. Cardinality(Busy(j)) # 0
    BY <1>2, <2>1, FS_EmptySet
  <2>3. QED
    BY <1>1, <1>2, <2>1, <2>2
<1>5. ASSUME worker[w] = JM!At("child", j)
      PROVE  n_tasks[j] >= 2 /\ w \in Busy(j) /\ w \in Adding(j)
  <2>1. w \in Busy(j) /\ w \in Adding(j)
    BY <1>5 DEF Busy, Adding
  <2>2. Cardinality(Busy(j)) # 0 /\ Cardinality(Adding(j)) # 0
    BY <1>2, <2>1, FS_EmptySet
  <2>3. QED
    BY <1>1, <1>2, <2>1, <2>2
<1>6. QED
  BY <1>1, <1>2, <1>4, <1>5

\* Whoever may still unregister a job is one of finitely many.
LEMMA MayUnregisterShrinks ==
    ASSUME MayUnregister' \subseteq MayUnregister
    PROVE  /\ IsFiniteSet(Job \X Worker) /\ Cardinality(Job \X Worker) \in Nat
           /\ IsFiniteSet(MayUnregister) /\ Cardinality(MayUnregister) \in Nat
           /\ IsFiniteSet(MayUnregister') /\ Cardinality(MayUnregister') \in Nat
           /\ Cardinality(MayUnregister') <= Cardinality(MayUnregister)
<1>1. IsFiniteSet(Job \X Worker) /\ Cardinality(Job \X Worker) \in Nat
  BY JobsAssumption, FS_Product, FS_CardinalityType
<1>2. MayUnregister \subseteq Job \X Worker
  BY DEF MayUnregister
<1>3. IsFiniteSet(MayUnregister)
  BY <1>1, <1>2, FS_Subset
<1>4. IsFiniteSet(MayUnregister') /\ Cardinality(MayUnregister') <= Cardinality(MayUnregister)
  BY <1>3, FS_Subset
<1>5. QED
  BY <1>1, <1>3, <1>4, FS_CardinalityType

\* The bounds on the number of jobs, when a step leaves it alone.
LEMMA BoundsKept ==
    ASSUME JobsInv, UNCHANGED <<nJobs, submitted>>, MayUnregister' \subseteq MayUnregister
    PROVE  JobBounds'
<1>1. /\ Cardinality(MayUnregister) \in Nat /\ Cardinality(MayUnregister') \in Nat
      /\ Cardinality(Job \X Worker) \in Nat
      /\ Cardinality(MayUnregister') <= Cardinality(MayUnregister)
  BY MayUnregisterShrinks
<1>2. /\ nJobs \in Int /\ nJobs' = nJobs /\ submitted' = submitted
      /\ nJobs + Cardinality(Job \X Worker) >= Cardinality(MayUnregister)
      /\ nJobs <= Cardinality(submitted)
  BY DEF JobsInv, JobTypes, JobBounds
<1>3. nJobs' + Cardinality(Job \X Worker) >= Cardinality(MayUnregister')
  BY <1>1, <1>2
<1>4. QED
  BY <1>2, <1>3 DEF JobBounds

\* The constructors' state.
LEMMA JobsInit == JM!Init => JobsInv
<1> SUFFICES ASSUME JM!Init
             PROVE  JobsInv
  OBVIOUS
<1>1. /\ nJobs = 0 /\ submitted = {} /\ poolIdle = TRUE
      /\ n_tasks = [j \in Job |-> 0] /\ queued = [j \in Job |-> 0]
      /\ children = [j \in Job |-> 0] /\ running = [j \in Job |-> FALSE]
      /\ worker = [w \in Worker |-> JM!Resting]
  BY DEF JM!Init
<1>2. JobTypes
  BY <1>1, JobsAssumption, DoingIs DEF JobTypes
<1>3. \A w \in Worker, j \in Job, p \in Places : worker[w] # JM!At(p, j)
  BY <1>1, DoingIs
<1>4. \A j \in Job : Busy(j) = {} /\ Adding(j) = {}
  BY <1>3 DEF Busy, Adding, Places
<1>5. \A j \in Job : CountOK(j)
  BY <1>1, <1>4, FS_EmptySet, JobsAssumption DEF CountOK
<1>6. \A w \in Worker, j \in Job : EndOK(w, j)
  BY <1>3 DEF EndOK, Places
<1>7. JobBounds
  <2>1. IsFiniteSet(Job \X Worker) /\ Cardinality(Job \X Worker) \in Nat
    BY JobsAssumption, FS_Product, FS_CardinalityType
  <2>2. MayUnregister \subseteq Job \X Worker
    BY DEF MayUnregister
  <2>3. Cardinality(MayUnregister) <= Cardinality(Job \X Worker) /\ Cardinality(MayUnregister) \in Nat
    BY <2>1, <2>2, FS_Subset, FS_CardinalityType
  <2>4. Cardinality(submitted) = 0
    BY <1>1, FS_EmptySet
  <2>5. QED
    BY <1>1, <2>1, <2>3, <2>4 DEF JobBounds
<1>8. QED
  BY <1>2, <1>5, <1>6, <1>7 DEF JobsInv

\* A step of worker w for job j: what is left to show of the invariant.
LEMMA WorkerActs ==
    ASSUME JobsInv, NEW w \in Worker, NEW j \in Job, NEW to \in Doing,
           worker' = [worker EXCEPT ![w] = to],
           ForJob(worker[w], j), ForJob(to, j), JobTypes', JobBounds', CountOK(j)', submitted' = submitted,
           \A k \in Job \ {j} : /\ n_tasks'[k] = n_tasks[k] /\ queued'[k] = queued[k]
                                /\ children'[k] = children[k] /\ running'[k] = running[k],
           n_tasks[j] = 0 => n_tasks'[j] = 0,
           to = JM!At("test", j) => j \in submitted,
           to = JM!At("unregister", j) => j \in submitted /\ n_tasks'[j] = 0
    PROVE  JobsInv'
<1>1. worker \in [Worker -> Doing]
  BY DEF JobsInv, JobTypes
<1>2. ASSUME NEW k \in Job \ {j} PROVE CountOK(k)'
  <2>1. Busy(k)' = Busy(k) /\ Adding(k)' = Adding(k)
    <3>1. k \in Job /\ k # j /\ "task" \in Places /\ "child" \in Places
      BY DEF Places
    <3>2. to \notin {JM!At("task", k), JM!At("child", k)}
      BY <3>1, ForOneJob
    <3>3. worker[w] \notin {JM!At("task", k), JM!At("child", k)}
      BY <3>1, ForOneJob
    <3>4. QED
      BY <1>1, <3>1, <3>2, <3>3, OtherJob
  <2>2. CountOK(k)
    BY DEF JobsInv
  <2>3. /\ Cardinality(Busy(k)') = Cardinality(Busy(k))
        /\ Cardinality(Adding(k)') = Cardinality(Adding(k))
    BY <2>1
  <2>4. /\ n_tasks'[k] = n_tasks[k] /\ queued'[k] = queued[k]
        /\ children'[k] = children[k] /\ running'[k] = running[k]
    OBVIOUS
  <2>5. QED
    BY <2>2, <2>3, <2>4 DEF CountOK
<1>3. ASSUME NEW v \in Worker, NEW k \in Job PROVE EndOK(v, k)'
  <2>1. EndOK(v, k)
    BY DEF JobsInv
  <2>2. n_tasks[k] = 0 => n_tasks'[k] = 0
    OBVIOUS
  <2>3. CASE v # w
    <3>1. worker'[v] = worker[v]
      BY <1>1, <2>3
    <3>2. QED
      BY <2>1, <2>2, <3>1 DEF EndOK, JM!At
  <2>4. CASE v = w
    <3>1. worker'[v] = to
      BY <1>1, <2>4
    <3>2. CASE k = j
      BY <3>1, <3>2 DEF EndOK, JM!At
    <3>3. CASE k # j
      <4>1. "test" \in Places /\ "unregister" \in Places
        BY DEF Places
      <4>2. to # JM!At("test", k) /\ to # JM!At("unregister", k)
        BY <3>3, <4>1, ForOneJob
      <4>3. QED
        BY <3>1, <4>2 DEF EndOK, JM!At
    <3>4. QED
      BY <3>2, <3>3
  <2>5. QED
    BY <2>3, <2>4
<1>4. QED
  BY <1>2, <1>3 DEF JobsInv

\* It lets nobody unregister a job who might not have done so before.
LEMMA WorkerKeepsBounds ==
    ASSUME JobsInv, NEW w \in Worker, NEW j \in Job, NEW to \in Doing,
           worker' = [worker EXCEPT ![w] = to],
           ForJob(to, j), submitted' = submitted,
           \A k \in Job \ {j} : n_tasks'[k] = n_tasks[k],
           n_tasks'[j] > 0 => n_tasks[j] > 0,
           to \in {JM!At("test", j), JM!At("unregister", j)} =>
              n_tasks[j] > 0 \/ worker[w] \in {JM!At("test", j), JM!At("unregister", j)}
    PROVE  MayUnregister' \subseteq MayUnregister
<1>1. worker \in [Worker -> Doing]
  BY DEF JobsInv, JobTypes
<1>2. SUFFICES ASSUME NEW k \in Job, NEW v \in Worker, <<k, v>> \in MayUnregister'
               PROVE  <<k, v>> \in MayUnregister
  BY DEF MayUnregister
<1>3. \/ k \notin submitted
      \/ n_tasks'[k] > 0
      \/ worker'[v] \in {JM!At("test", k), JM!At("unregister", k)}
  BY <1>2 DEF MayUnregister, JM!At
<1>4. CASE k \notin submitted
  BY <1>4 DEF MayUnregister
<1>5. CASE n_tasks'[k] > 0
  <2>1. n_tasks[k] > 0
    BY <1>5
  <2>2. QED
    BY <2>1 DEF MayUnregister
<1>6. CASE worker'[v] \in {JM!At("test", k), JM!At("unregister", k)}
  <2>1. CASE v # w
    <3>1. worker[v] \in {JM!At("test", k), JM!At("unregister", k)}
      BY <1>1, <1>6, <2>1
    <3>2. QED
      BY <3>1 DEF MayUnregister
  <2>2. CASE v = w
    <3>1. to \in {JM!At("test", k), JM!At("unregister", k)}
      BY <1>1, <1>6, <2>2
    <3>2. "test" \in Places /\ "unregister" \in Places
      BY DEF Places
    <3>3. k = j
      BY <3>1, <3>2, ForOneJob
    <3>4. n_tasks[j] > 0 \/ worker[w] \in {JM!At("test", j), JM!At("unregister", j)}
      BY <3>1, <3>3
    <3>5. QED
      BY <2>2, <3>3, <3>4 DEF MayUnregister
  <2>3. QED
    BY <2>1, <2>2
<1>7. QED
  BY <1>3, <1>4, <1>5, <1>6

\* SubmitJob: the job's tasks are counted and queued.
LEMMA SubmitKeeps ==
    ASSUME JobsInv, NEW j \in Job, JM!SubmitJob(j)
    PROVE  JobsInv'
<1>1. /\ j \notin submitted /\ submitted' = submitted \cup {j}
      /\ n_tasks' = [n_tasks EXCEPT ![j] = Tasks] /\ queued' = [queued EXCEPT ![j] = Tasks]
      /\ running' = [running EXCEPT ![j] = TRUE]
      /\ nJobs' = nJobs + 1 /\ poolIdle' = (poolIdle /\ nJobs # 0)
      /\ children' = children /\ worker' = worker
  BY DEF JM!SubmitJob, JM!RegisterJob
<1>2. /\ nJobs \in Int /\ poolIdle \in BOOLEAN /\ submitted \subseteq Job
      /\ n_tasks \in [Job -> Nat] /\ queued \in [Job -> Nat]
      /\ children \in [Job -> 0 .. Children] /\ running \in [Job -> BOOLEAN]
      /\ worker \in [Worker -> Doing] /\ Tasks \in Nat
  BY JobsAssumption DEF JobsInv, JobTypes
<1>3. JobTypes'
  <2>1. poolIdle' \in BOOLEAN
    BY <1>1
  <2>2. running' \in [Job -> BOOLEAN]
    BY <1>1, <1>2
  <2>3. QED
    BY <1>1, <1>2, <2>1, <2>2 DEF JobTypes
<1>4. \A k \in Job : Busy(k)' = Busy(k) /\ Adding(k)' = Adding(k)
  BY <1>1 DEF Busy, Adding, JM!At
<1>5. CountOK(j)'
  <2>1. n_tasks[j] = 0 /\ n_tasks[j] = queued[j] + Cardinality(Busy(j)) + Cardinality(Adding(j))
    BY <1>1 DEF JobsInv, CountOK
  <2>2. Cardinality(Busy(j)) \in Nat /\ Cardinality(Adding(j)) \in Nat /\ queued[j] \in Nat
    <3>1. Busy(j) \subseteq Worker /\ Adding(j) \subseteq Worker
      BY DEF Busy, Adding
    <3>2. QED
      BY <1>2, <3>1, SomeWorkers
  <2>3. Cardinality(Busy(j)') = 0 /\ Cardinality(Adding(j)') = 0
    BY <1>4, <2>1, <2>2
  <2>4. n_tasks'[j] = Tasks /\ queued'[j] = Tasks /\ children'[j] \in Nat /\ running'[j] = TRUE
    <3>1. children[j] \in Nat
      BY <1>2, JobsAssumption
    <3>2. QED
      BY <1>1, <1>2, <3>1
  <2>5. QED
    BY <1>1, <1>2, <2>3, <2>4 DEF CountOK
<1>6. ASSUME NEW k \in Job \ {j} PROVE CountOK(k)'
  <2>1. CountOK(k)
    BY DEF JobsInv
  <2>2. QED
    BY <1>1, <1>2, <1>4, <2>1 DEF CountOK
<1>7. ASSUME NEW v \in Worker, NEW k \in Job PROVE EndOK(v, k)'
  <2>1. EndOK(v, k)
    BY DEF JobsInv
  <2>2. QED
    BY <1>1, <1>2, <2>1 DEF EndOK, JM!At
<1>8. JobBounds'
  <2>1. MayUnregister' \subseteq MayUnregister
    <3>1. SUFFICES ASSUME NEW k \in Job, NEW v \in Worker, <<k, v>> \in MayUnregister'
                   PROVE  <<k, v>> \in MayUnregister
      BY DEF MayUnregister
    <3>2. \/ k \notin submitted'
          \/ n_tasks'[k] > 0
          \/ worker[v] \in {JM!At("test", k), JM!At("unregister", k)}
      BY <1>1, <3>1 DEF MayUnregister, JM!At
    <3>3. CASE k = j
      BY <1>1, <3>3 DEF MayUnregister
    <3>4. CASE k # j
      <4>1. k \notin submitted \/ n_tasks[k] > 0
            \/ worker[v] \in {JM!At("test", k), JM!At("unregister", k)}
        BY <1>1, <1>2, <3>2, <3>4
      <4>2. QED
        BY <4>1 DEF MayUnregister
    <3>5. QED
      BY <3>3, <3>4
  <2>2. /\ Cardinality(MayUnregister) \in Nat /\ Cardinality(MayUnregister') \in Nat
        /\ Cardinality(Job \X Worker) \in Nat
        /\ Cardinality(MayUnregister') <= Cardinality(MayUnregister)
    BY <2>1, MayUnregisterShrinks
  <2>3. Cardinality(submitted') = Cardinality(submitted) + 1 /\ Cardinality(submitted) \in Nat
    <3>1. IsFiniteSet(submitted)
      BY <1>2, JobsAssumption, FS_Subset
    <3>2. QED
      BY <1>1, <3>1, FS_AddElement, FS_CardinalityType
  <2>4. /\ nJobs <= Cardinality(submitted)
        /\ nJobs + Cardinality(Job \X Worker) >= Cardinality(MayUnregister)
    BY DEF JobsInv, JobBounds
  <2>5. /\ nJobs' <= Cardinality(submitted')
        /\ nJobs' + Cardinality(Job \X Worker) >= Cardinality(MayUnregister')
    BY <1>1, <1>2, <2>2, <2>3, <2>4
  <2>6. QED
    BY <2>5 DEF JobBounds
<1>9. QED
  BY <1>3, <1>5, <1>6, <1>7, <1>8 DEF JobsInv

\* What the invariant says of one job, in numbers.
Counted(j) ==
  /\ n_tasks[j] \in Nat /\ queued[j] \in Nat /\ children[j] \in 0 .. Children
  /\ Cardinality(Busy(j)) \in Nat /\ Cardinality(Adding(j)) \in Nat
  /\ n_tasks[j] = queued[j] + Cardinality(Busy(j)) + Cardinality(Adding(j))
  /\ n_tasks[j] <= Tasks + children[j]
  /\ j \notin submitted => n_tasks[j] = 0
  /\ running[j] = FALSE => n_tasks[j] = 0
  /\ Tasks \in Nat /\ Children \in Nat
  /\ Busy(j) \subseteq Worker /\ Adding(j) \subseteq Worker

LEMMA CountFacts ==
    ASSUME JobsInv, NEW j \in Job
    PROVE  Counted(j)
<1>1. Busy(j) \subseteq Worker /\ Adding(j) \subseteq Worker
  BY DEF Busy, Adding
<1>2. QED
  BY <1>1, SomeWorkers, JobsAssumption DEF JobsInv, JobTypes, CountOK, Counted

\* A worker takes a queued task.
LEMMA TakeKeeps ==
    ASSUME JobsInv, NEW w \in Worker, NEW j \in Job, JM!TakeTask(w, j)
    PROVE  JobsInv'
<1>1. /\ worker[w] = JM!Resting /\ queued[j] > 0
      /\ queued' = [queued EXCEPT ![j] = queued[j] - 1]
      /\ worker' = [worker EXCEPT ![w] = JM!At("task", j)]
      /\ UNCHANGED <<nJobs, poolIdle, submitted, n_tasks, running, children>>
  BY DEF JM!TakeTask, JM!counter
<1>f. Counted(j)
  BY CountFacts
<1>2. "task" \in Places /\ "child" \in Places /\ "test" \in Places /\ "unregister" \in Places
  BY DEF Places
<1>o. ForJob(worker[w], j) /\ ForJob(JM!At("task", j), j)
  BY <1>1, <1>2, ForOneJob
<1>3. /\ JM!At("task", j) \in Doing /\ JM!At("task", j) # JM!At("test", j)
      /\ JM!At("task", j) # JM!At("unregister", j) /\ JM!At("task", j) # JM!At("child", j)
      /\ worker[w] # JM!At("task", j) /\ worker[w] # JM!At("child", j)
  BY <1>1, <1>2, DoingIs
<1>4. JobTypes'
  <2>1. queued' \in [Job -> Nat] /\ worker' \in [Worker -> Doing]
    BY <1>1, <1>3 DEF JobsInv, JobTypes
  <2>2. QED
    BY <1>1, <2>1 DEF JobsInv, JobTypes
<1>5. CountOK(j)'
  <2>1. Cardinality(Busy(j)') = Cardinality(Busy(j)) + 1
    <3>1. Busy(j)' = Busy(j) \cup {w} /\ w \notin Busy(j)
      BY <1>1, <1>3, Reassigned DEF JobsInv, JobTypes, Busy
    <3>2. QED
      BY <3>1, <1>f, OneMore DEF Counted
  <2>2. Adding(j)' = Adding(j)
    <3>1. Adding(j)' = Adding(j) \ {w} /\ w \notin Adding(j)
      BY <1>1, <1>3, Reassigned DEF JobsInv, JobTypes, Adding
    <3>2. QED
      BY <3>1
  <2>3. queued'[j] = queued[j] - 1
    BY <1>1 DEF JobsInv, JobTypes
  <2>4. QED
    BY <1>1, <2>1, <2>2, <2>3, <1>f DEF CountOK, Counted
<1>6. MayUnregister' \subseteq MayUnregister
  BY <1>1, <1>3, <1>o, WorkerKeepsBounds
<1>7. JobBounds'
  BY <1>1, <1>6, BoundsKept
<1>8. \A k \in Job \ {j} : queued'[k] = queued[k]
  BY <1>1 DEF JobsInv, JobTypes
<1>9. QED
  BY <1>1, <1>3, <1>o, <1>4, <1>5, <1>7, <1>8, WorkerActs

\* A task submits a child, which is counted before it is queued.
LEMMA IncreaseKeeps ==
    ASSUME JobsInv, NEW w \in Worker, NEW j \in Job, JM!IncreaseActive(w, j)
    PROVE  JobsInv'
<1>1. /\ worker[w] = JM!At("task", j) /\ children[j] < Children
      /\ children' = [children EXCEPT ![j] = children[j] + 1]
      /\ n_tasks' = [n_tasks EXCEPT ![j] = n_tasks[j] + 1]
      /\ worker' = [worker EXCEPT ![w] = JM!At("child", j)]
      /\ UNCHANGED <<nJobs, poolIdle, submitted, running, queued>>
  BY DEF JM!IncreaseActive, JM!counter, JM!Goes, JM!At, JM!CountChild
<1>f. Counted(j)
  BY CountFacts
<1>2. "task" \in Places /\ "child" \in Places /\ "test" \in Places /\ "unregister" \in Places
  BY DEF Places
<1>o. ForJob(worker[w], j) /\ ForJob(JM!At("child", j), j)
  BY <1>1, <1>2, ForOneJob
<1>3. /\ JM!At("child", j) \in Doing /\ JM!At("child", j) # JM!At("test", j)
      /\ JM!At("child", j) # JM!At("unregister", j) /\ JM!At("child", j) # JM!At("task", j)
  BY <1>2, DoingIs
<1>c. n_tasks[j] >= 1 /\ w \in Busy(j) /\ w \notin Adding(j)
  BY <1>1, BusyCounts
<1>v. /\ n_tasks'[j] = n_tasks[j] + 1 /\ children'[j] = children[j] + 1
      /\ children[j] + 1 \in 0 .. Children
      /\ \A k \in Job \ {j} : n_tasks'[k] = n_tasks[k] /\ children'[k] = children[k]
  BY <1>1, <1>f DEF JobsInv, JobTypes, Counted
<1>4. JobTypes'
  <2>1. /\ n_tasks' \in [Job -> Nat] /\ worker' \in [Worker -> Doing]
        /\ children' \in [Job -> 0 .. Children]
    BY <1>1, <1>3, <1>v DEF JobsInv, JobTypes
  <2>2. QED
    BY <1>1, <2>1 DEF JobsInv, JobTypes
<1>5. CountOK(j)'
  <2>1. Cardinality(Adding(j)') = Cardinality(Adding(j)) + 1
    <3>1. Adding(j)' = Adding(j) \cup {w}
      BY <1>1, <1>3, Reassigned DEF JobsInv, JobTypes
    <3>2. QED
      BY <1>c, <3>1, <1>f, OneMore DEF Counted
  <2>2. Busy(j)' = Busy(j)
    <3>1. Busy(j)' = Busy(j) \cup {w}
      BY <1>1, <1>3, Reassigned DEF JobsInv, JobTypes
    <3>2. QED
      BY <1>c, <3>1
  <2>3. n_tasks[j] # 0 /\ (j \notin submitted => n_tasks[j] = 0)
        /\ (running[j] = FALSE => n_tasks[j] = 0)
    BY <1>c, <1>f DEF Counted
  <2>4. j \in submitted' /\ running'[j] # FALSE
    BY <1>1, <2>3
  <2>5. /\ n_tasks'[j] = queued'[j] + Cardinality(Busy(j)') + Cardinality(Adding(j)')
        /\ n_tasks'[j] <= Tasks + children'[j]
    BY <1>1, <1>v, <2>1, <2>2, <1>f DEF Counted
  <2>6. QED
    BY <2>4, <2>5 DEF CountOK
<1>6. MayUnregister' \subseteq MayUnregister
  <2>1. n_tasks[j] > 0
    BY <1>c, <1>f DEF Counted
  <2>2. QED
    BY <1>1, <1>3, <1>o, <1>v, <2>1, WorkerKeepsBounds
<1>7. JobBounds'
  BY <1>1, <1>6, BoundsKept
<1>8. n_tasks[j] # 0
  BY <1>c, <1>f DEF Counted
<1>9. QED
  BY <1>1, <1>3, <1>o, <1>4, <1>5, <1>7, <1>8, <1>v, WorkerActs

\* The child is queued.
LEMMA QueueChildKeeps ==
    ASSUME JobsInv, NEW w \in Worker, NEW j \in Job, JM!QueueChild(w, j)
    PROVE  JobsInv'
<1>1. /\ worker[w] = JM!At("child", j)
      /\ queued' = [queued EXCEPT ![j] = queued[j] + 1]
      /\ worker' = [worker EXCEPT ![w] = JM!At("task", j)]
      /\ UNCHANGED <<nJobs, poolIdle, submitted, n_tasks, running, children>>
  BY DEF JM!QueueChild, JM!counter, JM!Goes, JM!At
<1>f. Counted(j)
  BY CountFacts
<1>2. "task" \in Places /\ "child" \in Places /\ "test" \in Places /\ "unregister" \in Places
  BY DEF Places
<1>o. ForJob(worker[w], j) /\ ForJob(JM!At("task", j), j)
  BY <1>1, <1>2, ForOneJob
<1>3. /\ JM!At("task", j) \in Doing /\ JM!At("task", j) # JM!At("test", j)
      /\ JM!At("task", j) # JM!At("unregister", j) /\ JM!At("task", j) # JM!At("child", j)
  BY <1>2, DoingIs
<1>c. w \in Busy(j) /\ w \in Adding(j)
  BY <1>1, BusyCounts
<1>v. queued'[j] = queued[j] + 1 /\ \A k \in Job \ {j} : queued'[k] = queued[k]
  BY <1>1, <1>f DEF JobsInv, JobTypes, Counted
<1>4. JobTypes'
  <2>1. queued' \in [Job -> Nat] /\ worker' \in [Worker -> Doing]
    BY <1>1, <1>3 DEF JobsInv, JobTypes
  <2>2. QED
    BY <1>1, <2>1 DEF JobsInv, JobTypes
<1>5. CountOK(j)'
  <2>1. Cardinality(Adding(j)') = Cardinality(Adding(j)) - 1
    <3>1. Adding(j)' = Adding(j) \ {w}
      BY <1>1, <1>3, Reassigned DEF JobsInv, JobTypes
    <3>2. QED
      BY <1>c, <3>1, <1>f, OneLess DEF Counted
  <2>2. Busy(j)' = Busy(j)
    <3>1. Busy(j)' = Busy(j) \cup {w}
      BY <1>1, <1>3, Reassigned DEF JobsInv, JobTypes
    <3>2. QED
      BY <1>c, <3>1
  <2>3. QED
    BY <1>1, <1>v, <2>1, <2>2, <1>f DEF CountOK, Counted
<1>6. MayUnregister' \subseteq MayUnregister
  BY <1>1, <1>3, <1>o, WorkerKeepsBounds
<1>7. JobBounds'
  BY <1>1, <1>6, BoundsKept
<1>8. QED
  BY <1>1, <1>3, <1>o, <1>4, <1>5, <1>7, <1>v, WorkerActs

\* A finished task is no longer counted.
LEMMA DecreaseKeeps ==
    ASSUME JobsInv, NEW w \in Worker, NEW j \in Job, JM!DecreaseActive(w, j)
    PROVE  JobsInv'
<1>1. /\ worker[w] = JM!At("task", j)
      /\ n_tasks' = [n_tasks EXCEPT ![j] = n_tasks[j] - 1]
      /\ worker' = [worker EXCEPT ![w] = JM!At("test", j)]
      /\ UNCHANGED <<nJobs, poolIdle, submitted, running, queued, children>>
  BY DEF JM!DecreaseActive, JM!counter, JM!Goes, JM!At
<1>f. Counted(j)
  BY CountFacts
<1>2. "task" \in Places /\ "child" \in Places /\ "test" \in Places /\ "unregister" \in Places
  BY DEF Places
<1>o. ForJob(worker[w], j) /\ ForJob(JM!At("test", j), j)
  BY <1>1, <1>2, ForOneJob
<1>3. /\ JM!At("test", j) \in Doing /\ JM!At("test", j) # JM!At("task", j)
      /\ JM!At("test", j) # JM!At("unregister", j) /\ JM!At("test", j) # JM!At("child", j)
  BY <1>2, DoingIs
<1>c. n_tasks[j] >= 1 /\ w \in Busy(j) /\ w \notin Adding(j)
  BY <1>1, BusyCounts
<1>v. /\ n_tasks'[j] = n_tasks[j] - 1 /\ n_tasks[j] - 1 \in Nat
      /\ \A k \in Job \ {j} : n_tasks'[k] = n_tasks[k]
  BY <1>1, <1>c, <1>f DEF JobsInv, JobTypes, Counted
<1>s. j \in submitted /\ n_tasks[j] > 0 /\ n_tasks[j] # 0
  BY <1>c, <1>f DEF Counted
<1>4. JobTypes'
  <2>1. n_tasks' \in [Job -> Nat] /\ worker' \in [Worker -> Doing]
    BY <1>1, <1>3, <1>v DEF JobsInv, JobTypes
  <2>2. QED
    BY <1>1, <2>1 DEF JobsInv, JobTypes
<1>5. CountOK(j)'
  <2>1. Cardinality(Busy(j)') = Cardinality(Busy(j)) - 1
    <3>1. Busy(j)' = Busy(j) \ {w}
      BY <1>1, <1>3, Reassigned DEF JobsInv, JobTypes
    <3>2. QED
      BY <1>c, <3>1, <1>f, OneLess DEF Counted
  <2>2. Adding(j)' = Adding(j)
    <3>1. Adding(j)' = Adding(j) \ {w}
      BY <1>1, <1>3, Reassigned DEF JobsInv, JobTypes
    <3>2. QED
      BY <1>c, <3>1
  <2>3. running[j] = FALSE => n_tasks[j] = 0
    BY <1>f DEF Counted
  <2>4. j \in submitted' /\ running'[j] # FALSE
    BY <1>1, <1>s, <2>3
  <2>5. /\ n_tasks'[j] = queued'[j] + Cardinality(Busy(j)') + Cardinality(Adding(j)')
        /\ n_tasks'[j] <= Tasks + children'[j]
    BY <1>1, <1>v, <2>1, <2>2, <1>f DEF Counted
  <2>6. QED
    BY <2>4, <2>5 DEF CountOK
<1>6. MayUnregister' \subseteq MayUnregister
  BY <1>1, <1>3, <1>o, <1>v, <1>s, WorkerKeepsBounds
<1>7. JobBounds'
  BY <1>1, <1>6, BoundsKept
<1>8. QED
  BY <1>1, <1>3, <1>o, <1>4, <1>5, <1>7, <1>v, <1>s, WorkerActs

\* What no task of j is told of: a worker that is done with its own does
\* something else.
LEMMA IdleMove ==
    ASSUME JobsInv, NEW w \in Worker, NEW j \in Job, NEW to \in Doing,
           worker' = [worker EXCEPT ![w] = to],
           to \notin {JM!At("task", j), JM!At("child", j)},
           worker[w] \notin {JM!At("task", j), JM!At("child", j)},
           UNCHANGED <<submitted, n_tasks, queued, children>>,
           n_tasks[j] = 0 \/ UNCHANGED running
    PROVE  CountOK(j)'
<1>1. Busy(j)' = Busy(j) /\ Adding(j)' = Adding(j)
  BY OtherJob DEF JobsInv, JobTypes
<1>2. CountOK(j)
  BY DEF JobsInv
<1>3. CASE UNCHANGED running
  BY <1>1, <1>2, <1>3 DEF CountOK
<1>4. CASE n_tasks[j] = 0
  BY <1>1, <1>2, <1>4 DEF CountOK
<1>5. QED
  BY <1>3, <1>4

\* The count is looked at; at zero the job has ended.
LEMMA TestTasksKeeps ==
    ASSUME JobsInv, NEW w \in Worker, NEW j \in Job, JM!TestTasks(w, j)
    PROVE  JobsInv'
<1>1. /\ worker[w] = JM!At("test", j)
      /\ UNCHANGED <<nJobs, poolIdle, submitted, n_tasks, queued, children>>
  BY DEF JM!TestTasks, JM!counter, JM!Goes, JM!At
<1>2. "task" \in Places /\ "child" \in Places /\ "test" \in Places /\ "unregister" \in Places
  BY DEF Places
<1>3. /\ worker[w] # JM!At("task", j) /\ worker[w] # JM!At("child", j)
      /\ JM!At("unregister", j) \in Doing /\ JM!Resting \in Doing
      /\ JM!At("unregister", j) \notin {JM!At("task", j), JM!At("child", j), JM!At("test", j)}
      /\ JM!Resting \notin {JM!At("task", j), JM!At("child", j), JM!At("test", j),
                            JM!At("unregister", j)}
  BY <1>1, <1>2, DoingIs
<1>o. ForJob(worker[w], j) /\ ForJob(JM!At("unregister", j), j) /\ ForJob(JM!Resting, j)
  BY <1>1, <1>2, ForOneJob
<1>s. j \in submitted
  BY <1>1 DEF JobsInv, EndOK
<1>4. CASE n_tasks[j] = 0
  <2>1. /\ worker' = [worker EXCEPT ![w] = JM!At("unregister", j)]
        /\ running' = [running EXCEPT ![j] = FALSE]
    BY <1>4 DEF JM!TestTasks, JM!NoTasks, JM!Goes
  <2>2. JobTypes'
    <3>1. running' \in [Job -> BOOLEAN] /\ worker' \in [Worker -> Doing]
      BY <1>3, <2>1 DEF JobsInv, JobTypes
    <3>2. QED
      BY <1>1, <3>1 DEF JobsInv, JobTypes
  <2>3. CountOK(j)'
    BY <1>1, <1>3, <1>4, <2>1, IdleMove
  <2>4. MayUnregister' \subseteq MayUnregister
    BY <1>1, <1>3, <1>o, <2>1, WorkerKeepsBounds
  <2>5. JobBounds'
    BY <1>1, <2>4, BoundsKept
  <2>6. \A k \in Job \ {j} : running'[k] = running[k]
    BY <2>1 DEF JobsInv, JobTypes
  <2>7. QED
    BY <1>1, <1>3, <1>4, <1>o, <1>s, <2>1, <2>2, <2>3, <2>5, <2>6, WorkerActs
<1>5. CASE n_tasks[j] # 0
  <2>1. worker' = [worker EXCEPT ![w] = JM!Resting] /\ running' = running
    BY <1>5 DEF JM!TestTasks, JM!NoTasks, JM!Goes
  <2>2. JobTypes'
    <3>1. worker' \in [Worker -> Doing]
      BY <1>3, <2>1 DEF JobsInv, JobTypes
    <3>2. QED
      BY <1>1, <2>1, <3>1 DEF JobsInv, JobTypes
  <2>3. CountOK(j)'
    BY <1>1, <1>3, <2>1, IdleMove
  <2>4. MayUnregister' \subseteq MayUnregister
    BY <1>1, <1>3, <1>o, <2>1, WorkerKeepsBounds
  <2>5. JobBounds'
    BY <1>1, <2>4, BoundsKept
  <2>6. QED
    BY <1>1, <1>3, <1>o, <2>1, <2>2, <2>3, <2>5, WorkerActs
<1>6. QED
  BY <1>4, <1>5

\* UnregisterJob: the worker cannot do so again for this job.
LEMMA UnregisterKeeps ==
    ASSUME JobsInv, NEW w \in Worker, NEW j \in Job, JM!UnregisterJob(w, j)
    PROVE  JobsInv'
<1>1. /\ worker[w] = JM!At("unregister", j) /\ nJobs' = nJobs - 1
      /\ worker' = [worker EXCEPT ![w] = JM!At("jobs", j)]
      /\ UNCHANGED <<poolIdle, submitted, n_tasks, running, queued, children>>
  BY DEF JM!UnregisterJob, JM!manager, JM!Goes, JM!At
<1>2. /\ "task" \in Places /\ "child" \in Places /\ "test" \in Places
      /\ "unregister" \in Places /\ "jobs" \in Places
  BY DEF Places
<1>3. /\ worker[w] \notin {JM!At("task", j), JM!At("child", j)}
      /\ JM!At("jobs", j) \in Doing
      /\ JM!At("jobs", j) \notin {JM!At("task", j), JM!At("child", j), JM!At("test", j),
                                  JM!At("unregister", j)}
  BY <1>1, <1>2, DoingIs
<1>o. ForJob(worker[w], j) /\ ForJob(JM!At("jobs", j), j)
  BY <1>1, <1>2, ForOneJob
<1>s. j \in submitted /\ n_tasks[j] = 0
  BY <1>1 DEF JobsInv, EndOK
<1>4. JobTypes'
  <2>1. nJobs' \in Int /\ worker' \in [Worker -> Doing]
    BY <1>1, <1>3 DEF JobsInv, JobTypes
  <2>2. QED
    BY <1>1, <2>1 DEF JobsInv, JobTypes
<1>5. CountOK(j)'
  BY <1>1, <1>3, IdleMove
<1>6. MayUnregister' \subseteq MayUnregister
  BY <1>1, <1>3, <1>o, WorkerKeepsBounds
<1>7. <<j, w>> \in MayUnregister
  BY <1>1 DEF MayUnregister
<1>8. <<j, w>> \notin MayUnregister'
  <2>1. worker'[w] = JM!At("jobs", j)
    BY <1>1 DEF JobsInv, JobTypes
  <2>2. worker'[w] \notin {JM!At("test", j), JM!At("unregister", j)}
    BY <1>3, <2>1
  <2>3. QED
    BY <1>1, <1>s, <2>2 DEF MayUnregister, JM!At
<1>9. JobBounds'
  <2>1. /\ IsFiniteSet(MayUnregister) /\ Cardinality(MayUnregister) \in Nat
        /\ IsFiniteSet(MayUnregister') /\ Cardinality(MayUnregister') \in Nat
        /\ Cardinality(Job \X Worker) \in Nat
    BY <1>6, MayUnregisterShrinks
  <2>2. Cardinality(MayUnregister') <= Cardinality(MayUnregister) - 1
    <3>1. MayUnregister' \subseteq MayUnregister \ {<<j, w>>}
      BY <1>6, <1>8
    <3>2. IsFiniteSet(MayUnregister \ {<<j, w>>})
          /\ Cardinality(MayUnregister \ {<<j, w>>}) = Cardinality(MayUnregister) - 1
      BY <1>7, <2>1, FS_RemoveElement
    <3>3. Cardinality(MayUnregister') <= Cardinality(MayUnregister \ {<<j, w>>})
      BY <3>1, <3>2, FS_Subset
    <3>4. QED
      BY <3>2, <3>3
  <2>3. /\ nJobs \in Int /\ nJobs <= Cardinality(submitted)
        /\ nJobs + Cardinality(Job \X Worker) >= Cardinality(MayUnregister)
        /\ Cardinality(submitted) \in Nat
    <3>1. IsFiniteSet(submitted)
      BY JobsAssumption, FS_Subset DEF JobsInv, JobTypes
    <3>2. QED
      BY <3>1, FS_CardinalityType DEF JobsInv, JobTypes, JobBounds
  <2>4. /\ nJobs' <= Cardinality(submitted)
        /\ nJobs' + Cardinality(Job \X Worker) >= Cardinality(MayUnregister')
    BY <1>1, <2>1, <2>2, <2>3
  <2>5. QED
    BY <1>1, <2>4 DEF JobBounds
<1>10. QED
  BY <1>1, <1>3, <1>o, <1>4, <1>5, <1>9, WorkerActs

\* The count of jobs is looked at, and the flag is raised: neither changes
\* what is said of the jobs.
LEMMA FlagKeeps ==
    ASSUME JobsInv, NEW w \in Worker, NEW j \in Job, JM!TestJobs(w, j) \/ JM!Notify(w, j)
    PROVE  JobsInv'
<1>1. /\ worker[w] \in {JM!At("jobs", j), JM!At("notify", j)}
      /\ \/ worker' = [worker EXCEPT ![w] = JM!Resting]
         \/ worker' = [worker EXCEPT ![w] = JM!At("notify", j)]
      /\ poolIdle' \in {poolIdle, TRUE}
      /\ UNCHANGED <<nJobs, submitted, n_tasks, running, queued, children>>
  <2>1. CASE JM!TestJobs(w, j)
    BY <2>1 DEF JM!TestJobs, JM!counter, JM!manager, JM!Goes, JM!At
  <2>2. CASE JM!Notify(w, j)
    BY <2>2 DEF JM!Notify, JM!manager, JM!Goes, JM!At
  <2>3. QED
    BY <2>1, <2>2
<1>2. /\ "task" \in Places /\ "child" \in Places /\ "test" \in Places
      /\ "unregister" \in Places /\ "jobs" \in Places /\ "notify" \in Places
  BY DEF Places
<1>3. PICK to \in Doing : /\ to \in {JM!Resting, JM!At("notify", j)}
                          /\ worker' = [worker EXCEPT ![w] = to]
  BY <1>1, <1>2, DoingIs
<1>4. /\ worker[w] \notin {JM!At("task", j), JM!At("child", j)}
      /\ to \notin {JM!At("task", j), JM!At("child", j), JM!At("test", j), JM!At("unregister", j)}
  BY <1>1, <1>2, <1>3, DoingIs
<1>o. ForJob(worker[w], j) /\ ForJob(to, j)
  BY <1>1, <1>2, <1>3, ForOneJob
<1>5. JobTypes'
  <2>1. worker' \in [Worker -> Doing]
    BY <1>3 DEF JobsInv, JobTypes
  <2>2. poolIdle' \in BOOLEAN
    BY <1>1 DEF JobsInv, JobTypes
  <2>3. QED
    BY <1>1, <2>1, <2>2 DEF JobsInv, JobTypes
<1>6. CountOK(j)'
  BY <1>1, <1>3, <1>4, IdleMove
<1>7. MayUnregister' \subseteq MayUnregister
  BY <1>1, <1>3, <1>4, <1>o, WorkerKeepsBounds
<1>8. JobBounds'
  BY <1>1, <1>7, BoundsKept
<1>9. QED
  BY <1>1, <1>3, <1>4, <1>o, <1>5, <1>6, <1>8, WorkerActs

LEMMA JobsStep ==
    ASSUME JobsInv, [JM!Next]_jobs
    PROVE  JobsInv'
<1>1. CASE UNCHANGED jobs
  BY <1>1 DEF jobs, JobsInv, JobTypes, JobBounds, CountOK, EndOK, MayUnregister, Busy, Adding,
              JM!At
<1>2. ASSUME NEW w \in Worker, JM!Work(w) PROVE JobsInv'
  BY <1>2, TakeKeeps, IncreaseKeeps, QueueChildKeeps, DecreaseKeeps, TestTasksKeeps,
     UnregisterKeeps, FlagKeeps DEF JM!Work
<1>3. QED
  BY <1>1, <1>2, SubmitKeeps DEF JM!Next

\* The module's own Cardinality is the one of the theorems about finite sets.
LEMMA JobsCardinality == \A S : JM!Cardinality(S) = Cardinality(S)
  BY DEF JM!Cardinality, Cardinality

\* The counts of the task pool are right, and the number of jobs bounded, for
\* any number of jobs, tasks and workers.
LEMMA JobsAlways == Spec => []JobsInv
<1>1. Init => JobsInv
  BY JobsInit DEF Init
<1>2. JobsInv /\ [Next]_vars => JobsInv'
  BY StepOfEach, JobsStep
<1>3. QED
  BY <1>1, <1>2, PTL DEF Spec

\* The flag of a job says that it has ended only when none of its tasks is
\* queued, executed or being submitted, although the count is looked at after
\* the mutex is released and tasks go on submitting children.
THEOREM EndOfJobMeansDoneHolds == Spec => []EndOfJobMeansDone
<1>1. JobsInv => EndOfJobMeansDone
  <2>1. SUFFICES ASSUME JobsInv, NEW j \in submitted
                 PROVE  n_tasks[j] = JM!UnderWay(j) /\ (~running[j] => JM!UnderWay(j) = 0)
    BY DEF EndOfJobMeansDone, JM!EndOfJobMeansDone
  <2>2. j \in Job /\ running[j] \in BOOLEAN
    BY <2>1 DEF JobsInv, JobTypes
  <2>3. JM!UnderWay(j) = queued[j] + Cardinality(Busy(j)) + Cardinality(Adding(j))
    BY JobsCardinality, Zenon DEF JM!UnderWay, Busy, Adding
  <2>4. Counted(j)
    BY <2>1, <2>2, CountFacts
  <2>5. n_tasks[j] = JM!UnderWay(j) /\ (running[j] = FALSE => n_tasks[j] = 0)
    BY <2>3, <2>4 DEF Counted
  <2>6. ~running[j] => running[j] = FALSE
    BY <2>2
  <2>7. ~running[j] => n_tasks[j] = 0
    BY <2>5, <2>6
  <2>8. QED
    BY <2>5, <2>7
<1>2. QED
  BY <1>1, JobsAlways, PTL

\* The counts are in the bounds of the type invariant.
LEMMA JobsTypeOK == JobsInv => JM!TypeOK
<1> SUFFICES ASSUME JobsInv
             PROVE  JM!TypeOK
  OBVIOUS
<1>1. \A j \in Job : n_tasks[j] \in 0 .. Tasks + Children /\ queued[j] \in 0 .. Tasks + Children
  <2>1. SUFFICES ASSUME NEW j \in Job
                 PROVE  n_tasks[j] \in 0 .. Tasks + Children /\ queued[j] \in 0 .. Tasks + Children
    OBVIOUS
  <2>2. Counted(j)
    BY CountFacts
  <2>3. QED
    BY <2>2 DEF Counted
<1>2. nJobs \in -Cardinality(Job) * Cardinality(Worker) .. Cardinality(Job)
  <2>1. PICK m \in Nat : m = Cardinality(Job)
    BY JobsAssumption, FS_CardinalityType
  <2>2. PICK n \in Nat : n = Cardinality(Worker)
    BY JobsAssumption, FS_CardinalityType
  <2>3. m * n \in Nat /\ (-m) * n = -(m * n) /\ -(m * n) \in Int
    OBVIOUS
  <2>4. Cardinality(Job \X Worker) = m * n /\ IsFiniteSet(Job \X Worker)
    BY <2>1, <2>2, JobsAssumption, FS_Product
  <2>5. Cardinality(MayUnregister) \in Nat
    <3>1. MayUnregister \subseteq Job \X Worker
      BY DEF MayUnregister
    <3>2. QED
      BY <2>4, <3>1, FS_Subset, FS_CardinalityType
  <2>6. Cardinality(submitted) <= m /\ Cardinality(submitted) \in Nat
    BY <2>1, JobsAssumption, FS_Subset, FS_CardinalityType DEF JobsInv, JobTypes
  <2>7. /\ nJobs \in Int /\ nJobs <= Cardinality(submitted)
        /\ nJobs + m * n >= Cardinality(MayUnregister)
    BY <2>4 DEF JobsInv, JobTypes, JobBounds
  <2>8. PICK k \in Nat : k = m * n
    BY <2>3
  <2>9. nJobs >= -k /\ nJobs <= m
    BY <2>5, <2>6, <2>7, <2>8
  <2>10. nJobs \in (-k) .. m
    BY <2>7, <2>9
  <2>11. -m * n = -k
    BY <2>3, <2>8
  <2>12. QED
    BY <2>1, <2>2, <2>10, <2>11
<1>3. nJobs \in -JM!Cardinality(Job) * JM!Cardinality(Worker) .. JM!Cardinality(Job)
  BY <1>2, JobsCardinality
<1>4. n_tasks \in [Job -> 0 .. Tasks + Children] /\ queued \in [Job -> 0 .. Tasks + Children]
  BY <1>1 DEF JobsInv, JobTypes
<1>5. QED
  BY <1>3, <1>4 DEF JobsInv, JobTypes, JM!TypeOK

-----------------------------------------------------------------------------
(* The synchronisation point.  The k-th value has been read by as many as  *)
(* it was posted for, the last one by all but those the counter still      *)
(* waits for; and there is a value exactly while the counter is positive.  *)
N == Cardinality(Reader)

SynchRead(k) ==
  reads[k] = IF k > posts THEN 0 ELSE N - (IF k = posts THEN counter ELSE 0)

SynchTypes ==
  /\ element = posts /\ posts \in 0 .. Rounds
  /\ state \in BOOLEAN
  /\ counter \in 0 .. N
  /\ scond \subseteq (IF state THEN {Writer} ELSE Reader)
  /\ gets \in [Reader -> 0 .. Rounds]
  /\ reads \in [1 .. Rounds -> Nat]

SynchInv ==
  /\ SynchTypes
  /\ \A k \in 1 .. Rounds : SynchRead(k)
  /\ state => posts >= 1 /\ counter >= 1
  /\ ~state => counter = 0

\* The readers are finitely many, and at least one; the modules' own
\* Cardinality is the one of the theorems about finite sets.
LEMMA ReadersAre ==
    /\ N \in Nat \ {0} /\ Rounds \in Nat
    /\ SP!Cardinality(Reader) = N /\ OS!Cardinality(Reader) = N
<1>1. SP!Cardinality(Reader) = Cardinality(Reader) /\ OS!Cardinality(Reader) = Cardinality(Reader)
  BY DEF SP!Cardinality, OS!Cardinality, Cardinality
<1>2. Cardinality(Reader) \in Nat /\ Cardinality(Reader) # 0
  BY SynchAssumption, FS_CardinalityType, FS_EmptySet
<1>3. QED
  BY <1>1, <1>2, SynchAssumption DEF N

\* The constructor's state.
LEMMA SynchInit == SP!Init => SynchInv
<1> SUFFICES ASSUME SP!Init
             PROVE  SynchInv
  OBVIOUS
<1>1. /\ element = 0 /\ state = FALSE /\ counter = 0 /\ scond = {} /\ posts = 0
      /\ gets = [r \in Reader |-> 0] /\ reads = [k \in 1 .. Rounds |-> 0]
  BY DEF SP!Init
<1>2. SynchTypes
  <2>1. 0 \in 0 .. Rounds /\ 0 \in 0 .. N /\ 0 \in Nat
    BY ReadersAre
  <2>2. gets \in [Reader -> 0 .. Rounds] /\ reads \in [1 .. Rounds -> Nat]
    BY <1>1, <2>1
  <2>3. state \in BOOLEAN /\ scond \subseteq (IF state THEN {Writer} ELSE Reader)
    BY <1>1
  <2>4. QED
    BY <1>1, <2>1, <2>2, <2>3 DEF SynchTypes
<1>3. \A k \in 1 .. Rounds : SynchRead(k)
  BY <1>1, ReadersAre DEF SynchRead
<1>4. QED
  BY <1>1, <1>2, <1>3 DEF SynchInv

\* A value is posted for all readers, when the last one has been read by all.
LEMMA PostKeeps ==
    ASSUME SynchInv, SP!Post
    PROVE  SynchInv'
<1>1. /\ posts < Rounds /\ ~state /\ element' = posts + 1 /\ counter' = N /\ state' = TRUE
      /\ scond' = {} /\ posts' = posts + 1 /\ gets' = gets /\ reads' = reads
  BY ReadersAre DEF SP!Post, SP!Posting, SP!Ready
<1>2. counter = 0 /\ posts \in 0 .. Rounds /\ N \in Nat \ {0} /\ Rounds \in Nat
  BY <1>1, ReadersAre DEF SynchInv, SynchTypes
<1>3. SynchTypes'
  BY <1>1, <1>2 DEF SynchInv, SynchTypes
<1>4. ASSUME NEW k \in 1 .. Rounds PROVE SynchRead(k)'
  <2>1. reads[k] = IF k > posts THEN 0 ELSE N - (IF k = posts THEN counter ELSE 0)
    BY DEF SynchInv, SynchRead
  <2>2. reads[k] = IF k > posts THEN 0 ELSE N
    BY <1>2, <2>1
  <2>3. reads'[k] = IF k > posts' THEN 0 ELSE N - (IF k = posts' THEN counter' ELSE 0)
    BY <1>1, <1>2, <2>2
  <2>4. QED
    BY <2>3 DEF SynchRead
<1>5. posts' >= 1 /\ counter' >= 1
  BY <1>1, <1>2
<1>6. QED
  BY <1>1, <1>3, <1>4, <1>5 DEF SynchInv

\* A value is read; the last of its readers wakes the producer.
LEMMA GetKeeps ==
    ASSUME SynchInv, NEW r \in Reader, SP!Get(r)
    PROVE  SynchInv'
<1>1. /\ gets[r] < Rounds /\ state /\ counter' = counter - 1
      /\ gets' = [gets EXCEPT ![r] = gets[r] + 1]
      /\ reads' = [reads EXCEPT ![posts] = reads[posts] + 1]
      /\ element' = element /\ posts' = posts
      /\ IF counter = 1 THEN state' = FALSE /\ SP!Signal ELSE state' = state /\ scond' = scond
  BY DEF SP!Get, SP!Getting, SynchInv, SynchTypes
<1>2. /\ counter \in 1 .. N /\ posts \in 1 .. Rounds /\ N \in Nat \ {0} /\ Rounds \in Nat
      /\ gets \in [Reader -> 0 .. Rounds] /\ reads \in [1 .. Rounds -> Nat]
      /\ scond \subseteq {Writer}
  BY <1>1, ReadersAre DEF SynchInv, SynchTypes
<1>3. gets' \in [Reader -> 0 .. Rounds]
  <2>1. gets[r] + 1 \in 0 .. Rounds
    BY <1>1, <1>2
  <2>2. QED
    BY <1>1, <1>2, <2>1
<1>4. reads' \in [1 .. Rounds -> Nat]
  BY <1>1, <1>2
<1>5. scond' \subseteq (IF state' THEN {Writer} ELSE Reader)
  <2>1. CASE counter = 1
    <3>1. SP!Signal
      BY <1>1, <2>1
    <3>2. scond' = {}
      <4>1. CASE scond = {}
        BY <3>1, <4>1 DEF SP!Signal
      <4>2. CASE scond # {}
        <5>1. PICK t \in scond : scond' = scond \ {t}
          BY <3>1, <4>2 DEF SP!Signal
        <5>2. QED
          BY <1>2, <5>1
      <4>3. QED
        BY <4>1, <4>2
    <3>3. QED
      BY <3>2
  <2>2. CASE counter # 1
    BY <1>1, <1>2, <2>2
  <2>3. QED
    BY <2>1, <2>2
<1>6. /\ state' \in BOOLEAN /\ counter' \in 0 .. N
      /\ state' => posts' >= 1 /\ counter' >= 1
      /\ ~state' => counter' = 0
  <2>1. CASE counter = 1
    <3>1. state' = FALSE /\ counter' = 0
      BY <1>1, <1>2, <2>1
    <3>2. counter' \in 0 .. N
      BY <1>2, <3>1
    <3>3. state' \in BOOLEAN /\ ~state'
      BY <3>1
    <3>4. QED
      BY <3>1, <3>2, <3>3
  <2>2. CASE counter # 1
    <3>1. state' = state /\ state
      BY <1>1, <2>2
    <3>2. state'
      BY <3>1
    <3>3. state' \in BOOLEAN
      BY <3>1 DEF SynchInv, SynchTypes
    <3>4. counter' \in 1 .. N /\ posts' \in 1 .. Rounds
      BY <1>1, <1>2, <2>2
    <3>5. posts' >= 1 /\ counter' >= 1 /\ counter' \in 0 .. N
      BY <1>2, <3>4
    <3>6. QED
      BY <3>2, <3>3, <3>5
  <2>3. QED
    BY <2>1, <2>2
<1>7. ASSUME NEW k \in 1 .. Rounds PROVE SynchRead(k)'
  <2>1. reads[k] = IF k > posts THEN 0 ELSE N - (IF k = posts THEN counter ELSE 0)
    BY DEF SynchInv, SynchRead
  <2>2. reads'[k] = IF k = posts THEN reads[k] + 1 ELSE reads[k]
    BY <1>1, <1>2
  <2>3. reads'[k] = IF k > posts' THEN 0 ELSE N - (IF k = posts' THEN counter' ELSE 0)
    BY <1>1, <1>2, <2>1, <2>2
  <2>4. QED
    BY <2>3 DEF SynchRead
<1>8. QED
  BY <1>1, <1>3, <1>4, <1>5, <1>6, <1>7 DEF SynchInv, SynchTypes

\* Who goes to sleep or wakes up leaves the values alone.
LEMMA SleepKeeps ==
    ASSUME SynchInv, UNCHANGED <<element, state, counter, posts, gets, reads>>,
           scond' \subseteq (IF state THEN {Writer} ELSE Reader)
    PROVE  SynchInv'
  BY DEF SynchInv, SynchTypes, SynchRead

LEMMA SynchStep ==
    ASSUME SynchInv, [SP!Next]_synch
    PROVE  SynchInv'
<1>1. CASE SP!PostWait
  BY <1>1, SleepKeeps DEF SP!PostWait, SP!Ready, SynchInv, SynchTypes
<1>2. ASSUME NEW r \in Reader, SP!GetWait(r) PROVE SynchInv'
  BY <1>2, SleepKeeps DEF SP!GetWait, SynchInv, SynchTypes
<1>3. ASSUME NEW t, SP!SpuriousWakeup(t) PROVE SynchInv'
  BY <1>3, SleepKeeps DEF SP!SpuriousWakeup, SynchInv, SynchTypes
<1>4. CASE UNCHANGED synch
  BY <1>4, SleepKeeps DEF synch, SynchInv, SynchTypes
<1>5. QED
  BY <1>1, <1>2, <1>3, <1>4, PostKeeps, GetKeeps DEF SP!Next

\* What the runs check follows from it.
LEMMA SynchGives == SynchInv => SP!TypeOK /\ SP!ReadsPerPost
<1>1. SynchInv => SP!TypeOK
  BY ReadersAre DEF SynchInv, SynchTypes, SP!TypeOK
<1>2. ASSUME SynchInv, NEW k \in 1 .. posts
      PROVE  reads[k] = N - (IF k = posts THEN counter ELSE 0)
  <2>1. k \in 1 .. Rounds /\ ~(k > posts) /\ SynchRead(k)
    BY <1>2, ReadersAre DEF SynchInv, SynchTypes
  <2>2. QED
    BY <2>1 DEF SynchRead
<1>3. SynchInv => SP!ReadsPerPost
  BY <1>2, ReadersAre DEF SP!ReadsPerPost
<1>4. QED
  BY <1>1, <1>3

-----------------------------------------------------------------------------
(* The synchronisation point with a Boolean lock.  Readers that have seen  *)
(* the lock set may come late: the counter falls below one by no more than *)
(* those that still can.  Nobody can before the first value.               *)
Late == passed \cap Reader

OSynchTypes ==
  /\ oElement = oPosts /\ oPosts \in 0 .. Rounds
  /\ BL \in BOOLEAN /\ oCounter \in Int
  /\ passed \subseteq Reader \cup {Writer}
  /\ oGets \in [Reader -> 0 .. Rounds]
  /\ oReads \in [1 .. Rounds -> Nat]

OSynchRead(k) ==
  /\ k < oPosts => oReads[k] \in N .. 2 * N - 1
  /\ k = oPosts => oReads[k] = N - oCounter
  /\ k > oPosts => oReads[k] = 0

OSynchCount ==
  /\ BL = TRUE => oPosts >= 1 /\ oCounter \in 1 .. N
  /\ BL = FALSE => oCounter <= 0
  /\ (BL = FALSE /\ oPosts >= 1) => oCounter - Cardinality(Late) >= 1 - N
  /\ oPosts = 0 => oCounter = 0 /\ Late = {}

OSynchPassed ==
  /\ Writer \in passed => BL = FALSE /\ oPosts < Rounds
  /\ \A r \in Late : oGets[r] < Rounds

OSynchInv ==
  /\ OSynchTypes /\ OSynchCount /\ OSynchPassed
  /\ \A k \in 1 .. Rounds : OSynchRead(k)

\* There are no more late readers than readers.
LEMMA LateReaders ==
    IsFiniteSet(Late) /\ Cardinality(Late) \in 0 .. N
<1>1. Late \subseteq Reader
  BY DEF Late
<1>2. QED
  BY <1>1, SynchAssumption, FS_Subset, FS_CardinalityType DEF N

\* The constructor's state.
LEMMA OSynchInit == OS!Init => OSynchInv
<1> SUFFICES ASSUME OS!Init
             PROVE  OSynchInv
  OBVIOUS
<1>1. /\ oElement = 0 /\ BL = FALSE /\ oCounter = 0 /\ passed = {} /\ oPosts = 0
      /\ oGets = [r \in Reader |-> 0] /\ oReads = [k \in 1 .. Rounds |-> 0]
  BY DEF OS!Init
<1>2. OSynchTypes
  <2>1. 0 \in 0 .. Rounds /\ 0 \in Int /\ 0 \in Nat
    BY ReadersAre
  <2>2. oGets \in [Reader -> 0 .. Rounds] /\ oReads \in [1 .. Rounds -> Nat]
    BY <1>1, <2>1
  <2>3. QED
    BY <1>1, <2>1, <2>2 DEF OSynchTypes
<1>3. OSynchCount
  BY <1>1 DEF OSynchCount, Late
<1>4. OSynchPassed
  BY <1>1 DEF OSynchPassed, Late
<1>5. \A k \in 1 .. Rounds : OSynchRead(k)
  BY <1>1 DEF OSynchRead
<1>6. QED
  BY <1>2, <1>3, <1>4, <1>5 DEF OSynchInv

\* A thread sees the lock as it wants it.
LEMMA OReadyKeeps ==
    ASSUME OSynchInv, OS!PostReady \/ \E r \in Reader : OS!GetReady(r)
    PROVE  OSynchInv'
<1>0. UNCHANGED <<oElement, oCounter, BL, oPosts, oGets, oReads>>
  BY DEF OS!PostReady, OS!GetReady
<1>1. \A k \in 1 .. Rounds : OSynchRead(k)'
  BY <1>0 DEF OSynchInv, OSynchRead
<1>2. CASE OS!PostReady
  <2>1. passed' = passed \cup {Writer} /\ BL = FALSE /\ oPosts < Rounds
    BY <1>2 DEF OS!PostReady, OS!WaitUntil
  <2>2. Late' = Late
    BY <2>1, SynchAssumption DEF Late
  <2>3. OSynchTypes'
    BY <1>0, <2>1 DEF OSynchInv, OSynchTypes
  <2>4. OSynchCount'
    BY <1>0, <2>2 DEF OSynchInv, OSynchCount
  <2>5. OSynchPassed'
    BY <1>0, <2>1, <2>2 DEF OSynchInv, OSynchPassed
  <2>6. QED
    BY <1>1, <2>3, <2>4, <2>5 DEF OSynchInv
<1>3. ASSUME NEW r \in Reader, OS!GetReady(r) PROVE OSynchInv'
  <2>1. passed' = passed \cup {r} /\ BL = TRUE /\ oGets[r] < Rounds
    BY <1>3 DEF OS!GetReady, OS!WaitUntil
  <2>2. Late' = Late \cup {r} /\ (Writer \in passed' => Writer \in passed)
    BY <2>1, SynchAssumption DEF Late
  <2>3. OSynchTypes'
    BY <1>0, <2>1 DEF OSynchInv, OSynchTypes
  <2>4. OSynchCount'
    <3>1. oPosts >= 1 /\ oCounter \in 1 .. N /\ oPosts \in Nat
      BY <2>1, ReadersAre DEF OSynchInv, OSynchCount, OSynchTypes
    <3>2. BL' = TRUE /\ oPosts' >= 1 /\ oCounter' \in 1 .. N /\ oPosts' # 0
      BY <1>0, <2>1, <3>1
    <3>3. QED
      BY <3>2 DEF OSynchCount
  <2>5. OSynchPassed'
    BY <1>0, <2>1, <2>2 DEF OSynchInv, OSynchPassed
  <2>6. QED
    BY <1>1, <2>3, <2>4, <2>5 DEF OSynchInv
<1>4. QED
  BY <1>2, <1>3

\* A value replaces one that has been read by as many as there are readers.
LEMMA OPostKeeps ==
    ASSUME OSynchInv, OS!Post
    PROVE  OSynchInv'
<1>1. /\ Writer \in passed /\ oElement' = oPosts + 1 /\ oCounter' = N /\ BL' = TRUE
      /\ passed' = passed \ {Writer} /\ oPosts' = oPosts + 1
      /\ oGets' = oGets /\ oReads' = oReads
  BY ReadersAre DEF OS!Post
<1>2. /\ BL = FALSE /\ oPosts < Rounds /\ oCounter \in Int /\ oCounter <= 0
      /\ oPosts \in 0 .. Rounds /\ N \in Nat \ {0} /\ Rounds \in Nat
  BY <1>1, ReadersAre DEF OSynchInv, OSynchTypes, OSynchCount, OSynchPassed
<1>2a. oPosts >= 1 => oCounter >= 1 - N
  <2>1. oPosts >= 1 => oCounter - Cardinality(Late) >= 1 - N
    BY <1>2 DEF OSynchInv, OSynchCount
  <2>2. Cardinality(Late) \in Nat
    BY LateReaders, ReadersAre
  <2>3. QED
    BY <1>2, <2>1, <2>2
<1>3. OSynchTypes'
  <2>1. oPosts' \in 0 .. Rounds /\ oCounter' \in Int
    BY <1>1, <1>2
  <2>2. QED
    BY <1>1, <2>1 DEF OSynchInv, OSynchTypes
<1>4. OSynchCount'
  <2>1. oPosts' >= 1 /\ oPosts' # 0 /\ oCounter' \in 1 .. N
    BY <1>1, <1>2
  <2>2. QED
    BY <1>1, <2>1 DEF OSynchCount
<1>5. OSynchPassed'
  <2>1. Late' = Late /\ Writer \notin passed'
    BY <1>1, SynchAssumption DEF Late
  <2>2. QED
    BY <1>1, <2>1 DEF OSynchInv, OSynchPassed
<1>6. ASSUME NEW k \in 1 .. Rounds PROVE OSynchRead(k)'
  <2>1. OSynchRead(k) /\ oReads'[k] = oReads[k]
    BY <1>1 DEF OSynchInv
  <2>2. /\ k < oPosts => oReads[k] \in N .. 2 * N - 1
        /\ k = oPosts => oReads[k] \in N .. 2 * N - 1
        /\ k > oPosts => oReads[k] = 0
    BY <1>2, <1>2a, <2>1 DEF OSynchRead
  <2>3. /\ k < oPosts' => oReads'[k] \in N .. 2 * N - 1
        /\ k = oPosts' => oReads'[k] = N - oCounter'
        /\ k > oPosts' => oReads'[k] = 0
    BY <1>1, <1>2, <2>1, <2>2
  <2>4. QED
    BY <2>3 DEF OSynchRead
<1>7. QED
  BY <1>3, <1>4, <1>5, <1>6 DEF OSynchInv

\* A reader that has passed the lock reads, late or not.
LEMMA OGetKeeps ==
    ASSUME OSynchInv, NEW r \in Reader, OS!Get(r)
    PROVE  OSynchInv'
<1>1. /\ r \in passed /\ oCounter' = oCounter - 1
      /\ BL' = IF oCounter = 1 THEN FALSE ELSE BL
      /\ oGets' = [oGets EXCEPT ![r] = oGets[r] + 1]
      /\ oReads' = [oReads EXCEPT ![oPosts] = oReads[oPosts] + 1]
      /\ passed' = passed \ {r} /\ oElement' = oElement /\ oPosts' = oPosts
  BY DEF OS!Get, OSynchInv, OSynchTypes
<1>2. /\ r \in Late /\ Late' = Late \ {r}
      /\ Writer \in passed' => Writer \in passed
  BY <1>1 DEF Late
<1>3. /\ oPosts \in 1 .. Rounds /\ oCounter \in Int /\ oGets[r] < Rounds
      /\ N \in Nat \ {0} /\ Rounds \in Nat
      /\ oReads \in [1 .. Rounds -> Nat] /\ oGets \in [Reader -> 0 .. Rounds]
  <2>1. oPosts # 0 /\ oPosts \in 0 .. Rounds /\ Rounds \in Nat
    BY <1>2, ReadersAre DEF OSynchInv, OSynchCount, OSynchTypes
  <2>2. oPosts \in 1 .. Rounds
    BY <2>1
  <2>3. QED
    BY <1>2, <2>2, ReadersAre DEF OSynchInv, OSynchTypes, OSynchPassed
<1>4. Cardinality(Late') = Cardinality(Late) - 1 /\ Cardinality(Late) \in 1 .. N
  <2>1. IsFiniteSet(Late) /\ Cardinality(Late) \in 0 .. N
    BY LateReaders
  <2>2. Cardinality(Late) # 0
    BY <1>2, <2>1, FS_EmptySet
  <2>3. Cardinality(Late \ {r}) = Cardinality(Late) - 1
    BY <1>2, <2>1, FS_RemoveElement
  <2>4. QED
    BY <1>2, <1>3, <2>1, <2>2, <2>3
<1>5. OSynchTypes'
  <2>1. oGets' \in [Reader -> 0 .. Rounds]
    <3>1. oGets[r] + 1 \in 0 .. Rounds
      BY <1>3
    <3>2. QED
      BY <1>1, <1>3, <3>1
  <2>2. oReads' \in [1 .. Rounds -> Nat] /\ oCounter' \in Int
    BY <1>1, <1>3
  <2>3. BL' \in BOOLEAN
    BY <1>1 DEF OSynchInv, OSynchTypes
  <2>4. QED
    BY <1>1, <2>1, <2>2, <2>3 DEF OSynchInv, OSynchTypes
<1>6. /\ BL = TRUE => oCounter \in 1 .. N
      /\ BL = FALSE => oCounter <= 0 /\ oCounter - Cardinality(Late) >= 1 - N
      /\ BL \in BOOLEAN
  BY <1>3 DEF OSynchInv, OSynchTypes, OSynchCount
<1>7. OSynchCount' /\ (BL = FALSE => BL' = FALSE)
  <2>1. oPosts' >= 1 /\ oPosts' # 0
    BY <1>1, <1>3
  <2>2. CASE oCounter = 1
    <3>1. BL' = FALSE
      BY <1>1, <2>2
    <3>2. oCounter' <= 0 /\ oCounter' - Cardinality(Late') >= 1 - N
      BY <1>1, <1>3, <1>4, <2>2
    <3>3. QED
      BY <2>1, <3>1, <3>2 DEF OSynchCount
  <2>3. CASE oCounter # 1 /\ BL = TRUE
    <3>1. BL' = TRUE
      BY <1>1, <2>3
    <3>2. oCounter \in 1 .. N
      BY <1>6, <2>3
    <3>3. oCounter' \in 1 .. N
      BY <1>1, <1>3, <2>3, <3>2
    <3>4. QED
      BY <2>1, <2>3, <3>1, <3>3 DEF OSynchCount
  <2>4. CASE oCounter # 1 /\ BL = FALSE
    <3>1. BL' = FALSE
      BY <1>1, <2>4
    <3>2. oCounter <= 0 /\ oCounter - Cardinality(Late) >= 1 - N
      BY <1>6, <2>4
    <3>3. oCounter' <= 0 /\ oCounter' - Cardinality(Late') >= 1 - N
      BY <1>1, <1>3, <1>4, <3>2
    <3>4. QED
      BY <2>1, <3>1, <3>3 DEF OSynchCount
  <2>5. QED
    BY <1>6, <2>2, <2>3, <2>4
<1>8. OSynchPassed'
  <2>1. Writer \in passed' => BL' = FALSE /\ oPosts' < Rounds
    <3>1. Writer \in passed => BL = FALSE /\ oPosts < Rounds
      BY DEF OSynchInv, OSynchPassed
    <3>2. QED
      BY <1>1, <1>2, <1>7, <3>1
  <2>2. \A v \in Late' : oGets'[v] < Rounds
    <3>1. \A v \in Late : oGets[v] < Rounds
      BY DEF OSynchInv, OSynchPassed
    <3>2. \A v \in Late' : v \in Late /\ v # r /\ oGets'[v] = oGets[v]
      BY <1>1, <1>2, <1>3
    <3>3. QED
      BY <3>1, <3>2
  <2>3. QED
    BY <2>1, <2>2 DEF OSynchPassed
<1>9. ASSUME NEW k \in 1 .. Rounds PROVE OSynchRead(k)'
  <2>1. OSynchRead(k)
    BY DEF OSynchInv
  <2>2. oReads'[k] = IF k = oPosts THEN oReads[k] + 1 ELSE oReads[k]
    BY <1>1, <1>3
  <2>3. /\ k < oPosts' => oReads'[k] \in N .. 2 * N - 1
        /\ k = oPosts' => oReads'[k] = N - oCounter'
        /\ k > oPosts' => oReads'[k] = 0
    BY <1>1, <1>3, <2>1, <2>2 DEF OSynchRead
  <2>4. QED
    BY <2>3 DEF OSynchRead
<1>10. QED
  BY <1>5, <1>7, <1>8, <1>9 DEF OSynchInv

LEMMA OSynchStep ==
    ASSUME OSynchInv, [OS!Next]_osynch
    PROVE  OSynchInv'
<1>1. CASE UNCHANGED osynch
  BY <1>1 DEF osynch, OSynchInv, OSynchTypes, OSynchCount, OSynchPassed, OSynchRead, Late
<1>2. QED
  BY <1>1, OReadyKeeps, OPostKeeps, OGetKeeps DEF OS!Next

\* What the runs check follows from it.
LEMMA OSynchGives == OSynchInv => OS!TypeOK /\ OS!ReadsPerPost
<1>1. ASSUME OSynchInv PROVE oCounter \in 1 - N .. N
  <2>1. /\ oCounter \in Int /\ oPosts \in 0 .. Rounds /\ Rounds \in Nat /\ BL \in BOOLEAN
        /\ N \in Nat \ {0} /\ Cardinality(Late) \in 0 .. N
    BY <1>1, ReadersAre, LateReaders DEF OSynchInv, OSynchTypes
  <2>2. CASE BL = TRUE
    <3>1. oCounter \in 1 .. N
      BY <1>1, <2>2 DEF OSynchInv, OSynchCount
    <3>2. QED
      BY <2>1, <3>1
  <2>3. CASE BL = FALSE
    <3>1. /\ oCounter <= 0
          /\ oPosts >= 1 => oCounter - Cardinality(Late) >= 1 - N
          /\ oPosts = 0 => oCounter = 0
      BY <1>1, <2>3 DEF OSynchInv, OSynchCount
    <3>2. QED
      BY <2>1, <3>1
  <2>4. QED
    BY <2>1, <2>2, <2>3
<1>2. OSynchInv => OS!TypeOK
  BY <1>1, ReadersAre DEF OSynchInv, OSynchTypes, OS!TypeOK
<1>3. ASSUME OSynchInv, NEW k \in 1 .. oPosts - 1
      PROVE  oReads[k] \in N .. 2 * N - 1
  <2>1. k \in 1 .. Rounds /\ k < oPosts
    BY <1>3, ReadersAre DEF OSynchInv, OSynchTypes
  <2>2. OSynchRead(k)
    BY <1>3, <2>1 DEF OSynchInv
  <2>3. QED
    BY <2>1, <2>2 DEF OSynchRead
<1>4. OSynchInv => OS!ReadsPerPost
  BY <1>3, ReadersAre DEF OS!ReadsPerPost
<1>5. QED
  BY <1>2, <1>4

\* A posted value is read as often as its writer asked for before the next
\* one takes its place, for any number of readers and rounds: exactly as often
\* with SynchP; with OSynchP, whose readers may come late, at least as often and
\* by fewer than the number of readers more.
THEOREM ReadsPerPostHolds == Spec => []ReadsPerPost
<1>1. Init => SynchInv /\ OSynchInv
  BY SynchInit, OSynchInit DEF Init
<1>2. SynchInv /\ OSynchInv /\ [Next]_vars => SynchInv' /\ OSynchInv'
  BY StepOfEach, SynchStep, OSynchStep
<1>3. SynchInv /\ OSynchInv => ReadsPerPost
  BY SynchGives, OSynchGives DEF ReadsPerPost
<1>4. QED
  BY <1>1, <1>2, <1>3, PTL DEF Spec

-----------------------------------------------------------------------------
(* The deque.  The elements taken from the front and those still in it are *)
(* in the order in which they were added, and with the stolen ones they    *)
(* are all that were added.                                                *)
Values == 1 .. Elements
Line   == taken \o c

DequeTypes ==
  /\ c \in Seq(Values) /\ taken \in Seq(Values)
  /\ active \in BOOLEAN
  /\ not_empty \subseteq Client /\ told \subseteq Client
  /\ added \in 0 .. Elements
  /\ stolen \subseteq 1 .. added
  /\ not_empty # {} => c = <<>> /\ active

LineOK ==
  /\ \A i \in 1 .. Len(Line) : Line[i] \in 1 .. added /\ Line[i] \notin stolen
  /\ \A i, k \in 1 .. Len(Line) : i < k => Line[i] < Line[k]
  /\ \A e \in 1 .. added : e \in stolen \/ \E i \in 1 .. Len(Line) : Line[i] = e
  /\ Len(Line) + Cardinality(stolen) = added

DequeInv == DequeTypes /\ LineOK

\* The line is a sequence, the taken elements first.
LEMMA LineIs ==
    ASSUME DequeTypes
    PROVE  /\ Line \in Seq(Values) /\ Len(Line) \in Nat /\ Len(taken) \in Nat /\ Len(c) \in Nat
           /\ Len(Line) = Len(taken) + Len(c)
           /\ \A i \in 1 .. Len(taken) + Len(c) :
                 Line[i] = IF i <= Len(taken) THEN taken[i] ELSE c[i - Len(taken)]
           /\ c = <<>> <=> Len(c) = 0
           /\ IsFiniteSet(stolen) /\ Cardinality(stolen) \in Nat
           /\ Elements \in Nat /\ added \in Nat
<1>1. c \in Seq(Values) /\ taken \in Seq(Values) /\ added \in Nat /\ Elements \in Nat
  BY DequeAssumption DEF DequeTypes
<1>2. /\ Line \in Seq(Values) /\ Len(Line) = Len(taken) + Len(c)
      /\ \A i \in 1 .. Len(taken) + Len(c) :
            Line[i] = IF i <= Len(taken) THEN taken[i] ELSE c[i - Len(taken)]
  BY <1>1, ConcatProperties DEF Line
<1>3. Len(Line) \in Nat /\ Len(taken) \in Nat /\ Len(c) \in Nat
  BY <1>1, <1>2, LenProperties
<1>4. c = <<>> <=> Len(c) = 0
  BY <1>1, EmptySeq
<1>5. IsFiniteSet(1 .. added)
  BY <1>1, FS_Interval
<1>6. IsFiniteSet(stolen) /\ Cardinality(stolen) \in Nat
  BY <1>5, FS_Subset, FS_CardinalityType DEF DequeTypes
<1>7. QED
  BY <1>1, <1>2, <1>3, <1>4, <1>6

\* The constructor's state.
LEMMA DequeInit == TD!Init => DequeInv
<1> SUFFICES ASSUME TD!Init
             PROVE  DequeInv
  OBVIOUS
<1>1. /\ c = <<>> /\ active = TRUE /\ not_empty = {} /\ added = 0 /\ taken = <<>>
      /\ stolen = {} /\ told = {}
  BY DEF TD!Init
<1>2. DequeTypes
  BY <1>1, DequeAssumption, EmptySeq DEF DequeTypes
<1>3. Len(Line) = 0
  <2>1. Len(Line) = Len(taken) + Len(c)
    BY <1>2, LineIs
  <2>2. QED
    BY <1>1, <2>1
<1>4. LineOK
  BY <1>1, <1>3, FS_EmptySet DEF LineOK
<1>5. QED
  BY <1>2, <1>4 DEF DequeInv

\* Add: the next element goes to the end, and nobody sleeps beside it.
LEMMA AddKeeps ==
    ASSUME DequeInv, TD!Add
    PROVE  DequeInv'
<1>1. /\ added < Elements /\ c' = Append(c, added + 1) /\ added' = added + 1
      /\ not_empty' = IF Len(c) = 0 THEN {} ELSE not_empty
      /\ active' = active /\ taken' = taken /\ stolen' = stolen /\ told' = told
  BY DEF TD!Add, TD!WasEmpty
<1>0. DequeTypes /\ LineOK
  BY DEF DequeInv
<1>2. added + 1 \in Values /\ added' \in 0 .. Elements /\ added \in Nat
  BY <1>0, <1>1, LineIs DEF Values, DequeTypes
<1>3. /\ c' \in Seq(Values) /\ Len(c') = Len(c) + 1
      /\ \A i \in 1 .. Len(c) : c'[i] = c[i]
      /\ c'[Len(c) + 1] = added + 1
  BY <1>0, <1>1, <1>2, AppendProperties DEF DequeTypes
<1>4. not_empty' = {}
  <2>1. Len(c) # 0 => c # <<>>
    BY <1>0, LineIs
  <2>2. QED
    BY <1>0, <1>1, <2>1 DEF DequeTypes
<1>5. DequeTypes'
  <2>1. stolen' \subseteq 1 .. added'
    BY <1>0, <1>1, <1>2 DEF DequeTypes
  <2>2. QED
    BY <1>0, <1>1, <1>2, <1>3, <1>4, <2>1 DEF DequeTypes
<1>o. PICK s : s = Line
  OBVIOUS
<1>n. PICK t : t = Line'
  OBVIOUS
<1>6. /\ Len(s) \in Nat /\ Len(taken) \in Nat /\ Len(c) \in Nat
      /\ Len(s) = Len(taken) + Len(c)
      /\ \A i \in 1 .. Len(taken) + Len(c) :
            s[i] = IF i <= Len(taken) THEN taken[i] ELSE c[i - Len(taken)]
  BY <1>0, <1>o, LineIs
<1>7. /\ Len(t) = Len(taken') + Len(c')
      /\ \A i \in 1 .. Len(taken') + Len(c') :
            t[i] = IF i <= Len(taken') THEN taken'[i] ELSE c'[i - Len(taken')]
  BY <1>n, <1>3, <1>5, ConcatProperties DEF Line, DequeTypes
<1>8. /\ Len(t) = Len(s) + 1
      /\ \A i \in 1 .. Len(s) : t[i] = s[i]
      /\ t[Len(s) + 1] = added + 1
  <2>1. Len(t) = Len(s) + 1
    BY <1>1, <1>3, <1>6, <1>7
  <2>2. ASSUME NEW i \in 1 .. Len(s) PROVE t[i] = s[i]
    <3>1. t[i] = IF i <= Len(taken) THEN taken[i] ELSE c'[i - Len(taken)]
      BY <1>1, <1>3, <1>6, <1>7
    <3>2. i > Len(taken) => c'[i - Len(taken)] = c[i - Len(taken)]
      BY <1>3, <1>6
    <3>3. QED
      BY <1>6, <3>1, <3>2
  <2>3. t[Len(s) + 1] = added + 1
    <3>1. /\ Len(s) + 1 \in 1 .. Len(taken') + Len(c') /\ ~(Len(s) + 1 <= Len(taken'))
          /\ taken' = taken
      BY <1>1, <1>3, <1>6
    <3>2. t[Len(s) + 1] = c'[(Len(s) + 1) - Len(taken)]
      BY <1>7, <3>1
    <3>3. (Len(s) + 1) - Len(taken) = Len(c) + 1
      BY <1>6
    <3>4. QED
      BY <1>3, <3>2, <3>3
  <2>4. QED
    BY <2>1, <2>2, <2>3
<1>p. \A i \in 1 .. Len(t) : i = Len(s) + 1 \/ i \in 1 .. Len(s)
  BY <1>6, <1>8
<1>9. LineOK'
  <2>1. /\ \A i \in 1 .. Len(s) : s[i] \in 1 .. added /\ s[i] \notin stolen
        /\ \A i, k \in 1 .. Len(s) : i < k => s[i] < s[k]
        /\ \A e \in 1 .. added : e \in stolen \/ \E i \in 1 .. Len(s) : s[i] = e
        /\ Len(s) + Cardinality(stolen) = added
        /\ stolen \subseteq 1 .. added /\ Cardinality(stolen) \in Nat
    BY <1>0, <1>o, LineIs DEF LineOK, DequeTypes
  <2>2. \A i \in 1 .. Len(t) : t[i] \in 1 .. added' /\ t[i] \notin stolen'
    <3>1. SUFFICES ASSUME NEW i \in 1 .. Len(t)
                   PROVE  t[i] \in 1 .. added' /\ t[i] \notin stolen'
      OBVIOUS
    <3>2. CASE i = Len(s) + 1
      BY <1>1, <1>2, <1>8, <2>1, <3>2
    <3>3. CASE i \in 1 .. Len(s)
      <4>1. t[i] = s[i] /\ s[i] \in 1 .. added /\ s[i] \notin stolen
        BY <1>8, <2>1, <3>3
      <4>2. 1 .. added \subseteq 1 .. added' /\ stolen' = stolen
        BY <1>1, <1>2
      <4>3. QED
        BY <4>1, <4>2
    <3>4. QED
      BY <1>p, <3>2, <3>3
  <2>3. \A i, k \in 1 .. Len(t) : i < k => t[i] < t[k]
    <3>1. SUFFICES ASSUME NEW i \in 1 .. Len(t), NEW k \in 1 .. Len(t), i < k
                   PROVE  t[i] < t[k]
      OBVIOUS
    <3>2. i \in 1 .. Len(s) /\ s[i] \in 1 .. added /\ t[i] = s[i]
      BY <1>6, <1>8, <2>1, <3>1
    <3>3. CASE k = Len(s) + 1
      BY <1>2, <1>8, <3>2, <3>3
    <3>4. CASE k \in 1 .. Len(s)
      BY <1>8, <2>1, <3>1, <3>2, <3>4
    <3>5. QED
      BY <1>p, <3>3, <3>4
  <2>4. \A e \in 1 .. added' : e \in stolen' \/ \E i \in 1 .. Len(t) : t[i] = e
    <3>1. SUFFICES ASSUME NEW e \in 1 .. added', e \notin stolen'
                   PROVE  \E i \in 1 .. Len(t) : t[i] = e
      OBVIOUS
    <3>2. CASE e = added + 1
      <4>1. Len(s) + 1 \in 1 .. Len(t)
        BY <1>6, <1>8
      <4>2. QED
        BY <1>8, <3>2, <4>1
    <3>3. CASE e \in 1 .. added
      <4>1. PICK i \in 1 .. Len(s) : s[i] = e
        BY <1>1, <2>1, <3>1, <3>3
      <4>2. i \in 1 .. Len(t)
        BY <1>6, <1>8
      <4>3. QED
        BY <1>8, <4>1, <4>2
    <3>4. QED
      BY <1>1, <1>2, <3>2, <3>3
  <2>5. Len(t) + Cardinality(stolen') = added'
    BY <1>1, <1>2, <1>6, <1>8, <2>1
  <2>6. QED
    BY <1>n, <2>2, <2>3, <2>4, <2>5 DEF LineOK
<1>10. QED
  BY <1>5, <1>9 DEF DequeInv

\* Remove and TryRemoveFront: the line stays as it is.
LEMMA FrontKeeps ==
    ASSUME DequeInv, NEW x \in Client, TD!RemoveFront(x)
    PROVE  DequeInv'
<1>1. /\ c # <<>> /\ c' = Tail(c) /\ taken' = Append(taken, Head(c))
      /\ active' = active /\ not_empty' = not_empty /\ added' = added
      /\ stolen' = stolen /\ told' = told
  BY DEF TD!RemoveFront
<1>0. DequeTypes /\ LineOK /\ c \in Seq(Values) /\ taken \in Seq(Values)
  BY DEF DequeInv, DequeTypes
<1>2. /\ Head(c) \in Values /\ c' \in Seq(Values) /\ Len(c') = Len(c) - 1
      /\ \A i \in 1 .. Len(c') : c'[i] = c[i + 1]
      /\ Head(c) = c[1]
  BY <1>0, <1>1, HeadTailProperties
<1>3. /\ taken' \in Seq(Values) /\ Len(taken') = Len(taken) + 1
      /\ \A i \in 1 .. Len(taken) : taken'[i] = taken[i]
      /\ taken'[Len(taken) + 1] = Head(c)
  BY <1>0, <1>1, <1>2, AppendProperties
<1>4. not_empty' = {}
  BY <1>0, <1>1 DEF DequeTypes
<1>5. DequeTypes'
  BY <1>0, <1>1, <1>2, <1>3, <1>4 DEF DequeTypes
<1>o. PICK s : s = Line
  OBVIOUS
<1>n. PICK t : t = Line'
  OBVIOUS
<1>6. /\ s \in Seq(Values) /\ Len(s) \in Nat /\ Len(taken) \in Nat /\ Len(c) \in Nat \ {0}
      /\ Len(s) = Len(taken) + Len(c)
      /\ \A i \in 1 .. Len(taken) + Len(c) :
            s[i] = IF i <= Len(taken) THEN taken[i] ELSE c[i - Len(taken)]
  BY <1>0, <1>1, <1>o, LineIs
<1>7. /\ t \in Seq(Values) /\ Len(t) = Len(taken') + Len(c')
      /\ \A i \in 1 .. Len(taken') + Len(c') :
            t[i] = IF i <= Len(taken') THEN taken'[i] ELSE c'[i - Len(taken')]
  BY <1>n, <1>2, <1>3, ConcatProperties DEF Line
<1>8. t = s
  <2>1. Len(t) = Len(s)
    BY <1>2, <1>3, <1>6, <1>7
  <2>2. ASSUME NEW i \in 1 .. Len(s) PROVE s[i] = t[i]
    <3>0. i \in 1 .. Len(taken) + Len(c) /\ i \in 1 .. Len(taken') + Len(c')
      BY <1>6, <1>7, <2>1
    <3>1. CASE i <= Len(taken)
      <4>1. i \in 1 .. Len(taken) /\ i <= Len(taken')
        BY <1>3, <1>6, <3>1
      <4>2. s[i] = taken[i] /\ t[i] = taken'[i]
        BY <1>6, <1>7, <3>0, <3>1, <4>1
      <4>3. QED
        BY <1>3, <4>1, <4>2
    <3>2. CASE i = Len(taken) + 1
      <4>1. ~(i <= Len(taken)) /\ i <= Len(taken') /\ i - Len(taken) = 1
        BY <1>3, <1>6, <3>2
      <4>2. s[i] = c[1] /\ t[i] = taken'[i]
        BY <1>6, <1>7, <3>0, <4>1
      <4>3. QED
        BY <1>2, <1>3, <3>2, <4>2
    <3>3. CASE i > Len(taken) + 1
      <4>1. /\ ~(i <= Len(taken)) /\ ~(i <= Len(taken'))
            /\ i - Len(taken') \in 1 .. Len(c')
            /\ (i - Len(taken')) + 1 = i - Len(taken)
        BY <1>2, <1>3, <1>6, <3>0, <3>3
      <4>2. s[i] = c[i - Len(taken)] /\ t[i] = c'[i - Len(taken')]
        BY <1>6, <1>7, <3>0, <4>1
      <4>3. c'[i - Len(taken')] = c[(i - Len(taken')) + 1]
        BY <1>2, <4>1
      <4>4. QED
        BY <4>1, <4>2, <4>3
    <3>4. i <= Len(taken) \/ i = Len(taken) + 1 \/ i > Len(taken) + 1
      BY <1>6, <3>0
    <3>5. QED
      BY <3>1, <3>2, <3>3, <3>4
  <2>3. QED
    BY <1>6, <1>7, <2>1, <2>2, SeqEqual
<1>9. LineOK'
  <2>1. Line' = Line
    BY <1>8, <1>n, <1>o
  <2>2. QED
    BY <1>0, <1>1, <2>1 DEF LineOK
<1>10. QED
  BY <1>5, <1>9 DEF DequeInv

\* TryRemoveBack: the last of the line is stolen.
LEMMA BackKeeps ==
    ASSUME DequeInv, NEW x \in Client, TD!TryRemoveBack(x)
    PROVE  DequeInv'
<1>1. /\ c # <<>> /\ c' = SubSeq(c, 1, Len(c) - 1) /\ stolen' = stolen \cup {c[Len(c)]}
      /\ active' = active /\ not_empty' = not_empty /\ added' = added
      /\ taken' = taken /\ told' = told
  BY DEF TD!TryRemoveBack, TD!Front, TD!Last
<1>0. DequeTypes /\ LineOK /\ c \in Seq(Values) /\ taken \in Seq(Values)
  BY DEF DequeInv, DequeTypes
<1>o. PICK s : s = Line
  OBVIOUS
<1>n. PICK t : t = Line'
  OBVIOUS
<1>2. /\ s \in Seq(Values) /\ Len(s) \in Nat \ {0} /\ Len(taken) \in Nat
      /\ Len(c) \in Nat \ {0} /\ Len(s) = Len(taken) + Len(c)
      /\ \A i \in 1 .. Len(taken) + Len(c) :
            s[i] = IF i <= Len(taken) THEN taken[i] ELSE c[i - Len(taken)]
      /\ IsFiniteSet(stolen) /\ Cardinality(stolen) \in Nat /\ added \in Nat
  BY <1>0, <1>1, <1>o, LineIs
<1>3. /\ c' \in Seq(Values) /\ Len(c') = Len(c) - 1
      /\ \A i \in 1 .. Len(c) - 1 : c'[i] = c[i]
  <2>1. \A i \in 1 .. Len(c) - 1 : c[i] \in Values
    BY <1>0, <1>2, ElementOfSeq
  <2>p. Len(c) - 1 \in Nat
    BY <1>2
  <2>2. PICK m \in Nat : m = Len(c) - 1
    BY <2>p
  <2>3. /\ SubSeq(c, 1, m) \in Seq(Values)
        /\ Len(SubSeq(c, 1, m)) = IF 1 <= m THEN m - 1 + 1 ELSE 0
        /\ \A i \in 1 .. m - 1 + 1 : SubSeq(c, 1, m)[i] = c[1 + i - 1]
    BY <2>1, <2>2, SubSeqProperties
  <2>4. QED
    BY <1>1, <2>2, <2>3
<1>4. /\ s[Len(s)] = c[Len(c)] /\ s[Len(s)] \in 1 .. added /\ s[Len(s)] \notin stolen
  <2>1. /\ Len(s) \in 1 .. Len(taken) + Len(c) /\ ~(Len(s) <= Len(taken))
        /\ Len(s) - Len(taken) = Len(c) /\ Len(s) \in 1 .. Len(s)
    BY <1>2
  <2>2. s[Len(s)] = c[Len(c)]
    BY <1>2, <2>1
  <2>3. QED
    BY <1>0, <1>o, <2>1, <2>2 DEF LineOK
<1>5. DequeTypes'
  <2>1. not_empty = {}
    BY <1>0, <1>1 DEF DequeTypes
  <2>2. stolen' \subseteq 1 .. added'
    BY <1>0, <1>1, <1>4 DEF DequeTypes
  <2>3. QED
    BY <1>0, <1>1, <1>3, <2>1, <2>2 DEF DequeTypes
<1>6. /\ Len(t) = Len(taken') + Len(c')
      /\ \A i \in 1 .. Len(taken') + Len(c') :
            t[i] = IF i <= Len(taken') THEN taken'[i] ELSE c'[i - Len(taken')]
  BY <1>0, <1>1, <1>n, <1>3, ConcatProperties DEF Line
<1>7. /\ Len(t) = Len(s) - 1
      /\ \A i \in 1 .. Len(t) : i \in 1 .. Len(s) /\ i < Len(s) /\ t[i] = s[i]
  <2>1. Len(t) = Len(s) - 1
    BY <1>1, <1>2, <1>3, <1>6
  <2>2. ASSUME NEW i \in 1 .. Len(t)
        PROVE  i \in 1 .. Len(s) /\ i < Len(s) /\ t[i] = s[i]
    <3>1. /\ i \in 1 .. Len(s) /\ i < Len(s)
          /\ i \in 1 .. Len(taken) + Len(c) /\ i \in 1 .. Len(taken') + Len(c')
      BY <1>2, <1>6, <2>1
    <3>2. t[i] = IF i <= Len(taken) THEN taken[i] ELSE c'[i - Len(taken)]
      BY <1>1, <1>6, <3>1
    <3>3. i > Len(taken) => c'[i - Len(taken)] = c[i - Len(taken)]
      BY <1>2, <1>3, <3>1
    <3>4. QED
      BY <1>2, <3>1, <3>2, <3>3
  <2>3. QED
    BY <2>1, <2>2
<1>8. LineOK'
  <2>1. /\ \A i \in 1 .. Len(s) : s[i] \in 1 .. added /\ s[i] \notin stolen
        /\ \A i, k \in 1 .. Len(s) : i < k => s[i] < s[k]
        /\ \A e \in 1 .. added : e \in stolen \/ \E i \in 1 .. Len(s) : s[i] = e
        /\ Len(s) + Cardinality(stolen) = added
    BY <1>0, <1>o DEF LineOK
  <2>2. ASSUME NEW i \in 1 .. Len(t)
        PROVE  t[i] \in 1 .. added' /\ t[i] \notin stolen'
    <3>n. Len(s) \in 1 .. Len(s)
      BY <1>2
    <3>i. i \in 1 .. Len(s) /\ i < Len(s) /\ t[i] = s[i]
      BY <1>7
    <3>1. t[i] = s[i] /\ i \in 1 .. Len(s) /\ i < Len(s) /\ Len(s) \in 1 .. Len(s)
      BY <3>n, <3>i
    <3>2. s[i] < s[Len(s)] /\ s[i] \in 1 .. added /\ s[i] \notin stolen
      BY <2>1, <3>1
    <3>3. s[i] # s[Len(s)]
      BY <1>4, <3>2
    <3>4. QED
      BY <1>1, <1>4, <3>1, <3>2, <3>3
  <2>3. \A i, k \in 1 .. Len(t) : i < k => t[i] < t[k]
    BY <1>7, <2>1
  <2>4. ASSUME NEW e \in 1 .. added', e \notin stolen'
        PROVE  \E i \in 1 .. Len(t) : t[i] = e
    <3>1. PICK i \in 1 .. Len(s) : s[i] = e
      BY <1>1, <2>1, <2>4
    <3>2. i # Len(s)
      BY <1>1, <1>4, <2>4, <3>1
    <3>3. i \in 1 .. Len(t)
      BY <1>2, <1>7, <3>2
    <3>4. QED
      BY <1>7, <3>1, <3>3
  <2>5. Len(t) + Cardinality(stolen') = added'
    <3>1. Cardinality(stolen') = Cardinality(stolen) + 1
      BY <1>1, <1>2, <1>4, FS_AddElement
    <3>2. QED
      BY <1>1, <1>2, <1>7, <2>1, <3>1
  <2>6. QED
    BY <1>n, <2>2, <2>3, <2>4, <2>5 DEF LineOK
<1>9. QED
  BY <1>5, <1>8 DEF DequeInv

\* Who waits, is told of the end, closes the deque or wakes up leaves the
\* elements alone.
LEMMA LineAlone ==
    ASSUME DequeInv, UNCHANGED <<c, added, taken, stolen>>,
           active' \in BOOLEAN, not_empty' \subseteq Client, told' \subseteq Client,
           not_empty' # {} => c = <<>> /\ active'
    PROVE  DequeInv'
<1>1. DequeTypes'
  BY DEF DequeInv, DequeTypes
<1>2. LineOK'
  BY DEF DequeInv, LineOK, Line
<1>3. QED
  BY <1>1, <1>2 DEF DequeInv

LEMMA DequeStep ==
    ASSUME DequeInv, [TD!Next]_deque
    PROVE  DequeInv'
<1>0. /\ active \in BOOLEAN /\ not_empty \subseteq Client /\ told \subseteq Client
      /\ not_empty # {} => c = <<>> /\ active
  BY DEF DequeInv, DequeTypes
<1>1. ASSUME NEW x \in Client, TD!RemoveWait(x) PROVE DequeInv'
  BY <1>0, <1>1, LineAlone DEF TD!RemoveWait
<1>2. ASSUME NEW x \in Client, TD!RemoveEnd(x) PROVE DequeInv'
  BY <1>0, <1>2, LineAlone DEF TD!RemoveEnd
<1>3. ASSUME NEW x \in Client, TD!SpuriousWakeup(x) PROVE DequeInv'
  BY <1>0, <1>3, LineAlone DEF TD!SpuriousWakeup
<1>4. CASE TD!CloseQueue
  <2>1. /\ UNCHANGED <<c, added, taken, stolen>> /\ active' = FALSE /\ told' = told
        /\ not_empty' = IF c = <<>> THEN {} ELSE not_empty
    BY <1>4 DEF TD!CloseQueue
  <2>2. not_empty' = {}
    BY <1>0, <2>1
  <2>3. QED
    BY <1>0, <2>1, <2>2, LineAlone
<1>5. CASE UNCHANGED deque
  BY <1>0, <1>5, LineAlone DEF deque
<1>6. QED
  BY <1>1, <1>2, <1>3, <1>4, <1>5, AddKeeps, FrontKeeps, BackKeeps
  DEF TD!Next, TD!Consume, TD!TryRemoveFront

\* The deque's own copies of the library's operators.
LEMMA DequeOperators ==
  /\ TD!Cardinality(stolen) = Cardinality(stolen)
  /\ TD!ToSet(c) = { c[i] : i \in DOMAIN c }
  /\ TD!ToSet(taken) = { taken[i] : i \in DOMAIN taken }
  BY DEF TD!Cardinality, Cardinality, TD!ToSet

LEMMA DequeGives == DequeInv => TD!TypeOK /\ TD!SleepersHaveReason /\ TD!NothingLost
<1> SUFFICES ASSUME DequeInv
             PROVE  TD!TypeOK /\ TD!SleepersHaveReason /\ TD!NothingLost
  OBVIOUS
<1>0. DequeTypes /\ LineOK /\ c \in Seq(Values) /\ taken \in Seq(Values)
  BY DEF DequeInv, DequeTypes
<1>1. TD!TypeOK /\ TD!SleepersHaveReason
  BY <1>0 DEF DequeTypes, Values, TD!TypeOK, TD!SleepersHaveReason
<1>o. PICK s : s = Line
  OBVIOUS
<1>2. /\ s \in Seq(Values) /\ Len(s) \in Nat /\ Len(taken) \in Nat /\ Len(c) \in Nat
      /\ Len(s) = Len(taken) + Len(c)
      /\ \A i \in 1 .. Len(taken) + Len(c) :
            s[i] = IF i <= Len(taken) THEN taken[i] ELSE c[i - Len(taken)]
      /\ Cardinality(stolen) \in Nat
  BY <1>0, <1>o, LineIs
<1>d. DOMAIN c = 1 .. Len(c) /\ DOMAIN taken = 1 .. Len(taken)
  BY <1>0, LenProperties
<1>3. /\ \A i \in 1 .. Len(s) : s[i] \in 1 .. added
      /\ \A i, k \in 1 .. Len(s) : i < k => s[i] < s[k]
      /\ \A e \in 1 .. added : e \in stolen \/ \E i \in 1 .. Len(s) : s[i] = e
      /\ Len(s) + Cardinality(stolen) = added
  BY <1>0, <1>o DEF LineOK
<1>4. /\ \A i \in 1 .. Len(taken) : i \in 1 .. Len(s) /\ s[i] = taken[i]
      /\ \A i \in 1 .. Len(c) : Len(taken) + i \in 1 .. Len(s) /\ s[Len(taken) + i] = c[i]
  <2>1. ASSUME NEW i \in 1 .. Len(taken)
        PROVE  i \in 1 .. Len(s) /\ s[i] = taken[i]
    <3>1. i \in 1 .. Len(s) /\ i \in 1 .. Len(taken) + Len(c) /\ i <= Len(taken)
      BY <1>2
    <3>2. QED
      BY <1>2, <3>1
  <2>2. ASSUME NEW i \in 1 .. Len(c)
        PROVE  Len(taken) + i \in 1 .. Len(s) /\ s[Len(taken) + i] = c[i]
    <3>1. /\ Len(taken) + i \in 1 .. Len(s) /\ Len(taken) + i \in 1 .. Len(taken) + Len(c)
          /\ ~(Len(taken) + i <= Len(taken)) /\ (Len(taken) + i) - Len(taken) = i
      BY <1>2
    <3>2. QED
      BY <1>2, <3>1
  <2>3. QED
    BY <2>1, <2>2
<1>5. TD!ToSet(c) \cup TD!ToSet(taken) \cup stolen = 1 .. added
  <2>1. ASSUME NEW e \in TD!ToSet(c) PROVE e \in 1 .. added
    <3>1. PICK i \in 1 .. Len(c) : e = c[i]
      BY <1>d, <2>1, DequeOperators
    <3>2. QED
      BY <1>3, <1>4, <3>1
  <2>2. ASSUME NEW e \in TD!ToSet(taken) PROVE e \in 1 .. added
    <3>1. PICK i \in 1 .. Len(taken) : e = taken[i]
      BY <1>d, <2>2, DequeOperators
    <3>2. QED
      BY <1>3, <1>4, <3>1
  <2>3. stolen \subseteq 1 .. added
    BY <1>0 DEF DequeTypes
  <2>4. ASSUME NEW e \in 1 .. added, e \notin stolen
        PROVE  e \in TD!ToSet(c) \/ e \in TD!ToSet(taken)
    <3>1. PICK i \in 1 .. Len(s) : s[i] = e
      BY <1>3, <2>4
    <3>2. CASE i <= Len(taken)
      <4>1. i \in 1 .. Len(taken)
        BY <1>2, <3>2
      <4>2. taken[i] = e
        BY <1>4, <3>1, <4>1
      <4>3. QED
        BY <1>d, <4>1, <4>2, DequeOperators
    <3>3. CASE ~(i <= Len(taken))
      <4>1. i - Len(taken) \in 1 .. Len(c) /\ i \in 1 .. Len(taken) + Len(c)
        BY <1>2, <3>3
      <4>2. c[i - Len(taken)] = e
        BY <1>2, <3>1, <3>3, <4>1
      <4>3. QED
        BY <1>d, <4>1, <4>2, DequeOperators
    <3>4. QED
      BY <3>2, <3>3
  <2>5. QED
    BY <2>1, <2>2, <2>3, <2>4
<1>6. Len(c) + Len(taken) + TD!Cardinality(stolen) = added
  <2>1. TD!Cardinality(stolen) = Cardinality(stolen)
    BY DequeOperators
  <2>2. QED
    BY <1>2, <1>3, <2>1
<1>7. \A i, k \in 1 .. Len(taken \o c) : i < k => (taken \o c)[i] < (taken \o c)[k]
  BY <1>3, <1>o DEF Line
<1>8. QED
  BY <1>1, <1>5, <1>6, <1>7 DEF TD!NothingLost

\* No client of the deque sleeps beside an element or a closed deque, and no
\* element is lost, handed out twice or taken from the front before an older
\* one, for any number of clients and elements, whoever takes from which end.
THEOREM DequeKeepsElementsHolds == Spec => []DequeKeepsElements
<1>1. Init => DequeInv
  BY DequeInit DEF Init
<1>2. DequeInv /\ [Next]_vars => DequeInv'
  BY StepOfEach, DequeStep
<1>3. DequeInv => DequeKeepsElements
  BY DequeGives DEF DequeKeepsElements
<1>4. QED
  BY <1>1, <1>2, <1>3, PTL DEF Spec

-----------------------------------------------------------------------------
(* The reduction.  The value pointed at is in use; so is the new value of  *)
(* an update that is about to swap it in, and the old one of an update     *)
(* that is about to free it; and no two of all these are the same.         *)
UpdatePlaces == {"out", "read", "sum", "swap", "free"}
Locals == [at : UpdatePlaces, old : Address \cup {0}, sum : Int, new : Address \cup {0}]

SumTypes ==
  /\ P \in Address /\ allocated \subseteq Address
  /\ heap \in [Address -> Int]
  /\ update \in [Adder -> Locals]
  /\ updates \in [Adder -> 0 .. Updates]
  /\ stale \subseteq Adder

InUse ==
  /\ P \in allocated
  /\ \A t \in Adder :
        /\ update[t].at # "out" => updates[t] < Updates
        /\ update[t].at = "swap" => update[t].new \in allocated \ {P}
        /\ update[t].at = "free" => update[t].old \in allocated \ {P}

NoneShared ==
  \A t \in Adder : \A u \in Adder \ {t} :
     /\ update[t].at = "swap" /\ update[u].at = "swap" => update[u].new # update[t].new
     /\ update[t].at = "swap" /\ update[u].at = "free" => update[u].old # update[t].new
     /\ update[t].at = "free" /\ update[u].at = "free" => update[u].old # update[t].old

SumInv == SumTypes /\ InUse /\ NoneShared

LEMMA SumInit == TR!Init => SumInv
<1> SUFFICES ASSUME TR!Init
             PROVE  SumInv
  OBVIOUS
<1>1. TR!First \in Address
  BY SumAssumption DEF TR!First
<1>2. TR!None \in Locals /\ TR!None.at = "out"
  BY DEF TR!None, Locals, UpdatePlaces
<1>3. SumTypes
  BY <1>1, <1>2, SumAssumption DEF TR!Init, SumTypes
<1>4. \A t \in Adder : update[t].at = "out"
  BY <1>2 DEF TR!Init
<1>5. InUse
  BY <1>4 DEF TR!Init, InUse
<1>6. NoneShared
  BY <1>4 DEF NoneShared
<1>7. QED
  BY <1>3, <1>5, <1>6 DEF SumInv

\* A step of one thread leaves the locals of the others alone.
LEMMA SumStep ==
    ASSUME SumInv, [TR!Next]_sum
    PROVE  SumInv'
<1>0. SumTypes /\ InUse /\ NoneShared /\ Updates \in Nat /\ Amount \in [Adder -> Int]
  BY SumAssumption DEF SumInv
<1>t. \A t \in Adder :
         /\ update[t] \in Locals /\ update[t].at \in UpdatePlaces
         /\ update[t].old \in Address \cup {0} /\ update[t].sum \in Int
         /\ update[t].new \in Address \cup {0}
         /\ updates[t] \in 0 .. Updates
  BY <1>0 DEF SumTypes, Locals
<1>1. ASSUME NEW t \in Adder, TR!ReadPointer(t) PROVE SumInv'
  <2>1. /\ updates[t] < Updates /\ P' = P /\ heap' = heap /\ allocated' = allocated
        /\ updates' = updates /\ stale' = stale \ {t}
        /\ update' = [update EXCEPT ![t] = [update[t] EXCEPT !.at = "read", !.old = P]]
    BY <1>0, <1>1, <1>t DEF TR!ReadPointer, SumTypes, Locals
  <2>2. /\ [update[t] EXCEPT !.at = "read", !.old = P] \in Locals
        /\ [update[t] EXCEPT !.at = "read", !.old = P].at = "read"
    BY <1>0, <1>t DEF SumTypes, Locals, UpdatePlaces
  <2>3. SumTypes'
    BY <1>0, <2>1, <2>2 DEF SumTypes
  <2>4. update'[t].at = "read" /\ \A u \in Adder \ {t} : update'[u] = update[u]
    BY <1>0, <2>1, <2>2 DEF SumTypes
  <2>5. InUse'
    BY <1>0, <2>1, <2>4 DEF InUse
  <2>6. NoneShared'
    BY <1>0, <2>4 DEF NoneShared
  <2>7. QED
    BY <2>3, <2>5, <2>6 DEF SumInv
<1>2. ASSUME NEW t \in Adder, TR!Sum(t) PROVE SumInv'
  <2>1. /\ update[t].at = "sum" \/ update[t].at = "read"
        /\ P' = P /\ heap' = heap /\ allocated' = allocated
        /\ updates' = updates /\ stale' = stale
        /\ update' = [update EXCEPT ![t] = [update[t] EXCEPT !.at = "sum",
                                                             !.sum = heap[P] + Amount[t]]]
    BY <1>0, <1>2, <1>t DEF TR!Sum, SumTypes, Locals
  <2>i. heap[P] \in Int /\ Amount[t] \in Int
    BY <1>0 DEF SumTypes
  <2>j. PICK v \in Int : v = heap[P] + Amount[t]
    BY <2>i
  <2>2. /\ [update[t] EXCEPT !.at = "sum", !.sum = v] \in Locals
        /\ [update[t] EXCEPT !.at = "sum", !.sum = v].at = "sum"
    BY <1>0, <1>t DEF SumTypes, Locals, UpdatePlaces
  <2>3. SumTypes'
    BY <1>0, <2>1, <2>2, <2>j DEF SumTypes
  <2>4. update'[t].at = "sum" /\ \A u \in Adder \ {t} : update'[u] = update[u]
    BY <1>0, <2>1, <2>2, <2>j DEF SumTypes
  <2>5. InUse'
    <3>1. update[t].at # "out"
      BY <2>1
    <3>2. QED
      BY <1>0, <2>1, <2>4, <3>1 DEF InUse
  <2>6. NoneShared'
    BY <1>0, <2>4 DEF NoneShared
  <2>7. QED
    BY <2>3, <2>5, <2>6 DEF SumInv
<1>3. ASSUME NEW t \in Adder, TR!Allocate(t) PROVE SumInv'
  <2>1. PICK a \in Address \ allocated :
           /\ update[t].at = "sum" /\ P' = P /\ allocated' = allocated \cup {a}
           /\ heap' = [heap EXCEPT ![a] = update[t].sum]
           /\ updates' = updates /\ stale' = stale
           /\ update' = [update EXCEPT ![t] = [update[t] EXCEPT !.at = "swap", !.new = a]]
    BY <1>0, <1>3, <1>t DEF TR!Allocate, SumTypes, Locals
  <2>2. /\ [update[t] EXCEPT !.at = "swap", !.new = a] \in Locals
        /\ [update[t] EXCEPT !.at = "swap", !.new = a].at = "swap"
        /\ [update[t] EXCEPT !.at = "swap", !.new = a].new = a
    BY <1>t, <2>1 DEF Locals, UpdatePlaces
  <2>3. SumTypes'
    BY <1>0, <1>t, <2>1, <2>2 DEF SumTypes
  <2>4. /\ update'[t].at = "swap" /\ update'[t].new = a
        /\ \A u \in Adder \ {t} : update'[u] = update[u]
    BY <1>0, <2>1, <2>2 DEF SumTypes
  <2>5. InUse'
    <3>1. a # P /\ P' \in allocated' /\ update[t].at # "out"
      BY <1>0, <2>1 DEF InUse
    <3>2. QED
      BY <1>0, <2>1, <2>4, <3>1 DEF InUse
  <2>6. NoneShared'
    <3>1. \A u \in Adder : /\ update[u].at = "swap" => update[u].new # a
                           /\ update[u].at = "free" => update[u].old # a
      BY <1>0, <2>1 DEF InUse
    <3>2. QED
      BY <1>0, <2>4, <3>1 DEF NoneShared
  <2>7. QED
    BY <2>3, <2>5, <2>6 DEF SumInv
<1>4. ASSUME NEW t \in Adder, TR!Swap(t), TR!Unchanged(t) PROVE SumInv'
  <2>1. /\ update[t].at = "swap" /\ P' = update[t].new /\ P = update[t].old
        /\ heap' = heap /\ allocated' = allocated /\ updates' = updates /\ stale' = stale
        /\ update' = [update EXCEPT ![t] = [update[t] EXCEPT !.at = "free"]]
    BY <1>0, <1>4, <1>t DEF TR!Swap, TR!Unchanged, SumTypes, Locals
  <2>2. /\ [update[t] EXCEPT !.at = "free"] \in Locals
        /\ [update[t] EXCEPT !.at = "free"].at = "free"
        /\ [update[t] EXCEPT !.at = "free"].old = P
    BY <1>t, <2>1 DEF Locals, UpdatePlaces
  <2>n. P' \in allocated \ {P}
    BY <1>0, <2>1 DEF InUse
  <2>3. SumTypes'
    BY <1>0, <2>1, <2>2, <2>n DEF SumTypes
  <2>4. /\ update'[t].at = "free" /\ update'[t].old = P
        /\ \A u \in Adder \ {t} : update'[u] = update[u]
    BY <1>0, <2>1, <2>2 DEF SumTypes
  <2>o. \A u \in Adder \ {t} : /\ update[u].at = "swap" => update[u].new # P'
                               /\ update[u].at = "free" => update[u].old # P'
    BY <1>0, <2>1 DEF NoneShared
  <2>5. InUse'
    BY <1>0, <2>1, <2>4, <2>n, <2>o DEF InUse
  <2>6. NoneShared'
    <3>1. \A u \in Adder : /\ update[u].at = "swap" => update[u].new # P
                           /\ update[u].at = "free" => update[u].old # P
      BY <1>0 DEF InUse
    <3>2. QED
      BY <1>0, <2>4, <3>1 DEF NoneShared
  <2>7. QED
    BY <2>3, <2>5, <2>6 DEF SumInv
<1>5. ASSUME NEW t \in Adder, TR!Swap(t), ~TR!Unchanged(t) PROVE SumInv'
  <2>1. /\ P' = P /\ heap' = heap /\ allocated' = allocated /\ updates' = updates
        /\ stale' = stale /\ update' = [update EXCEPT ![t] = TR!None]
    BY <1>5 DEF TR!Swap
  <2>2. TR!None \in Locals /\ TR!None.at = "out"
    BY DEF TR!None, Locals, UpdatePlaces
  <2>3. SumTypes'
    BY <1>0, <2>1, <2>2 DEF SumTypes
  <2>4. update'[t].at = "out" /\ \A u \in Adder \ {t} : update'[u] = update[u]
    BY <1>0, <2>1, <2>2 DEF SumTypes
  <2>5. InUse'
    BY <1>0, <2>1, <2>4 DEF InUse
  <2>6. NoneShared'
    BY <1>0, <2>4 DEF NoneShared
  <2>7. QED
    BY <2>3, <2>5, <2>6 DEF SumInv
<1>6. ASSUME NEW t \in Adder, TR!Free(t) PROVE SumInv'
  <2>1. /\ update[t].at = "free" /\ P' = P /\ heap' = heap
        /\ allocated' = allocated \ {update[t].old}
        /\ updates' = [updates EXCEPT ![t] = @ + 1]
        /\ stale' \subseteq Adder /\ update' = [update EXCEPT ![t] = TR!None]
    BY <1>0, <1>6 DEF TR!Free, SumTypes
  <2>2. TR!None \in Locals /\ TR!None.at = "out"
    BY DEF TR!None, Locals, UpdatePlaces
  <2>u. updates[t] + 1 \in 0 .. Updates
    BY <1>0, <1>t, <2>1 DEF InUse
  <2>3. SumTypes'
    BY <1>0, <2>1, <2>2, <2>u DEF SumTypes
  <2>4. /\ update'[t].at = "out" /\ \A u \in Adder \ {t} : update'[u] = update[u]
        /\ \A u \in Adder \ {t} : updates'[u] = updates[u]
    BY <1>0, <2>1, <2>2 DEF SumTypes
  <2>5. InUse'
    <3>1. P # update[t].old
      BY <1>0, <2>1 DEF InUse
    <3>2. \A u \in Adder \ {t} : /\ update[u].at = "swap" => update[u].new # update[t].old
                                 /\ update[u].at = "free" => update[u].old # update[t].old
      BY <1>0, <2>1 DEF NoneShared
    <3>3. QED
      BY <1>0, <2>1, <2>4, <3>1, <3>2 DEF InUse
  <2>6. NoneShared'
    BY <1>0, <2>4 DEF NoneShared
  <2>7. QED
    BY <2>3, <2>5, <2>6 DEF SumInv
<1>7. CASE UNCHANGED sum
  BY <1>7 DEF sum, SumInv, SumTypes, InUse, NoneShared
<1>8. QED
  BY <1>1, <1>2, <1>3, <1>4, <1>5, <1>6, <1>7 DEF TR!Next, TR!Step

LEMMA SumTypeOK == SumInv => TR!TypeOK
  BY DEF SumInv, SumTypes, InUse, TR!TypeOK

\* The state of every tool keeps to its types, whichever tool runs: the counts of
\* tasks, elements, posts and gets stay between zero and their bounds.  The two
\* counters the code lets fall below zero, JobCounter's jobs and OSynchP's
\* readers, fall by no more than the workers and readers that can be late.  The
\* pointer of the reduction points at memory in use, also after an address was
\* used again under a thread about to swap.
THEOREM TypeCorrect == Spec => []TypeOK
<1> DEFINE Others == /\ tool \in Tools /\ PipeInv /\ JobsInv /\ SynchInv /\ OSynchInv
                     /\ DequeInv /\ SumInv
<1>1. Init => Others
  BY PipeInit, JobsInit, SynchInit, OSynchInit, DequeInit, SumInit DEF Init
<1>2. Others /\ [Next]_vars => Others'
  <2>1. [Next]_vars => tool' = tool
    BY DEF Next, vars
  <2>2. QED
    BY <2>1, StepOfEach, PipeStep, JobsStep, SynchStep, OSynchStep, DequeStep, SumStep
<1>3. Others /\ RB!TypeOK => TypeOK
  <2>1. PipeInv => PB!TypeOK
    BY DEF PipeInv
  <2>2. QED
    BY <2>1, JobsTypeOK, SynchGives, OSynchGives, DequeGives, SumTypeOK DEF TypeOK
<1>4. Spec => []RB!TypeOK
  BY RingTypeCorrect
<1>5. QED
  BY <1>1, <1>2, <1>3, <1>4, PTL DEF Spec
-----------------------------------------------------------------------------
(* The sum of the reduction.  FiniteSetsExt defines the sum over a set by a *)
(* function on its subsets, which the definition determines: it exists,    *)
(* and there is only one.                                                  *)
Chosen(S) == CHOOSE t \in S : TRUE

Sums(h, e) ==
  /\ h = [S \in SUBSET Adder |-> h[S]]
  /\ h[{}] = 0
  /\ \A S \in SUBSET Adder : S # {} => h[S] = Amount[Chosen(S)] * e[Chosen(S)] + h[S \ {Chosen(S)}]

SumIs(v, e) == \E h \in [SUBSET Adder -> Int] : Sums(h, e) /\ v = h[Adder]

\* How many additions of each thread are in the value.
Effects == [t \in Adder |-> TR!InEffect(t)]

\* Nobody has added anything yet.
LEMMA NothingAdded == SumIs(0, [t \in Adder |-> 0])
<1> DEFINE h == [S \in SUBSET Adder |-> 0]
<1>1. h \in [SUBSET Adder -> Int] /\ h[{}] = 0 /\ h[Adder] = 0
  OBVIOUS
<1>2. ASSUME NEW S \in SUBSET Adder, S # {}
      PROVE  h[S] = Amount[Chosen(S)] * [t \in Adder |-> 0][Chosen(S)] + h[S \ {Chosen(S)}]
  <2>1. Chosen(S) \in Adder
    BY <1>2 DEF Chosen
  <2>2. Amount[Chosen(S)] \in Int
    BY <2>1, SumAssumption
  <2>3. PICK a \in Int : a = Amount[Chosen(S)]
    BY <2>2
  <2>4. [t \in Adder |-> 0][Chosen(S)] = 0 /\ h[S] = 0 /\ h[S \ {Chosen(S)}] = 0
    BY <2>1
  <2>5. a * 0 + 0 = 0
    OBVIOUS
  <2>6. QED
    BY <2>3, <2>4, <2>5
<1>3. QED
  <2> HIDE DEF h
  <2>1. Sums(h, [t \in Adder |-> 0])
    BY <1>1, <1>2 DEF Sums
  <2>2. QED
    BY <1>1, <2>1 DEF SumIs

\* One addition more of a thread makes the sum larger by its amount.
LEMMA OneMoreAdded ==
    ASSUME NEW e \in [Adder -> Int], NEW d, NEW t \in Adder, NEW v, SumIs(v, e),
           d = [e EXCEPT ![t] = e[t] + 1]
    PROVE  SumIs(v + Amount[t], d)
<1>1. PICK h \in [SUBSET Adder -> Int] : Sums(h, e) /\ v = h[Adder]
  BY DEF SumIs
<1>a. Amount \in [Adder -> Int] /\ Amount[t] \in Int
  BY SumAssumption
<1> DEFINE g == [S \in SUBSET Adder |-> h[S] + (IF t \in S THEN Amount[t] ELSE 0)]
<1>2. /\ h \in [SUBSET Adder -> Int] /\ h[{}] = 0
      /\ \A S \in SUBSET Adder : S # {} =>
            h[S] = Amount[Chosen(S)] * e[Chosen(S)] + h[S \ {Chosen(S)}]
  BY <1>1 DEF Sums
<1>3. /\ g \in [SUBSET Adder -> Int] /\ g = [S \in SUBSET Adder |-> g[S]]
      /\ \A S \in SUBSET Adder : g[S] = h[S] + (IF t \in S THEN Amount[t] ELSE 0)
  <2>1. ASSUME NEW S \in SUBSET Adder
        PROVE  h[S] + (IF t \in S THEN Amount[t] ELSE 0) \in Int
    <3>1. h[S] \in Int
      BY <1>1
    <3>2. QED
      BY <1>a, <3>1
  <2>2. g = [S \in SUBSET Adder |-> g[S]]
    OBVIOUS
  <2>3. QED
    BY <2>1, <2>2
<1>4. g[{}] = 0 /\ g[Adder] = v + Amount[t]
  BY <1>1, <1>2, <1>3
<1>5. ASSUME NEW S \in SUBSET Adder, S # {}
      PROVE  g[S] = Amount[Chosen(S)] * d[Chosen(S)] + g[S \ {Chosen(S)}]
  <2>1. PICK x : x = Chosen(S)
    OBVIOUS
  <2>2. x \in S /\ x \in Adder /\ S \ {x} \in SUBSET Adder
    BY <1>5, <2>1 DEF Chosen
  <2>3. PICK r \in Int, w \in Int, a \in Int, n \in Int :
           r = h[S] /\ w = h[S \ {x}] /\ a = Amount[x] /\ n = e[x]
    BY <1>2, <1>a, <2>2
  <2>4. r = a * n + w
    BY <1>2, <1>5, <2>1, <2>3
  <2>5. g[S] = r + (IF t \in S THEN Amount[t] ELSE 0)
        /\ g[S \ {x}] = w + (IF t \in S \ {x} THEN Amount[t] ELSE 0)
    BY <1>3, <2>2, <2>3
  <2>6. CASE x = t
    <3>1. d[x] = n + 1 /\ g[S] = r + a /\ g[S \ {x}] = w + 0
      BY <2>2, <2>3, <2>5, <2>6
    <3>2. r + a = a * (n + 1) + (w + 0)
      BY <2>4
    <3>3. g[S] = Amount[x] * d[x] + g[S \ {x}]
      BY <2>3, <3>1, <3>2
    <3>4. QED
      BY <2>1, <3>3
  <2>7. CASE x # t
    <3>1. PICK b \in Int : b = IF t \in S THEN Amount[t] ELSE 0
      BY <1>a
    <3>2. d[x] = n /\ g[S] = r + b /\ g[S \ {x}] = w + b
      BY <2>2, <2>3, <2>5, <2>7, <3>1
    <3>3. r + b = a * n + (w + b)
      BY <2>4
    <3>4. g[S] = Amount[x] * d[x] + g[S \ {x}]
      BY <2>3, <3>2, <3>3
    <3>5. QED
      BY <2>1, <3>4
  <2>8. QED
    BY <2>6, <2>7
<1>6. QED
  <2> HIDE DEF g
  <2>1. Sums(g, d)
    BY <1>3, <1>4, <1>5 DEF Sums
  <2>2. QED
    BY <1>3, <1>4, <2>1 DEF SumIs

\* A set of natural numbers has a smallest one.
LEMMA SmallestNumber ==
    ASSUME NEW T, T \subseteq Nat, T # {}
    PROVE  \E n \in T : \A m \in T : n <= m
<1>1. PICK n \in T : \A m \in T : <<m, n>> \notin OpToRel(<, Nat)
  BY NatLessThanWellFounded, WFMin
<1>2. \A m \in T : ~(m < n)
  BY <1>1 DEF OpToRel
<1>3. QED
  BY <1>2

\* There is only one sum: two would differ on a smallest set.
LEMMA OneSum ==
    ASSUME NEW e, NEW g, NEW h, Sums(g, e), Sums(h, e)
    PROVE  g = h
<1> DEFINE Wrong == {S \in SUBSET Adder : g[S] # h[S]}
           Sizes == {Cardinality(S) : S \in Wrong}
<1>1. /\ g = [S \in SUBSET Adder |-> g[S]] /\ h = [S \in SUBSET Adder |-> h[S]] /\ g[{}] = h[{}]
      /\ \A S \in SUBSET Adder : S # {} =>
            /\ g[S] = Amount[Chosen(S)] * e[Chosen(S)] + g[S \ {Chosen(S)}]
            /\ h[S] = Amount[Chosen(S)] * e[Chosen(S)] + h[S \ {Chosen(S)}]
  BY DEF Sums
<1>2. ASSUME NEW S \in SUBSET Adder PROVE IsFiniteSet(S) /\ Cardinality(S) \in Nat
  BY FS_Subset, FS_CardinalityType, SumAssumption
<1>3. Wrong = {}
  <2>1. SUFFICES ASSUME Wrong # {} PROVE FALSE
    OBVIOUS
  <2>2. Sizes \subseteq Nat /\ Sizes # {}
    BY <1>2, <2>1
  <2>3. PICK n \in Sizes : \A m \in Sizes : n <= m
    BY <2>2, SmallestNumber
  <2>4. PICK S \in Wrong : n = Cardinality(S)
    BY <2>3
  <2>5. S \in SUBSET Adder /\ g[S] # h[S] /\ S # {}
    BY <1>1, <2>4
  <2>6. PICK x : x = Chosen(S)
    OBVIOUS
  <2>7. x \in S /\ S \ {x} \in SUBSET Adder
    BY <2>5, <2>6 DEF Chosen
  <2>8. Cardinality(S \ {x}) = n - 1 /\ n \in Nat
    BY <1>2, <2>4, <2>5, <2>7, FS_RemoveElement
  <2>9. g[S \ {x}] # h[S \ {x}]
    BY <1>1, <2>5, <2>6
  <2>10. n - 1 \in Sizes
    BY <2>7, <2>8, <2>9
  <2>11. n <= n - 1
    BY <2>3, <2>10
  <2>12. QED
    BY <2>8, <2>11
<1>4. \A S \in SUBSET Adder : g[S] = h[S]
  BY <1>3
<1>5. QED
  <2> HIDE DEF Wrong, Sizes
  <2>1. [S \in SUBSET Adder |-> g[S]] = [S \in SUBSET Adder |-> h[S]]
    BY <1>4
  <2>2. QED
    BY <1>1, <2>1

\* What the property calls the sum is this one.
LEMMA SumIsTheSum ==
    ASSUME NEW v, SumIs(v, Effects)
    PROVE  v = TR!MapThenSumSet(LAMBDA t : Amount[t] * TR!InEffect(t), Adder)
<1> DEFINE G(h) == h = [S \in SUBSET Adder |->
                          IF S = {} THEN 0
                          ELSE Amount[Chosen(S)] * TR!InEffect(Chosen(S)) + h[S \ {Chosen(S)}]]
<1>1. TR!MapThenSumSet(LAMBDA t : Amount[t] * TR!InEffect(t), Adder) = (CHOOSE h : G(h))[Adder]
  BY DEF TR!MapThenSumSet, TR!MapThenFoldSet, Chosen
<1>2. ASSUME NEW S \in SUBSET Adder, S # {}
      PROVE  Effects[Chosen(S)] = TR!InEffect(Chosen(S))
  BY <1>2 DEF Chosen, Effects
<1>3. PICK h \in [SUBSET Adder -> Int] : Sums(h, Effects) /\ v = h[Adder]
  BY DEF SumIs
<1>4. G(h)
  <2>1. /\ h = [S \in SUBSET Adder |-> h[S]] /\ h[{}] = 0
        /\ \A S \in SUBSET Adder : S # {} =>
              h[S] = Amount[Chosen(S)] * TR!InEffect(Chosen(S)) + h[S \ {Chosen(S)}]
    BY <1>2, <1>3 DEF Sums
  <2>2. \A S \in SUBSET Adder :
           h[S] = IF S = {} THEN 0
                  ELSE Amount[Chosen(S)] * TR!InEffect(Chosen(S)) + h[S \ {Chosen(S)}]
    BY <2>1
  <2>3. QED
    BY <2>1, <2>2
<1>5. PICK g : g = (CHOOSE f : G(f))
  OBVIOUS
<1>6. G(g)
  <2> HIDE DEF G
  <2>1. QED
    BY <1>4, <1>5
<1>7. Sums(g, Effects)
  <2>0. g = [S \in SUBSET Adder |-> g[S]]
    BY <1>6
  <2>1. \A S \in SUBSET Adder :
           g[S] = IF S = {} THEN 0
                  ELSE Amount[Chosen(S)] * TR!InEffect(Chosen(S)) + g[S \ {Chosen(S)}]
    BY <1>6
  <2>2. QED
    BY <1>2, <2>0, <2>1 DEF Sums
<1>8. QED
  BY <1>1, <1>3, <1>5, <1>7, OneSum

(* What a thread that is not stale has in hand: its old pointer is the     *)
(* current one, or one that is about to be freed; and what it computed     *)
(* since is one amount more than the current value.  An allocated value is *)
(* the one that was computed.  And the value is the sum.                   *)
UnderWay == {"read", "sum", "swap"}

Doomed == { update[u].old : u \in { v \in Adder : update[v].at = "free" } }

Fresh ==
  \A t \in Adder \ stale :
     /\ update[t].at \in UnderWay => P = update[t].old \/ update[t].old \in Doomed
     /\ update[t].at \in {"sum", "swap"} /\ P = update[t].old => update[t].sum = heap[P] + Amount[t]

Written == \A t \in Adder : update[t].at = "swap" => heap[update[t].new] = update[t].sum

Exact == ~confused => SumIs(heap[P], Effects)

ExactInv == SumInv /\ Fresh /\ Written /\ Exact

\* The reduction begins with 0.
LEMMA ExactInit == TR!Init => ExactInv
<1> SUFFICES ASSUME TR!Init
             PROVE  ExactInv
  OBVIOUS
<1>1. SumInv
  BY SumInit
<1>2. \A t \in Adder : update[t].at = "out" /\ updates[t] = 0
  BY DEF TR!Init, TR!None
<1>3. Fresh /\ Written
  BY <1>2 DEF Fresh, Written, UnderWay
<1>4. heap[P] = 0
  BY SumAssumption DEF TR!Init, TR!First
<1>5. Effects = [t \in Adder |-> 0]
  BY <1>2 DEF Effects, TR!InEffect
<1>6. Exact
  BY <1>4, <1>5, NothingAdded DEF Exact
<1>7. QED
  BY <1>1, <1>3, <1>6 DEF ExactInv

\* What one thread does to its own locals leaves the additions in effect as
\* they are, unless it swaps or frees.
LEMMA SameEffects ==
    ASSUME NEW t \in Adder, \A u \in Adder \ {t} : update'[u] = update[u],
           updates' = updates, update[t].at # "free", update'[t].at # "free"
    PROVE  Effects' = Effects
<1>1. \A u \in Adder : TR!InEffect(u)' = TR!InEffect(u)
  BY DEF TR!InEffect
<1>2. QED
  BY <1>1 DEF Effects

\* Whoever is about to free an address goes on to be, as long as its locals
\* stay the same.
LEMMA StillDoomed ==
    ASSUME NEW t \in Adder, \A u \in Adder \ {t} : update'[u] = update[u],
           update[t].at # "free"
    PROVE  Doomed \subseteq Doomed'
  BY DEF Doomed

\* A thread that has read the pointer, or gives up, has computed nothing.
LEMMA ExactRead ==
    ASSUME ExactInv, NEW t \in Adder, TR!ReadPointer(t)
    PROVE  (Fresh /\ Written /\ Exact)'
<1>0. SumTypes /\ Fresh /\ Written /\ Exact
  BY DEF ExactInv, SumInv
<1>1. /\ update[t].at = "out" /\ P' = P /\ heap' = heap /\ updates' = updates
      /\ stale' = stale \ {t} /\ confused' = confused
      /\ update'[t].at = "read" /\ update'[t].old = P
      /\ \A u \in Adder \ {t} : update'[u] = update[u]
  BY <1>0 DEF TR!ReadPointer, SumTypes, Locals
<1>2. Doomed \subseteq Doomed'
  BY <1>1, StillDoomed
<1>3. Fresh'
  <2>1. ASSUME NEW u \in (Adder \ stale)'
        PROVE  /\ (update[u].at \in UnderWay => P = update[u].old \/ update[u].old \in Doomed)'
               /\ (update[u].at \in {"sum", "swap"} /\ P = update[u].old
                     => update[u].sum = heap[P] + Amount[u])'
    <3>1. CASE u = t
      BY <1>1, <3>1
    <3>2. CASE u # t
      <4>1. u \in Adder \ stale /\ update'[u] = update[u]
        BY <1>1, <2>1, <3>2
      <4>2. update[u].old \in Doomed => update'[u].old \in Doomed'
        BY <1>2, <4>1
      <4>3. QED
        BY <1>0, <1>1, <4>1, <4>2 DEF Fresh
    <3>3. QED
      BY <3>1, <3>2
  <2>2. QED
    BY <2>1 DEF Fresh
<1>4. Written'
  BY <1>0, <1>1 DEF Written
<1>5. Exact'
  <2>1. Effects' = Effects
    BY <1>1, SameEffects
  <2>2. QED
    BY <1>0, <1>1, <2>1 DEF Exact, SumIs
<1>6. QED
  BY <1>3, <1>4, <1>5

\* The sum is computed from the value that is current, which need not be the
\* one at the old pointer.
LEMMA ExactSum ==
    ASSUME ExactInv, NEW t \in Adder, TR!Sum(t)
    PROVE  (Fresh /\ Written /\ Exact)'
<1>0. SumTypes /\ Fresh /\ Written /\ Exact
  BY DEF ExactInv, SumInv
<1>1. /\ update[t].at = "read" /\ P' = P /\ heap' = heap /\ updates' = updates
      /\ stale' = stale /\ confused' = confused
      /\ update'[t].at = "sum" /\ update'[t].old = update[t].old
      /\ update'[t].sum = heap[P] + Amount[t]
      /\ \A u \in Adder \ {t} : update'[u] = update[u]
  BY <1>0 DEF TR!Sum, SumTypes, Locals
<1>2. Doomed \subseteq Doomed'
  BY <1>1, StillDoomed
<1>3. Fresh'
  <2>1. ASSUME NEW u \in (Adder \ stale)'
        PROVE  /\ (update[u].at \in UnderWay => P = update[u].old \/ update[u].old \in Doomed)'
               /\ (update[u].at \in {"sum", "swap"} /\ P = update[u].old
                     => update[u].sum = heap[P] + Amount[u])'
    <3>0. u \in Adder \ stale /\ update'[u].old = update[u].old
      BY <1>1, <2>1
    <3>1. update[u].old \in Doomed => update'[u].old \in Doomed'
      BY <1>2, <3>0
    <3>2. CASE u = t
      BY <1>0, <1>1, <3>0, <3>1, <3>2 DEF Fresh, UnderWay
    <3>3. CASE u # t
      BY <1>0, <1>1, <3>0, <3>1, <3>3 DEF Fresh
    <3>4. QED
      BY <3>2, <3>3
  <2>2. QED
    BY <2>1 DEF Fresh
<1>4. Written'
  BY <1>0, <1>1 DEF Written
<1>5. Exact'
  <2>1. Effects' = Effects
    BY <1>1, SameEffects
  <2>2. QED
    BY <1>0, <1>1, <2>1 DEF Exact, SumIs
<1>6. QED
  BY <1>3, <1>4, <1>5

\* A new value goes where nobody's value is.
LEMMA ExactAllocate ==
    ASSUME ExactInv, NEW t \in Adder, TR!Allocate(t)
    PROVE  (Fresh /\ Written /\ Exact)'
<1>0. SumTypes /\ InUse /\ Fresh /\ Written /\ Exact
  BY DEF ExactInv, SumInv
<1>1. PICK a \in Address \ allocated :
      /\ update[t].at = "sum" /\ P' = P /\ heap' = [heap EXCEPT ![a] = update[t].sum]
      /\ updates' = updates /\ stale' = stale /\ confused' = confused
      /\ update'[t].at = "swap" /\ update'[t].old = update[t].old
      /\ update'[t].sum = update[t].sum /\ update'[t].new = a
      /\ \A u \in Adder \ {t} : update'[u] = update[u]
  <2>1. update[t] \in Locals
    BY <1>0 DEF SumTypes
  <2>2. PICK a \in Address \ allocated :
           /\ update[t].at = "sum" /\ P' = P /\ heap' = [heap EXCEPT ![a] = update[t].sum]
           /\ updates' = updates /\ stale' = stale /\ confused' = confused
           /\ update' = [update EXCEPT ![t] = [update[t] EXCEPT !.at = "swap", !.new = a]]
    BY <1>0, <2>1 DEF TR!Allocate, SumTypes, Locals
  <2>3. /\ update'[t] = [update[t] EXCEPT !.at = "swap", !.new = a]
        /\ \A u \in Adder \ {t} : update'[u] = update[u]
    BY <1>0, <2>2 DEF SumTypes
  <2>4. /\ update'[t].at = "swap" /\ update'[t].old = update[t].old
        /\ update'[t].sum = update[t].sum /\ update'[t].new = a
    BY <2>1, <2>3 DEF Locals
  <2>5. QED
    BY <2>2, <2>3, <2>4
<1>2. Doomed \subseteq Doomed'
  BY <1>1, StillDoomed
<1>h. /\ heap'[a] = update[t].sum /\ heap'[P'] = heap[P]
      /\ \A u \in Adder : update[u].at = "swap" => heap'[update[u].new] = heap[update[u].new]
  <2>1. a \in DOMAIN heap /\ \A b \in Address \ {a} : heap'[b] = heap[b]
    BY <1>0, <1>1 DEF SumTypes
  <2>2. P \in Address \ {a}
    BY <1>0, <1>1 DEF SumTypes, InUse
  <2>3. \A u \in Adder : update[u].at = "swap" => update[u].new \in Address \ {a}
    BY <1>0, <1>1 DEF SumTypes, InUse
  <2>4. QED
    BY <1>1, <2>1, <2>2, <2>3
<1>3. Fresh'
  <2>1. ASSUME NEW u \in (Adder \ stale)'
        PROVE  /\ (update[u].at \in UnderWay => P = update[u].old \/ update[u].old \in Doomed)'
               /\ (update[u].at \in {"sum", "swap"} /\ P = update[u].old
                     => update[u].sum = heap[P] + Amount[u])'
    <3>0. u \in Adder \ stale /\ update'[u].old = update[u].old /\ update'[u].sum = update[u].sum
      BY <1>1, <2>1
    <3>1. update[u].old \in Doomed => update'[u].old \in Doomed'
      BY <1>2, <3>0
    <3>2. CASE u = t
      BY <1>0, <1>1, <1>h, <3>0, <3>1, <3>2 DEF Fresh, UnderWay
    <3>3. CASE u # t
      BY <1>0, <1>1, <1>h, <3>0, <3>1, <3>3 DEF Fresh
    <3>4. QED
      BY <3>2, <3>3
  <2>2. QED
    BY <2>1 DEF Fresh
<1>4. Written'
  <2>1. ASSUME NEW u \in Adder, update'[u].at = "swap"
        PROVE  heap'[update'[u].new] = update'[u].sum
    <3>1. CASE u = t
      BY <1>1, <1>h, <3>1
    <3>2. CASE u # t
      BY <1>0, <1>1, <1>h, <2>1, <3>2 DEF Written
    <3>3. QED
      BY <3>1, <3>2
  <2>2. QED
    BY <2>1 DEF Written
<1>5. Exact'
  <2>1. Effects' = Effects
    BY <1>1, SameEffects
  <2>2. QED
    BY <1>0, <1>1, <1>h, <2>1 DEF Exact, SumIs
<1>6. QED
  BY <1>3, <1>4, <1>5

\* A swap that succeeds: the others' old pointer, if it was the current one, is
\* about to be freed, and the new one is nobody's.  The new value is one amount
\* more than the one it replaces, unless the thread was stale.
LEMMA ExactSwap ==
    ASSUME ExactInv, NEW t \in Adder, TR!Swap(t), TR!Unchanged(t)
    PROVE  (Fresh /\ Written /\ Exact)'
<1>0. SumTypes /\ InUse /\ NoneShared /\ Fresh /\ Written /\ Exact
  BY DEF ExactInv, SumInv
<1>1. /\ update[t].at = "swap" /\ P = update[t].old /\ P' = update[t].new /\ heap' = heap
      /\ updates' = updates /\ stale' = stale /\ confused' = (confused \/ t \in stale)
      /\ update'[t].at = "free" /\ update'[t].old = P
      /\ \A u \in Adder \ {t} : update'[u] = update[u]
  BY <1>0 DEF TR!Swap, TR!Unchanged, SumTypes, Locals
<1>2. P \in Doomed' /\ Doomed \subseteq Doomed'
  <2>1. Doomed \subseteq Doomed'
    BY <1>1, StillDoomed
  <2>2. update'[t].old \in Doomed'
    BY <1>1 DEF Doomed
  <2>3. QED
    BY <1>1, <2>1, <2>2
<1>3. Fresh'
  <2>1. ASSUME NEW u \in (Adder \ stale)'
        PROVE  /\ (update[u].at \in UnderWay => P = update[u].old \/ update[u].old \in Doomed)'
               /\ (update[u].at \in {"sum", "swap"} /\ P = update[u].old
                     => update[u].sum = heap[P] + Amount[u])'
    <3>0. u \in Adder \ stale
      BY <1>1, <2>1
    <3>1. CASE u = t
      BY <1>1, <3>1 DEF UnderWay
    <3>2. CASE u # t
      <4>1. update'[u] = update[u]
        BY <1>1, <3>0, <3>2
      <4>2. update[u].at \in UnderWay => update'[u].old \in Doomed'
        BY <1>0, <1>2, <3>0, <4>1 DEF Fresh
      <4>3. update[u].at \in {"sum", "swap"} => P' # update[u].old
        BY <1>0, <1>1, <3>0 DEF Fresh, Doomed, InUse, NoneShared, UnderWay
      <4>4. QED
        BY <4>1, <4>2, <4>3
    <3>3. QED
      BY <3>1, <3>2
  <2>2. QED
    BY <2>1 DEF Fresh
<1>4. Written'
  BY <1>0, <1>1 DEF Written
<1>5. Exact'
  <2>1. SUFFICES ASSUME ~confused' PROVE SumIs(heap[P], Effects)'
    BY DEF Exact
  <2>2. ~confused /\ t \in Adder \ stale
    BY <1>1, <2>1
  <2>3. heap'[P'] = heap[P] + Amount[t]
    <3>1. heap[P'] = update[t].sum
      BY <1>0, <1>1 DEF Written
    <3>2. update[t].sum = heap[P] + Amount[t]
      BY <1>0, <1>1, <2>2 DEF Fresh
    <3>3. QED
      BY <1>1, <3>1, <3>2
  <2>4. SumIs(heap[P], Effects)
    BY <1>0, <2>2 DEF Exact
  <2>5. PICK e, d : e = Effects /\ d = Effects'
    OBVIOUS
  <2>6. \A u \in Adder : TR!InEffect(u) \in Int
    BY <1>0 DEF TR!InEffect, SumTypes
  <2>7. e \in [Adder -> Int] /\ e[t] = updates[t] + 0
    BY <1>1, <2>5, <2>6 DEF Effects, TR!InEffect
  <2>8. d = [e EXCEPT ![t] = e[t] + 1]
    <3>1. d = [u \in Adder |-> TR!InEffect(u)']
      BY <2>5 DEF Effects
    <3>2. TR!InEffect(t)' = e[t] + 1
      BY <1>0, <1>1, <2>7 DEF TR!InEffect, SumTypes
    <3>3. \A u \in Adder \ {t} : TR!InEffect(u)' = e[u]
      BY <1>1, <2>5 DEF TR!InEffect, Effects
    <3>4. QED
      BY <2>7, <3>1, <3>2, <3>3
  <2>9. SumIs(heap[P] + Amount[t], d)
    BY <2>4, <2>5, <2>7, <2>8, OneMoreAdded
  <2>10. QED
    BY <2>3, <2>5, <2>9 DEF SumIs
<1>6. QED
  BY <1>3, <1>4, <1>5

\* A swap that fails forgets everything; the value it allocated leaks.
LEMMA ExactRetry ==
    ASSUME ExactInv, NEW t \in Adder, TR!Swap(t), ~TR!Unchanged(t)
    PROVE  (Fresh /\ Written /\ Exact)'
<1>0. SumTypes /\ Fresh /\ Written /\ Exact
  BY DEF ExactInv, SumInv
<1>1. /\ update[t].at = "swap" /\ P' = P /\ heap' = heap /\ updates' = updates
      /\ stale' = stale /\ confused' = confused
      /\ update'[t].at = "out"
      /\ \A u \in Adder \ {t} : update'[u] = update[u]
  BY <1>0 DEF TR!Swap, TR!None, SumTypes
<1>2. Doomed \subseteq Doomed'
  BY <1>1, StillDoomed
<1>3. Fresh'
  <2>1. ASSUME NEW u \in (Adder \ stale)'
        PROVE  /\ (update[u].at \in UnderWay => P = update[u].old \/ update[u].old \in Doomed)'
               /\ (update[u].at \in {"sum", "swap"} /\ P = update[u].old
                     => update[u].sum = heap[P] + Amount[u])'
    <3>0. u \in Adder \ stale
      BY <1>1, <2>1
    <3>1. CASE u = t
      BY <1>1, <3>1 DEF UnderWay
    <3>2. CASE u # t
      <4>1. update'[u] = update[u]
        BY <1>1, <3>0, <3>2
      <4>2. update[u].old \in Doomed => update'[u].old \in Doomed'
        BY <1>2, <4>1
      <4>3. QED
        BY <1>0, <1>1, <3>0, <4>1, <4>2 DEF Fresh
    <3>3. QED
      BY <3>1, <3>2
  <2>2. QED
    BY <2>1 DEF Fresh
<1>4. Written'
  BY <1>0, <1>1 DEF Written
<1>5. Exact'
  <2>1. Effects' = Effects
    BY <1>1, SameEffects
  <2>2. QED
    BY <1>0, <1>1, <2>1 DEF Exact, SumIs
<1>6. QED
  BY <1>3, <1>4, <1>5

\* Who still holds the address that is freed becomes stale, and nobody else's
\* is that address; the addition is in effect before and after.
LEMMA ExactFree ==
    ASSUME ExactInv, NEW t \in Adder, TR!Free(t)
    PROVE  (Fresh /\ Written /\ Exact)'
<1>0. SumTypes /\ Fresh /\ Written /\ Exact
  BY DEF ExactInv, SumInv
<1>1. /\ update[t].at = "free" /\ P' = P /\ heap' = heap
      /\ updates' = [updates EXCEPT ![t] = @ + 1]
      /\ stale' = stale \cup { u \in Adder \ {t} : /\ update[u].at # "out"
                                                   /\ update[u].old = update[t].old }
      /\ confused' = confused
      /\ update'[t].at = "out"
      /\ \A u \in Adder \ {t} : update'[u] = update[u]
  BY <1>0 DEF TR!Free, TR!None, SumTypes
<1>2. Doomed \ {update[t].old} \subseteq Doomed'
  BY <1>1 DEF Doomed
<1>3. Fresh'
  <2>1. ASSUME NEW u \in (Adder \ stale)'
        PROVE  /\ (update[u].at \in UnderWay => P = update[u].old \/ update[u].old \in Doomed)'
               /\ (update[u].at \in {"sum", "swap"} /\ P = update[u].old
                     => update[u].sum = heap[P] + Amount[u])'
    <3>0. u \in Adder \ stale
      BY <1>1, <2>1
    <3>1. CASE u = t
      BY <1>1, <3>1 DEF UnderWay
    <3>2. CASE u # t
      <4>1. update'[u] = update[u]
        BY <1>1, <3>0, <3>2
      <4>2. update[u].at \in UnderWay => update[u].old # update[t].old
        BY <1>1, <2>1, <3>0, <3>2 DEF UnderWay
      <4>3. update[u].at \in UnderWay /\ update[u].old \in Doomed => update'[u].old \in Doomed'
        BY <1>2, <4>1, <4>2
      <4>4. QED
        BY <1>0, <1>1, <3>0, <4>1, <4>3 DEF Fresh
    <3>3. QED
      BY <3>1, <3>2
  <2>2. QED
    BY <2>1 DEF Fresh
<1>4. Written'
  BY <1>0, <1>1 DEF Written
<1>5. Exact'
  <2>1. \A u \in Adder : TR!InEffect(u)' = TR!InEffect(u)
    BY <1>0, <1>1 DEF TR!InEffect, SumTypes
  <2>2. Effects' = Effects
    BY <2>1 DEF Effects
  <2>3. QED
    BY <1>0, <1>1, <2>2 DEF Exact, SumIs
<1>6. QED
  BY <1>3, <1>4, <1>5

\* All steps together.
LEMMA ExactStep ==
    ASSUME ExactInv, [TR!Next]_sum
    PROVE  ExactInv'
<1>1. SumInv'
  BY SumStep DEF ExactInv
<1>2. (Fresh /\ Written /\ Exact)'
  <2>1. ASSUME NEW t \in Adder, TR!Step(t) PROVE (Fresh /\ Written /\ Exact)'
    BY <2>1, ExactRead, ExactSum, ExactAllocate, ExactSwap, ExactRetry, ExactFree DEF TR!Step
  <2>2. CASE UNCHANGED sum
    <3>1. Effects' = Effects
      BY <2>2 DEF sum, Effects, TR!InEffect
    <3>2. Fresh' /\ Written'
      BY <2>2 DEF sum, ExactInv, Fresh, Written, Doomed
    <3>3. Exact'
      BY <2>2, <3>1 DEF sum, ExactInv, Exact, SumIs
    <3>4. QED
      BY <3>2, <3>3
  <2>3. QED
    BY <2>1, <2>2 DEF TR!Next
<1>3. QED
  BY <1>1, <1>2 DEF ExactInv

\* The property.
LEMMA ExactGives == ExactInv => SumIsExact
<1> SUFFICES ASSUME ExactInv, ~confused
             PROVE  heap[P] = TR!MapThenSumSet(LAMBDA t : Amount[t] * TR!InEffect(t), Adder)
  BY DEF SumIsExact, TR!SumIsExact
<1>1. SumIs(heap[P], Effects)
  BY DEF ExactInv, Exact
<1>2. QED
  BY <1>1, SumIsTheSum

\* No accumulation is lost to a concurrent one, for any number of threads,
\* amounts, updates and addresses: the value is the sum of the updates that took
\* effect, unless a thread's swap took a new value at a reused address for the
\* old one (Update() in TbbReduction.h).
THEOREM SumIsExactHolds == Spec => []SumIsExact
<1>1. Init => ExactInv
  BY ExactInit DEF Init
<1>2. ExactInv /\ [Next]_vars => ExactInv'
  BY StepOfEach, ExactStep
<1>3. QED
  BY <1>1, <1>2, ExactGives, PTL DEF Spec
=============================================================================
