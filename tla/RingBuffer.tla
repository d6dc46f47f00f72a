----------------------------- MODULE RingBuffer -----------------------------
(***************************************************************************)
(* The ring buffer of Vath_pth/vath_pth/include/RingBuffer.h.  Every       *)
(* operation runs under rlock, so it is one action; Insert and Extract     *)
(* repeat Push and Pop until they succeed.                                 *)
(***************************************************************************)
EXTENDS CircularArray, Sequences

CONSTANTS Thread,      \* the client threads
          Item,        \* the values stored
          NoItem,      \* what uninitialised storage and results hold
          Size,        \* the template parameter
          ZeroedMemory \* the object was constructed in zeroed memory

\* What the theorems assume of the constants.
SizeAssumption == Size \in Nat \ {0} /\ NoItem \notin Item

VARIABLES buffer, head, tail,
          C,           \* how often head wrapped more often than tail
          trying,      \* trying[t]: the Insert or Extract t is repeating
          value        \* value[t]: what Pop last stored for t

fields == <<buffer, head, tail, C>>
vars   == <<fields, trying, value>>

Idle     == [op |-> "none"]
Inserts  == [op : {"insert"}, item : Item]
Extracting == [op |-> "extract"]

\* The constructor does not set C: it is what the memory happens to hold.
InitialC == IF ZeroedMemory THEN {0} ELSE {-1, 0, 1}

Init ==
    /\ buffer = [i \in RingSlots(Size) |-> NoItem]
    /\ head = 0 /\ tail = 0
    /\ C \in InitialC
    /\ trying = [t \in Thread |-> Idle]
    /\ value = [t \in Thread |-> NoItem]
-----------------------------------------------------------------------------
Full  == head = tail /\ C > 0
Empty == tail = head /\ C = 0

\* Mutant of NextHead: the wrap is counted one slot late.
NextHeadLate ==
    /\ head' = (head + 1) % Size
    /\ C' = IF head = 0 THEN C + 1 ELSE C

\* Stepping an index counts the wrap.
NextHead ==
    /\ head' = (head + 1) % Size
    /\ C' = IF head = Size - 1 THEN C + 1 ELSE C

NextTail ==
    /\ tail' = (tail + 1) % Size
    /\ C' = IF tail = Size - 1 THEN C - 1 ELSE C

Store(item) ==
    /\ ~Full
    /\ buffer' = [buffer EXCEPT ![head] = item]
    /\ NextHead
    /\ UNCHANGED <<tail, value>>

Load(t) ==
    /\ ~Empty
    /\ value' = [value EXCEPT ![t] = buffer[tail]]
    /\ NextTail
    /\ UNCHANGED <<buffer, head>>

\* Push and Pop return false on a full or empty buffer and change nothing.
Push(t, item) ==
    /\ trying[t] = Idle
    /\ Store(item) \/ (Full /\ UNCHANGED <<fields, value>>)
    /\ UNCHANGED trying

Pop(t) ==
    /\ trying[t] = Idle
    /\ Load(t) \/ (Empty /\ UNCHANGED <<fields, value>>)
    /\ UNCHANGED trying

\* The first Push of an Insert may find the buffer full; the loop goes on.
Insert(t, item) ==
    /\ trying[t] \in {Idle, [op |-> "insert", item |-> item]}
    /\ \/ Store(item) /\ trying' = [trying EXCEPT ![t] = Idle]
       \/ Full /\ trying' = [trying EXCEPT ![t] = [op |-> "insert", item |-> item]]
               /\ UNCHANGED <<fields, value>>

Extract(t) ==
    /\ trying[t] \in {Idle, Extracting}
    /\ \/ Load(t) /\ trying' = [trying EXCEPT ![t] = Idle]
       \/ Empty /\ trying' = [trying EXCEPT ![t] = Extracting] /\ UNCHANGED <<fields, value>>

Next == \E t \in Thread :
    \/ \E item \in Item : Push(t, item) \/ Insert(t, item)
    \/ Pop(t) \/ Extract(t)

Spec == Init /\ [][Next]_vars
-----------------------------------------------------------------------------
\* How many items are stored: a wrap counts for a whole turn.
Count == (head - tail) + C * Size

\* The type of every variable: the indices are slots, head is ahead of tail by
\* at most one wrap, and between 0 and Size items are stored.
TypeOK ==
    /\ IsArray(buffer, Size, Item \cup {NoItem})
    /\ head \in RingSlots(Size) /\ tail \in RingSlots(Size)
    /\ C \in {0, 1}
    /\ Count \in 0 .. Size
    /\ trying \in [Thread -> {Idle, Extracting} \cup Inserts]
    /\ value \in [Thread -> Item \cup {NoItem}]

\* In zeroed memory the ring buffer is a bounded first-in first-out queue of Size items: it
\* refuses nothing while it has room, and gives out what was stored, in order,
\* each item once, although full and empty look alike in the indices.
Abstract == INSTANCE BoundedFIFO WITH
    Bounds <- {Size}, queue <- Ring(buffer, Size, tail, Count), bound <- Size,
    output <- value

ImplementsBoundedFIFO == Abstract!Spec
=============================================================================
