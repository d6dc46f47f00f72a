---------------------------- MODULE TbbReduction ----------------------------
(***************************************************************************)
(* The lock-free accumulation of vath_pth/include/TbbReduction.h: an       *)
(* update reads the pointer, allocates the sum and swaps the pointer if it *)
(* is still the one it read; then it frees the old value.  Each thread     *)
(* adds its own amount a number of times.                                  *)
(***************************************************************************)
EXTENDS Integers, FiniteSets, FiniteSetsExt

CONSTANTS Adder,       \* the threads
          Amount,      \* Amount[t]: what t adds
          Updates,     \* how often
          Address      \* the memory: a failed update leaks its allocation

VARIABLES P,           \* the pointer
          heap,        \* heap[a]: the value at address a, also when freed
          allocated,   \* the addresses in use
          update,      \* update[t]: where t is in Update, and its locals
          updates,     \* updates[t]: how many t has completed
          stale,       \* the threads whose oldptr was freed since they read it
          confused     \* an update took a new value at an old address for old

vars == <<P, heap, allocated, update, updates, stale, confused>>

None == [at |-> "out", old |-> 0, sum |-> 0, new |-> 0]
First == CHOOSE a \in Address : TRUE

Init ==
  /\ P = First
  /\ heap = [a \in Address |-> 0]
  /\ allocated = {First}
  /\ update = [t \in Adder |-> None]
  /\ updates = [t \in Adder |-> 0]
  /\ stale = {}
  /\ confused = FALSE

ReadPointer(t) ==
  /\ update[t].at = "out" /\ updates[t] < Updates
  /\ update' = [update EXCEPT ![t].at = "read", ![t].old = P]
  /\ stale' = stale \ {t}
  /\ UNCHANGED <<P, heap, allocated, updates, confused>>

(* The sum is computed from *P, which is read again.                       *)
Sum(t) ==
  /\ update[t].at = "read"
  /\ update' = [update EXCEPT ![t].at = "sum", ![t].sum = heap[P] + Amount[t]]
  /\ UNCHANGED <<P, heap, allocated, updates, stale, confused>>

(* Freed memory may be allocated again.                                    *)
Allocate(t) ==
  /\ update[t].at = "sum"
  /\ \E a \in Address \ allocated :
       /\ allocated' = allocated \cup {a}
       /\ heap' = [heap EXCEPT ![a] = update[t].sum]
       /\ update' = [update EXCEPT ![t].at = "swap", ![t].new = a]
  /\ UNCHANGED <<P, updates, stale, confused>>

(* Mutant of Unchanged: the pointer is stored without looking.             *)
StoredAnyway(t) == TRUE

Unchanged(t) == P = update[t].old

(* compare_and_swap.  When it fails the loop starts again.                 *)
Swap(t) ==
  /\ update[t].at = "swap"
  /\ IF Unchanged(t)
       THEN /\ P' = update[t].new
            /\ update' = [update EXCEPT ![t].at = "free"]
            /\ confused' = (confused \/ t \in stale)
       ELSE /\ update' = [update EXCEPT ![t] = None]
            /\ UNCHANGED <<P, confused>>
  /\ UNCHANGED <<heap, allocated, updates, stale>>

Free(t) ==
  /\ update[t].at = "free"
  /\ allocated' = allocated \ {update[t].old}
  /\ stale' = stale \cup { u \in Adder \ {t} : /\ update[u].at # "out"
                                               /\ update[u].old = update[t].old }
  /\ update' = [update EXCEPT ![t] = None]
  /\ updates' = [updates EXCEPT ![t] = @ + 1]
  /\ UNCHANGED <<P, heap, confused>>

Step(t) == ReadPointer(t) \/ Sum(t) \/ Allocate(t) \/ Swap(t) \/ Free(t)

Next == \E t \in Adder : Step(t)

Spec == Init /\ [][Next]_vars
-----------------------------------------------------------------------------
(* The pointer never dangles: the value it points at is allocated, even    *)
(* after a swap that took a reused address for the one it had read.        *)
TypeOK ==
  /\ P \in Address /\ allocated \subseteq Address
  /\ updates \in [Adder -> 0 .. Updates]
  /\ stale \subseteq Adder
  /\ P \in allocated

(* No update is lost: the value is the sum of the updates that took        *)
(* effect.  Unless memory was freed and allocated again at the same        *)
(* address between a thread's reading the pointer and its swap, which      *)
(* cannot tell.                                                            *)
InEffect(t) == updates[t] + (IF update[t].at = "free" THEN 1 ELSE 0)
SumIsExact ==
  ~confused => heap[P] = MapThenSumSet(LAMBDA t : Amount[t] * InEffect(t), Adder)
=============================================================================
