------------------------------ MODULE ThDeque -------------------------------
(***************************************************************************)
(* The unbounded deque of vath_pth/include/ThDeque.h, which holds the      *)
(* tasks of the task pool.  As in ThQueue, what happens under qlock up to  *)
(* a wait is one action.  A broadcast says that the deque is no longer     *)
(* empty, or that it is closed.                                            *)
(***************************************************************************)
EXTENDS Naturals, Sequences, SequencesExt

CONSTANTS Client,      \* the threads
          Elements,    \* how many elements are added; the k-th one is k
          CloseAfter   \* CloseQueue is called when this many were added

VARIABLES c,           \* the elements, front first; size is its length
          active,
          not_empty,   \* the threads asleep
          added,       \* how many elements were added
          taken,       \* the elements taken from the front, in order
          stolen,      \* the elements taken from the back
          told         \* the clients that Remove has told of the end

vars == <<c, active, not_empty, added, taken, stolen, told>>

Init ==
  /\ c = <<>> /\ active = TRUE /\ not_empty = {}
  /\ added = 0 /\ taken = <<>> /\ stolen = {} /\ told = {}

Runs(t) == t \notin not_empty

(* Mutant of WasEmpty: the wakeup comes one element late.                  *)
WasNotEmpty == Len(c) = 1

WasEmpty == Len(c) = 0

(* Add does not look at the flag.  It wakes everybody when the deque was   *)
(* empty.  Any thread may add that does not sleep.                         *)
Add ==
  /\ added < Elements
  /\ c' = Append(c, added + 1)
  /\ added' = added + 1
  /\ not_empty' = IF WasEmpty THEN {} ELSE not_empty
  /\ UNCHANGED <<active, taken, stolen, told>>

RemoveWait(t) ==
  /\ Runs(t) /\ t \notin told /\ c = <<>> /\ active
  /\ not_empty' = not_empty \cup {t}
  /\ UNCHANGED <<c, active, added, taken, stolen, told>>

(* The end: the flag is false, and others that sleep are woken to see it.  *)
RemoveEnd(t) ==
  /\ Runs(t) /\ t \notin told /\ c = <<>> /\ ~active
  /\ told' = told \cup {t}
  /\ not_empty' = {}
  /\ UNCHANGED <<c, active, added, taken, stolen>>

RemoveFront(t) ==
  /\ Runs(t) /\ t \notin told /\ c # <<>>
  /\ c' = Tail(c)
  /\ taken' = Append(taken, Head(c))
  /\ UNCHANGED <<active, not_empty, added, stolen, told>>

(* Without waiting: from the front, or from the back.  An empty deque      *)
(* changes nothing.                                                        *)
TryRemoveFront(t) == RemoveFront(t)

TryRemoveBack(t) ==
  /\ Runs(t) /\ c # <<>>
  /\ c' = Front(c)
  /\ stolen' = stolen \cup {Last(c)}
  /\ UNCHANGED <<active, not_empty, added, taken, told>>

CloseQueue ==
  /\ active /\ added >= CloseAfter
  /\ active' = FALSE
  /\ not_empty' = IF c = <<>> THEN {} ELSE not_empty
  /\ UNCHANGED <<c, added, taken, stolen, told>>

SpuriousWakeup(t) ==
  /\ t \in not_empty
  /\ not_empty' = not_empty \ {t}
  /\ UNCHANGED <<c, active, added, taken, stolen, told>>

Consume(t) == RemoveWait(t) \/ RemoveEnd(t) \/ RemoveFront(t)

Next ==
  \/ Add \/ CloseQueue
  \/ \E t \in Client : Consume(t) \/ TryRemoveFront(t) \/ TryRemoveBack(t) \/ SpuriousWakeup(t)

Fairness ==
  /\ WF_vars(Add) /\ WF_vars(CloseQueue)
  /\ \A t \in Client : WF_vars(Consume(t))

Spec == Init /\ [][Next]_vars /\ Fairness
-----------------------------------------------------------------------------
(* The elements are numbered in the order in which they were added.        *)
TypeOK ==
  /\ c \in Seq(1 .. Elements) /\ active \in BOOLEAN
  /\ not_empty \subseteq Client /\ told \subseteq Client
  /\ added \in 0 .. Elements

(* A thread sleeps only while the deque is empty and open.                 *)
SleepersHaveReason == not_empty # {} => c = <<>> /\ active

(* No element is lost, taken twice, or taken from the front before an      *)
(* older one.                                                              *)
NothingLost ==
  /\ ToSet(c) \cup ToSet(taken) \cup stolen = 1 .. added
  /\ Len(c) + Len(taken) + Cardinality(stolen) = added
  /\ \A i, k \in 1 .. Len(taken \o c) : i < k => (taken \o c)[i] < (taken \o c)[k]

(* Everything added while consumers are left is consumed, and every        *)
(* consumer learns of the end.                                             *)
Finished == told = Client
=============================================================================
