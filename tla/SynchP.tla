------------------------------- MODULE SynchP -------------------------------
(***************************************************************************)
(* The synchronisation point of vath_pth/include/SynchP.h: a producer      *)
(* posts values, each to be read by a number of readers.  A post waits     *)
(* until the previous value has been read by that many, a read until there *)
(* is a value.  Everything under slock up to a wait is one action.         *)
(***************************************************************************)
EXTENDS Naturals, FiniteSets

CONSTANTS Reader,      \* the threads that call Get
          Writer,      \* the thread that calls Post
          Rounds       \* how many values each of them posts or gets

VARIABLES element,     \* the value: k for the k-th one posted
          state,       \* there is a value to be read
          counter,     \* by how many still
          scond,       \* the threads asleep on the condition
          posts,       \* how many values were posted
          gets,        \* gets[r]: how many values r has read
          reads        \* reads[k]: how often the k-th value was read

vars == <<element, state, counter, scond, posts, gets, reads>>

Init ==
  /\ element = 0 /\ state = FALSE /\ counter = 0 /\ scond = {}
  /\ posts = 0
  /\ gets = [r \in Reader |-> 0]
  /\ reads = [k \in 1 .. Rounds |-> 0]

Posting    == posts < Rounds /\ Writer \notin scond
Getting(r) == gets[r] < Rounds /\ r \notin scond

(* Mutant of Ready: the producer does not wait.                            *)
AlwaysReady == TRUE

(* The object is ready to be reused.                                       *)
Ready == ~state

PostWait ==
  /\ Posting /\ ~Ready
  /\ scond' = scond \cup {Writer}
  /\ UNCHANGED <<element, state, counter, posts, gets, reads>>

Post ==
  /\ Posting /\ Ready
  /\ element' = posts + 1
  /\ counter' = Cardinality(Reader)
  /\ state' = TRUE
  /\ scond' = {}
  /\ posts' = posts + 1
  /\ UNCHANGED <<gets, reads>>

GetWait(r) ==
  /\ Getting(r) /\ ~state
  /\ scond' = scond \cup {r}
  /\ UNCHANGED <<element, state, counter, posts, gets, reads>>

(* Mutant of Signal: nobody is woken.                                      *)
SignalNobody == UNCHANGED scond

(* One waiter, of the implementation's choice.                             *)
Signal == IF scond = {} THEN UNCHANGED scond
          ELSE \E t \in scond : scond' = scond \ {t}

(* The last reader makes the object ready and signals once.                *)
Get(r) ==
  /\ Getting(r) /\ state
  /\ counter' = counter - 1
  /\ gets' = [gets EXCEPT ![r] = @ + 1]
  /\ reads' = [reads EXCEPT ![element] = @ + 1]
  /\ IF counter = 1 THEN state' = FALSE /\ Signal ELSE UNCHANGED <<state, scond>>
  /\ UNCHANGED <<element, posts>>

SpuriousWakeup(t) ==
  /\ t \in scond
  /\ scond' = scond \ {t}
  /\ UNCHANGED <<element, state, counter, posts, gets, reads>>

Next ==
  \/ PostWait \/ Post
  \/ \E r \in Reader : GetWait(r) \/ Get(r)
  \/ \E t \in Reader \cup {Writer} : SpuriousWakeup(t)

Fairness ==
  /\ WF_vars(PostWait \/ Post)
  /\ \A r \in Reader : WF_vars(GetWait(r) \/ Get(r))

Spec == Init /\ [][Next]_vars /\ Fairness
-----------------------------------------------------------------------------
(* The state of the object, and who may sleep: the producer only while     *)
(* there is a value, a reader only while there is none.                    *)
TypeOK ==
  /\ element = posts /\ posts \in 0 .. Rounds
  /\ state \in BOOLEAN
  /\ counter \in 0 .. Cardinality(Reader)
  /\ scond \subseteq (IF state THEN {Writer} ELSE Reader)
  /\ gets \in [Reader -> 0 .. Rounds]

(* Every value is read as often as Post asked for before the next one      *)
(* replaces it, and not more often.                                        *)
ReadsPerPost ==
  \A k \in 1 .. posts :
    reads[k] = Cardinality(Reader) - (IF k = posts THEN counter ELSE 0)

Finished == posts = Rounds /\ \A r \in Reader : gets[r] = Rounds
=============================================================================
