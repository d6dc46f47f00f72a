------------------------------ MODULE OSynchP -------------------------------
(***************************************************************************)
(* The synchronisation point of vath_pth/include/OSynchP.h, which spins on *)
(* a Boolean lock (OBLock.h) and then takes its own lock: another thread   *)
(* may come in between.                                                    *)
(***************************************************************************)
EXTENDS Integers, FiniteSets

CONSTANTS Reader, Writer, Rounds

VARIABLES oElement, oCounter,
          BL,          \* the state of the Boolean lock: there is a value
          passed,      \* the threads that have seen the state they wait for
          oPosts, oGets, oReads

vars == <<oElement, oCounter, BL, passed, oPosts, oGets, oReads>>

Init ==
  /\ oElement = 0 /\ oCounter = 0 /\ BL = FALSE /\ passed = {}
  /\ oPosts = 0
  /\ oGets = [r \in Reader |-> 0]
  /\ oReads = [k \in 1 .. Rounds |-> 0]

(* Wait_Until(S) spins until it reads S.                                   *)
WaitUntil(S) == BL = S

PostReady ==
  /\ oPosts < Rounds /\ Writer \notin passed
  /\ WaitUntil(FALSE)
  /\ passed' = passed \cup {Writer}
  /\ UNCHANGED <<oElement, oCounter, BL, oPosts, oGets, oReads>>

Post ==
  /\ Writer \in passed
  /\ oElement' = oPosts + 1
  /\ oCounter' = Cardinality(Reader)
  /\ BL' = TRUE
  /\ passed' = passed \ {Writer}
  /\ oPosts' = oPosts + 1
  /\ UNCHANGED <<oGets, oReads>>

GetReady(r) ==
  /\ oGets[r] < Rounds /\ r \notin passed
  /\ WaitUntil(TRUE)
  /\ passed' = passed \cup {r}
  /\ UNCHANGED <<oElement, oCounter, BL, oPosts, oGets, oReads>>

(* A reader that comes late may find the counter at 0, or the next value.  *)
Get(r) ==
  /\ r \in passed
  /\ oCounter' = oCounter - 1
  /\ BL' = IF oCounter = 1 THEN FALSE ELSE BL
  /\ oGets' = [oGets EXCEPT ![r] = @ + 1]
  /\ oReads' = [oReads EXCEPT ![oElement] = @ + 1]
  /\ passed' = passed \ {r}
  /\ UNCHANGED <<oElement, oPosts>>

Next ==
  \/ PostReady \/ Post
  \/ \E r \in Reader : GetReady(r) \/ Get(r)

Fairness ==
  /\ WF_vars(PostReady \/ Post)
  /\ \A r \in Reader : WF_vars(GetReady(r) \/ Get(r))

Spec == Init /\ [][Next]_vars /\ Fairness
-----------------------------------------------------------------------------
(* The counter never falls by more than the readers that can be late.      *)
TypeOK ==
  /\ oElement = oPosts /\ oPosts \in 0 .. Rounds
  /\ BL \in BOOLEAN
  /\ oCounter \in 1 - Cardinality(Reader) .. Cardinality(Reader)
  /\ passed \subseteq Reader \cup {Writer}
  /\ oGets \in [Reader -> 0 .. Rounds]

(* A value is not replaced before it was read as often as Post asked for.  *)
(* It may be read more often, since a fast reader that comes back takes    *)
(* the read of one that has passed the flag and not yet the lock; but only *)
(* those can be late, once each, and the one that lowers the flag is not.  *)
ReadsPerPost ==
  \A k \in 1 .. oPosts - 1 :
     oReads[k] \in Cardinality(Reader) .. 2 * Cardinality(Reader) - 1

Finished == oPosts = Rounds /\ \A r \in Reader : oGets[r] = Rounds
=============================================================================
