------------------------------- MODULE PipeBL -------------------------------
(***************************************************************************)
(* The pipeline of Boolean locks of vath_pth/include/PipeBL.h: stage n is  *)
(* released by connector n - 1 and releases the next by connector n.       *)
(* Waiting for a connector and setting it are two calls.  No program of    *)
(* the repository uses the class; as its comments say, every stage is one  *)
(* thread that waits, works and releases.                                  *)
(***************************************************************************)
EXTENDS Naturals

CONSTANTS Beg, End,    \* the first and the last rank
          Passes       \* how often each stage works

VARIABLES connector,   \* connector[n]: stage n + 1 is released
          stage,       \* stage[n]: what stage n does next
          worked       \* worked[n]: how often it has worked

vars == <<connector, stage, worked>>

Stages     == Beg .. End
Connectors == Beg .. End - 1

Init ==
  /\ connector = [n \in Connectors |-> FALSE]
  /\ stage = [n \in Stages |-> "wait"]
  /\ worked = [n \in Stages |-> 0]

Goes(n, from, to) == stage[n] = from /\ stage' = [stage EXCEPT ![n] = to]

(* WaitForRelease(rank): nobody releases the first stage.                  *)
Released(n) ==
  /\ worked[n] < Passes
  /\ \/ n = Beg /\ Goes(n, "wait", "work")
     \/ n # Beg /\ connector[n - 1] /\ Goes(n, "wait", "taken")
  /\ UNCHANGED <<connector, worked>>

Take(n) ==
  /\ Goes(n, "taken", "work")
  /\ connector' = [connector EXCEPT ![n - 1] = FALSE]
  /\ UNCHANGED worked

Work(n) ==
  /\ Goes(n, "work", "release")
  /\ worked' = [worked EXCEPT ![n] = @ + 1]
  /\ UNCHANGED connector

(* Mutant of TakenByNext: a release is not waited for to be taken.         *)
TakenAnyway(n) == TRUE

(* The next stage has taken the previous release.                          *)
TakenByNext(n) == ~connector[n]

(* ReleaseNext(rank): the last stage releases nobody.                      *)
Free(n) ==
  /\ \/ n = End /\ Goes(n, "release", "wait")
     \/ n # End /\ TakenByNext(n) /\ Goes(n, "release", "set")
  /\ UNCHANGED <<connector, worked>>

Set(n) ==
  /\ Goes(n, "set", "wait")
  /\ connector' = [connector EXCEPT ![n] = TRUE]
  /\ UNCHANGED worked

Step(n) == Released(n) \/ Take(n) \/ Work(n) \/ Free(n) \/ Set(n)

Next == \E n \in Stages : Step(n)

Fairness == \A n \in Stages : WF_vars(Step(n))

Spec == Init /\ [][Next]_vars /\ Fairness
-----------------------------------------------------------------------------
(* The connectors are locks, and each stage is somewhere in its pass.      *)
TypeOK ==
  /\ connector \in [Connectors -> BOOLEAN]
  /\ stage \in [Stages -> {"wait", "taken", "work", "release", "set"}]
  /\ worked \in [Stages -> 0 .. Passes]

(* No release is lost, taken twice or taken too early: a stage has worked  *)
(* as often as the one in front of it, except for the pass that one has    *)
(* not released yet, the release the connector holds and the one the stage *)
(* is working on.                                                          *)
OneIf(b) == IF b THEN 1 ELSE 0
InStep ==
  \A n \in Stages \ {Beg} :
    worked[n - 1] = worked[n] + OneIf(stage[n - 1] \in {"release", "set"})
                              + OneIf(connector[n - 1]) + OneIf(stage[n] = "work")

Finished == \A n \in Stages : worked[n] = Passes /\ stage[n] = "wait"
=============================================================================
