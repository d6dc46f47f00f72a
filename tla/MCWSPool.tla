------------------------------ MODULE MCWSPool ------------------------------
(* TLC's instance of WSPool: one job that unfolds from a single root, as    *)
(* the single-task SubmitJob takes, and one TaskGroup with more roots than  *)
(* there are workers.                                                       *)
EXTENDS WSPool

TwoJobs == << <<"root">>, <<"g1", "g2", "g3", "g4">> >>

OneJob == << <<"root">> >>

Tree == [t \in Task |-> CASE t = "root" -> <<"left", "right">>
                          [] t = "left" -> <<"leaf", "leaf2">>
                          [] t = "right" -> <<"leaf3">>
                          [] t = "g1" -> <<"h">>
                          [] OTHER -> << >>]
=============================================================================
