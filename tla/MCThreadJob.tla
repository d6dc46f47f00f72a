---------------------------- MODULE MCThreadJob ----------------------------
(***************************************************************************)
(* The runs TLC checks: every program with one and with more threads, and  *)
(* with its optional lines where it has any.                               *)
(***************************************************************************)
EXTENDS ThreadJob

RunsOf(progs, sizes, switches) == [prog : progs, n : sizes, on : switches]

AsTheyAre ==
  {"forkJoin2", "forkJoin3", "forkJoin4", "forkJoin5", "forkJoin6",
   "ompSpmd2", "ompEqualChunks", "ompWhile", "ompCritical2",
   "hybridSpmd2", "cilkForkJoin1", "cilkForkJoin1a", "vathSpmd", "vathSpmd2",
   "vathEqualChunks", "vathChunksOf1", "vathReduction", "vathReduction2"}
OfFixedSize == {"forkJoin", "ompSections", "vathForkJoin", "vathForkJoin2"}
WithASwitch ==
  {"mutualExclusion", "barrier", "ompForkJoin", "ompSpmd", "ompBarrier", "ompMasterWorker",
   "ompMasterOnly", "ompReduction", "ompFactorial", "ompDynamic", "ompPrivate", "ompAtomic",
   "ompCritical", "ompCritical3", "ompDataRace", "hybridSpmd", "cilkForkJoin0", "vathBarrier",
   "ompSlices", "vathLoopRevisited", "vathRaceCondition", "vathLanguageDiff"}

MCRuns ==
  RunsOf(AsTheyAre, 1 .. 3, {FALSE})
  \cup RunsOf(OfFixedSize, {2}, {FALSE})
  \cup RunsOf(WithASwitch, 1 .. 3, BOOLEAN)
  \cup RunsOf({"ompTasks", "vathPrivate", "ompForkJoin2"}, {2}, BOOLEAN)
  \cup RunsOf({"forkJoin3", "ompSpmd2"}, {4}, {FALSE})
=============================================================================
