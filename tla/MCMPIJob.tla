------------------------------ MODULE MCMPIJob ------------------------------
(***************************************************************************)
(* The jobs TLC runs: every program with every number of processes for     *)
(* which it behaves differently.                                           *)
(***************************************************************************)
EXTENDS MPIJob

Langs == {"C", "Java", "Python"}

JobsOf(langs, progs, sizes, inputs) ==
  [lang : langs, prog : progs, np : sizes, given : inputs]

(* One step per process: nine processes are more than the iterations.      *)
LoopJobs == JobsOf(Langs, {"spmd", "masterWorker"}, {3}, {TRUE})
            \cup JobsOf(Langs, {"equalChunks", "slices"}, {1, 3, 4, 9}, {TRUE})
            \cup JobsOf({"C", "Java"}, {"chunks"}, {1, 3, 4, 9}, {TRUE})
            \cup JobsOf({"C"}, {"chunks2"}, {1, 3, 4, 9}, {TRUE})
            \cup JobsOf({"C", "Java"}, {"timing"}, {3}, {TRUE})

PointToPointJobs ==
  JobsOf(Langs \cup {"Array"}, {"deadlock", "exchange", "exchange2", "ring"}, 1 .. 4, {TRUE})
  \cup JobsOf({"Array"}, {"ringAlt"}, 1 .. 4, {TRUE})
  \cup JobsOf(Langs, {"broadcastSend"}, {1, 4}, {TRUE})
  \cup JobsOf({"C", "Java"}, {"barrier", "sequence"}, 1 .. 4, {TRUE})

CollectiveJobs ==
  JobsOf(Langs, {"broadcast", "broadcastInput"}, 1 .. 3, BOOLEAN)
  \cup JobsOf({"Array"}, {"broadcast", "broadcast2"}, 1 .. 3, BOOLEAN)
  \cup JobsOf(Langs, {"broadcast2", "reduction", "reduction2", "scatter", "gather"}, 1 .. 3, {TRUE})
  \cup JobsOf({"C", "Java"}, {"reduceTiming"}, {3}, {TRUE})
  \cup JobsOf({"C", "Java"}, {"broadcastLoop", "scatterLoop"}, 1 .. 3, {TRUE})
  \cup JobsOf({"C", "Java"}, {"scatterV"}, 1 .. 3, {TRUE})
  \cup JobsOf({"Python"}, {"scatterGather"}, {1, 3}, {TRUE})

TaskJobs == JobsOf(Langs, {"taskQueue"}, 1 .. 3, {TRUE})

MCJobs == LoopJobs \cup PointToPointJobs \cup CollectiveJobs \cup TaskJobs
=============================================================================
