------------------------------- MODULE MPIJob -------------------------------
(***************************************************************************)
(* An MPI job: np processes run one program of the repository, started by  *)
(* mpirun.  Messages between two processes arrive in the order they were   *)
(* sent; a send may return at once (the message is buffered) or only when  *)
(* the message has been received, as the standard allows; collectives wait *)
(* only for the processes they need.  A failed assertion or an invalid     *)
(* rank aborts the whole job (MPI_ERRORS_ARE_FATAL).                       *)
(***************************************************************************)
EXTENDS MPIJava, MPIPython, FiniteSets, TLC

CONSTANT Jobs      \* the jobs started

(* The programs written in each language ("Array" is Java without buffers).*)
Programs ==
  LET everywhere == {"deadlock", "exchange", "exchange2", "ring", "broadcast", "broadcast2"}
      simple == everywhere \cup
                {"spmd", "masterWorker", "equalChunks", "slices", "broadcastInput",
                 "broadcastSend", "reduction", "reduction2", "scatter", "gather", "taskQueue"}
      compiled == simple \cup
                  {"chunks", "barrier", "sequence", "timing", "reduceTiming",
                   "broadcastLoop", "scatterLoop", "scatterV"}
  IN  [C |-> compiled \cup {"chunks2"}, Java |-> compiled,
       Array |-> everywhere \cup {"ringAlt"}, Python |-> simple \cup {"scatterGather"}]

(* A job is a program in a language, a number of processes, and whether    *)
(* the program finds its input.                                            *)
ASSUME JobsAssumption ==
  /\ Jobs \subseteq [lang : {"C", "Java", "Array", "Python"}, prog : STRING,
                     np : Nat \ {0}, given : BOOLEAN]
  /\ \A j \in Jobs : j.prog \in Programs[j.lang]

VARIABLES
  job,       \* the job that runs
  pc,        \* pc[p]: the instruction process p is at
  phase,     \* phase[p]: "run", in a synchronous "send", or in a "coll"ective
  mem,       \* mem[p]: its memory (see Blank)
  chan,      \* chan[p][q]: messages sent by p and not yet received by q
  entered,   \* entered[p]: the collectives p has entered, with its contribution
  aborted    \* the job was aborted

vars == << job, pc, phase, mem, chan, entered, aborted >>

Ranks == 0 .. job.np - 1

(* The program of each job, by language and name.                          *)
CCode(prog, id, n, m, given) ==
  CASE prog = "spmd"            -> spmd(id, n)
    [] prog = "masterWorker"    -> masterWorker(id, n)
    [] prog = "equalChunks"     -> parallelLoopEqualChunks(id, n)
    [] prog = "slices"          -> parallelLoopSlices(id, n)
    [] prog = "chunks"          -> parallelLoopChunks(id, n)
    [] prog = "chunks2"         -> parallelLoopChunks2(id, n)
    [] prog = "deadlock"        -> messagePassingDeadlock(id, n)
    [] prog = "exchange"        -> messagePassing(id, n)
    [] prog = "exchange2"       -> messagePassing2(id, n)
    [] prog = "ring"            -> messagePassing3(id, n, m)
    [] prog = "broadcast"       -> broadcast(id, given)
    [] prog = "broadcastInput"  -> broadcastUserInput(id, given)
    [] prog = "broadcastSend"   -> broadcastSendReceive(id, n)
    [] prog = "broadcast2"      -> broadcast2(id)
    [] prog = "reduction"       -> reduction(id)
    [] prog = "reduction2"      -> reduction2(id)
    [] prog = "scatter"         -> scatter(id, n)
    [] prog = "gather"          -> gather(id, n)
    [] prog = "barrier"         -> barrier(id, n)
    [] prog = "sequence"        -> sequenceNumbers(id, n)
    [] prog = "timing"          -> barrierTiming(id, n)
    [] prog = "reduceTiming"    -> reduceTiming(id, n)
    [] prog = "broadcastLoop"   -> broadcastLoopGather(id, n, m)
    [] prog = "scatterLoop"     -> scatterLoopGather(id, n, m)
    [] prog = "scatterV"        -> scatterVGatherV(id, n, m)
    [] prog = "taskQueue"       -> taskQueue(id, n, m)

JavaCode(prog, id, n, m, given) ==
  CASE prog = "spmd"            -> JavaSpmd(id, n)
    [] prog = "masterWorker"    -> JavaMasterWorker(id, n)
    [] prog = "equalChunks"     -> JavaParallelLoopEqualChunks(id, n)
    [] prog = "slices"          -> JavaParallelLoopChunksOf1(id, n)
    [] prog = "chunks"          -> JavaParallelLoopAdvanced(id, n)
    [] prog = "deadlock"        -> JavaMessagePassingDeadlock(id, n)
    [] prog = "exchange"        -> JavaMessagePassing(id, n)
    [] prog = "exchange2"       -> JavaMessagePassing2(id, n)
    [] prog = "ring"            -> JavaMessagePassing3(id, n, m)
    [] prog = "broadcast"       -> JavaBroadcast(id, given)
    [] prog = "broadcastInput"  -> JavaBroadcastUserInput(id, given)
    [] prog = "broadcastSend"   -> JavaSendReceivePseudoBroadcast(id, n)
    [] prog = "broadcast2"      -> JavaBroadcast2(id)
    [] prog = "reduction"       -> JavaReduction(id)
    [] prog = "reduction2"      -> JavaReduction2(id)
    [] prog = "scatter"         -> JavaScatter(id, n)
    [] prog = "gather"          -> JavaGather(id, n)
    [] prog = "barrier"         -> JavaBarrier(id, n)
    [] prog = "sequence"        -> JavaSequenceNumbers(id, n)
    [] prog = "timing"          -> JavaBarrierPlusTiming(id, n)
    [] prog = "reduceTiming"    -> JavaReducePlusTiming
    [] prog = "broadcastLoop"   -> JavaBroadcastLoopGather(id, n, m)
    [] prog = "scatterLoop"     -> JavaScatterLoopGather(id, n, m)
    [] prog = "scatterV"        -> JavaScatterVGatherV(id, n, m)
    [] prog = "taskQueue"       -> JavaDynamicLoadBalance(id, n, m)

ArrayCode(prog, id, n, m, given) ==
  CASE prog = "deadlock"        -> ArrayMessagePassingDeadlock(id, n)
    [] prog = "exchange"        -> ArrayMessagePassing(id, n)
    [] prog = "exchange2"       -> ArrayMessagePassing2(id, n)
    [] prog = "ring"            -> ArrayMessagePassing3(id, n, m)
    [] prog = "ringAlt"         -> ArrayMessagePassing3alt(id, n, m)
    [] prog = "broadcast"       -> ArrayBroadcast(id, given)
    [] prog = "broadcast2"      -> ArrayBroadcast2(id)

PyCode(prog, id, n, m, given) ==
  CASE prog = "spmd"            -> PySpmd(id, n)
    [] prog = "masterWorker"    -> PyMasterWorker(id, n)
    [] prog = "equalChunks"     -> PyParallelLoopEqualChunks(id, n)
    [] prog = "slices"          -> PyParallelLoopChunksOf1(id, n)
    [] prog = "deadlock"        -> PyMessagePassingDeadlock(id, n)
    [] prog = "exchange"        -> PyMessagePassing(id, n)
    [] prog = "exchange2"       -> PyMessagePassing2(id, n)
    [] prog = "ring"            -> PyMessagePassing3(id, n, m)
    [] prog = "broadcast"       -> PyBroadcast(id, n)
    [] prog = "broadcastInput"  -> PyBroadcastUserInput(id, n, given)
    [] prog = "broadcastSend"   -> PyBroadcastSendReceive(id, n)
    [] prog = "broadcast2"      -> PyBroadcastList(id, n)
    [] prog = "reduction"       -> PyReduction(id, n)
    [] prog = "reduction2"      -> PyReductionList(id, n)
    [] prog = "scatter"         -> PyScatter(n)
    [] prog = "gather"          -> PyGather(id, n)
    [] prog = "scatterGather"   -> PyScatterGather(n, m)
    [] prog = "taskQueue"       -> PyDynamicLoadBalance(id, n, m)

Code(p) ==
  CASE job.lang = "C"      -> CCode(job.prog, p, job.np, mem[p], job.given)
    [] job.lang = "Java"   -> JavaCode(job.prog, p, job.np, mem[p], job.given)
    [] job.lang = "Array"  -> ArrayCode(job.prog, p, job.np, mem[p], job.given)
    [] job.lang = "Python" -> PyCode(job.prog, p, job.np, mem[p], job.given)

Init ==
  /\ job \in Jobs
  /\ pc = [p \in Ranks |-> 1]
  /\ phase = [p \in Ranks |-> "run"]
  /\ mem = [p \in Ranks |-> Blank]
  /\ chan = [p \in Ranks |-> [q \in Ranks |-> <<>>]]
  /\ entered = [p \in Ranks |-> <<>>]
  /\ aborted = FALSE

Done(p) == phase[p] = "run" /\ pc[p] > Len(Code(p))
AllDone == \A p \in Ranks : Done(p)
Over    == aborted \/ AllDone

(* The instruction process p is about to execute, if any.                  *)
Current(p) ==
  IF aborted \/ phase[p] # "run" THEN {}
  ELSE LET code == Code(p)
       IN  { code[k] : k \in {pc[p]} \cap DOMAIN code }

Step(p) == pc' = [pc EXCEPT ![p] = @ + 1]
-----------------------------------------------------------------------------
(* What a process does by itself: compute, print a line, jump.             *)
Local(p) ==
  /\ \E i \in Current(p) :
       \/ i.op = "compute" /\ mem' = [mem EXCEPT ![p][i.var] = i.val] /\ Step(p)
       \/ i.op = "print" /\ Step(p) /\ UNCHANGED mem
       \/ i.op = "goto" /\ pc' = [pc EXCEPT ![p] = i.to] /\ UNCHANGED mem
  /\ UNCHANGED << job, phase, chan, entered, aborted >>

(* A failed assertion, or a message to or from a rank that does not exist. *)
InvalidRank(i) == \/ i.op = "send" /\ i.to \notin Ranks
                  \/ i.op = "recv" /\ i.from \notin Ranks \cup {AnySource}

AbortJob(p) ==
  /\ \E i \in Current(p) : i.op = "abort" \/ InvalidRank(i)
  /\ aborted' = TRUE
  /\ UNCHANGED << job, pc, phase, mem, chan, entered >>

(* The message is buffered and the sender goes on, or waits (sync) until   *)
(* it has been received.                                                   *)
SendMessage(p) ==
  /\ \E i \in Current(p), sync \in BOOLEAN :
       /\ i.op = "send" /\ ~InvalidRank(i)
       /\ chan' = [chan EXCEPT ![p][i.to] =
                     Append(@, [tag |-> i.tag, val |-> i.val, sync |-> sync])]
       /\ IF sync THEN phase' = [phase EXCEPT ![p] = "send"] /\ UNCHANGED pc
                  ELSE Step(p) /\ UNCHANGED phase
  /\ UNCHANGED << job, mem, entered, aborted >>

Matches(i, msg) == i.tag = AnyTag \/ i.tag = msg.tag

(* The first message from q to p that matches: messages do not overtake.   *)
Earliest(i, q, p) ==
  { k \in DOMAIN chan[q][p] :
      /\ Matches(i, chan[q][p][k])
      /\ \A j \in 1 .. k - 1 : ~Matches(i, chan[q][p][j]) }

Receive(p) ==
  /\ \E i \in Current(p), q \in Ranks :
       /\ i.op = "recv" /\ i.from \in {q, AnySource}
       /\ \E k \in Earliest(i, q, p) :
            LET msg == chan[q][p][k]
                got == IF i.var = "out" THEN mem[p].out \o msg.val ELSE msg.val
            IN  /\ mem' = [mem EXCEPT ![p][i.var] = got, ![p].src = q, ![p].tag = msg.tag]
                /\ chan' = [chan EXCEPT ![q][p] = RemoveAt(@, k)]
                /\ IF msg.sync
                     THEN /\ pc' = [pc EXCEPT ![p] = @ + 1, ![q] = @ + 1]
                          /\ phase' = [phase EXCEPT ![q] = "run"]
                     ELSE Step(p) /\ UNCHANGED phase
  /\ UNCHANGED << job, entered, aborted >>

EnterCollective(p) ==
  /\ \E i \in Current(p) :
       /\ i.op \in Collectives
       /\ entered' = [entered EXCEPT ![p] = Append(@, i)]
       /\ phase' = [phase EXCEPT ![p] = "coll"]
  /\ UNCHANGED << job, pc, mem, chan, aborted >>

(* Leaving is possible once those who are needed have entered.             *)
LeaveCollective(p) ==
  LET k == Len(entered[p])
      i == entered[p][k]
      awaited == Awaited(i, p, job.np)
  IN  /\ ~aborted /\ phase[p] = "coll"
      /\ \A q \in awaited : Len(entered[q]) >= k
      /\ mem' = [mem EXCEPT ![p] = Received(i, p, job.np, @, [q \in awaited |-> entered[q][k].val])]
      /\ phase' = [phase EXCEPT ![p] = "run"]
      /\ Step(p)
      /\ UNCHANGED << job, chan, entered, aborted >>

Next == \E p \in Ranks :
  \/ Local(p)           \/ AbortJob(p)
  \/ SendMessage(p)     \/ Receive(p)
  \/ EnterCollective(p) \/ LeaveCollective(p)

(* The job goes on as long as some process can; but a collective is only   *)
(* sure to let a process go when all have entered it.                      *)
Progress == \E p \in Ranks :
  \/ Local(p) \/ AbortJob(p) \/ SendMessage(p) \/ Receive(p) \/ EnterCollective(p)
  \/ /\ \A q \in Ranks : Len(entered[q]) >= Len(entered[p])
     /\ LeaveCollective(p)

Spec == Init /\ [][Next]_vars /\ WF_vars(Progress)
-----------------------------------------------------------------------------
(* Properties.                                                             *)

Is(progs) == job.prog \in progs

(* The state of every process, message and collective is one the programs  *)
(* can be in: a status names a sender, arrays stay within their bounds,    *)
(* and the ring's message within the number of processes.                  *)
TypeOK ==
  /\ job \in Jobs
  /\ \A p \in Ranks :
       /\ pc[p] \in 1 .. Len(Code(p)) + 1
       /\ phase[p] \in {"run", "send", "coll"}
       /\ mem[p].src \in Ranks \cup {AnySource} /\ mem[p].tag \in {AnyTag, 0, 1, 2}
       /\ Len(mem[p].buf) <= ARRAY_SIZE \/ job.lang = "Python"
       /\ Len(mem[p].part) <= IF Is({"ring", "ringAlt"}) THEN job.np ELSE ARRAY_SIZE
       /\ phase[p] = "coll" => Len(entered[p]) > 0
       /\ phase[p] = "send" => \E q \in Ranks : \E k \in DOMAIN chan[p][q] : chan[p][q][k].sync
  /\ aborted \in BOOLEAN

(* Every iteration of a parallel loop is performed by exactly one process  *)
(* (none when the program refuses the number of processes).                *)
LoopGoal ==
  LET n == job.np
      refused == IF job.prog = "equalChunks" THEN ~Divides(n, REPS) ELSE n > REPS
  IN  IF refused THEN \A p \in Ranks : mem[p].out = <<>>
      ELSE \A i \in 0 .. REPS - 1 :
             Cardinality({ pk \in Ranks \X (1 .. REPS) :
                             pk[2] \in DOMAIN mem[pk[1]].out /\ mem[pk[1]].out[pk[2]] = i }) = 1

(* Neighbours have each other's value.                                     *)
ExchangeGoal ==
  \A p \in Ranks :
    LET q == IF Odd(p) THEN p - 1 ELSE p + 1
    IN  IF Odd(job.np) THEN mem[p].part = <<>>
        ELSE mem[p].part = IF job.lang = "Python" /\ job.prog = "exchange2"
                             THEN [k \in 1 .. 8 |-> q + k - 1] ELSE << q >>

(* The message went once around the ring, through every process in turn.   *)
RingGoal ==
  job.np > 1 => \A p \in Ranks :
    mem[p].part = [k \in 1 .. (IF p = MASTER THEN job.np ELSE p) |-> k - 1]

(* Everyone has what the master has, which is what it was given.           *)
BroadcastGoal ==
  job.np > 1 =>
    /\ \A p \in Ranks : mem[p].buf = mem[MASTER].buf
    /\ job.given /\ Is({"broadcast", "broadcastInput"}) /\ job.lang # "Python"
         => mem[MASTER].buf = << ANSWER >>
    /\ Is({"broadcastSend", "broadcast2"}) /\ job.lang # "Python"
         => mem[MASTER].buf = [k \in 1 .. 8 |-> k + 10]

(* Closed forms of the sums and maxima the master ends up with.            *)
ReduceGoal ==
  LET n == job.np
      ranks == (n * (n - 1)) \div 2
  IN  CASE Is({"reduction"}) ->
             /\ mem[MASTER].buf = << (n * (n + 1) * (2 * n + 1)) \div 6 >>
             /\ mem[MASTER].all = << n * n >>
        [] Is({"reduction2"}) /\ job.lang # "Python" ->
             mem[MASTER].all = [i \in 1 .. 5 |-> (i - 1) * ranks]
        [] Is({"reduction2"}) /\ job.lang = "Python" ->
             /\ mem[MASTER].all = [i \in 1 .. 5 |-> i * (n - 1)]
             /\ mem[MASTER].buf = [k \in 1 .. 5 * n |->
                                     ((k - 1) \div 5) * (((k - 1) % 5) + 1)]
        [] Is({"reduceTiming"}) ->
             mem[MASTER].all = << IF job.lang = "C" THEN 1 ELSE 1000 * n >>

(* What is scattered, gathered or doubled in pieces is what it would be    *)
(* done in one piece.                                                      *)
ArrayGoal ==
  CASE Is({"scatter"}) ->
         FlattenSeq([r \in 1 .. job.np |-> mem[r - 1].part]) =
           IF job.lang = "Python"
             THEN [k \in 1 .. 3 * job.np |-> (((k - 1) \div 3) + 1) * (((k - 1) % 3) + 1)]
             ELSE [k \in 1 .. 8 - (8 % job.np) |-> 11 * k]
    [] Is({"gather"}) ->
         mem[MASTER].all =
           [k \in 1 .. 3 * job.np |->
              ((k - 1) \div 3) * 10 * (IF job.lang = "Python" THEN ((k - 1) % 3) + 1 ELSE 1)
              + (IF job.lang = "Python" THEN 0 ELSE (k - 1) % 3)]
    [] Is({"broadcastLoop", "scatterLoop"}) ->
         Divides(job.np, 8) => mem[MASTER].all = [k \in 1 .. 8 |-> 2 * (k + 10)]
    [] Is({"scatterV"}) ->
         job.np <= 8 => mem[MASTER].all = [k \in 1 .. 8 |-> 2 * (k + 10)]
    [] Is({"scatterGather"}) -> mem[MASTER].all = [k \in 1 .. 3 * job.np |-> 10 * k]

(* The master has output both messages of every worker, each worker's in   *)
(* the order it sent them, and nothing else: rank, round, rank, round, ... *)
RoundsGoal ==
  LET out == mem[MASTER].out
  IN  /\ Len(out) = 4 * (job.np - 1)
      /\ \A p \in Ranks \ {MASTER} : \E i, j \in 1 .. 2 * (job.np - 1) :
           /\ i < j
           /\ out[2 * i - 1] = p /\ out[2 * i] = 1
           /\ out[2 * j - 1] = p /\ out[2 * j] = 2

(* The result of every task was collected once.                            *)
TasksGoal ==
  /\ Len(mem[MASTER].out) = NumTasks(job.np)
  /\ { mem[MASTER].out[k] : k \in DOMAIN mem[MASTER].out } = 1 .. NumTasks(job.np)

(* When the processes of a job are done, the job has computed what its     *)
(* program is for, whatever the order of its messages, and no message is   *)
(* left behind.                                                            *)
Outcome ==
  AllDone /\ ~aborted =>
    /\ \A p, q \in Ranks : chan[p][q] = <<>>
    /\ Is({"equalChunks", "slices", "chunks", "chunks2"}) => LoopGoal
    /\ Is({"deadlock", "exchange", "exchange2"}) => ExchangeGoal
    /\ Is({"ring", "ringAlt"}) => RingGoal
    /\ Is({"broadcast", "broadcastInput", "broadcastSend", "broadcast2"}) => BroadcastGoal
    /\ Is({"reduction", "reduction2", "reduceTiming"}) => ReduceGoal
    /\ Is({"scatter", "gather", "broadcastLoop", "scatterLoop", "scatterV", "scatterGather"})
         => ArrayGoal
    /\ Is({"barrier", "sequence"}) => RoundsGoal
    /\ Is({"taskQueue"}) => TasksGoal

(* The separators a program prints between two barriers do separate: when  *)
(* the master has printed one, everyone has printed the lines before it,   *)
(* and nobody prints a line after it earlier.  (As the processes print;    *)
(* mpirun may still mix what it forwards.)  Except in the array version of *)
(* the broadcast, which has no barrier there.                              *)
PrintsOf(code, from, to) == { code[k] : k \in { j \in from .. to : code[j].op = "print" } }
Printed(p) == PrintsOf(Code(p), 1, pc[p] - 1)
ToPrint(p) == LET code == Code(p) IN PrintsOf(code, pc[p], Len(code))
SeparatorSplits ==
  Is({"reduction2", "broadcast", "broadcastInput", "broadcastSend", "broadcast2", "scatter",
      "gather", "broadcastLoop", "scatterLoop", "scatterV"})
  /\ ~(job.lang = "Array" /\ Is({"broadcast"})) =>
    \A p \in Ranks :
      /\ \A s \in Printed(MASTER), i \in ToPrint(p) :
           s.sep /\ ~i.sep => i.phase >= s.phase
      /\ \A s \in ToPrint(MASTER), i \in Printed(p) :
           s.sep /\ ~i.sep => i.phase < s.phase

(* The k-th collective of every process is the same operation: otherwise   *)
(* the processes would wait for each other in different calls.             *)
CollectivesAgree ==
  \A p, q \in Ranks : \A k \in DOMAIN entered[p] \cap DOMAIN entered[q] :
    entered[p][k].op = entered[q][k].op /\ entered[p][k].var = entered[q][k].var

(* A task that was handed out is in exactly one place: in a message to its *)
(* worker, with the worker, in a message to the master, or collected; one  *)
(* that was not is nowhere.                                                *)
HandedOut ==
  LET code == Code(MASTER)
      last == IF phase[MASTER] = "send" THEN pc[MASTER] ELSE pc[MASTER] - 1
  IN  { code[k].val : k \in { j \in 1 .. last : code[j].op = "send" } }
Holds(w, t) ==
  w # MASTER /\ pc[w] = 2 /\ phase[w] = "run" /\ Len(Code(w)) = 3 /\ mem[w].part = << t >>
Messages == UNION { { << p, q, k >> : k \in DOMAIN chan[p][q] } : p, q \in Ranks }
Carrying(t)  == { m \in Messages : chan[m[1]][m[2]][m[3]].val = << t >> }
Collected(t) == { k \in DOMAIN mem[MASTER].out : mem[MASTER].out[k] = t }

TasksConserved ==
  Is({"taskQueue"}) =>
    LET handedOut == HandedOut
    IN  \A t \in 1 .. NumTasks(job.np) :
      Cardinality(Collected(t)) + Cardinality({ w \in Ranks : Holds(w, t) })
      + Cardinality(Carrying(t)) = (IF << t >> \in handedOut THEN 1 ELSE 0)

(* The deadlock the program messagePassingDeadlock is about is certain,    *)
(* not a matter of timing or buffering: with an even number of processes   *)
(* nobody ever gets past its first receive.                                *)
DeadlockIsCertain ==
  Is({"deadlock"}) /\ ~Odd(job.np) => \A p \in Ranks : pc[p] = 1 /\ phase[p] = "run"

(* Every other job ends, whether or not sends are buffered and collectives *)
(* synchronise (by an abort where an odd process has no neighbour or the   *)
(* file is missing).  The exception: the Java broadcasts without the file, *)
(* whose master leaves while the others wait in a barrier or broadcast.    *)
Hangs == \/ Is({"deadlock"}) /\ ~Odd(job.np)
         \/ job.lang \in {"Java", "Array"} /\ Is({"broadcast"}) /\ ~job.given /\ job.np > 1
Terminates == ~Hangs => <>Over
=============================================================================
