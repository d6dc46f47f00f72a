--------------------------- MODULE ThreadPrograms ---------------------------
(***************************************************************************)
(* The multithreaded programs of pthreads, openMP, hybrid-MPI+OpenMP,      *)
(* cilkPlus and Vath_pth, each as the instructions of its main thread.     *)
(* ThreadJob executes them.  n is the number of threads asked for.  Many   *)
(* programs come with lines commented out that their exercise asks the     *)
(* reader to bring in: "on" says whether they are.  Arrays and repetitions *)
(* are cut down to Reps.                                                   *)
(***************************************************************************)
EXTENDS Integers, Sequences, FiniteSetsExt, Partition

Reps == 4

(* Instructions.  A line of output carries the given values and those      *)
(* loaded before it; a store combines those loaded before it with x.       *)
Say(line, values)   == <<[do |-> "say", line |-> line, values |-> values]>>
Load(var)           == <<[do |-> "load", var |-> var]>>
Put(var, x)         == <<[do |-> "put", var |-> var, x |-> x]>>
Store(var, op, x)   == <<[do |-> "store", var |-> var, op |-> op, x |-> x]>>
AtomicUpdate(var, op, x) == <<[do |-> "atomic", var |-> var, op |-> op, x |-> x]>>
Lock                == <<[do |-> "lock"]>>
Unlock              == <<[do |-> "unlock"]>>
Fork(t, body)       == <<[do |-> "fork", thread |-> t, body |-> body]>>
Join(t)             == <<[do |-> "join", thread |-> t]>>
Barrier(n)          == <<[do |-> "barrier", n |-> n]>>
Take(bodies)        == <<[do |-> "take", bodies |-> bodies]>>

Nothing == <<>>
When(b, code) == IF b THEN code ELSE Nothing

(* code(a) \o ... \o code(b)                                               *)
Each(a, b, code(_)) ==
  LET upTo[k \in a - 1 .. b] == IF k = a - 1 THEN Nothing ELSE upTo[k - 1] \o code(k)
  IN  IF b < a THEN Nothing ELSE upTo[b]

Racy(var, op, x)     == Load(var) \o Store(var, op, x)
Critical(code)       == Lock \o code \o Unlock

(* pthread_create and pthread_join of the threads 1 .. n - 1.              *)
JoinAll(n) == Each(1, n - 1, LAMBDA k : Join(k))

(* #pragma omp parallel: the main thread is thread 0 of the team and joins *)
(* the others at the end.                                                  *)
Parallel(n, body(_)) == Each(1, n - 1, LAMBDA k : Fork(k, body(k))) \o body(0) \o JoinAll(n)
Region(on, n, body(_)) == IF on THEN Parallel(n, body) ELSE body(0)

(* #pragma omp for, dynamic or of the implementation's choice: whoever     *)
(* comes takes the next iteration.  So do sections.                        *)
ParallelFor(n, bodies) == Put("next", 0) \o Parallel(n, LAMBDA id : Take(bodies))

(* SPool: Dispatch starts the workers 1 .. n, WaitForIdle waits for them.  *)
Dispatch(n, body(_)) == Each(1, n, LAMBDA k : Fork(k, body(k))) \o Each(1, n, LAMBDA k : Join(k))

(* ThreadRangeOmp: the first R threads do one iteration more than D.       *)
ThreadRange(rank, nThreads, Beg, End) ==
  LET D == (End - Beg) \div nThreads
      R == (End - Beg) % nThreads
      end[k \in 0 .. nThreads] == IF k = 0 THEN Beg ELSE end[k - 1] + D + (IF k <= R THEN 1 ELSE 0)
  IN  end[rank - 1] .. end[rank] - 1

ProductOf(S) == MapThenFoldSet(LAMBDA x, y : x * y, 1, LAMBDA i : i,
                               LAMBDA T : CHOOSE i \in T : TRUE, S)
SumOf(S)     == MapThenSumSet(LAMBDA i : i, S)
Factorial(k) == ProductOf(2 .. k)
Over(S, code(_)) == Each(0, Reps, LAMBDA i : When(i \in S, code(i)))
-----------------------------------------------------------------------------
(* pthreads                                                                *)
Children(n, body(_), given(_)) == Each(1, n - 1, LAMBDA k : given(k) \o Fork(k, body(k)))

forkJoin == Fork(1, Say("child", <<>>)) \o Say("parent", <<>>) \o Join(1)

forkJoin2(n) ==
  Children(n, LAMBDA k : Say("child", <<k>>), LAMBDA k : Nothing) \o Say("parent", <<0>>) \o JoinAll(n)

(* Mutant of Argument: the buffer is written after the thread was created. *)
ArgumentLate(k, n, code) == code \o Put("id", k) \o Put("num", n)

(* All children are given the same buffer.                                 *)
Argument(k, n, code) == Put("id", k) \o Put("num", n) \o code

forkJoin3(n) ==
  LET child == Load("id") \o Load("num") \o Say("child", <<>>)
  IN  Each(1, n - 1, LAMBDA k : Argument(k, n, Fork(k, child))) \o Say("parent", <<>>) \o JoinAll(n)

(* Every child has a buffer of its own.                                    *)
forkJoin4(n) ==
  Children(n, LAMBDA k : Say("child", <<k, n>>), LAMBDA k : Nothing) \o Say("parent", <<>>) \o JoinAll(n)

forkJoin5(n) ==
  Children(n, LAMBDA k : Say("child", <<k, n>>), LAMBDA k : Nothing) \o Say("parent", <<>>) \o JoinAll(n)

Returned(k) == <<"ret1", "ret2", "ret3", "ret4">>[k]
forkJoin6(n) ==
  Children(n, LAMBDA k : Say("child", <<k, k * k>>) \o Put(Returned(k), k * k), LAMBDA k : Nothing)
  \o Say("parent", <<0>>)
  \o Each(1, n - 1, LAMBDA k : Join(k) \o Load("sum") \o Load(Returned(k)) \o Store("sum", "+", 0))
  \o Load("sum") \o Say("sum", <<>>)

(* deposit and withdraw, without and with the lock that is declared beside *)
(* them.                                                                   *)
Transaction(id, on) ==
  LET update == Racy("sum", "+", IF id % 2 = 1 THEN 1 ELSE -1)
  IN  IF on THEN Critical(update) ELSE update
do1000Transactions(id, on) == Each(1, 2, LAMBDA i : Transaction(id, on))

mutualExclusion(n, on) ==
  Children(n, LAMBDA k : do1000Transactions(k, on), LAMBDA k : Nothing)
  \o do1000Transactions(0, on) \o JoinAll(n)

(* pthreadBarrier is called where the exercise asks for it.                *)
helloGoodbye(id, n, on) ==
  Say("before", <<id, n>>) \o When(on, Barrier(n)) \o Say("after", <<id>>)

barrier(n, on) ==
  Children(n, LAMBDA k : helloGoodbye(k, n, on), LAMBDA k : Nothing)
  \o helloGoodbye(0, n, on) \o JoinAll(n)
-----------------------------------------------------------------------------
(* openMP                                                                  *)
ompForkJoin(n, on) ==
  Say("before", <<>>) \o Region(on, n, LAMBDA id : Say("during", <<>>)) \o Say("after", <<>>)

(* Part IV is commented out.                                               *)
ompForkJoin2(n, on) ==
  LET part(k, threads) == Parallel(threads, LAMBDA id : Say("part", <<k>>))
  IN  Say("beginning", <<>>) \o part(1, n) \o Say("between", <<1>>) \o part(2, 3)
      \o Say("between", <<2>>) \o part(3, 5)
      \o When(on, Say("between", <<3>>) \o part(4, 3)) \o Say("end", <<>>)

(* Without the pragma omp_get_num_threads() is 1.                          *)
Hello(id, n) == Say("hello", <<id, n>>)
TeamSize(on, n) == IF on THEN n ELSE 1

ompSpmd(n, on) == Region(on, n, LAMBDA id : Hello(id, TeamSize(on, n)))

(* id and numThreads are declared outside the region.                      *)
ompSpmd2(n) ==
  Parallel(n, LAMBDA id : Put("id", id) \o Put("num", n)
                          \o Load("id") \o Load("num") \o Say("hello", <<>>))

ompBarrier(n, on) ==
  Parallel(n, LAMBDA id : Say("before", <<id, n>>) \o When(on, Barrier(n)) \o Say("after", <<id, n>>))

ompMasterWorker(n, on) ==
  Region(on, n, LAMBDA id : Say(IF id = 0 THEN "master" ELSE "worker", <<id, TeamSize(on, n)>>))

ompMasterOnly(n, on) ==
  Parallel(n, LAMBDA id : When(on => id = 0, Say("master", <<id, n>>)))

Iteration(i) == Say("iteration", <<i>>)
Iterations   == [i \in 1 .. Reps |-> Iteration(i - 1)]
Slices(id, n) == Over(Slice(id, n, Reps), Iteration)
ompEqualChunks(n) == ParallelFor(n, Iterations)

ompSlices(n, on) ==
  Parallel(n, LAMBDA id : Slices(id, n))
  \o When(on, Say("---", <<>>) \o Parallel(n, LAMBDA id : Slices(id, n)))

(* barrier(label) is called outside a parallel region.                     *)
ompWhile(n) ==
  Say("slices", <<>>) \o Parallel(n, LAMBDA id : Slices(id, n))
  \o Say("chunks", <<>>) \o Parallel(n, LAMBDA id : Over(Chunk(id, n, Reps), Iteration))

(* A reduction: every thread combines what it has got for its iterations.  *)
ReduceFor(n, op, one, parts) ==
  Put("sum", one) \o ParallelFor(n, [i \in DOMAIN parts |-> AtomicUpdate("sum", op, parts[i])])
  \o Load("sum") \o Say("result", <<>>)

parallelSum(n, on) ==
  IF on THEN ReduceFor(n, "+", 0, [i \in 1 .. Reps |-> i])
        ELSE Say("result", <<SumOf(1 .. Reps)>>)
ompReduction(n, on) == Say("sequential", <<SumOf(1 .. Reps)>>) \o parallelSum(n, on)

ompFactorial(n, on) ==
  IF on THEN ReduceFor(n, "*", 1, [i \in 1 .. Reps - 1 |-> i + 1])
        ELSE Say("result", <<Factorial(Reps)>>)

Table(i) == Say("table", <<i, Factorial(i)>>)
ompDynamic(n, on) ==
  IF on THEN ParallelFor(n, [i \in 1 .. Reps + 1 |-> Table(i - 1)])
        ELSE Each(0, Reps, Table)

(* Line B: i and j are private.                                            *)
Row(i) == Say("element", <<i, 0>>) \o Say("element", <<i, 1>>)
ompPrivate(n, on) ==
  IF on THEN ParallelFor(n, <<Row(0), Row(1)>>) ELSE Row(0) \o Row(1)

(* Line A, and line B where it is on.                                      *)
Deposits(body) == [i \in 1 .. Reps |-> body]
Balance == Load("sum") \o Say("balance", <<>>)
ompAtomic(n, on) == ParallelFor(n, Deposits(IF on THEN AtomicUpdate("sum", "+", 1)
                                                   ELSE Racy("sum", "+", 1))) \o Balance
ompCritical(n, on) == ParallelFor(n, Deposits(IF on THEN Critical(Racy("sum", "+", 1))
                                                     ELSE AtomicUpdate("sum", "+", 1))) \o Balance
ompCritical2(n) ==
  ParallelFor(n, Deposits(AtomicUpdate("sum", "+", 1))) \o Balance \o Put("sum", 0)
  \o ParallelFor(n, Deposits(Critical(Racy("sum", "+", 1)))) \o Balance

(* Lines A and C or neither; a chain of << writes a piece at a time.       *)
Stream(id, n) == Say("piece", <<id, 1>>) \o Say("piece", <<id, 2>>)
ompCritical3(n, on) ==
  IF on THEN Parallel(n, LAMBDA id : Critical(Stream(id, n))) ELSE Stream(0, 1)

SetShared(id) == Critical(Put("id", id) \o Load("id") \o Say("set", <<id>>))
ompDataRace(n, on) ==
  Put("id", -1)
  \o Parallel(n, LAMBDA id : IF on THEN SetShared(id)
                                   ELSE Put("id", id) \o Load("id") \o Say("set", <<id>>))
  \o Load("id") \o Say("won", <<>>)

ompSections ==
  Say("before", <<>>) \o ParallelFor(4, [i \in 1 .. 4 |-> Say("during", <<i>>)]) \o Say("after", <<>>)

(* Lines A to E: one thread creates the tasks, and any thread of the team, *)
(* here two that take a task each, executes them; taskwait waits for both. *)
ompTasks(on) ==
  IF on THEN Say("Please", <<>>) \o Fork(1, Say("list", <<>>)) \o Fork(2, Say("en", <<>>))
             \o Join(1) \o Join(2) \o Say("!", <<>>)
        ELSE Say("Please", <<>>) \o Say("list", <<>>) \o Say("en", <<>>)

(* What one process of the job does; the processes do not communicate.     *)
hybridSpmd(n, on) == Region(on, n, LAMBDA id : Hello(id, TeamSize(on, n)))
hybridSpmd2(n)    == Parallel(n, LAMBDA id : Hello(id, n))
-----------------------------------------------------------------------------
(* cilkPlus: a spawned function may run at once or later, until a          *)
(* cilk_sync or the end of the function that spawned it.                   *)
cilkForkJoin0(n, on) ==
  Say("before", <<>>) \o Each(1, n, LAMBDA k : Fork(k, Say("during", <<k>>)))
  \o When(on, Each(1, n, LAMBDA k : Join(k))) \o Say("after", <<>>) \o Each(1, n, LAMBDA k : Join(k))

cilkForkJoin1(n) == Dispatch(n, LAMBDA k : Say("during", <<k>>)) \o Say("after", <<>>)

cilkForkJoin1a(n) ==
  Say("before", <<>>) \o Dispatch(n, LAMBDA k : Say("during", <<k>>)) \o Say("after", <<>>)
-----------------------------------------------------------------------------
(* Vath_pth: the ranks of SPool begin at 1.                                *)
vathForkJoin == Say("before", <<>>) \o Dispatch(2, LAMBDA k : Say("during", <<k>>)) \o Say("after", <<>>)

vathForkJoin2 ==
  LET runWorkerThreads(m) == Each(1, m, LAMBDA i : Dispatch(1, LAMBDA k : Say("part", <<m>>)))
  IN  Say("beginning", <<>>) \o runWorkerThreads(2) \o Say("between", <<1>>) \o runWorkerThreads(3)
      \o Say("between", <<2>>) \o runWorkerThreads(1) \o Say("end", <<>>)

vathSpmd(n)  == Dispatch(n, LAMBDA k : Say("hello", <<k>>))
vathSpmd2(n) == Dispatch(n, LAMBDA k : Say("hello", <<k>>))

(* BarrierWait: whoever wakes up before everybody is there sleeps on.      *)
vathBarrier(n, on) ==
  Dispatch(n, LAMBDA k : Say("before", <<k, n>>) \o When(on, Barrier(n)) \o Say("after", <<k, n>>))

vathEqualChunks(n) == Dispatch(n, LAMBDA k : Over(ThreadRange(k, n, 0, Reps), Iteration))
vathChunksOf1(n)   == Dispatch(n, LAMBDA k : Slices(k - 1, n))

(* seqFactorial fills the table up to Reps, section B all but the last.    *)
vathLoopRevisited(n, on) ==
  IF on THEN Dispatch(n, LAMBDA k : Over(ThreadRange(k, n, 0, Reps), Table))
        ELSE Each(0, Reps, Table)

(* Reduction: Accumulate and Multiply hold the lock.                       *)
Accumulate(op, x) == Critical(Racy("sum", op, x))
vathReduction(n) ==
  Dispatch(n, LAMBDA k : Over(ThreadRange(k, n, 1, Reps + 1), LAMBDA i : Racy("other", "+", i))
                         \o Accumulate("+", SumOf(ThreadRange(k, n, 1, Reps + 1))))
  \o Load("other") \o Say("without", <<>>) \o Load("sum") \o Say("result", <<>>)

(* parFactorial: the last thread multiplies by number as well.             *)
parFactorial(number, n) ==
  IF number <= 1 THEN Say("factorial", <<number, 1>>)
  ELSE Accumulate("+", 1)
       \o Dispatch(n, LAMBDA k : Accumulate("*", ProductOf(ThreadRange(k, n, 2, number))
                                                 * (IF k = n THEN number ELSE 1)))
       \o Load("sum") \o Say("factorial", <<number>>) \o Put("sum", 0)
vathReduction2(n) == Each(0, Reps, LAMBDA number : parFactorial(number, n))

(* Sections B and D: every worker has a range of its own.                  *)
vathPrivate(on) ==
  IF on THEN Dispatch(4, LAMBDA k : Over(ThreadRange(k, 4, 0, 2), Row)) ELSE Row(0) \o Row(1)

(* Sections B and D, or the sequential loop.                               *)
vathRaceCondition(n, on) ==
  (IF on THEN Dispatch(n, LAMBDA k : Over(ThreadRange(k, n, 0, Reps), LAMBDA i : Racy("sum", "+", 1)))
         ELSE Each(1, Reps, LAMBDA i : Racy("sum", "+", 1)))
  \o Balance

(* Section A instead of line B.                                            *)
vathLanguageDiff(n, on) == Dispatch(n, LAMBDA k : IF on THEN Stream(k, n) ELSE Hello(k, n))
=============================================================================
