# Patternlets: TLA+ models, model checking and proofs

Patternlets is a collection of small parallel programs, one per pattern, in C
with MPI, OpenMP and Pthreads, in C++ with Cilk Plus and the *vath* pool
library, in Java with Open MPI and in Python with mpi4py. Most programs are a
page long. The code that has a state and a protocol of its own is

* a thread-safe bounded queue and its producer-consumer program,
* the headers of the vath library: pools, deques, queues, pipelines, barriers,
  synchronised values, ring buffers and reductions,
* the message-passing programs whose processes depend on each other's sends,
* the arithmetic that divides a loop among processes or threads.

Paths below are relative to `src/patternlets/`; *vath* stands for
`Vath_pth/vath_pth/include/`.

## Contents

| file | what it is |
|---|---|
| `TSQueue.tla` | the shared queue `pthreads/08.sharedQueue/TS_Queue.c` |
| `BoundedFIFO.tla` | the abstract queue that `TSQueue` implements |
| `CircularArray.tla` | what an array with a first index and a size stores |
| `ProducerConsumer.tla` | the program `producerConsumer.c`, on an instance of `TSQueue` |
| `WSPool.tla` | the work-stealing pool `vath/WSPool.h`, with `WSDeque.h` |
| `BkBarrier.tla` | the barrier of the pools, compiled into `libvath.a` (external) |
| `ThQueue.tla` | the closable queues of `vath/ThQueue.h` |
| `ClosableFIFO.tla` | the abstract queues that `ThQueue` implements |
| `PipeThQ.tla` | the thread pipeline `vath/PipeThQ.h`, on an instance of `ThQueue` |
| `RingBuffer.tla` | the ring buffer of `vath/RingBuffer.h`, which also implements `BoundedFIFO` |
| `SynchP.tla`, `OSynchP.tla` | the synchronised values of `vath/SynchP.h` and `OSynchP.h` |
| `PipeBL.tla` | the pipeline of Boolean locks, `vath/PipeBL.h` |
| `TbbReduction.tla` | the lock-free accumulation of `vath/TbbReduction.h` |
| `JobMgr.tla` | the counts of jobs and tasks of the task pool, `vath/JobMgr.h` |
| `ThDeque.tla` | the task pool's deque, `vath/ThDeque.h` |
| `MPI.tla` | the instructions message-passing programs are made of, and what they do (external) |
| `MPIPrograms.tla`, `MPIJava.tla`, `MPIPython.tla` | the programs of `MPI/`, `java-OpenMPI/` and `mpi4py/` |
| `MPIJob.tla` | a job: processes that run one of these programs, and its properties |
| `Partition.tla` | the arithmetic that divides loops |
| `ThreadPrograms.tla` | the programs of `pthreads/`, `openMP/`, `hybrid-MPI+OpenMP/`, `cilkPlus/` and `Vath_pth/` |
| `ThreadJob.tla` | the threads that run one of these programs, and its properties |
| `VathTools.tla` | the composition of seven of the vath tools |
| `MC*.tla` | constants for TLC |
| `*Proofs.tla` | lemmas and theorems, checked by TLAPS: `TSQueueProofs`, `ProducerConsumerProofs`, `ThQueueProofs`, `PipeThQProofs`, `WSPoolProofs`, `VathToolsProofs`, `MPIJobProofs`, `MPIOutcomeProofs` |
| `*.cfg`, `PROJECT.json` | TLC's configurations; the list of runs, the map from definitions to source lines, hazards and theorems |

To check a run: `tlc -config MCTSQueue.cfg MCTSQueue`. To check the proofs:
`tlapm TSQueueProofs.tla`.

## Inventory of the system

For every component: its state, its operations, how it meets the others, what
is hard about it, and what makes it correct. *(M)* is modelled, *(P)* in part.

**Shared queue** *(M)*, `pthreads/08.sharedQueue/TS_Queue.c`. A circular array
with a capacity, a size, a first and a last index, one mutex, and the
conditions not-empty and not-full. Operations: `createQueue`, `append`,
`removeFirst`, `peekFirst`, `peekLast`, `clear`, `setCapacity`, the getters,
`destroy`. Clients are threads. Hard: waiting and re-testing, one signal per
operation, wrap-around, `setCapacity` reading fields before it locks. Correct
when it behaves as a bounded FIFO queue and when nobody sleeps beside work.

**Producer-consumer program** *(M)*, `producerConsumer.c`. `main` creates a
queue, consumers and producers, joins them, asserts that the queue is empty and
destroys it. Hard: the order of the joins, the shutdown. Correct when items are
conserved and stay in order, and when the program ends.

**Work-stealing pool** *(P: all but thread start-up and `GetRank`)*, *vath*`WSPool.h`, `WSDeque.h`. A deque per worker,
a count of tasks under way (a class called JobMgr, not the one of `JobMgr.h`),
the barrier, the flag `shut`. Operations: `SubmitJob` (task or group),
`SubmitChild`, `WaitForIdle`, `JoinThreads`; the workers' loop `RunWorkload`.
Hard: pushing and counting are two steps, owner against thief, retiring to the
barrier, shutdown. Correct when each task is executed once, and an idle pool
has finished its job.

**Pool barrier** *(P, external)*, *vath*`BkBarrier.h`. A counter, a cycle flag
and an idle flag; `Wait`, `ReleaseThreads`, `WaitForIdle`. Only declared in the
repository; its code is in `libvath.a`.

**Closable queue** *(P: all but `MutexRelease` and `GetSize`)*, *vath*`ThQueue.h`. A list with a capacity, a size, an
active flag, one mutex and two conditions; `Add`, `Remove`, `TryRemove`, `Read`,
`CloseQueue`, `DrainQueue`. Hard: broadcasts only when the size crosses an edge,
`TryRemove` that wakes nobody, consumers and producers asleep when the queue is
closed. Correct when a closed queue delivers everything it accepted and then
reports the end, to everybody.

**Pipelines** *(M)*, *vath*`PipeThQ.h`, `PipeBL.h`. An array of queues, or
of Boolean locks, between stages that are one thread each. Hard: the close
travels from stage to stage; waiting for a lock's state and changing it are two
calls. Correct when nothing is lost or overtaken on the way and every stage
exits.

**Task pool** *(P)*, *vath*`NPool.h`, `JobMgr.h`, `ThDeque.h`. Jobs made of
nested tasks, counters of active tasks per job and of jobs, idle signals, and
the deque the tasks wait in. Hard: `UnregisterJob` tests a counter after
unlocking. Correct when a job is reported finished after its last task, and no
task is lost. The workers' loop is compiled into `libvath.a`.

**SPMD pools** *(P, external)*, *vath*`SPool.h`, `ThreadMgr.h`, used by all
Vath programs through `Dispatch`, `WaitForIdle`, `GetRank`, `ThreadRange`.

**Synchronised values** *(M)*, *vath*`SynchP.h`, `OSynchP.h`. One writer posts
values, each to be read by a number of readers. Hard: `signal` where a reader
of the next round may absorb the wakeup meant for the writer; waiting for a
flag and locking as two steps. Correct when no value is replaced before it was
read as often as it should be, and nobody waits for ever.

**Barriers** *(P)*, `pthreads/07.barrier/pthreadBarrier.h`, *vath*`TBarrier.h`.
Hard: spurious wakeups, thread-local senses that start unseeded. Correct when
nobody leaves before all have arrived.

**Ring buffers** *(P)*, *vath*`RingBuffer.h`, `RBuff_Tbb.h`: head, tail and a
wrap counter. Hard: full and empty differ only in the counter. Correct when it
is a bounded FIFO queue.

**Reductions** *(M)*, *vath*`Reduction.h`, `TbbReduction.h`: accumulation under a
lock, or by compare-and-swap on a pointer. Hard: the retry, the reuse of a freed
address. Correct when no accumulation is lost.

**Locks and flags** *(P, with their users)*, *vath*`BLock.h`, `OBLock.h`,
`SpBLock.h`: wrappers over mutexes with a state one can wait for.

**Message-passing programs** *(M)*, `MPI/`, with versions in `java-OpenMPI/` and
`mpi4py/`. Each process runs a short script of sends, receives and collective
operations. Hard: a send may or may not wait for its receiver, a collective
waits only for some, messages of two rounds look alike, a process without a
neighbour. Correct when every job ends and has computed what it should,
whatever is buffered.

**Master-worker task queue** *(M)*, `MPI/25.taskQueue/taskQueue.c` and its Java and
Python versions. Hard: results in any order, more workers than tasks, the stop
message. Correct when every task is in one place at any time and collected once.

**MPI collectives programs** *(M)*, broadcast, scatter, gather, reduce, in `MPI/11`
to `24`. Hard: the separators printed between two barriers, remainders. Correct
when all processes enter the same collectives, and the pieces fit together.

**Work partitioning** *(M)*, `MPI/02`, `03`, `14`, `20`, `21` (`chunks.h`), `24`,
`openMP/09.parallelWhile`, the Vath loops. Pure arithmetic. Correct when the
pieces cover the range, each index once, with sizes that differ by at most one.

**Fork-join and shared-memory races** *(M)*, `pthreads/02` to `07`; **OpenMP
programs** *(M)*, `openMP/`; **Vath programs** *(M)*, `Vath_pth/00` to `12`;
**Cilk Plus and hybrid programs** *(M)*. A team of threads, shared variables, a
lock, a barrier. Many come with lines commented out which an exercise asks the
reader to bring in: a lock, a barrier, a `private` clause, a reduction. Hard:
which outputs remain possible with and without these lines, an argument that is
overwritten while a thread still reads it. Correct when with the lines each
program says what it is to, and without them what can still be relied on holds.

**Left aside**: `BigInt.cpp` (third-party sequential arithmetic, in four copies).

## How the models correspond to the code

### TSQueue

`myArray`, `myCapacity`, `mySize`, `myFirstIndex`, `myLastIndex` are the fields
of `TS_Queue`. `call[t]` is what thread `t` is executing, with its arguments
and, for `setCapacity`, the two locals it loads; `result[t]` is what its last
call returned. `notEmpty` and `notFull` are the threads asleep on the two
conditions.

`Invoke` starts a call. Everything the code does between locking and unlocking
`myLock`, or between locking and `pthread_cond_wait`, is one action: nobody else
can touch the fields meanwhile. So `append` is `AppendWait` (the queue is full:
release the lock and sleep) and `AppendItem` (store, advance, count, signal,
unlock); a woken thread stays in its call and tests again, as the `while` does.
`Signal` wakes one waiter of the implementation's choice; `SpuriousWakeup` wakes
a thread nobody signalled, as POSIX allows. `clear` signals nobody, and neither
does `setCapacity`.

`setCapacity` (lines 111-149) is where one critical section is not enough. It
loads `myFirstIndex` and `mySize` before it locks (lines 113, 114):
`SetCapacityReadFirst` and `SetCapacityReadSize`, in either order, since they are
plain loads. `SetCapacitySame` is the early return at line 127, which does not
unlock: `lockLeaked` disables every later locked step. `SetCapacityCopy` is the
rest. Calls with capacity 0, which exit the process, are not made.

`ResizeAlone` names an assumption. With `TRUE`, no other call is in progress
while `setCapacity` runs: the way of using it that the code can support. With
`FALSE` all calls overlap as they like.

### ProducerConsumer

`Queue == INSTANCE TSQueue`. `main` is `CreateThread`, `JoinThread`,
`AssertEmpty`, `Destroy`, in the order of lines 63-104: consumers first, in the
creation and in the joins. A thread runs from its creation. The items are
`10*id+i`, and `CountsAssumption` bounds `numItems` by 10 so that they differ,
as the program's own output requires. Process exit and the failed assertion
stop every thread (`Exited`).

### ThQueue and PipeThQ

`c[q]`, `active[q]`, `not_empty[q]`, `not_full[q]` are the fields of one queue,
for a set of queues, since a pipeline has several; the field `size` is always
the length of `c`. As in `TSQueue`, a critical section is an action, and so is
the part of one up to a wait. `Remove` of a closed and empty queue unlocks
before it broadcasts, so it is two actions, `RemoveEnd` and `WakeOthers`.
`DrainQueue` is a call that keeps removing until the end is reported. `result`
says which answer the caller got: added or refused (`Add` returns 1 or 0), an
element, nothing (`TryRemove`), or the end (the flag is false).
`tried[q]` is a history variable, not state of the code: it records that
`TryRemove` has taken an element from a full queue that has not been full since.

In `PipeThQ`, stage `n` gets from queue `n-1` and posts to queue `n`. `PassOn` and
`PassClose` are what `GetPrevious` does with a true and a false flag, `ToClose` is
the queue that `ClosePipeline` closes. No program of the repository uses the
class; its client is the one the header describes, with one thread per rank,
and a thread that may call `ClosePipeline` at any time, so that values posted
later are refused, and dropped by `PostNext`, at the entrance.

### WSPool and BkBarrier

`ws_queue[w]` is the deque of worker `w`; the owner pushes and pops at the
front, a thief takes the back, each under the deque's mutex, hence in one
action. `task_count` is JobMgr's counter. `at[w]` is where worker `w` is in
`PeerThread` and `RunWorkload`: `arrive`/`asleep` (the barrier), `test` (the
flag `shut`), `loop` (`ActiveTasks()`), `pop`, `steal`, `run` (inside
`ExecuteTask`), `register` (in `SubmitChild`, after the push and before the
count), `exited`. A thief looks at the deque with `isEmpty`, which takes no
mutex: since the answer may be anything, `Steal` may come away empty-handed at
any time, and takes a task only if one is there.

A task is a model value with the sequence of children it submits; executing it
is submitting them. The client submits the jobs one after the other and waits
for each, then calls `JoinThreads` (`SetShut`, `ShutWait`, `ShutRelease`, `Join`).
`Settled` is the constructor's 500 ms: the client starts when all workers sleep
at the barrier. That is an assumption about time which the code makes and
cannot check; the mutant `SettledAtOnce` shows that `IdleMeansDone` needs it.

`BkBarrier` is modelled from what `libvath.a` does on behalf of the pools. Its
operations `State` and `WakeUpClient` are not used by `WSPool` and are left out.

### MPIJob and the message-passing programs

A program is an operator named after its source file. Given the rank `id`, the
number of processes `n` and, where it matters, the memory `m` of the process, it
is the sequence of the process's instructions, in the order of `main`: compute,
print, send, receive, a collective, a jump, an abort. The values in it may
depend on `m`, so `Code(p)` is evaluated afresh before every step; a branch on a
received value is a sequence whose tail depends on `m`, a loop a `Goto`.

`job` says which program runs, in which language, on how many processes, and
whether it finds its input (the file or the command line). `pc`, `mem` and
`phase` are each process's; `chan[p][q]` holds the messages under way. What the
library may do is left open: `SendMessage` buffers or waits for the receiver, by
choice at each send; `Receive` takes the earliest message of a sender that
matches the tag, from any sender when the program says so; `LeaveCollective`
waits only for the processes that `Awaited` names, which is all for a barrier, the
root for a broadcast or scatter, and for the root of a reduction or gather
everybody. A failed assertion or a rank that does not exist aborts the job.

`Partition` has the arithmetic of the loops. The programs use it, and so do the
thread programs; the theorems are about it alone.

### The tools of the vath library

Each tool is a module with its own threads; `VathTools` lets a behaviour choose
one of seven, while the others stay as constructed, so that one run explores
each of them completely and nothing of their product. The rule is the same as
for the queues: what happens under a mutex up to the next wait is one action,
and a step outside one is an action of its own.

* `RingBuffer`: `Insert` and `Extract` repeat `Push` and `Pop`, which run under
  `rlock`. The constructor does not set `C`: without `ZeroedMemory` it begins with
  any value, and the class does not work. The theorems and the run assume zeroed
  memory, as for a global object.
* `SynchP`: `Post` and `Get` under `slock`; the last reader signals one waiter of
  the implementation's choice, and woken threads test again.
* `OSynchP` spins on an `OBLock` and then takes its lock: `PostReady` and `GetReady`
  are the end of the spinning, and others may come in before the rest.
* `PipeBL`: `WaitForRelease` and the change of the lock are two steps, as are the
  wait of `ReleaseNext` for the stage ahead and its release.
* `TbbReduction`: reading the pointer, allocating, compare-and-swap and freeing
  are steps. A freed address can be allocated again, so the swap can succeed
  although the value is not the one read; the history variables `stale` and `confused`
  record when that has happened, and `SumIsExact` holds until then.
* `JobMgr`: the task counters of each job, the job counter and the two flags.
  `UnregisterJob` unlocks between counting and testing. Workers stand for NPool's
  loop: they take a queued task, may submit children, and report it finished.
* `ThDeque`: like `ThQueue` without a capacity, with removal at both ends.

### ThreadJob and the multithreaded programs

A program is an operator named after its directory; it gives the instructions of
the main thread, and a `fork` carries those of the thread it starts. Instructions
are single accesses: `say` a line, `load`, `put`, `store`, an atomic update, `lock`,
`unlock`, `fork`, `join`, `barrier`, `take` (the next iteration of a loop or the next
section). So `balance += 1.0` is a load and a store with room between them. A
parallel region forks the team and joins it; a `critical` section is a lock; a
reduction is a private sum and a store under the lock.

`run` says which program runs, with how many threads, and whether the lines its
exercise brings in are there (`on`). How OpenMP divides a loop without a schedule
clause is up to the implementation: such iterations are taken by any thread, which includes
every division. `out` is everything said, in order. Only `pthreadBarrier` waits
without a loop around `pthread_cond_wait`: `SpuriousWakeup` lets a thread leave it
early, and `early` records that it has.

## Runs

| run | instance | what it shows |
|---|---|---|
| `tsqueue` | 3 threads, 2 items, capacities 1 to 3, all operations, `ResizeAlone` | types, index invariant, `TSQueue` implements `BoundedFIFO` |
| `producer_consumer` | 2 producers, 2 consumers, 3 items each, capacity 2 | conservation, order, no lost wakeup, clean shutdown, termination |
| `ws_pool` | 3 workers; a job that unfolds from one root, a group of 4 roots | the count, one place per task, sleepers leave nothing, idle means done, everybody joined |
| `thqueue` | 3 threads, 2 elements, one queue of capacity 2, all operations | types, nobody sleeps in vain, `ThQueue` implements `ClosableFIFO` |
| `pipeline` | 4 stages, queues of size 2, 5 values, closed at any time | order, nothing dropped, the close travels behind the flow, every thread exits |
| `mpi` | every message-passing program in every language it is written in; 1 to 4 processes, 9 for the loops | types, outcome, separators, matching collectives, tasks conserved, the certain deadlock, termination |
| `vath_tools` | 2 or 3 threads for each of seven tools | types, the ring buffer implements `BoundedFIFO`, reads per post, pipeline in step, exact sums, end of a job, the deque, termination |
| `threads` | every multithreaded program with 1 to 3 threads, two of them with 4, with and without the optional lines | outcome, termination |
| `tsqueue_resize` | 2 threads, capacities 2 and 3, overlapping `setCapacity` | violation: an item is lost |
| `ws_active_tasks` | 2 workers, one job | violation: `ActiveTasks()` is 0 while a task is being executed |
| `jobmgr_flag` | 2 workers, 2 jobs of one task | violation: the pool is flagged idle while a job runs |
| `jobmgr_idle` | 2 workers, 1 job of two tasks | violation: the job ends, both workers unregister it, and the pool is never flagged idle |

**Why these bounds.** In `tsqueue`, three threads are the fewest that put two
waiters on one condition while a third signals; two items tell apart which one
came out; capacities 1 to 3 include the ring whose slots coincide, growing,
shrinking with and without truncation, and every wrap-around of the copy. While
`setCapacity` runs alone the indices never leave the array, so the state space of
that run is finite with no bound on the number of calls. In `producer_consumer` the queue has capacity 2, not the
program's 8: six items fill it three times over, and with two threads on each
side both a full and an empty queue with two sleepers are reached, which with 8
slots would take sixteen items. Nothing in the code depends on the number. In
`ws_pool`, three workers give every worker a victim that is not its thief; four
roots wrap around the workers; the first job's tree is two deep, so that
children are stolen and have children; the second job finds the barrier in its
other cycle. In `thqueue`, capacity 2 keeps the two edges at which the code broadcasts
apart (size 1 after an `Add`, capacity - 1 after a `Remove`) and has a size
between empty and full; three threads put two sleepers on a condition. In
`pipeline`, four stages give two that both get and post, and five values are
more than the first queue and the stage behind it can hold. `MCTSQueue` and
`MCThQueue` use symmetry on threads; they check no liveness.

In `mpi` (53 thousand states) the loops have the programs' own eight iterations,
and 1, 3, 4 and 9 processes: a divisor, a remainder, more processes than iterations.
Point-to-point programs behave differently for odd and even numbers and at the
ends of the ring, which 1 to 4 processes show; three processes are a master with
two workers, whose messages mix. In `threads` (359 thousand states) arrays and repetitions are cut down to
`Reps` = 4, because a race needs two iterations and a schedule a remainder; a
team of three has threads that are neither first nor last. Four threads are used where a
thread number is overwritten several times. In `vath_tools` (78 thousand states) two
readers and a writer with three rounds are the fewest where a reader of the next
round competes with the writer; three stages and three passes give a stage with
two neighbours and one to be ahead of; two adders with two updates and four
addresses let one free and reuse the address the other has read; two workers and
two jobs of two tasks with a child each make the last task of a job finish while
others are under way; three clients and three elements, closed after two, put
sleepers beside a closing deque; a ring of three slots wraps with any number of operations.

**Deadlock.** `tsqueue` and `thqueue` allow it: a client whose threads all wait is
stuck, and so is everybody once the lock has leaked. So do `mpi`, `vath_tools` and
`threads`, whose jobs end, and where one program is meant to deadlock: that the
others do not is what `Terminates` and `Finishes` say. The other passing runs check it,
and their only step at the end is an explicit one.

**Fairness.** Weak fairness for every thread as a whole: the operating system
keeps scheduling a thread that can run, and a mutex that keeps becoming free is
granted eventually. A sleeping thread has no enabled step, so nothing forces a
wakeup: a lost signal shows up as a violation of `Terminates` (its mutant
`SignalNobody`). No fairness is assumed of spurious wakeups, nor of the choice
of the thread a signal wakes. In `WSPool` the fairness of a worker does not ask
that stealing succeed; `AllJoined` needs only that somebody executes each task,
and its owner pops it.

In `mpi` it is enough that the job as a whole goes on while some process can;
but a collective is only sure to let a process go when all have entered, so that no
program ends only because a library happens not to synchronise. `Hangs` names the
jobs that do not end: the deadlock, and the Java broadcasts without their file. In
`threads` and in the tools each thread is weakly fair. No liveness is claimed of
`RingBuffer` and `TbbReduction`, whose retries need luck, and of `OSynchP`, where a
reader that is late may read the same value twice in another's place.

**The properties that carry weight**

* `ImplementsBoundedFIFO` - every step of the code is one abstract operation on
  the represented contents, or invisible; wrap-around and copying included.
* `NoLostWakeup` - while a consumer sleeps on not-empty, at least as many
  removals are awake as there are items, and likewise for producers and free
  slots: the reason why `signal` rather than `broadcast` is enough here.
* `ItemsConserved`, `ProducerOrder`, `CleanShutdown` relate the program's outputs
  to what was appended, and the destruction of the queue to what the threads do.
* `SleepersHaveReason` - a consumer of a `ThQueue` sleeps only while the queue is
  empty and open, a producer only while it is full or `TryRemove` alone has made
  room: broadcasting at the edges is enough for any number of threads.
* `ImplementsClosableFIFO` - nothing is accepted after the close, what was
  accepted is still delivered, the end is never reported early.
* `InOrder`, `NothingDropped`, `ClosedBehind`, `AllExit` - the values in the whole
  pipeline, in queues and in hands, are what was accepted, in order, at every
  moment; closing cuts nothing off and leaves no thread behind.
* `CountIsExact` - the count is the number of tasks queued or being executed,
  less those pushed and not yet counted.
* `Outcome` (`mpi`) - each of the jobs computes what its program is for in every
  interleaving, buffered or not, and leaves no message behind. The goals are
  closed forms, not the program's own arithmetic.
* `SeparatorSplits` - barriers do separate the output before and after.
* `CollectivesAgree` - all processes enter the same collectives in the same order.
* `TasksConserved` - a task that was handed out is in exactly one place, a message
  or a process; one that was not is nowhere.
* `DeadlockIsCertain` - the deadlock to be shown does not depend on buffering.
* `Outcome` (`threads`) - what every program says, exactly where it is synchronised, and
  the possible range where a race is left in. Every update, iteration and line counts.
* `ReadsPerPost` - no value is replaced before it was read as often as asked for; with
  `OSynchP`, whose readers may come late, it is read fewer than twice as often.
* `InStep` - no release is lost or taken twice between the stages of `PipeBL`.
* `SumIsExact`, `EndOfJobMeansDone`, `DequeKeepsElements` - no update is lost to a
  failed swap, no task of an ended job is left, no element is lost or left beside a
  sleeper.
* `SleepersLeaveNothing`, `IdleMeansDone` - no worker retires from work that is
  left in its deque, and when `WaitForIdle` returns all descendants have run.

Each property of a passing run has a mutant in `PROJECT.json`: a plausible bug in
one definition that makes TLC find that property violated.

## What is proved

`TSQueueProofs.tla`, for any set of threads, any items, any capacities:

* `TypeCorrect`: `Spec => []TypeOK /\ [][AccessesInside]_vars`, with or without
  `ResizeAlone`. `TypeOK` is inductive as it stands. The first index is always a slot
  of the array; of the last one it says only that it is at least -1. Once a
  `setCapacity` that overlapped other calls has installed a stale size, the last
  index can lie behind the array, where `peekLast` then reads, and so can the
  stale first index that its copy starts from. `AccessesInside` is what remains
  true: `append`, which takes the index modulo the capacity first, stores its item in
  a slot of the array, and `removeFirst` returns what a slot holds.
* `IndexInvariantHolds`: under `ResizeAlone`, `Spec => []IndexInvariant`.
* `QueueImplementsBoundedFIFO`: under `ResizeAlone`, `Spec => ImplementsBoundedFIFO`.

The inductive invariant is `TypeOK` with `Inv == IndexInvariant /\
ResizeReadsFresh`. `IndexInvariant` alone is not inductive: `SetCapacityCopy`
installs what was read earlier. `ResizeReadsFresh` adds that a `setCapacity` in
progress has read the values the fields still have, because every other thread
is idle. The refinement has one lemma per operation (`RefinesAppend`,
`RefinesRemove`, `RefinesPeek`, `RefinesClear`, `RefinesResize`), each resting on a
lemma about what storing, dropping, clearing and
copying do to the represented sequence, and on the arithmetic of `%` proved
there.

The assumptions are those the modules name: capacities are positive
(`CapacitiesAssumption`, the precondition of `createQueue` and `setCapacity`),
`NoItem` is not an item, `ResizeAlone` is a Boolean.

`ThQueueProofs.tla`, for any threads, queues, elements and positive capacity:

* `TypeCorrect`: `Spec => []TypeOK`, the bound of the capacity included.
* `NobodySleepsInVain`: `Spec => []SleepersHaveReason`. The property, stated
  queue by queue as `Reason(q)`, is inductive together with `TypeOK`. The two steps
  that matter are lemmas: `ReasonAfterAdd` (consumers can sleep only at size 0, so
  the `Add` that makes it 1 wakes them all) and `ReasonAfterRemove` (producers sleep
  at the capacity, so the `Remove` that leaves capacity - 1 wakes them all).
* `ThQueueImplementsClosableFIFO`: `Spec => ImplementsClosableFIFO`, from `TypeOK`
  alone: the refinement mapping is the identity on `c`, `active` and `result`.

They assume `CapacityAssumption` (a capacity of at least 1; the constructor does
not check it) and nothing else.

`ProducerConsumerProofs.tla`, for any sets of producers and consumers and any
number of items and capacity the assumptions of the module allow:

* `TypeCorrect`, `NoLostWakeupHolds`, `ItemsConservedHolds`, `ProducerOrderHolds`
  and, when there are as many producers as consumers, which the program's
  assertion presupposes, `CleanShutdownHolds`.

The inductive invariant is `Shape`, `Items` and `Order`. `Shape` says where each thread
can be: the queue's indices fit (`QueueShape`), a thread's call is the one its loop
is at (`CallShape`), one that sleeps is inside the call that waits (`SleepShape`),
and `main` has joined whom it says (`MainShape`). `NoLostWakeup` counts threads, so it
rests on lemmas about what adding or removing one does to a cardinality. `Items`
and `Order` relate the queue's contents, by lemmas about circular arrays, to
what each producer has appended so far; without `Shape` a value in the hands of a
thread could be anything. `CleanShutdown` counts: as many removals as appends have
returned when all threads are joined, so nothing is left.

`PipeThQProofs.tla`, for any number of stages and values and any size of the queues:

* `TypeCorrect`, `InOrderHolds`, `ClosedBehindHolds`, and the action property
  `NothingDroppedHolds`.

`Shape` says what a stage is executing at each place of its loop, and what is sure
then: one that has seen the end, is closing or has exited has an empty, closed
queue behind it, and only the stage in front of a queue closes it. Every
step of the program is one of the operators under `Acts(n)`, or the closer's, or
concerns only who sleeps (`AnyStep`); `Shape`, the types and the flow are then
followed over these. `Flow` is defined by recursion along the stages: `FlowUnfolds`
is proved to determine it (`RecursionExists`), and an induction over the ranks
(`Downwards`) carries what one stage did down to the first rank (`FlowBelow`). `InOrder`
alone is not inductive: `Accepted` adds that the flow is as long as the number
of values posted, less the one being added, until the first queue is closed.

`WSPoolProofs.tla`, for any number of workers and any jobs and tasks for which no task
is submitted twice (`OnceAssumption`):

* `TypeCorrect`, `CountIsExactHolds`, `SleepersLeaveNothingHolds`, `OnePlaceHolds`,
  `IdleMeansDoneHolds`.

The invariant `Shape` consists of `TypeOK`, `BarrierShape` (who the barrier counts and
in which cycle they sleep), `PhaseShape` (what the client may be doing
while workers are at the barrier), `WorkerShape` (what a worker has in hand at each
step of its loop), `CountIsExact` and `SleepersLeaveNothing`; `Places` then says of
every task where it is and of every executed one where its children are.
`CountIsExact` needs all of `WorkerShape`: the count of a push comes a step later.
`IdleMeansDone` follows since all workers sleep, hence no deque holds a task, and
a task that was submitted has no place left but among the executed ones.

`VathToolsProofs.tla`, for any number of threads, items, rounds, stages, jobs and
elements that `VathTools` names in its assumptions, in zeroed memory:

* `RingTypeCorrect`: the indices of the ring buffer stay slots, the wrap counter is
  0 or 1 and tells how many items are stored, never less than 0 or more than
  `Size`. It is inductive. `RingRefinement`: the ring buffer implements `BoundedFIFO`,
  the specification that `TSQueue` implements too, by
  lemmas about circular arrays.
* `TypeCorrect`: the types of all seven tools. Counts stay between 0 and their
  bounds, but for the two that the code itself lets fall below: JobMgr's count of jobs
  (no lower than minus the number of jobs times that of workers, since every worker
  may unregister a job) and the counter of `OSynchP` (no lower than one less the number
  of readers). The pointer of the reduction is on memory in use, always.
* `InStepHolds`, `ReadsPerPostHolds`, `EndOfJobMeansDoneHolds`,
  `DequeKeepsElementsHolds`.
* `SumIsExactHolds`: `Spec => []SumIsExact`, for any finite set of threads.

Each tool has an inductive invariant of its own, and a step of one leaves the others
alone. `PipeInv` adds to `InStep` what a stage between its two calls has seen and
nobody can have changed since. `SynchInv` and `OSynchInv` count the readers still owed
a value; in `OSynchInv` those between the end of spinning and taking the lock are
counted too. `JobsInv` keeps the counts of a job equal to the cardinalities of the sets
of its queued and running tasks. `DequeInv` says where each element is, and who can be
asleep. `SumInv` says that the pointer of the lock-free reduction points at memory in
use, owned by nobody. `ExactInv` adds what a thread has in hand whose old pointer was not
freed since it read it: that pointer is the current one or is about to be freed
(`Fresh`), so when the swap finds it unchanged nothing happened in between and the new
value is one amount more than the one it replaces. The sum over the threads is a
recursive function on sets in the library; `OneMoreAdded` builds the function of
the larger sum from the one of the smaller, and `OneSum` shows, by the smallest set on
which two would differ, that the definition determines it.

`MPIJobProofs.tla`, about the division of loops, for any number of iterations and of
processes:

* `ChunksFollowOneAnother`: each chunk of `chunks.h` begins where the one before it
  ends, the last ends at the last iteration, and sizes differ by at most one.
* `ChunksPartition` and `SlicesPartition`: chunks, and slices, are disjoint and
  together are all iterations. The argument is division with remainder.

and, for any even number of processes:

* `DeadlockIsForEver`: `Spec => []DeadlockIsCertain`. The inductive invariant
  `NobodyMoves` adds that all channels are empty and nobody waits in a send: each
  process is at a receive whose sender is at a receive. It needs that every
  process has a neighbour, hence that the number is even.

and, for any number of processes, in C, Java and Python:

* `TasksConservedHolds`: `Spec => []TasksConserved`.

The inductive invariant `TaskInv` has four parts. `TaskTyped` are the types. `TaskControl`
says how far the master can be in its instruction list, whose closed form (`OpAt`,
`TaskAt`) is proved of the concatenation in `HandOut` (`HandOutShape`), and that a worker
about to answer has a task unless it was told to stop. `TaskNetwork` says that
no task travels with the tag that stops a worker, or it would be dropped, and that a
process in a synchronous send waits for exactly one message. `TaskPlaces` is the property
itself, by sets with one element in place of cardinalities: a send puts a task that
was nowhere into a message, since no two sends carry the same one (`TasksDiffer`); a
receive moves it to a worker or to what is collected. The lemmas about the network
(`SendAdds`, `ReceiveRemoves`) say what one message more or less changes, wherever in
its channel it was.

and, for all jobs, that is every program in every language with any number of processes:

* `CollectivesAgreeHolds`: `Spec => []CollectivesAgree`.
* `SeparatorSplitsHolds`: `Spec => []SeparatorSplits`.

The invariant behind both is `StageInv`. A program is cut into *stages*: the sequence
`S` of the collectives a job's processes enter, and of the lines each prints between
two of them. `S` is the same for all processes of a job, although their
instructions are not: the master computes, sends or prints what others do not. A
*course* says at which stage each instruction of one process is; `Charted` says
that a course fits a program, and one exists for every program in every language
(`JobStages`, a lemma for each program, over the closed form of its instructions: what
the instructions are does not depend on the memory, `TextShape`). `Position` says that a
process has entered the collectives of `S` up to its stage and no others, which gives
`CollectivesAgree`. `Passed` says that one that has left a barrier left it after
everybody had entered it: `LeaveCollective` waits for all in a barrier, and nobody ever
un-enters. `Ordered` says of the stages that a separator is printed by itself between two
barriers, so that lines before it are of an earlier stage than the first barrier and
lines after it of a later one than the second; with `Passed` this is
`SeparatorSplits`. Jobs without collectives never enter one (`NoCollective`).

and, of what two kinds of programs leave behind when they end:

* `TaskQueueOutcome`: every task's result is collected once. `QueueInv` adds to `TaskInv`
  what is in the channels between the master and each worker, from the master's
  position alone: how many answers it has received (`Answers`), who has been told to stop
  (`Told`), that a stop message is the last thing in a channel. At the end it has as many
  results as there are tasks, no two equal, and so all (`AllCollected`).
* `LoopOutcome`: the shares are a partition (`SharesPartition`, from the theorems
  above), so the sequence a process writes lists each of its iterations once.

They assume `JobsAssumption` only: the jobs are programs of the repository with
at least one process each.

`MPIOutcomeProofs.tla`, for all jobs, however sends are buffered and collectives
synchronise:

* `OutcomeHolds`: `Spec => []Outcome`. When all processes have ended and none has
  aborted, no message is left in a channel and the memories are what the program
  computes. `EveryProgram` splits it into the theorems below and the two above, each
  with an invariant of its own; none needs more than `JobsAssumption`.
* `ExchangeOutcome`, neighbours and the ring: each process sends one message and receives
  one, which is in its channel exactly in between (`OneMessage`), whether sends
  or receives come first. A C program for neighbours that does not test the number
  of processes leaves the last of an odd number `Alone`; the process aborts, which the
  property exempts.
* `BroadcastOutcome`: by a collective, or by messages. A process that has ended has entered
  each broadcast, by `Position` of `StageInv`, and by `BcastInv` what it took is the
  master's value. In the version with messages the master's position says to whom it
  has sent (`Gone`), so that a worker has the value, or its message is under way, or
  is to come (`SendInv`).
* `CollectiveOutcome`, reductions, scattered, gathered and doubled arrays. Between
  lines and barriers each program has a few *key* instructions (`Keys`). `Keyed` says
  which instructions of a text they are (`KeyTextRuns`: it holds of every text), and `KeyInv` that the memory of a
  process depends only on how many of them it has passed (`Stores`). So all contributions
  to a collective are known once it is known that they belong to the same one; that
  is `CollectivesAgree` with the fact that no operation occurs twice in a program
  (`OpsDiffer`). What a process receives then follows from lemmas on the folds of the
  library (end of `MPIJobProofs`): a fold over a finite set is a recursive function on its
  subsets, which well-founded recursion shows to exist and to be unique, so that
  the sum of squares is its closed form, a maximum is the largest of all, and a
  gathered array is its pieces in order of rank.
* `RoundsOutcome`, two rounds of messages to the master, which takes them from whom they
  come: with `a` messages of a worker noted and `b` sent, the channel holds messages
  `a + 1` to `b` in order (`Holding`). The pairs of rank and round the master
  notes are all different, as many as there are, hence all of them, and in the order
  of sending for each rank (`AllNoted`).
* The remaining programs (`SoloInv`) send nothing.
* `TypesHold`: `Spec => []TypeOK`. For programs with key instructions it follows from
  `KeyInv`: what they store is bounded (`StoresTidy`). For the others `TypeInv` says that
  memories and messages are `Sound`, and `LegalText` that every instruction of every
  text over a sound memory is `Legal`, that is keeps to the bounds. The message of the ring
  has no fixed bound, since each process adds itself to it; that it ends at the number of
  processes comes from `OnceInv`, and that the task queue's processes, which jump, stay
  within their programs from `QueueInv`.

Only model-checked, and why:

* `Outcome` of `ThreadJob`: the model has five threads at most, and programs that have
  little in common, so that a proof would need an invariant for each of them and
  cover just the one number of threads more than the run, which explores every
  program with one to three threads, and some with four.
* All liveness, which the prover does not handle under fairness.

## Disagreements between the code and what it says

* `setCapacity` loses an item appended while it waits for the lock, although its
  postcondition keeps the items (run `tsqueue_resize`).
* `ActiveTasks()` can return 0 while a task is being executed, although JobMgr's
  comment says it tells whether all threads are inactive (run
  `ws_active_tasks`). The pool survives it: a worker that retires too early
  leaves nothing behind (`SleepersLeaveNothing`, `IdleMeansDone`).

* `UnregisterJob` tests `nJobs` and sets the pool's flag after unlocking, so that the
  pool can be flagged idle while a job runs, although the comment says "true if
  pool is inactive" (run `jobmgr_flag`). What a job reports of itself is not
  affected (`EndOfJobMeansDone`).
* `DecreaseActive` tests `n_tasks` after unlocking, too: the workers that finish the
  last two tasks of a job can both find 0 and both unregister it, `nJobs` passes from 1
  over 0 to -1 before either tests it, and nobody signals clients "that the pool is
  idle when there are no more ongoing jobs": `WaitForIdle` waits for ever (run
  `jobmgr_idle`). The job's own flag is not affected (`Finishes`).
* The comments of `CloseQueue` in `ThDeque.h` (lines 263-276) say that it stops all
  `Add` actions, but `Add` (lines 111-131) never looks at `active`. The run
  `vath_tools` adds an element after the close; no element is lost nevertheless
  (`DequeKeepsElements`).

Seen while modelling, without a run of their own: the invariant in the comment
at the top of `TS_Queue.c` (lines 6-11) no longer holds once the indices wrap;
`setCapacity` to the same capacity returns with the lock held (line 127);
`clear` and a growing `setCapacity` do not wake waiting producers; a waiting peek
absorbs the only signal of an `append`; `TryRemove` of `ThQueue.h` leaves producers
asleep beside the room it makes (the exception in `SleepersHaveReason`); the
constructor of `TBarrier` declares a local `seed` where it means the threads'
senses (line 31), so that its first `Wait` lets every thread but the last go at once; a thread
can leave `pthreadBarrier` on a spurious wakeup (`early`); a value of `OSynchP` may
be read more often than asked for; `TbbReduction` takes a reused address for the old
value (`confused`); `RingBuffer` does not initialise `C`; the Java broadcasts hang
when the file is missing, because the master leaves before the collective; the
message-passing programs for neighbours abort, or do nothing, with an odd number of processes.

## Not modelled, and why

* `TBarrier`, for the reason given above; no program uses it.
* In `ThreadPrograms`, the checks of the command line that end a program before it
  starts a thread, and some steps of the exercises at which only part of their lines
  has been brought in. Nothing else depends on them.
* `ProducerConsumer` with different numbers of producers and consumers: threads
  then wait for ever, as the program's assertion presupposes they do not.
* `WSPool`: a second `SubmitJob` without `WaitForIdle`, the start-up of the
  threads and `GetRank`, the destructor after `JoinThreads`.
* `BigInt`: third-party sequential arithmetic; the programs use integers.
* `RBuff_Tbb`: it has no lock and two plain stores whose order the compiler may
  choose, so that every statement about it fails in one build or another.
* The insides of `NPool`, `SPool`, `Barrier` and `SpBarrier`, which are in `libvath.a`.
* `RWLock`, `SpBLock`, `SpinLock`, which wrap single calls and have no client;
  `SafeCounter` and `SafeCout`, a lock around a statement.
* `openMP/13.private` with the line that makes the range of the inner loop shared:
  an uninitialised loop variable, and nothing it is sure to do.
* What is computed inside tasks, wording and layout of output, command lines, timing,
  host names.

## Plan

Done, in this order: `TSQueue` and `ProducerConsumer`; `WSPool`; `ThQueue` and `PipeThQ`;
the message-passing programs and `Partition`; the tools of the vath library; the
multithreaded programs; then the proofs about the queues, the pipelines, the pool,
the tools, the task queue, the collectives and the lock-free reduction; then what each
of the message-passing programs computes. Twelve runs ask what there is to ask. What is
left is the part of the list above that a model with a client of its own could reach.
