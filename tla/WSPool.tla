------------------------------- MODULE WSPool -------------------------------
(***************************************************************************)
(* The work-stealing pool of Vath_pth/vath_pth/include/WSPool.h: nThreads   *)
(* workers, each with a deque of its own (WSDeque.h), a count of the tasks  *)
(* under way (class JobMgr), and the barrier where the workers sleep        *)
(* between jobs.  A task is run by ExecuteTask, which submits the task's    *)
(* children with SubmitChild and returns.                                   *)
(*                                                                          *)
(* One client submits the jobs one after the other, waits for each, and     *)
(* shuts the pool down.  It starts only once the workers have reached the   *)
(* barrier: the constructor sleeps 500 ms to that end.                      *)
(***************************************************************************)
EXTENDS Integers, Sequences, FiniteSets

CONSTANTS nThreads,
          Task,      \* what tasks may be submitted
          NoTask,    \* the null pointer
          Jobs,      \* the jobs, each the sequence of its root tasks
          Children   \* Children[t]: the tasks t submits, in order

ASSUME ThreadsAssumption == nThreads \in Nat \ {0}
ASSUME TasksAssumption ==
    /\ NoTask \notin Task
    /\ Jobs \in Seq(Seq(Task))
    /\ Children \in [Task -> Seq(Task)]

\* A task stands for one object given to the pool: it is submitted once, by
\* one job or by one parent.
ASSUME OnceAssumption ==
    /\ \A j, k \in DOMAIN Jobs : \A i \in DOMAIN Jobs[j], l \in DOMAIN Jobs[k] :
          Jobs[j][i] = Jobs[k][l] => j = k /\ i = l
    /\ \A t, u \in Task : \A i \in DOMAIN Children[t], l \in DOMAIN Children[u] :
          Children[t][i] = Children[u][l] => t = u /\ i = l
    /\ \A j \in DOMAIN Jobs, t \in Task :
          \A i \in DOMAIN Jobs[j], l \in DOMAIN Children[t] :
             Jobs[j][i] # Children[t][l]

Worker == 0 .. nThreads - 1

VARIABLES ws_queue,    \* ws_queue[w]: the deque of worker w, its front first
          task_count, shut,
          counter, cycle, is_idle, myCycle,   \* the barrier BB
          at,          \* where worker w is
          task,        \* the task worker w runs
          submitted,   \* how many of its children it has submitted
          ran,         \* ran[t]: how often t has been executed
          client,      \* what the client does
          job,         \* the job it is at
          position     \* how many of the job's roots it has pushed, or how
                       \* many workers it has joined

BB == INSTANCE BkBarrier WITH nTh <- nThreads

barrier == <<counter, cycle, is_idle, myCycle>>
workers == <<at, task, submitted, ran>>
clients == <<client, job, position>>
vars == <<ws_queue, task_count, shut, barrier, workers, clients>>

Init ==
    /\ ws_queue = [w \in Worker |-> << >>]
    /\ task_count = 0
    /\ shut = FALSE
    /\ BB!Init
    /\ at = [w \in Worker |-> "arrive"]
    /\ task = [w \in Worker |-> NoTask]
    /\ submitted = [w \in Worker |-> 0]
    /\ ran = [t \in Task |-> 0]
    /\ client = "start"
    /\ job = 0
    /\ position = 0

Goto(w, place) == at' = [at EXCEPT ![w] = place]
-----------------------------------------------------------------------------
(* WSDeque: the owner pushes and pops at the front, a thief takes the back. *)

Push(w, t) == ws_queue' = [ws_queue EXCEPT ![w] = <<t>> \o @]

TryPop(w) == /\ ws_queue[w] # << >>
             /\ ws_queue' = [ws_queue EXCEPT ![w] = Tail(@)]

TrySteal(w) == /\ ws_queue[w] # << >>
               /\ ws_queue' = [ws_queue EXCEPT ![w] = SubSeq(@, 1, Len(@) - 1)]

Front(w) == Head(ws_queue[w])

\* Mutant of Back: a thief removes the last task but runs the first.
BackIsFront(w) == Head(ws_queue[w])

Back(w) == ws_queue[w][Len(ws_queue[w])]

(* JobMgr *)

\* Mutant of RegisterTask: a task goes uncounted.
RegisterNothing == task_count' = task_count

RegisterTask == task_count' = task_count + 1

\* Mutant of UnregisterTask: a task is counted off twice.
UnregisterTwice == task_count' = task_count - 2

UnregisterTask == task_count' = task_count - 1
-----------------------------------------------------------------------------
(* PeerThread: a worker sleeps at the barrier, tests shut, works, returns.  *)

Sleep(w) ==
    /\ at[w] = "arrive"
    /\ BB!Arrive(w)
    /\ Goto(w, "asleep")
    /\ UNCHANGED <<ws_queue, task_count, shut, task, submitted, ran, clients>>

Awake(w) ==
    /\ at[w] = "asleep"
    /\ BB!Leave(w)
    /\ Goto(w, "test")
    /\ UNCHANGED <<ws_queue, task_count, shut, task, submitted, ran, clients>>

TestShut(w) ==
    /\ at[w] = "test"
    /\ Goto(w, IF shut THEN "exited" ELSE "loop")
    /\ UNCHANGED <<ws_queue, task_count, shut, barrier, task, submitted, ran, clients>>

(* RunWorkload *)

\* Mutant of WorkLeft: off by one.
MoreThanOneLeft == task_count > 1

WorkLeft == task_count # 0

TestActive(w) ==
    /\ at[w] = "loop"
    /\ Goto(w, IF WorkLeft THEN "pop" ELSE "arrive")
    /\ UNCHANGED <<ws_queue, task_count, shut, barrier, task, submitted, ran, clients>>

Execute(w, t) ==
    /\ Goto(w, "run")
    /\ task' = [task EXCEPT ![w] = t]
    /\ UNCHANGED <<task_count, shut, barrier, submitted, ran, clients>>

Pop(w) ==
    /\ at[w] = "pop"
    /\ \/ TryPop(w) /\ Execute(w, Front(w))
       \/ /\ ws_queue[w] = << >>
          /\ Goto(w, "steal")
          /\ UNCHANGED <<ws_queue, task_count, shut, barrier,
                         task, submitted, ran, clients>>

Victim(w) == (w + 1) % nThreads

\* isEmpty reads the victim's deque without its mutex: whatever it answers,
\* a thief may go away, and it gets a task only if try_steal finds one.
Steal(w) ==
    /\ at[w] = "steal"
    /\ \/ TrySteal(Victim(w)) /\ Execute(w, Back(Victim(w)))
       \/ /\ Goto(w, "loop")
          /\ UNCHANGED <<ws_queue, task_count, shut, barrier,
                         task, submitted, ran, clients>>

(* ExecuteTask and SubmitChild *)

PushChild(w) ==
    /\ at[w] = "run"
    /\ submitted[w] < Len(Children[task[w]])
    /\ Push(w, Children[task[w]][submitted[w] + 1])
    /\ submitted' = [submitted EXCEPT ![w] = @ + 1]
    /\ Goto(w, "register")
    /\ UNCHANGED <<task_count, shut, barrier, task, ran, clients>>

RegisterChild(w) ==
    /\ at[w] = "register"
    /\ RegisterTask
    /\ Goto(w, "run")
    /\ UNCHANGED <<ws_queue, shut, barrier, task, submitted, ran, clients>>

\* ExecuteTask returns.
Finish(w) ==
    /\ at[w] = "run"
    /\ submitted[w] = Len(Children[task[w]])
    /\ UnregisterTask
    /\ ran' = [ran EXCEPT ![task[w]] = @ + 1]
    /\ task' = [task EXCEPT ![w] = NoTask]
    /\ submitted' = [submitted EXCEPT ![w] = 0]
    /\ Goto(w, "loop")
    /\ UNCHANGED <<ws_queue, shut, barrier, clients>>

Work(w) ==
    \/ Sleep(w) \/ Awake(w) \/ TestShut(w) \/ TestActive(w)
    \/ Pop(w) \/ Steal(w)
    \/ PushChild(w) \/ RegisterChild(w) \/ Finish(w)
-----------------------------------------------------------------------------
(* The client: SubmitJob and WaitForIdle for every job, then JoinThreads.   *)

\* The next job, or the shutdown when all have been done.
NextJob ==
    /\ client' = IF job < Len(Jobs) THEN "submit" ELSE "shut"
    /\ job' = job + 1
    /\ position' = 0

\* Mutant of Settled: the constructor returns at once.
SettledAtOnce == TRUE

\* The 500 ms have been enough for every worker to reach the barrier.
Settled == \A w \in Worker : at[w] = "asleep"

Start ==
    /\ client = "start"
    /\ Settled
    /\ NextJob
    /\ UNCHANGED <<ws_queue, task_count, shut, barrier, workers>>

PushRoot ==
    /\ client = "submit"
    /\ position < Len(Jobs[job])
    /\ Push(position % nThreads, Jobs[job][position + 1])
    /\ position' = position + 1
    /\ client' = "register"
    /\ UNCHANGED <<task_count, shut, barrier, workers, job>>

RegisterRoot ==
    /\ client = "register"
    /\ RegisterTask
    /\ client' = "submit"
    /\ UNCHANGED <<ws_queue, shut, barrier, workers, job, position>>

Release ==
    /\ client = "submit"
    /\ position = Len(Jobs[job])
    /\ BB!ReleaseThreads
    /\ client' = "wait"
    /\ UNCHANGED <<ws_queue, task_count, shut, workers, job, position>>

\* Mutant of WaitForIdle: the client goes on without waiting.
WaitForNothing ==
    /\ client = "wait"
    /\ NextJob
    /\ UNCHANGED <<ws_queue, task_count, shut, barrier, workers>>

WaitForIdle ==
    /\ client = "wait"
    /\ BB!WaitForIdle
    /\ NextJob
    /\ UNCHANGED <<ws_queue, task_count, shut, workers>>

(* JoinThreads *)

SetShut ==
    /\ client = "shut"
    /\ shut' = TRUE
    /\ client' = "shutWait"
    /\ UNCHANGED <<ws_queue, task_count, barrier, workers, job, position>>

ShutWait ==
    /\ client = "shutWait"
    /\ BB!WaitForIdle
    /\ client' = "shutRelease"
    /\ UNCHANGED <<ws_queue, task_count, shut, workers, job, position>>

ShutRelease ==
    /\ client = "shutRelease"
    /\ BB!ReleaseThreads
    /\ client' = "join"
    /\ UNCHANGED <<ws_queue, task_count, shut, workers, job, position>>

Join ==
    /\ client = "join"
    /\ at[position] = "exited"
    /\ position' = position + 1
    /\ client' = IF position' = nThreads THEN "joined" ELSE "join"
    /\ UNCHANGED <<ws_queue, task_count, shut, barrier, workers, job>>

Client ==
    \/ Start \/ PushRoot \/ RegisterRoot \/ Release \/ WaitForIdle
    \/ SetShut \/ ShutWait \/ ShutRelease \/ Join
-----------------------------------------------------------------------------
Terminated == client = "joined" /\ UNCHANGED vars

Next == Client \/ (\E w \in Worker : Work(w)) \/ Terminated

\* The processor is shared fairly and an unheld mutex is granted eventually.
Fairness == WF_vars(Client) /\ \A w \in Worker : WF_vars(Work(w))

Spec == Init /\ [][Next]_vars /\ Fairness
-----------------------------------------------------------------------------
\* The type of every variable.
TypeOK ==
    /\ ws_queue \in [Worker -> Seq(Task)]
    /\ task_count \in Nat
    /\ shut \in BOOLEAN
    /\ BB!TypeOK
    /\ at \in [Worker -> {"arrive", "asleep", "test", "loop", "pop", "steal",
                          "run", "register", "exited"}]
    /\ task \in [Worker -> Task \cup {NoTask}]
    /\ submitted \in [Worker -> Nat]
    /\ ran \in [Task -> Nat]
    /\ client \in {"start", "submit", "register", "wait",
                   "shut", "shutWait", "shutRelease", "join", "joined"}
    /\ job \in 0 .. Len(Jobs) + 1
    /\ position \in Nat

\* Where the queued tasks are.
Queued == UNION {{w} \X DOMAIN ws_queue[w] : w \in Worker}

\* The workers inside ExecuteTask, and those among them that have pushed a
\* child but not registered it.
Active == {w \in Worker : at[w] \in {"run", "register"}}
Registering == {w \in Worker : at[w] = "register"}

\* The client is filling the deques of a job it has not released yet.
Submitting == client \in {"submit", "register"}

\* The count RunWorkload stops on: it is the number of tasks queued or being
\* executed, less those pushed and not registered yet.  It may be too small,
\* but never by more than one for each submission in progress, and it returns
\* to zero: neither lost tasks nor an endless loop.
CountIsExact ==
    task_count + Cardinality(Registering) + (IF client = "register" THEN 1 ELSE 0)
        = Cardinality(Queued) + Cardinality(Active)

\* A task is in one place: in one deque, or run by one worker, or done, so
\* that an owner and a thief never both execute it.
OnePlace ==
    \A t \in Task :
        Cardinality({q \in Queued : ws_queue[q[1]][q[2]] = t})
          + Cardinality({w \in Worker : task[w] = t}) + ran[t] <= 1

\* A worker that retires to the barrier, sleeps there after a release, or has
\* returned, leaves nothing in its deque, which nobody else need ever visit.
SleepersLeaveNothing ==
    \A w \in Worker :
        \/ at[w] \in {"arrive", "exited"}
        \/ at[w] = "asleep" /\ BB!Asleep(w) /\ ~Submitting
        => ws_queue[w] = << >>

\* When WaitForIdle can return, every root of every job submitted so far has
\* been executed exactly once, and so have all their descendants, and no
\* worker is executing anything.
IdleMeansDone ==
    is_idle /\ ~Submitting =>
        /\ Active = {}
        /\ \A j \in DOMAIN Jobs : j <= job =>
              \A i \in DOMAIN Jobs[j] : ran[Jobs[j][i]] = 1
        /\ \A t \in Task : ran[t] # 0 =>
              \A i \in DOMAIN Children[t] : ran[Children[t][i]] = 1

\* Every job is completed and every worker joined: no worker sleeps through a
\* release, and the client never waits for an idle pool in vain.
AllJoined == <>(client = "joined")

\* WSPool.h says of JobMgr that it lets threads "know, by a call to
\* ActiveTasks(), if all of them are inactive".
ActiveTasksTellsInactive == task_count = 0 => Active = {}
=============================================================================
