------------------------------- MODULE JobMgr -------------------------------
(***************************************************************************)
(* JobMgr and JobCounter of vath_pth/include/JobMgr.h: the counts of the   *)
(* tasks of a job and of the jobs of the task pool (NPool), and the flags  *)
(* clients wait for.  The workers' loop is in libvath.a; it takes queued   *)
(* tasks, which may submit children, and reports each one it has finished. *)
(***************************************************************************)
EXTENDS Integers, FiniteSets

CONSTANTS Worker,
          Job,         \* the jobs, submitted by different clients
          Tasks,       \* how many tasks a job is submitted with
          Children     \* how many child tasks its tasks submit altogether

VARIABLES nJobs,       \* JobCounter: the number of jobs
          poolIdle,    \*   and its flag
          submitted,   \* the jobs submitted so far
          n_tasks,     \* JobMgr of each job: the number of its tasks
          running,     \*   and its flag gBlock
          queued,      \* queued[j]: the tasks of j waiting for a worker
          children,    \* children[j]: the children submitted so far
          worker       \* worker[w]: what w is doing for which job

vars == <<nJobs, poolIdle, submitted, n_tasks, running, queued, children, worker>>
counter == <<nJobs, poolIdle>>
manager == <<submitted, n_tasks, running, queued, children>>

Resting == [at |-> "rest"]

Init ==
  /\ nJobs = 0 /\ poolIdle = TRUE
  /\ submitted = {}
  /\ n_tasks = [j \in Job |-> 0]
  /\ running = [j \in Job |-> FALSE]
  /\ queued = [j \in Job |-> 0]
  /\ children = [j \in Job |-> 0]
  /\ worker = [w \in Worker |-> Resting]

Goes(w, from, to, j) ==
  worker[w] = [at |-> from, job |-> j] /\ worker' = [worker EXCEPT ![w] = to]
At(place, j) == [at |-> place, job |-> j]

(* RegisterJob, under jc_lock.                                             *)
RegisterJob == nJobs' = nJobs + 1 /\ poolIdle' = (poolIdle /\ nJobs # 0)

(* A client submits a job: JobMgr's constructor, RegisterJob, the tasks.   *)
SubmitJob(j) ==
  /\ j \notin submitted
  /\ submitted' = submitted \cup {j}
  /\ n_tasks' = [n_tasks EXCEPT ![j] = Tasks]
  /\ running' = [running EXCEPT ![j] = TRUE]
  /\ queued' = [queued EXCEPT ![j] = Tasks]
  /\ RegisterJob
  /\ UNCHANGED <<children, worker>>

TakeTask(w, j) ==
  /\ worker[w] = Resting /\ queued[j] > 0
  /\ queued' = [queued EXCEPT ![j] = @ - 1]
  /\ worker' = [worker EXCEPT ![w] = At("task", j)]
  /\ UNCHANGED <<counter, submitted, n_tasks, running, children>>

(* Mutant of CountChild: children are not counted.                         *)
CountNoChild(j) == UNCHANGED n_tasks

CountChild(j) == n_tasks' = [n_tasks EXCEPT ![j] = @ + 1]

(* A task submits a child: it is counted and then queued.                  *)
IncreaseActive(w, j) ==
  /\ Goes(w, "task", At("child", j), j)
  /\ children[j] < Children
  /\ children' = [children EXCEPT ![j] = @ + 1]
  /\ CountChild(j)
  /\ UNCHANGED <<counter, submitted, running, queued>>

QueueChild(w, j) ==
  /\ Goes(w, "child", At("task", j), j)
  /\ queued' = [queued EXCEPT ![j] = @ + 1]
  /\ UNCHANGED <<counter, submitted, n_tasks, running, children>>

(* DecreaseActive: the count goes down under the mutex and is looked at    *)
(* after it.                                                               *)
DecreaseActive(w, j) ==
  /\ Goes(w, "task", At("test", j), j)
  /\ n_tasks' = [n_tasks EXCEPT ![j] = @ - 1]
  /\ UNCHANGED <<counter, submitted, running, queued, children>>

NoTasks(j) == n_tasks[j] = 0

TestTasks(w, j) ==
  /\ Goes(w, "test", IF NoTasks(j) THEN At("unregister", j) ELSE Resting, j)
  /\ running' = IF NoTasks(j) THEN [running EXCEPT ![j] = FALSE] ELSE running
  /\ UNCHANGED <<counter, submitted, n_tasks, queued, children>>

(* UnregisterJob: again the count is looked at after the mutex.            *)
UnregisterJob(w, j) ==
  /\ Goes(w, "unregister", At("jobs", j), j)
  /\ nJobs' = nJobs - 1
  /\ UNCHANGED <<poolIdle, manager>>

TestJobs(w, j) ==
  /\ Goes(w, "jobs", IF nJobs = 0 THEN At("notify", j) ELSE Resting, j)
  /\ UNCHANGED <<counter, manager>>

Notify(w, j) ==
  /\ Goes(w, "notify", Resting, j)
  /\ poolIdle' = TRUE
  /\ UNCHANGED <<nJobs, manager>>

Work(w) == \E j \in Job :
  \/ TakeTask(w, j) \/ IncreaseActive(w, j) \/ QueueChild(w, j)
  \/ DecreaseActive(w, j) \/ TestTasks(w, j)
  \/ UnregisterJob(w, j) \/ TestJobs(w, j) \/ Notify(w, j)

Next == (\E j \in Job : SubmitJob(j)) \/ (\E w \in Worker : Work(w))

Fairness ==
  /\ WF_vars(\E j \in Job : SubmitJob(j))
  /\ \A w \in Worker : WF_vars(Work(w))

Spec == Init /\ [][Next]_vars /\ Fairness
-----------------------------------------------------------------------------
(* The counts.  The number of jobs may fall below zero: two workers that   *)
(* finish at once may both find the count of tasks at zero and unregister  *)
(* the job.                                                                *)
TypeOK ==
  /\ nJobs \in -Cardinality(Job) * Cardinality(Worker) .. Cardinality(Job)
  /\ poolIdle \in BOOLEAN
  /\ n_tasks \in [Job -> 0 .. Tasks + Children]
  /\ running \in [Job -> BOOLEAN]
  /\ queued \in [Job -> 0 .. Tasks + Children]
  /\ children \in [Job -> 0 .. Children]

(* The tasks of a job that are queued, being executed or being queued.     *)
UnderWay(j) ==
  queued[j]
  + Cardinality({ w \in Worker : worker[w] \in {At("task", j), At("child", j)} })
  + Cardinality({ w \in Worker : worker[w] = At("child", j) })

(* The flag of a job says that it has ended only when no task of it is     *)
(* under way, and the count is the number of those that are.               *)
EndOfJobMeansDone ==
  \A j \in submitted : /\ n_tasks[j] = UnderWay(j)
                       /\ ~running[j] => UnderWay(j) = 0

(* What the comment of JobCounter says of its flag (JobMgr.h:55-57): it is *)
(* "true if pool is inactive" and "false if there are ongoing jobs".       *)
FlagMeansInactive == poolIdle => \A j \in Job : ~running[j]

(* What the same comment promises (JobMgr.h:50-52): clients are signalled  *)
(* "that the pool is idle when there are no more ongoing jobs".  Once every *)
(* job has ended and every worker has finished reporting, the flag is set; *)
(* otherwise nobody will set it, and WaitForIdle never returns.            *)
IdleIsSignalled ==
  ((\A j \in Job : ~running[j]) /\ (\A w \in Worker : worker[w] = Resting))
     => poolIdle

Finished == submitted = Job /\ \A j \in Job : ~running[j]
=============================================================================
