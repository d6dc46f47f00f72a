----------------------------- MODULE WSPoolProofs -----------------------------
(***************************************************************************)
(* Theorems about WSPool, for any number of workers and any jobs whose      *)
(* tasks are submitted once each: its types, that the task count is exact,  *)
(* that a worker which retires leaves nothing behind, that no task is ever  *)
(* in two places, and that an idle pool has done everything it was given.   *)
(***************************************************************************)
EXTENDS WSPool, FiniteSetTheorems, TLAPS

\* The workers that sleep at the barrier and have not been released.
Arrived == {w \in Worker : at[w] = "asleep" /\ BB!Asleep(w)}

\* The barrier counts the arrivals, and is idle once all have arrived.
BarrierShape ==
    /\ is_idle => Arrived = Worker /\ counter = nThreads
    /\ ~is_idle => counter + Cardinality(Arrived) = nThreads

\* Where the client and the workers can be at the same time.
Preparing == client \in {"submit", "register", "shut", "shutWait", "shutRelease"}
Closing == client \in {"shutWait", "shutRelease", "join", "joined"}

PhaseShape ==
    /\ shut <=> Closing
    /\ client = "start" =>
          job = 0 /\ \A w \in Worker : at[w] = "arrive" \/ w \in Arrived
    /\ Preparing => is_idle
    /\ client \in {"submit", "register", "wait"} =>
          job \in 1 .. Len(Jobs) /\ position <= Len(Jobs[job])
    /\ client = "wait" =>
          position = Len(Jobs[job]) /\ \A w \in Worker : at[w] # "exited"
    /\ client = "shut" \/ Closing => job = Len(Jobs) + 1
    /\ client \in {"join", "joined"} =>
          /\ ~is_idle
          /\ \A w \in Worker :
                /\ at[w] \in {"asleep", "test", "exited"}
                /\ at[w] = "asleep" => ~BB!Asleep(w)
                /\ ws_queue[w] = << >>

\* A worker has a task while it is inside ExecuteTask.
WorkerShape ==
    \A w \in Worker :
        IF w \in Active
        THEN task[w] \in Task /\ submitted[w] <= Len(Children[task[w]])
        ELSE task[w] = NoTask /\ submitted[w] = 0

\* The inductive invariant behind CountIsExact and SleepersLeaveNothing.
Shape == /\ TypeOK /\ BarrierShape /\ PhaseShape /\ WorkerShape
         /\ CountIsExact /\ SleepersLeaveNothing
-----------------------------------------------------------------------------
In(t, s) == \E i \in 1 .. Len(s) : s[i] = t
Once(s) == \A i, k \in 1 .. Len(s) : s[i] = s[k] => i = k

\* Where a task is.
InDeque(t, w) == In(t, ws_queue[w])
Waiting(t) == \E w \in Worker : InDeque(t, w)
Running(t) == \E w \in Worker : task[w] = t

\* What has been submitted: the roots of the jobs so far and the children that
\* their parents have pushed.
RootSubmitted(t) ==
    \E j \in 1 .. Len(Jobs) : \E i \in 1 .. Len(Jobs[j]) :
        Jobs[j][i] = t /\ (j < job \/ (j = job /\ i <= position))
ChildSubmitted(t) ==
    \E u \in Task : \E i \in 1 .. Len(Children[u]) :
        /\ Children[u][i] = t
        /\ ran[u] # 0 \/ \E w \in Worker : task[w] = u /\ i <= submitted[w]

Placed(t) == Waiting(t) \/ Running(t) \/ ran[t] = 1
Submitted(t) == RootSubmitted(t) \/ ChildSubmitted(t)

\* The inductive invariant behind OnePlace and IdleMeansDone: a task is in a
\* single place, and in some place exactly when it has been submitted.
Places ==
    /\ \A w \in Worker : Once(ws_queue[w])
    /\ \A t \in Task, v, w \in Worker : InDeque(t, v) /\ InDeque(t, w) => v = w
    /\ \A v, w \in Worker : task[v] = task[w] /\ task[v] # NoTask => v = w
    /\ \A t \in Task : /\ ran[t] <= 1
                       /\ Waiting(t) => ~Running(t) /\ ran[t] = 0
                       /\ Running(t) => ran[t] = 0
    /\ \A t \in Task : Placed(t) <=> Submitted(t)
-----------------------------------------------------------------------------
\* The workers are finitely many, and the worker after another is a worker.
LEMMA Workers ==
    /\ IsFiniteSet(Worker) /\ Cardinality(Worker) = nThreads
    /\ nThreads \in Nat \ {0}
    /\ \A a \in Int : a % nThreads \in Worker
    /\ \A w \in Worker : w \in Int /\ Victim(w) \in Worker
<1>1. PICK n \in Nat \ {0} : n = nThreads
  BY ThreadsAssumption
<1>2. IsFiniteSet(0 .. n - 1) /\ Cardinality(0 .. n - 1) = n
  BY FS_Interval
<1>3. \A a \in Int : a % n \in 0 .. n - 1
  BY <1>1
<1>5. Worker = 0 .. n - 1
  BY <1>1 DEF Worker
<1>6. \A a \in Int : a % nThreads \in Worker
  BY <1>1, <1>3, <1>5
<1>7. \A w \in Worker : w \in Int
  BY <1>5
<1>8. \A w \in Worker : Victim(w) \in Worker
  BY <1>6, <1>7 DEF Victim
<1>9. IsFiniteSet(Worker) /\ Cardinality(Worker) = nThreads
  BY <1>1, <1>2, <1>5
<1>10. QED
  BY <1>1, <1>6, <1>7, <1>8, <1>9

\* A push lengthens one deque, a pop and a steal shorten it.
LEMMA PushSeq ==
    ASSUME NEW s \in Seq(Task), NEW t \in Task
    PROVE  /\ <<t>> \o s \in Seq(Task)
           /\ Len(<<t>> \o s) = Len(s) + 1
           /\ (<<t>> \o s)[1] = t
           /\ \A i \in 1 .. Len(s) : (<<t>> \o s)[i + 1] = s[i]
  OBVIOUS

LEMMA PopSeq ==
    ASSUME NEW s \in Seq(Task), s # << >>
    PROVE  /\ Tail(s) \in Seq(Task) /\ Head(s) \in Task /\ Head(s) = s[1]
           /\ Len(s) \in Nat \ {0} /\ Len(Tail(s)) = Len(s) - 1
           /\ \A i \in 1 .. Len(s) - 1 : Tail(s)[i] = s[i + 1]
  OBVIOUS

LEMMA StealSeq ==
    ASSUME NEW s \in Seq(Task), s # << >>
    PROVE  /\ SubSeq(s, 1, Len(s) - 1) \in Seq(Task)
           /\ Len(s) \in Nat \ {0} /\ s[Len(s)] \in Task
           /\ Len(SubSeq(s, 1, Len(s) - 1)) = Len(s) - 1
           /\ \A i \in 1 .. Len(s) - 1 : SubSeq(s, 1, Len(s) - 1)[i] = s[i]
<1>1. PICK n \in Nat \ {0} : n = Len(s)
  OBVIOUS
<1>2. /\ SubSeq(s, 1, n - 1) \in Seq(Task)
      /\ Len(SubSeq(s, 1, n - 1)) = n - 1
      /\ \A i \in 1 .. n - 1 : SubSeq(s, 1, n - 1)[i] = s[i]
  BY <1>1
<1>3. s[n] \in Task
  BY <1>1
<1>4. QED
  BY <1>1, <1>2, <1>3

\* The places of the deques' tasks.
Cells(Q) == UNION {{w} \X DOMAIN Q[w] : w \in Worker}
Deques == [Worker -> Seq(Task)]

\* They are a finite set, and one more when a deque grows by a task.
LEMMA CellsFinite ==
    ASSUME NEW Q \in Deques
    PROVE  /\ IsFiniteSet(Cells(Q)) /\ Cardinality(Cells(Q)) \in Nat
           /\ \A q : q \in Cells(Q) <=> \E w \in Worker : \E i \in 1 .. Len(Q[w]) : q = <<w, i>>
<1> DEFINE C == [w \in Worker |-> {w} \X DOMAIN Q[w]]
           F == {C[w] : w \in Worker}
<1>1. ASSUME NEW w \in Worker PROVE IsFiniteSet(C[w]) /\ DOMAIN Q[w] = 1 .. Len(Q[w])
  <2>1. Q[w] \in Seq(Task)
    BY DEF Deques
  <2>2. DOMAIN Q[w] = 1 .. Len(Q[w]) /\ Len(Q[w]) \in Nat
    BY <2>1
  <2>3. IsFiniteSet(1 .. Len(Q[w]))
    BY <2>2, FS_Interval
  <2>4. IsFiniteSet({w} \X DOMAIN Q[w])
    BY <2>2, <2>3, FS_Singleton, FS_Product
  <2>5. QED
    BY <2>2, <2>4
<1>2. IsFiniteSet(F)
  <2>1. C \in Surjection(Worker, F)
    BY DEF Surjection
  <2>2. QED
    BY <2>1, Workers, FS_Surjection
<1>3. Cells(Q) = UNION F
  BY DEF Cells
<1>4. IsFiniteSet(Cells(Q))
  <2>1. \A T \in F : IsFiniteSet(T)
    BY <1>1
  <2> HIDE DEF F
  <2>2. QED
    BY <1>2, <1>3, <2>1, FS_UNION
<1>5. \A q : q \in Cells(Q) <=> \E w \in Worker : \E i \in 1 .. Len(Q[w]) : q = <<w, i>>
  BY <1>1 DEF Cells
<1>6. QED
  BY <1>4, <1>5, FS_CardinalityType

LEMMA CellsGrow ==
    ASSUME NEW Q \in Deques, NEW P \in Deques, NEW w \in Worker,
           Len(P[w]) = Len(Q[w]) + 1, \A v \in Worker \ {w} : P[v] = Q[v]
    PROVE  Cardinality(Cells(P)) = Cardinality(Cells(Q)) + 1
<1>1. PICK n \in Nat : n = Len(Q[w])
  BY DEF Deques
<1>2. <<w, n + 1>> \notin Cells(Q)
  BY <1>1, CellsFinite
<1>3. ASSUME NEW q PROVE q \in Cells(P) <=> q \in Cells(Q) \/ q = <<w, n + 1>>
  <2>1. \A i : i \in 1 .. n + 1 <=> i \in 1 .. n \/ i = n + 1
    BY <1>1
  <2>2. (\E i \in 1 .. Len(P[w]) : q = <<w, i>>)
           <=> (\E i \in 1 .. Len(Q[w]) : q = <<w, i>>) \/ q = <<w, n + 1>>
    BY <1>1, <2>1
  <2>3. ASSUME NEW R \in Deques
        PROVE  q \in Cells(R) <=>
                 \/ \E i \in 1 .. Len(R[w]) : q = <<w, i>>
                 \/ \E v \in Worker \ {w} : \E i \in 1 .. Len(R[v]) : q = <<v, i>>
    BY CellsFinite
  <2>4. (\E v \in Worker \ {w} : \E i \in 1 .. Len(P[v]) : q = <<v, i>>)
           <=> \E v \in Worker \ {w} : \E i \in 1 .. Len(Q[v]) : q = <<v, i>>
    OBVIOUS
  <2>5. QED
    BY <2>2, <2>3, <2>4
<1>4. Cells(P) = Cells(Q) \cup {<<w, n + 1>>}
  BY <1>3
<1>5. QED
  BY <1>2, <1>4, CellsFinite, FS_AddElement

-----------------------------------------------------------------------------
(* The shape of the pool is an invariant. *)

LEMMA ShapeInit == Init => Shape
<1> SUFFICES ASSUME Init
             PROVE  Shape
  OBVIOUS
<1> USE DEF Init, BB!Init
<1>1. TypeOK
  <2>1. nThreads \in 1 .. nThreads
    BY Workers
  <2>2. 0 \in 0 .. Len(Jobs) + 1
    BY TasksAssumption
  <2>3. << >> \in Seq(Task)
    OBVIOUS
  <2>4. QED
    BY <2>1, <2>2, <2>3 DEF TypeOK, BB!TypeOK
<1>2. Arrived = {} /\ Active = {} /\ Registering = {}
  BY DEF Arrived, Active, Registering
<1>3. BarrierShape
  BY <1>2, Workers, FS_EmptySet DEF BarrierShape
<1>4. PhaseShape
  BY DEF PhaseShape, Preparing, Closing
<1>5. WorkerShape
  BY <1>2 DEF WorkerShape
<1>6. CountIsExact
  <2>1. Queued = {}
    BY DEF Queued
  <2>2. QED
    BY <1>2, <2>1, FS_EmptySet DEF CountIsExact
<1>7. SleepersLeaveNothing
  BY DEF SleepersLeaveNothing
<1>8. QED
  BY <1>1, <1>3, <1>4, <1>5, <1>6, <1>7 DEF Shape

\* What is pushed is a task, onto a worker's deque.
LEMMA PushChildTask ==
    ASSUME Shape, NEW w \in Worker, PushChild(w)
    PROVE  /\ task[w] \in Task /\ submitted[w] \in Nat
           /\ submitted[w] + 1 \in 1 .. Len(Children[task[w]])
           /\ Children[task[w]][submitted[w] + 1] \in Task
<1>1. task[w] \in Task
  BY DEF PushChild, Shape, WorkerShape, Active
<1>2. Children[task[w]] \in Seq(Task) /\ submitted[w] \in Nat
  BY <1>1, TasksAssumption DEF Shape, TypeOK
<1>3. submitted[w] + 1 \in 1 .. Len(Children[task[w]])
  BY <1>2 DEF PushChild
<1>4. QED
  BY <1>1, <1>2, <1>3

LEMMA PushRootTask ==
    ASSUME Shape, PushRoot
    PROVE  /\ job \in 1 .. Len(Jobs) /\ Jobs[job] \in Seq(Task)
           /\ position \in Nat /\ position + 1 \in 1 .. Len(Jobs[job])
           /\ Jobs[job][position + 1] \in Task
           /\ position % nThreads \in Worker
<1>1. job \in 1 .. Len(Jobs) /\ Jobs[job] \in Seq(Task) /\ position \in Nat
  BY TasksAssumption DEF PushRoot, Shape, PhaseShape, TypeOK
<1>2. position + 1 \in 1 .. Len(Jobs[job])
  BY <1>1 DEF PushRoot
<1>3. position % nThreads \in Worker
  <2>1. position \in Int
    BY <1>1
  <2>2. QED
    BY <2>1, Workers
<1>4. QED
  BY <1>1, <1>2, <1>3

\* The client's and the workers' steps keep every variable in its type.
LEMMA TypeStep ==
    ASSUME Shape, [Next]_vars
    PROVE  TypeOK'
<1> USE DEF Goto, barrier, workers, clients, BB!barrierVars
<1>0. TypeOK /\ Len(Jobs) \in Nat
  BY TasksAssumption DEF Shape
<1>same. ASSUME UNCHANGED barrier PROVE BB!TypeOK'
  BY <1>0, <1>same DEF TypeOK, BB!TypeOK
<1>1. ASSUME NEW w \in Worker, Sleep(w)
      PROVE  TypeOK'
  <2>1. BB!TypeOK'
    <3>1. PICK n \in Nat : n = nThreads /\ n > 0
      BY Workers
    <3>2. counter \in 1 .. n /\ cycle \in BOOLEAN /\ myCycle \in [Worker -> BOOLEAN]
      BY <1>0, <3>1 DEF TypeOK, BB!TypeOK
    <3>3. counter' \in 1 .. n
      BY <1>1, <3>1, <3>2 DEF Sleep, BB!Arrive
    <3>4. QED
      BY <1>1, <3>1, <3>2, <3>3 DEF Sleep, BB!Arrive, BB!TypeOK
  <2>2. QED
    BY <1>0, <1>1, <2>1 DEF Sleep, TypeOK
<1>2. ASSUME NEW w \in Worker, Awake(w) \/ TestShut(w) \/ TestActive(w)
      PROVE  TypeOK'
  BY <1>0, <1>2 DEF Awake, BB!Leave, TestShut, TestActive, TypeOK, BB!TypeOK
<1>3. ASSUME NEW w \in Worker, Pop(w)
      PROVE  TypeOK'
  <2>1. CASE TryPop(w) /\ Execute(w, Front(w))
    <3>1. /\ ws_queue[w] \in Seq(Task) /\ ws_queue[w] # << >>
          /\ Tail(ws_queue[w]) \in Seq(Task) /\ Head(ws_queue[w]) \in Task
      BY <1>0, <2>1, PopSeq DEF TryPop, TypeOK
    <3>2. QED
      BY <1>0, <1>same, <2>1, <3>1 DEF TryPop, Execute, Front, TypeOK
  <2>2. CASE ~(TryPop(w) /\ Execute(w, Front(w)))
    BY <1>0, <1>same, <1>3, <2>2 DEF Pop, TypeOK
  <2>3. QED
    BY <2>1, <2>2
<1>4. ASSUME NEW w \in Worker, Steal(w)
      PROVE  TypeOK'
  <2> DEFINE v == Victim(w)
  <2>0. v \in Worker
    BY Workers
  <2>1. CASE TrySteal(v) /\ Execute(w, Back(v))
    <3>1. /\ ws_queue[v] \in Seq(Task) /\ ws_queue[v] # << >>
          /\ SubSeq(ws_queue[v], 1, Len(ws_queue[v]) - 1) \in Seq(Task)
          /\ ws_queue[v][Len(ws_queue[v])] \in Task
      BY <1>0, <2>0, <2>1, StealSeq DEF TrySteal, TypeOK
    <3>2. QED
      BY <1>0, <1>same, <2>0, <2>1, <3>1 DEF TrySteal, Execute, Back, TypeOK
  <2>2. CASE ~(TrySteal(v) /\ Execute(w, Back(v)))
    BY <1>0, <1>same, <1>4, <2>2 DEF Steal, TypeOK
  <2>3. QED
    BY <2>1, <2>2
<1>5. ASSUME NEW w \in Worker, PushChild(w)
      PROVE  TypeOK'
  <2>2. Children[task[w]][submitted[w] + 1] \in Task
    BY <1>5, PushChildTask
  <2>3. ws_queue' \in [Worker -> Seq(Task)]
    BY <1>0, <1>5, <2>2, PushSeq DEF PushChild, Push, TypeOK
  <2>4. QED
    <3>1. submitted' \in [Worker -> Nat]
      BY <1>0, <1>5 DEF PushChild, TypeOK
    <3>2. at' = [at EXCEPT ![w] = "register"] /\ UNCHANGED barrier
      BY <1>5 DEF PushChild
    <3>3. UNCHANGED <<task_count, shut, task, ran, clients>>
      BY <1>5 DEF PushChild
    <3>4. QED
      BY <1>0, <1>same, <2>3, <3>1, <3>2, <3>3 DEF TypeOK
<1>6. ASSUME NEW w \in Worker, RegisterChild(w)
      PROVE  TypeOK'
  BY <1>0, <1>6 DEF RegisterChild, RegisterTask, TypeOK, BB!TypeOK
<1>7. ASSUME NEW w \in Worker, Finish(w)
      PROVE  TypeOK'
  <2>1. task_count > 0
    <3>1. w \in Active /\ w \notin Registering /\ Registering \subseteq Active
      BY <1>7 DEF Finish, Active, Registering
    <3>2. IsFiniteSet(Active) /\ Active \subseteq Worker
      BY Workers, FS_Subset DEF Active
    <3>3. /\ Cardinality(Registering) <= Cardinality(Active)
          /\ Cardinality(Registering) # Cardinality(Active)
          /\ Cardinality(Registering) \in Nat /\ Cardinality(Active) \in Nat
      BY <3>1, <3>2, FS_Subset, FS_CardinalityType
    <3>4. client # "register"
      BY <1>7 DEF Shape, PhaseShape, Finish, Preparing, BarrierShape, Arrived
    <3>5. Cardinality(Queued) \in Nat
      BY <1>0, CellsFinite DEF TypeOK, Queued, Cells, Deques
    <3>6. CountIsExact
      BY DEF Shape
    <3>7. QED
      BY <1>0, <3>3, <3>4, <3>5, <3>6 DEF CountIsExact, TypeOK
  <2>2. QED
    <3>1. task_count' \in Nat
      BY <1>0, <1>7, <2>1 DEF Finish, UnregisterTask, TypeOK
    <3>2. ran' \in [Task -> Nat]
      <4>1. task[w] \in Task
        BY <1>7 DEF Finish, Shape, WorkerShape, Active
      <4>2. QED
        BY <1>0, <1>7, <4>1 DEF Finish, TypeOK
    <3>3. QED
      BY <1>0, <1>same, <1>7, <3>1, <3>2 DEF Finish, TypeOK
<1>8. ASSUME Start \/ WaitForIdle
      PROVE  TypeOK'
  <2>1. job + 1 \in 0 .. Len(Jobs) + 1
    BY <1>0, <1>8 DEF Start, WaitForIdle, Shape, PhaseShape
  <2>2. QED
    BY <1>0, <1>8, <2>1 DEF Start, WaitForIdle, BB!WaitForIdle, NextJob, TypeOK, BB!TypeOK
<1>9. CASE PushRoot
  <2>2. Jobs[job][position + 1] \in Task /\ position % nThreads \in Worker
    BY <1>9, PushRootTask
  <2>3. ws_queue' \in [Worker -> Seq(Task)]
    BY <1>0, <1>9, <2>2, PushSeq DEF PushRoot, Push, TypeOK
  <2>4. QED
    BY <1>0, <1>9, <2>3 DEF PushRoot, TypeOK, BB!TypeOK
<1>10. CASE RegisterRoot
  BY <1>0, <1>10 DEF RegisterRoot, RegisterTask, TypeOK, BB!TypeOK
<1>11. CASE Release \/ ShutWait \/ ShutRelease
  <2>1. BB!TypeOK'
    BY <1>0, <1>11 DEF Release, ShutWait, ShutRelease,
       BB!ReleaseThreads, BB!WaitForIdle, TypeOK, BB!TypeOK
  <2>2. QED
    BY <1>0, <1>11, <2>1 DEF Release, ShutWait, ShutRelease, TypeOK
<1>a. CASE SetShut
  BY <1>0, <1>same, <1>a DEF SetShut, TypeOK
<1>b. CASE Join
  BY <1>0, <1>same, <1>b DEF Join, TypeOK
<1>12. CASE UNCHANGED vars
  BY <1>0, <1>12 DEF vars, TypeOK, BB!TypeOK
<1>13. QED
  BY <1>1, <1>2, <1>3, <1>4, <1>5, <1>6, <1>7, <1>8, <1>9, <1>10, <1>11, <1>12, <1>a, <1>b
     DEF Next, Client, Work, Terminated

\* Active and Registering are finite.
LEMMA ActiveFinite ==
    /\ IsFiniteSet(Active) /\ Cardinality(Active) \in Nat
    /\ IsFiniteSet(Registering) /\ Cardinality(Registering) \in Nat
<1>1. Active \subseteq Worker /\ Registering \subseteq Worker
  BY DEF Active, Registering
<1>2. QED
  BY <1>1, Workers, FS_Subset, FS_CardinalityType

\* A step of one worker moves only that worker.
LEMMA Moved ==
    ASSUME TypeOK, NEW w \in Worker, NEW place, Goto(w, place)
    PROVE  /\ \A v \in Worker : at'[v] = IF v = w THEN place ELSE at[v]
           /\ Active' = IF place \in {"run", "register"} THEN Active \cup {w} ELSE Active \ {w}
           /\ Registering' = IF place = "register" THEN Registering \cup {w} ELSE Registering \ {w}
<1>1. \A v \in Worker : at'[v] = IF v = w THEN place ELSE at[v]
  BY DEF Goto, TypeOK
<1>2. QED
  BY <1>1 DEF Active, Registering

\* The count is changed by one with every set it sums up.
LEMMA CountStep ==
    ASSUME Shape, [Next]_vars, TypeOK'
    PROVE  CountIsExact'
<1> DEFINE q == Cardinality(Queued)
           a == Cardinality(Active)
           r == Cardinality(Registering)
           c == IF client = "register" THEN 1 ELSE 0
<1>0. TypeOK /\ task_count \in Int /\ task_count + r + c = q + a
  BY DEF Shape, CountIsExact, TypeOK
<1>1. ASSUME task_count' \in Int, task_count' + r' + c' = q' + a'
      PROVE  CountIsExact'
  BY <1>1 DEF CountIsExact
<1>2. a \in Nat /\ r \in Nat /\ q \in Nat /\ c \in Nat
  <2>1. q \in Nat
    BY <1>0, CellsFinite DEF TypeOK, Queued, Cells, Deques
  <2>2. QED
    BY <2>1, ActiveFinite
<1>3. ws_queue \in Deques /\ ws_queue' \in Deques /\ q = Cardinality(Cells(ws_queue))
      /\ q' = Cardinality(Cells(ws_queue'))
  BY <1>0 DEF TypeOK, Deques, Queued, Cells
<1>same. ASSUME ws_queue' = ws_queue PROVE q' = q
  BY <1>3, <1>same
<1>4. ASSUME ws_queue' = ws_queue, Active' = Active, Registering' = Registering,
             task_count' = task_count, c' = c
      PROVE  CountIsExact'
  BY <1>0, <1>1, <1>same, <1>4
<1>5. ASSUME NEW w \in Worker, NEW place, Goto(w, place),
             place \notin {"run", "register"}, at[w] \notin {"run", "register"},
             ws_queue' = ws_queue, task_count' = task_count, client' = client
      PROVE  CountIsExact'
  <2>1. w \notin Active /\ w \notin Registering
    BY <1>5 DEF Active, Registering
  <2>2. Active' = Active /\ Registering' = Registering
    BY <1>0, <1>5, <2>1, Moved
  <2>3. QED
    BY <1>4, <1>5, <2>2
<1>6. ASSUME NEW w \in Worker, Goto(w, "run"), at[w] \in {"pop", "steal"},
             q = q' + 1, task_count' = task_count, client' = client
      PROVE  CountIsExact'
  <2>1. w \notin Active /\ w \notin Registering
    BY <1>6 DEF Active, Registering
  <2>2. Active' = Active \cup {w} /\ Registering' = Registering
    BY <1>0, <1>6, <2>1, Moved
  <2>3. a' = a + 1 /\ r' = r
    BY <2>1, <2>2, ActiveFinite, FS_AddElement
  <2>4. q' \in Int
    BY <1>3, CellsFinite
  <2>5. c' = c /\ task_count' = task_count /\ q' = q - 1
    BY <1>2, <1>6, <2>4
  <2> HIDE DEF q, a, r, c
  <2>6. QED
    BY <1>0, <1>1, <1>2, <2>3, <2>4, <2>5
<1>7. ASSUME NEW w \in Worker, Sleep(w) \/ Awake(w) \/ TestShut(w) \/ TestActive(w)
      PROVE  CountIsExact'
  <2>1. CASE Sleep(w)
    BY <1>5, <2>1 DEF Sleep, clients
  <2>2. CASE Awake(w)
    BY <1>5, <2>2 DEF Awake, clients
  <2>3. CASE TestShut(w)
    BY <1>5, <2>3 DEF TestShut, clients
  <2>4. CASE TestActive(w)
    BY <1>5, <2>4 DEF TestActive, clients
  <2>5. QED
    BY <1>7, <2>1, <2>2, <2>3, <2>4
<1>8. ASSUME NEW w \in Worker, Pop(w)
      PROVE  CountIsExact'
  <2>1. CASE TryPop(w) /\ Execute(w, Front(w))
    <3>1. Len(ws_queue[w]) = Len(ws_queue'[w]) + 1 /\ \A v \in Worker \ {w} : ws_queue[v] = ws_queue'[v]
      BY <1>0, <2>1, PopSeq DEF TryPop, TypeOK
    <3>2. q = q' + 1
      BY <1>3, <3>1, CellsGrow
    <3>3. QED
      BY <1>6, <1>8, <2>1, <3>2 DEF Pop, Execute, clients
  <2>2. CASE ~(TryPop(w) /\ Execute(w, Front(w)))
    BY <1>5, <1>8, <2>2 DEF Pop, clients
  <2>3. QED
    BY <2>1, <2>2
<1>9. ASSUME NEW w \in Worker, Steal(w)
      PROVE  CountIsExact'
  <2> DEFINE v == Victim(w)
  <2>1. CASE TrySteal(v) /\ Execute(w, Back(v))
    <3>0. v \in Worker
      BY Workers
    <3>1. Len(ws_queue[v]) = Len(ws_queue'[v]) + 1 /\ \A u \in Worker \ {v} : ws_queue[u] = ws_queue'[u]
      BY <1>0, <2>1, <3>0, StealSeq DEF TrySteal, TypeOK
    <3>2. q = q' + 1
      BY <1>3, <3>0, <3>1, CellsGrow
    <3>3. QED
      BY <1>6, <1>9, <2>1, <3>2 DEF Steal, Execute, clients
  <2>2. CASE ~(TrySteal(v) /\ Execute(w, Back(v)))
    BY <1>5, <1>9, <2>2 DEF Steal, clients
  <2>3. QED
    BY <2>1, <2>2
<1>grow. ASSUME NEW w \in Worker, NEW t \in Task, Push(w, t)
         PROVE  q' = q + 1
  <2>1. Len(ws_queue'[w]) = Len(ws_queue[w]) + 1 /\ \A v \in Worker \ {w} : ws_queue'[v] = ws_queue[v]
    BY <1>0, <1>grow, PushSeq DEF Push, TypeOK
  <2>2. QED
    BY <1>3, <2>1, CellsGrow
<1>10. ASSUME NEW w \in Worker, PushChild(w)
       PROVE  CountIsExact'
  <2>1. w \in Active /\ w \notin Registering
    BY <1>10 DEF PushChild, Active, Registering
  <2>2. Active' = Active /\ Registering' = Registering \cup {w}
    BY <1>0, <1>10, <2>1, Moved, SMTT(40) DEF PushChild
  <2>3. a' = a /\ r' = r + 1
    BY <2>1, <2>2, ActiveFinite, FS_AddElement
  <2>4. q' = q + 1
    BY <1>0, <1>10, <1>grow, PushChildTask DEF PushChild
  <2>5. c' = c /\ task_count' = task_count
    BY <1>10 DEF PushChild, clients
  <2> HIDE DEF q, a, r, c
  <2>6. QED
    BY <1>0, <1>1, <1>2, <2>3, <2>4, <2>5
<1>11. ASSUME NEW w \in Worker, RegisterChild(w)
       PROVE  CountIsExact'
  <2>1. w \in Active /\ w \in Registering
    BY <1>11 DEF RegisterChild, Active, Registering
  <2>2. Active' = Active /\ Registering' = Registering \ {w}
    BY <1>0, <1>11, <2>1, Moved DEF RegisterChild
  <2>3. a' = a /\ r' = r - 1
    BY <2>1, <2>2, ActiveFinite, FS_RemoveElement
  <2>4. q' = q /\ c' = c /\ task_count' = task_count + 1
    BY <1>11, <1>same DEF RegisterChild, RegisterTask, clients
  <2> HIDE DEF q, a, r, c
  <2>5. QED
    BY <1>0, <1>1, <1>2, <2>3, <2>4
<1>12. ASSUME NEW w \in Worker, Finish(w)
       PROVE  CountIsExact'
  <2>1. w \in Active /\ w \notin Registering
    BY <1>12 DEF Finish, Active, Registering
  <2>2. Active' = Active \ {w} /\ Registering' = Registering
    <3>1. Goto(w, "loop")
      BY <1>12 DEF Finish
    <3>2. QED
      BY <1>0, <2>1, <3>1, Moved
  <2>3. a' = a - 1 /\ r' = r
    BY <2>1, <2>2, ActiveFinite, FS_RemoveElement
  <2>4. q' = q /\ c' = c /\ task_count' = task_count - 1
    BY <1>12, <1>same DEF Finish, UnregisterTask, clients
  <2> HIDE DEF q, a, r, c
  <2>5. QED
    BY <1>0, <1>1, <1>2, <2>3, <2>4
<1>13. ASSUME PushRoot \/ RegisterRoot
       PROVE  CountIsExact'
  <2>1. a' = a /\ r' = r
    BY <1>13 DEF PushRoot, RegisterRoot, workers, Active, Registering
  <2>2. CASE PushRoot
    <3>1. q' = q + 1
      BY <1>grow, <2>2, PushRootTask DEF PushRoot
    <3>2. c = 0 /\ c' = 1 /\ task_count' = task_count
      BY <2>2 DEF PushRoot
    <3> HIDE DEF q, a, r, c
    <3>3. QED
      BY <1>0, <1>1, <1>2, <2>1, <3>1, <3>2
  <2>3. CASE RegisterRoot
    <3>1. q' = q /\ c = 1 /\ c' = 0 /\ task_count' = task_count + 1
      BY <1>same, <2>3 DEF RegisterRoot, RegisterTask
    <3> HIDE DEF q, a, r, c
    <3>2. QED
      BY <1>0, <1>1, <1>2, <2>1, <3>1
  <2>4. QED
    BY <1>13, <2>2, <2>3
<1>14. ASSUME workers' = workers, ws_queue' = ws_queue, task_count' = task_count,
              client # "register", client' # "register"
       PROVE  CountIsExact'
  BY <1>4, <1>14 DEF workers, Active, Registering
<1>15. CASE Start \/ WaitForIdle \/ Release \/ SetShut \/ ShutWait \/ ShutRelease \/ Join
  BY <1>14, <1>15 DEF Start, WaitForIdle, NextJob, Release, SetShut, ShutWait, ShutRelease, Join
<1>16. CASE UNCHANGED vars
  BY <1>4, <1>16 DEF vars, workers, clients, Active, Registering
<1>17. QED
  BY <1>7, <1>8, <1>9, <1>10, <1>11, <1>12, <1>13, <1>15, <1>16
     DEF Next, Client, Work, Terminated

\* A worker steps only while the workers gather at the start, while the client
\* waits for a job, or on its way out.
LEMMA WorkPhases ==
    ASSUME Shape, NEW w \in Worker, Work(w)
    PROVE  /\ ~Preparing /\ ~is_idle /\ client' = client
           /\ client = "start" => Sleep(w)
           /\ client \in {"join", "joined"} => Awake(w) \/ TestShut(w)
           /\ shut => client \in {"join", "joined"}
           /\ client \in {"start", "wait", "join", "joined"}
<1>1. at[w] # "asleep" \/ ~BB!Asleep(w)
  BY DEF Work, Sleep, Awake, BB!Leave, BB!Asleep, TestShut, TestActive, Pop, Steal,
         PushChild, RegisterChild, Finish
<1>2. ~is_idle
  BY <1>1 DEF Shape, BarrierShape, Arrived
<1>3. ~Preparing
  BY <1>2 DEF Shape, PhaseShape
<1>4. client' = client
  BY DEF Work, Sleep, Awake, TestShut, TestActive, Pop, Steal, Execute,
         PushChild, RegisterChild, Finish, clients
<1>5. client = "start" => Sleep(w)
  <2>1. client = "start" => at[w] = "arrive"
    BY <1>1 DEF Shape, PhaseShape, Arrived
  <2>2. QED
    BY <2>1 DEF Work, Awake, TestShut, TestActive, Pop, Steal,
       PushChild, RegisterChild, Finish
<1>6. client \in {"join", "joined"} => Awake(w) \/ TestShut(w)
  <2>1. client \in {"join", "joined"} => at[w] \in {"asleep", "test", "exited"}
    BY DEF Shape, PhaseShape
  <2>2. QED
    BY <2>1 DEF Work, Sleep, TestActive, Pop, Steal, PushChild, RegisterChild, Finish
<1>7. (shut => client \in {"join", "joined"}) /\ client \in {"start", "wait", "join", "joined"}
  BY <1>3 DEF Shape, TypeOK, PhaseShape, Preparing, Closing
<1>8. QED
  BY <1>2, <1>3, <1>4, <1>5, <1>6, <1>7

\* How the workers move: only Sleep ends, and only Awake starts, asleep.
LEMMA WorkMoves ==
    ASSUME Shape, NEW w \in Worker, Work(w), ~Sleep(w)
    PROVE  /\ UNCHANGED barrier
           /\ \E place \in {"test", "loop", "pop", "steal", "run", "register", "arrive", "exited"} :
                 Goto(w, place)
           /\ w \notin Arrived
           /\ Arrived' = Arrived
<1>1. /\ UNCHANGED barrier
      /\ \E place \in {"test", "loop", "pop", "steal", "run", "register", "arrive", "exited"} :
            Goto(w, place)
  BY DEF Work, Awake, BB!Leave, BB!barrierVars, barrier, TestShut, TestActive, Pop, Steal,
         Execute, PushChild, RegisterChild, Finish
<1>2. w \notin Arrived
  BY DEF Work, Awake, BB!Leave, BB!Asleep, TestShut, TestActive, Pop, Steal,
         PushChild, RegisterChild, Finish, Arrived
<1>3. TypeOK
  BY DEF Shape
<1>4. \A v \in Worker : v # w => at'[v] = at[v]
  BY <1>1, <1>3, Moved
<1>5. at'[w] # "asleep"
  BY <1>1, <1>3, Moved
<1>6. \A v \in Worker : BB!Asleep(v)' <=> BB!Asleep(v)
  BY <1>1 DEF barrier, BB!Asleep
<1>7. Arrived' = Arrived
  BY <1>2, <1>4, <1>5, <1>6 DEF Arrived
<1>8. QED
  BY <1>1, <1>2, <1>7

\* The arrival of a worker.
LEMMA SleepMoves ==
    ASSUME Shape, NEW w \in Worker, Sleep(w)
    PROVE  w \notin Arrived /\ Arrived' = Arrived \cup {w} /\ ~is_idle
<1>1. w \notin Arrived /\ ~is_idle
  BY DEF Sleep, Arrived, Shape, BarrierShape
<1>2. TypeOK
  BY DEF Shape
<1>3. \A v \in Worker : at'[v] = IF v = w THEN "asleep" ELSE at[v]
  BY <1>2, Moved DEF Sleep
<1>4. \A v \in Worker : myCycle'[v] = IF v = w THEN cycle ELSE myCycle[v]
  BY <1>2 DEF Sleep, BB!Arrive, TypeOK, BB!TypeOK
<1>5. cycle' = cycle
  BY DEF Sleep, BB!Arrive
<1>6. QED
  BY <1>1, <1>3, <1>4, <1>5 DEF Arrived, BB!Asleep

\* A release finds every worker asleep and leaves none so.
LEMMA ReleaseMoves ==
    ASSUME Shape, Release \/ ShutRelease
    PROVE  Arrived = Worker /\ Arrived' = {} /\ ~is_idle' /\ counter' = nThreads
<1>1. is_idle
  BY DEF Release, ShutRelease, Shape, PhaseShape, Preparing
<1>2. Arrived = Worker /\ counter = nThreads
  BY <1>1 DEF Shape, BarrierShape
<1>3. /\ cycle' = ~cycle /\ cycle \in BOOLEAN /\ myCycle' = myCycle
      /\ ~is_idle' /\ counter' = counter
  BY DEF Release, ShutRelease, BB!ReleaseThreads, Shape, TypeOK, BB!TypeOK
<1>4. \A w \in Worker : cycle = myCycle[w]
  BY <1>2 DEF Arrived, BB!Asleep
<1>5. \A w \in Worker : cycle' # myCycle'[w]
  BY <1>3, <1>4
<1>6. QED
  BY <1>2, <1>3, <1>5 DEF Arrived, BB!Asleep

\* Any other step of the client leaves the barrier and the workers alone.
LEMMA ClientMoves ==
    ASSUME Client \/ Terminated \/ UNCHANGED vars, ~Release, ~ShutRelease
    PROVE  UNCHANGED <<barrier, workers>> /\ Arrived' = Arrived
<1>1. UNCHANGED <<barrier, workers>>
  BY DEF Client, Start, PushRoot, RegisterRoot, WaitForIdle, SetShut, ShutWait, Join,
         BB!WaitForIdle, BB!barrierVars, barrier, Terminated, vars
<1>2. QED
  BY <1>1 DEF barrier, workers, Arrived, BB!Asleep

LEMMA BarrierStep ==
    ASSUME Shape, [Next]_vars, TypeOK'
    PROVE  BarrierShape'
<1>1. BarrierShape /\ nThreads \in Nat /\ counter \in Int
  BY Workers DEF Shape, TypeOK, BB!TypeOK
<1>2. Arrived \subseteq Worker /\ Arrived' \subseteq Worker
  BY DEF Arrived
<1>3. ASSUME UNCHANGED barrier, Arrived' = Arrived
      PROVE  BarrierShape'
  BY <1>1, <1>3 DEF barrier, BarrierShape
<1>4. ASSUME NEW w \in Worker, Sleep(w)
      PROVE  BarrierShape'
  <2>1. w \notin Arrived /\ Arrived' = Arrived \cup {w} /\ ~is_idle
    BY <1>4, SleepMoves
  <2>2. /\ IsFiniteSet(Arrived') /\ Cardinality(Arrived) \in Nat
        /\ Cardinality(Arrived') = Cardinality(Arrived) + 1
        /\ Cardinality(Arrived') = nThreads => Arrived' = Worker
    BY <1>2, <2>1, Workers, FS_Subset, FS_AddElement, FS_CardinalityType
  <2>3. counter + Cardinality(Arrived) = nThreads
    BY <1>1, <2>1 DEF BarrierShape
  <2>4. CASE counter = 1
    <3>1. Arrived' = Worker
      BY <1>1, <2>2, <2>3, <2>4
    <3>2. is_idle' = TRUE /\ counter' = nThreads
      BY <1>4, <2>4 DEF Sleep, BB!Arrive
    <3>3. QED
      BY <3>1, <3>2 DEF BarrierShape
  <2>5. CASE counter # 1
    <3>1. is_idle' = is_idle /\ counter' = counter - 1
      BY <1>4, <2>1, <2>5 DEF Sleep, BB!Arrive, Shape, TypeOK, BB!TypeOK
    <3>2. counter' + Cardinality(Arrived') = nThreads
      BY <1>1, <2>2, <2>3, <3>1
    <3>3. QED
      BY <2>1, <3>1, <3>2 DEF BarrierShape
  <2>6. QED
    BY <2>4, <2>5
<1>5. CASE Release \/ ShutRelease
  BY <1>1, <1>5, ReleaseMoves, FS_EmptySet DEF BarrierShape
<1>6. CASE (Client \/ Terminated \/ UNCHANGED vars) /\ ~Release /\ ~ShutRelease
  BY <1>3, <1>6, ClientMoves
<1>7. ASSUME NEW w \in Worker, Work(w), ~Sleep(w)
      PROVE  BarrierShape'
  BY <1>3, <1>7, WorkMoves
<1>8. QED
  BY <1>4, <1>5, <1>6, <1>7 DEF Next, Work

LEMMA WorkerStep ==
    ASSUME Shape, [Next]_vars, TypeOK'
    PROVE  WorkerShape'
<1>0. WorkerShape /\ TypeOK /\ TypeOK'
  BY DEF Shape
<1>1. ASSUME NEW w \in Worker, NEW place, Goto(w, place),
             place \notin {"run", "register"}, at[w] \notin {"run", "register"},
             task' = task, submitted' = submitted
      PROVE  WorkerShape'
  <2>1. Active' = Active
    BY <1>0, <1>1, Moved DEF Active
  <2>2. QED
    BY <1>0, <1>1, <2>1 DEF WorkerShape
<1>2. ASSUME NEW w \in Worker, NEW t \in Task, Execute(w, t), w \notin Active
      PROVE  WorkerShape'
  <2>1. Active' = Active \cup {w}
    BY <1>0, <1>2, Moved DEF Execute
  <2>2. \A v \in Worker : task'[v] = IF v = w THEN t ELSE task[v]
    BY <1>0, <1>2 DEF Execute, TypeOK
  <2>3. submitted' = submitted /\ submitted[w] = 0
    BY <1>0, <1>2 DEF Execute, WorkerShape
  <2>4. 0 <= Len(Children[t])
    BY TasksAssumption
  <2>5. QED
    BY <1>0, <2>1, <2>2, <2>3, <2>4 DEF WorkerShape
<1>3. ASSUME NEW w \in Worker, Sleep(w) \/ Awake(w) \/ TestShut(w) \/ TestActive(w)
      PROVE  WorkerShape'
  BY <1>1, <1>3 DEF Sleep, Awake, TestShut, TestActive
<1>4. ASSUME NEW w \in Worker, Pop(w)
      PROVE  WorkerShape'
  <2>1. ASSUME TryPop(w) PROVE Front(w) \in Task
    BY <1>0, <2>1, PopSeq DEF TryPop, Front, TypeOK
  <2>2. w \notin Active
    BY <1>4 DEF Pop, Active
  <2>3. QED
    BY <1>1, <1>2, <1>4, <2>1, <2>2 DEF Pop
<1>5. ASSUME NEW w \in Worker, Steal(w)
      PROVE  WorkerShape'
  <2>1. ASSUME TrySteal(Victim(w)) PROVE Back(Victim(w)) \in Task
    BY <1>0, <2>1, StealSeq, Workers DEF TrySteal, Back, TypeOK
  <2>2. w \notin Active
    BY <1>5 DEF Steal, Active
  <2>3. QED
    BY <1>1, <1>2, <1>5, <2>1, <2>2 DEF Steal
<1>6. ASSUME NEW w \in Worker, PushChild(w)
      PROVE  WorkerShape'
  <2>1. w \in Active /\ Active' = Active
    BY <1>0, <1>6, Moved DEF PushChild, Active
  <2>2. \A v \in Worker : submitted'[v] = IF v = w THEN submitted[w] + 1 ELSE submitted[v]
    BY <1>0, <1>6 DEF PushChild, TypeOK
  <2>3. task' = task /\ submitted[w] + 1 \in 1 .. Len(Children[task[w]])
    BY <1>6, PushChildTask DEF PushChild
  <2>4. QED
    BY <1>0, <2>1, <2>2, <2>3 DEF WorkerShape
<1>7. ASSUME NEW w \in Worker, RegisterChild(w)
      PROVE  WorkerShape'
  <2>1. Active' = Active
    BY <1>0, <1>7, Moved DEF RegisterChild, Active
  <2>2. QED
    BY <1>0, <1>7, <2>1 DEF RegisterChild, WorkerShape
<1>8. ASSUME NEW w \in Worker, Finish(w)
      PROVE  WorkerShape'
  <2>0. Goto(w, "loop") /\ task' = [task EXCEPT ![w] = NoTask] /\ submitted' = [submitted EXCEPT ![w] = 0]
    BY <1>8 DEF Finish
  <2>1. Active' = Active \ {w}
    BY <1>0, <2>0, Moved
  <2>2. \A v \in Worker : /\ task'[v] = IF v = w THEN NoTask ELSE task[v]
                          /\ submitted'[v] = IF v = w THEN 0 ELSE submitted[v]
    BY <1>0, <2>0 DEF TypeOK
  <2>3. QED
    BY <1>0, <2>1, <2>2 DEF WorkerShape
<1>9. CASE Client \/ Terminated \/ UNCHANGED vars
  <2>1. UNCHANGED workers
    BY <1>9 DEF Client, Start, PushRoot, RegisterRoot, Release, WaitForIdle, SetShut,
       ShutWait, ShutRelease, Join, Terminated, vars
  <2>2. Active' = Active
    BY <2>1 DEF workers, Active
  <2>3. QED
    BY <1>0, <2>1, <2>2 DEF workers, WorkerShape
<1>10. QED
  BY <1>3, <1>4, <1>5, <1>6, <1>7, <1>8, <1>9 DEF Next, Work

\* While a worker sees a count of zero, no deque holds a task: every child that
\* is not counted yet has a parent that is.
LEMMA NoWorkLeft ==
    ASSUME Shape, client # "register", ~WorkLeft
    PROVE  \A w \in Worker : ws_queue[w] = << >>
<1>1. task_count = 0 /\ CountIsExact /\ TypeOK
  BY DEF Shape, WorkLeft
<1>2. Registering \subseteq Active
  BY DEF Active, Registering
<1>3. Cardinality(Registering) <= Cardinality(Active)
  BY <1>2, ActiveFinite, FS_Subset
<1>4. ws_queue \in Deques /\ Queued = Cells(ws_queue)
  BY <1>1 DEF TypeOK, Deques, Queued, Cells
<1>5. Cardinality(Queued) \in Nat /\ IsFiniteSet(Queued)
  BY <1>4, CellsFinite
<1>6. Cardinality(Queued) = 0
  BY <1>1, <1>3, <1>5, ActiveFinite DEF CountIsExact
<1>7. Queued = {}
  BY <1>5, <1>6, FS_EmptySet
<1>8. ASSUME NEW w \in Worker, ws_queue[w] # << >>
      PROVE  FALSE
  <2>1. ws_queue[w] \in Seq(Task)
    BY <1>4 DEF Deques
  <2>2. 1 \in 1 .. Len(ws_queue[w])
    BY <1>8, <2>1
  <2>3. QED
    BY <1>4, <1>7, <2>2, CellsFinite, ZenonT(40)
<1>9. QED
  BY <1>8

\* Deques only grow under their owner or the client.
LEMMA DequeMoves ==
    ASSUME Shape, NEW w \in Worker, Work(w), NEW v \in Worker, ws_queue[v] = << >>
    PROVE  ws_queue'[v] = << >> \/ (v = w /\ PushChild(w))
<1>0. TypeOK
  BY DEF Shape
<1>1. CASE Pop(w)
  BY <1>0, <1>1 DEF Pop, TryPop, Execute, TypeOK
<1>2. CASE Steal(w)
  BY <1>0, <1>2, Workers DEF Steal, TrySteal, Execute, TypeOK
<1>3. CASE PushChild(w)
  BY <1>0, <1>3 DEF PushChild, Push, TypeOK
<1>4. CASE Sleep(w) \/ Awake(w) \/ TestShut(w) \/ TestActive(w) \/ RegisterChild(w) \/ Finish(w)
  BY <1>4 DEF Sleep, Awake, TestShut, TestActive, RegisterChild, Finish
<1>5. QED
  BY <1>1, <1>2, <1>3, <1>4 DEF Work

LEMMA SleepersStep ==
    ASSUME Shape, [Next]_vars, TypeOK'
    PROVE  SleepersLeaveNothing'
<1> DEFINE Gone(v) == at[v] \in {"arrive", "exited"} \/ (v \in Arrived /\ ~Submitting)
<1>0. TypeOK /\ SleepersLeaveNothing
  BY DEF Shape
<1>1. \A v \in Worker : Gone(v) => ws_queue[v] = << >>
  BY <1>0 DEF SleepersLeaveNothing, Arrived
<1>2. ASSUME \A v \in Worker : Gone(v)' => ws_queue'[v] = << >>
      PROVE  SleepersLeaveNothing'
  BY <1>2 DEF SleepersLeaveNothing, Arrived
<1>3. ASSUME NEW w \in Worker, Sleep(w)
      PROVE  SleepersLeaveNothing'
  <2>1. at[w] = "arrive" /\ ws_queue' = ws_queue /\ client' = client /\ Goto(w, "asleep")
    BY <1>3 DEF Sleep, clients
  <2>2. Arrived' = Arrived \cup {w}
    BY <1>3, SleepMoves
  <2>3. \A v \in Worker : Gone(v)' => Gone(v)
    BY <1>0, <2>1, <2>2, Moved DEF Submitting
  <2> HIDE DEF Gone
  <2>4. QED
    BY <1>1, <1>2, <2>1, <2>3
<1>4. ASSUME NEW w \in Worker, Work(w), ~Sleep(w)
      PROVE  SleepersLeaveNothing'
  <2>1. client' = client /\ client # "register"
    BY <1>4, WorkPhases DEF Preparing
  <2>2. w \notin Arrived /\ Arrived' = Arrived /\ \A v \in Worker : v # w => at'[v] = at[v]
    BY <1>0, <1>4, WorkMoves, Moved
  <2>3. ASSUME NEW v \in Worker, v # w, Gone(v)'
        PROVE  ws_queue'[v] = << >>
    <3>1. Gone(v)
      BY <2>1, <2>2, <2>3 DEF Submitting
    <3>2. ws_queue[v] = << >>
      BY <1>1, <3>1
    <3>3. QED
      BY <1>4, <2>3, <3>2, DequeMoves
  <2>4. ASSUME Gone(w)'
        PROVE  ws_queue'[w] = << >>
    <3>1. at'[w] \in {"arrive", "exited"}
      BY <2>2, <2>4
    <3>2. \/ TestActive(w) /\ ~WorkLeft
          \/ TestShut(w) /\ shut
      BY <1>0, <1>4, <3>1, Moved DEF Work, Awake, TestShut, TestActive, Pop, Steal, Execute,
         PushChild, RegisterChild, Finish
    <3>3. ws_queue' = ws_queue
      BY <3>2 DEF TestActive, TestShut
    <3>4. CASE TestActive(w) /\ ~WorkLeft
      BY <2>1, <3>3, <3>4, NoWorkLeft
    <3>5. CASE TestShut(w) /\ shut
      <4>1. client \in {"join", "joined"}
        BY <1>4, <3>5, WorkPhases
      <4>2. QED
        BY <3>3, <4>1 DEF Shape, PhaseShape
    <3>6. QED
      BY <3>2, <3>4, <3>5
  <2> HIDE DEF Gone
  <2>5. QED
    BY <1>2, <2>3, <2>4
<1>5. CASE Release \/ ShutRelease
  <2>1. Arrived = Worker /\ Arrived' = {} /\ at' = at
    BY <1>5, ReleaseMoves DEF Release, ShutRelease, workers
  <2>2. \A v \in Worker : ~Gone(v)'
    BY <2>1 DEF Arrived
  <2> HIDE DEF Gone
  <2>3. QED
    BY <1>2, <2>2
<1>6. CASE PushRoot \/ RegisterRoot
  <2>1. Arrived = Worker
    BY <1>6 DEF PushRoot, RegisterRoot, Shape, PhaseShape, Preparing, BarrierShape
  <2>2. at' = at /\ Submitting'
    BY <1>6 DEF PushRoot, RegisterRoot, workers, Submitting
  <2>3. \A v \in Worker : ~Gone(v)'
    BY <2>1, <2>2 DEF Arrived
  <2> HIDE DEF Gone
  <2>4. QED
    BY <1>2, <2>3
<1>7. CASE Start \/ WaitForIdle \/ SetShut \/ ShutWait \/ Join \/ Terminated \/ UNCHANGED vars
  <2>1. at' = at /\ ws_queue' = ws_queue /\ Arrived' = Arrived
    BY <1>7 DEF Start, WaitForIdle, SetShut, ShutWait, Join, Terminated, vars, workers,
       barrier, BB!WaitForIdle, BB!barrierVars, Arrived, BB!Asleep
  <2>2. ~Submitting' => ~Submitting
    BY <1>7 DEF Start, WaitForIdle, NextJob, SetShut, ShutWait, Join, Terminated, vars, clients, Submitting
  <2>3. \A v \in Worker : Gone(v)' => Gone(v)
    BY <2>1, <2>2
  <2> HIDE DEF Gone
  <2>4. QED
    BY <1>1, <1>2, <2>1, <2>3
<1>8. QED
  BY <1>3, <1>4, <1>5, <1>6, <1>7 DEF Next, Client, Work

LEMMA PhaseStep ==
    ASSUME Shape, [Next]_vars, TypeOK'
    PROVE  PhaseShape'
<1>0. TypeOK /\ PhaseShape /\ BarrierShape /\ SleepersLeaveNothing /\ Len(Jobs) \in Nat
  BY TasksAssumption DEF Shape
<1>1. ASSUME NEW w \in Worker, Sleep(w)
      PROVE  PhaseShape'
  <2>1. /\ UNCHANGED <<shut, client, job, position, ws_queue>>
        /\ \A v \in Worker : at'[v] = IF v = w THEN "asleep" ELSE at[v]
    BY <1>0, <1>1, Moved DEF Sleep, clients
  <2>2. ~Preparing /\ ~is_idle /\ client \notin {"join", "joined"} /\ Arrived' = Arrived \cup {w}
    <3>1. ~Preparing /\ ~is_idle
      BY <1>1, WorkPhases DEF Work
    <3>2. client \notin {"join", "joined"}
      BY <1>0, <1>1 DEF PhaseShape, Sleep
    <3>3. QED
      BY <1>1, <3>1, <3>2, SleepMoves
  <2>3. QED
    BY <1>0, <2>1, <2>2 DEF PhaseShape, Preparing, Closing
<1>2. ASSUME NEW w \in Worker, Work(w), ~Sleep(w)
      PROVE  PhaseShape'
  <2>1. UNCHANGED <<shut, client, job, position>>
    BY <1>2 DEF Work, Awake, TestShut, TestActive, Pop, Steal, Execute,
       PushChild, RegisterChild, Finish, clients
  <2>2. UNCHANGED barrier /\ \A v \in Worker : v # w => at'[v] = at[v]
    BY <1>0, <1>2, WorkMoves, Moved
  <2>3. /\ client \in {"wait", "join", "joined"} /\ ~is_idle
        /\ client \in {"join", "joined"} => Awake(w) \/ TestShut(w)
        /\ client = "wait" => ~shut
    BY <1>2, WorkPhases
  <2>4. CASE client = "wait"
    <3>1. at'[w] # "exited"
      BY <1>0, <1>2, <2>3, <2>4, Moved DEF Work, Awake, TestShut, TestActive, Pop, Steal, Execute,
         PushChild, RegisterChild, Finish
    <3>2. QED
      BY <1>0, <2>1, <2>2, <2>4, <3>1 DEF PhaseShape, Preparing, Closing
  <2>5. CASE client \in {"join", "joined"}
    <3>1. at'[w] \in {"test", "exited"} /\ ws_queue' = ws_queue
      BY <1>0, <2>3, <2>5, Moved DEF PhaseShape, Awake, TestShut, Closing
    <3>2. is_idle' = is_idle /\ \A v \in Worker : BB!Asleep(v)' <=> BB!Asleep(v)
      BY <2>2 DEF barrier, BB!Asleep
    <3>3. \A v \in Worker : /\ at'[v] \in {"asleep", "test", "exited"}
                            /\ at'[v] = "asleep" => ~BB!Asleep(v)'
                            /\ ws_queue'[v] = << >>
      BY <1>0, <2>2, <2>5, <3>1, <3>2 DEF PhaseShape
    <3>4. QED
      BY <1>0, <2>1, <2>3, <2>5, <3>2, <3>3 DEF PhaseShape, Preparing, Closing
  <2>6. QED
    BY <2>3, <2>4, <2>5
<1>3. CASE Start
  <2>1. Arrived = Worker /\ is_idle
    <3>1. \A w \in Worker : at[w] = "asleep"
      BY <1>3 DEF Start, Settled
    <3>2. Arrived = Worker
      BY <1>0, <1>3, <3>1 DEF Start, PhaseShape, Arrived
    <3>3. QED
      BY <1>0, <3>2, Workers DEF BarrierShape, TypeOK, BB!TypeOK
  <2>2. PICK n \in Nat : n = Len(Jobs)
    BY <1>0
  <2>3. job = 0 /\ ~shut
    BY <1>0, <1>3 DEF Start, PhaseShape, Closing
  <2>4. /\ client' = IF 0 < n THEN "submit" ELSE "shut"
        /\ job' = 1 /\ position' = 0 /\ is_idle' = is_idle /\ shut' = shut
    BY <1>3, <2>2, <2>3 DEF Start, NextJob, barrier
  <2>5. 0 < n => Len(Jobs[1]) \in Nat
    BY <2>2, TasksAssumption
  <2>6. QED
    BY <2>1, <2>2, <2>3, <2>4, <2>5 DEF PhaseShape, Preparing, Closing
<1>4. CASE WaitForIdle
  <2>1. PICK n \in Nat, j \in Nat : n = Len(Jobs) /\ j = job
    BY <1>0, <1>4 DEF WaitForIdle, PhaseShape
  <2>2. is_idle /\ client = "wait" /\ j \in 1 .. n /\ ~shut
    BY <1>0, <1>4, <2>1 DEF WaitForIdle, BB!WaitForIdle, PhaseShape, Closing
  <2>3. /\ client' = IF j < n THEN "submit" ELSE "shut"
        /\ job' = j + 1 /\ position' = 0 /\ is_idle' = is_idle /\ shut' = shut
    BY <1>4, <2>1 DEF WaitForIdle, NextJob, BB!WaitForIdle, BB!barrierVars
  <2>4. j < n => Len(Jobs[j + 1]) \in Nat
    BY <2>1, <2>2, TasksAssumption
  <2>5. QED
    BY <2>1, <2>2, <2>3, <2>4 DEF PhaseShape, Preparing, Closing
<1>5. CASE PushRoot
  <2>1. position + 1 <= Len(Jobs[job]) /\ job \in 1 .. Len(Jobs)
    BY <1>5, PushRootTask
  <2>2. QED
    BY <1>0, <1>5, <2>1 DEF PushRoot, PhaseShape, Preparing, Closing, barrier
<1>6. CASE RegisterRoot
  BY <1>0, <1>6 DEF RegisterRoot, PhaseShape, Preparing, Closing, barrier
<1>7. CASE Release
  <2>1. Arrived = Worker /\ ~is_idle' /\ client = "submit" /\ client' = "wait" /\ at' = at
    BY <1>7, ReleaseMoves DEF Release, workers
  <2>2. \A w \in Worker : at'[w] # "exited"
    BY <2>1 DEF Arrived
  <2>3. UNCHANGED <<shut, job, position>> /\ position = Len(Jobs[job])
    BY <1>7 DEF Release
  <2>4. QED
    BY <1>0, <2>1, <2>2, <2>3 DEF PhaseShape, Preparing, Closing
<1>8. CASE SetShut
  BY <1>0, <1>8 DEF SetShut, PhaseShape, Preparing, Closing, barrier
<1>9. CASE ShutWait
  BY <1>0, <1>9 DEF ShutWait, PhaseShape, Preparing, Closing, BB!WaitForIdle, BB!barrierVars
<1>10. CASE ShutRelease
  <2>1. Arrived = Worker /\ Arrived' = {} /\ ~is_idle'
    BY <1>10, ReleaseMoves
  <2>2. /\ client = "shutRelease" /\ client' = "join"
        /\ UNCHANGED <<at, ws_queue, shut, job, position>>
    BY <1>10 DEF ShutRelease, workers
  <2>3. \A w \in Worker : at[w] = "asleep" /\ ws_queue[w] = << >>
    BY <1>0, <2>1, <2>2 DEF Arrived, SleepersLeaveNothing, Submitting
  <2>4. \A w \in Worker : ~BB!Asleep(w)'
    BY <2>1, <2>2, <2>3 DEF Arrived
  <2>5. QED
    BY <1>0, <2>1, <2>2, <2>3, <2>4 DEF PhaseShape, Preparing, Closing
<1>11. CASE Join
  <2>1. /\ client = "join" /\ client' \in {"join", "joined"}
        /\ UNCHANGED <<at, ws_queue, shut, job, barrier>>
    BY <1>11 DEF Join, workers
  <2>2. is_idle' = is_idle /\ \A v \in Worker : BB!Asleep(v)' <=> BB!Asleep(v)
    BY <2>1 DEF barrier, BB!Asleep
  <2>3. QED
    BY <1>0, <2>1, <2>2 DEF PhaseShape, Preparing, Closing
<1>12. CASE UNCHANGED vars
  <2>1. UNCHANGED <<at, ws_queue, shut, client, job, position, barrier>>
    BY <1>12 DEF vars, workers, clients
  <2>2. Arrived' = Arrived /\ is_idle' = is_idle /\ \A v \in Worker : BB!Asleep(v)' <=> BB!Asleep(v)
    BY <2>1 DEF barrier, Arrived, BB!Asleep
  <2>3. QED
    BY <1>0, <2>1, <2>2 DEF PhaseShape, Preparing, Closing
<1>13. QED
  BY <1>1, <1>2, <1>3, <1>4, <1>5, <1>6, <1>7, <1>8, <1>9, <1>10, <1>11, <1>12
     DEF Next, Client, Work, Terminated

LEMMA ShapeStep == Shape /\ [Next]_vars => Shape'
  BY TypeStep, BarrierStep, PhaseStep, WorkerStep, CountStep, SleepersStep DEF Shape

LEMMA ShapeHolds == Spec => []Shape
  BY ShapeInit, ShapeStep, PTL DEF Spec

\* Every variable keeps its type; in particular the task count, which
\* RunWorkload reads, never goes below zero.
THEOREM TypeCorrect == Spec => []TypeOK
  BY ShapeHolds, PTL DEF Shape

\* The count is the number of tasks queued or being executed, less those
\* pushed and not registered yet.
THEOREM CountIsExactHolds == Spec => []CountIsExact
  BY ShapeHolds, PTL DEF Shape

\* A worker that retires, or sleeps after a release, leaves its deque empty.
THEOREM SleepersLeaveNothingHolds == Spec => []SleepersLeaveNothing
  BY ShapeHolds, PTL DEF Shape

-----------------------------------------------------------------------------
(* The places of the tasks. *)

\* What a deque holds after a push, a pop and a steal.
LEMMA PushIn ==
    ASSUME NEW s \in Seq(Task), NEW t \in Task, Once(s), ~In(t, s)
    PROVE  /\ Once(<<t>> \o s)
           /\ \A x : In(x, <<t>> \o s) <=> In(x, s) \/ x = t
<1>1. PICK n \in Nat : n = Len(s)
  OBVIOUS
<1>2. PICK P \in Seq(Task) : P = <<t>> \o s
  <2>1. <<t>> \o s \in Seq(Task)
    OBVIOUS
  <2>2. QED
    BY <2>1
<1>3. /\ Len(P) = n + 1 /\ P[1] = t
      /\ \A i \in 1 .. n : P[i + 1] = s[i]
  BY <1>1, <1>2, PushSeq
<1>4. \A i \in 1 .. n + 1 : i = 1 \/ (i - 1 \in 1 .. n /\ i = (i - 1) + 1 /\ P[i] = s[i - 1])
  <2>1. ASSUME NEW i \in 1 .. n + 1, i # 1
        PROVE  i - 1 \in 1 .. n /\ i = (i - 1) + 1
    BY <1>1, <2>1
  <2>2. QED
    BY <1>3, <2>1
<1>5. \A i \in 1 .. n : i + 1 \in 1 .. n + 1
  BY <1>1
<1>6. Once(P)
  <2>1. \A i, k \in 1 .. n : s[i] = s[k] => i = k
    BY <1>1 DEF Once
  <2>2. \A i \in 1 .. n : s[i] # t
    BY <1>1 DEF In
  <2>3. ASSUME NEW i \in 1 .. n + 1, NEW k \in 1 .. n + 1, P[i] = P[k]
        PROVE  i = k
    <3>1. CASE i = 1 /\ k = 1
      BY <3>1
    <3>2. CASE i = 1 /\ k # 1
      BY <1>3, <1>4, <2>2, <2>3, <3>2
    <3>3. CASE i # 1 /\ k = 1
      BY <1>3, <1>4, <2>2, <2>3, <3>3
    <3>4. CASE i # 1 /\ k # 1
      <4>1. i - 1 \in 1 .. n /\ k - 1 \in 1 .. n /\ s[i - 1] = s[k - 1]
        BY <1>4, <2>3, <3>4
      <4>2. i - 1 = k - 1
        BY <2>1, <4>1
      <4>3. QED
        BY <4>2
    <3>5. QED
      BY <3>1, <3>2, <3>3, <3>4
  <2>4. QED
    BY <1>3, <2>3 DEF Once
<1>7. ASSUME NEW x PROVE In(x, P) <=> In(x, s) \/ x = t
  BY <1>1, <1>3, <1>4, <1>5 DEF In
<1>8. QED
  BY <1>2, <1>6, <1>7

LEMMA PopIn ==
    ASSUME NEW s \in Seq(Task), s # << >>, Once(s)
    PROVE  /\ Once(Tail(s)) /\ In(Head(s), s)
           /\ \A x : In(x, Tail(s)) <=> In(x, s) /\ x # Head(s)
<1>1. PICK n \in Nat \ {0} : n = Len(s)
  OBVIOUS
<1>2. PICK P \in Seq(Task) : P = Tail(s)
  BY PopSeq
<1>3. /\ Len(P) = n - 1 /\ Head(s) = s[1]
      /\ \A i \in 1 .. n - 1 : P[i] = s[i + 1]
  BY <1>1, <1>2, PopSeq
<1>4. \A i \in 1 .. n : i = 1 \/ (i - 1 \in 1 .. n - 1 /\ P[i - 1] = s[i])
  <2>1. ASSUME NEW i \in 1 .. n, i # 1
        PROVE  i - 1 \in 1 .. n - 1 /\ i = (i - 1) + 1
    BY <1>1, <2>1
  <2>2. QED
    BY <1>3, <2>1
<1>5. \A i \in 1 .. n - 1 : i + 1 \in 1 .. n /\ i + 1 # 1
  BY <1>1
<1>6. 1 \in 1 .. n
  BY <1>1
<1>7. \A i, k \in 1 .. n - 1 : i + 1 = k + 1 => i = k
  BY <1>1
<1>8. Once(P)
  BY <1>1, <1>3, <1>5, <1>7 DEF Once
<1>9. In(Head(s), s)
  BY <1>1, <1>3, <1>6 DEF In
<1>10. ASSUME NEW x PROVE In(x, P) <=> In(x, s) /\ x # Head(s)
  <2>1. ASSUME In(x, P) PROVE In(x, s) /\ x # Head(s)
    BY <1>1, <1>3, <1>5, <1>6, <2>1 DEF In, Once
  <2>2. ASSUME In(x, s), x # Head(s) PROVE In(x, P)
    BY <1>1, <1>3, <1>4, <2>2 DEF In
  <2>3. QED
    BY <2>1, <2>2
<1>11. QED
  BY <1>2, <1>8, <1>9, <1>10

LEMMA StealIn ==
    ASSUME NEW s \in Seq(Task), s # << >>, Once(s)
    PROVE  /\ Once(SubSeq(s, 1, Len(s) - 1)) /\ In(s[Len(s)], s)
           /\ \A x : In(x, SubSeq(s, 1, Len(s) - 1)) <=> In(x, s) /\ x # s[Len(s)]
<1>1. PICK n \in Nat \ {0} : n = Len(s)
  OBVIOUS
<1>2. PICK P \in Seq(Task) : P = SubSeq(s, 1, Len(s) - 1)
  BY StealSeq
<1>3. Len(P) = n - 1 /\ \A i \in 1 .. n - 1 : P[i] = s[i]
  BY <1>1, <1>2, StealSeq
<1>4. \A i \in 1 .. n : i = n \/ i \in 1 .. n - 1
  BY <1>1
<1>5. n \in 1 .. n /\ \A i \in 1 .. n - 1 : i \in 1 .. n /\ i # n
  BY <1>1
<1>6. Once(P)
  BY <1>1, <1>3, <1>5 DEF Once
<1>7. In(s[n], s)
  BY <1>1, <1>5 DEF In
<1>8. ASSUME NEW x PROVE In(x, P) <=> In(x, s) /\ x # s[n]
  <2>1. ASSUME In(x, P) PROVE In(x, s) /\ x # s[n]
    BY <1>1, <1>3, <1>5, <2>1 DEF In, Once
  <2>2. ASSUME In(x, s), x # s[n] PROVE In(x, P)
    BY <1>1, <1>3, <1>4, <2>2 DEF In
  <2>3. QED
    BY <2>1, <2>2
<1>9. QED
  BY <1>1, <1>2, <1>6, <1>7, <1>8

\* The same facts of the deques.
LEMMA PushPlaces ==
    ASSUME TypeOK, Places, NEW v \in Worker, NEW t \in Task, Push(v, t), ~Waiting(t)
    PROVE  /\ \A w \in Worker : Once(ws_queue'[w])
           /\ \A w \in Worker, x \in Task :
                 InDeque(x, w)' <=> InDeque(x, w) \/ (w = v /\ x = t)
<1>1. ws_queue \in [Worker -> Seq(Task)] /\ \A w \in Worker : Once(ws_queue[w])
  BY DEF TypeOK, Places
<1>2. ~In(t, ws_queue[v]) /\ ws_queue[v] \in Seq(Task)
  BY <1>1 DEF Waiting, InDeque
<1>3. \A w \in Worker : ws_queue'[w] = IF w = v THEN <<t>> \o ws_queue[v] ELSE ws_queue[w]
  BY <1>1 DEF Push
<1>4. /\ Once(<<t>> \o ws_queue[v])
      /\ \A x : In(x, <<t>> \o ws_queue[v]) <=> In(x, ws_queue[v]) \/ x = t
  BY <1>1, <1>2, PushIn
<1>5. ASSUME NEW w \in Worker, NEW x \in Task
      PROVE  InDeque(x, w)' <=> In(x, ws_queue'[w])
  BY DEF InDeque, In
<1>6. \A w \in Worker : Once(ws_queue'[w])
  BY <1>1, <1>3, <1>4
<1>7. ASSUME NEW w \in Worker, NEW x \in Task
      PROVE  InDeque(x, w)' <=> InDeque(x, w) \/ (w = v /\ x = t)
  <2>1. CASE w = v
    BY <1>3, <1>4, <1>5, <2>1 DEF InDeque
  <2>2. CASE w # v
    BY <1>3, <1>5, <2>2 DEF InDeque
  <2>3. QED
    BY <2>1, <2>2
<1>8. QED
  BY <1>6, <1>7

LEMMA TakePlaces ==
    ASSUME TypeOK, Places, NEW v \in Worker, NEW t,
           (TryPop(v) /\ t = Front(v)) \/ (TrySteal(v) /\ t = Back(v))
    PROVE  /\ t \in Task /\ InDeque(t, v)
           /\ \A w \in Worker : Once(ws_queue'[w])
           /\ \A w \in Worker, x \in Task :
                 InDeque(x, w)' <=> InDeque(x, w) /\ ~(w = v /\ x = t)
<1>1. ws_queue \in [Worker -> Seq(Task)] /\ \A w \in Worker : Once(ws_queue[w])
  BY DEF TypeOK, Places
<1>2. ws_queue[v] \in Seq(Task) /\ ws_queue[v] # << >> /\ Once(ws_queue[v])
  BY <1>1 DEF TryPop, TrySteal
<1>3. PICK P : /\ \A w \in Worker : ws_queue'[w] = IF w = v THEN P ELSE ws_queue[w]
               /\ Once(P) /\ In(t, ws_queue[v]) /\ t \in Task
               /\ \A x : In(x, P) <=> In(x, ws_queue[v]) /\ x # t
  <2>1. CASE TryPop(v) /\ t = Front(v)
    <3>1. \A w \in Worker : ws_queue'[w] = IF w = v THEN Tail(ws_queue[v]) ELSE ws_queue[w]
      BY <1>1, <2>1 DEF TryPop
    <3>2. QED
      BY <1>2, <2>1, <3>1, PopIn, PopSeq DEF Front
  <2>2. CASE TrySteal(v) /\ t = Back(v)
    <3>1. \A w \in Worker : ws_queue'[w] = IF w = v THEN SubSeq(ws_queue[v], 1, Len(ws_queue[v]) - 1)
                                                    ELSE ws_queue[w]
      BY <1>1, <2>2 DEF TrySteal
    <3>2. QED
      BY <1>2, <2>2, <3>1, StealIn, StealSeq DEF Back
  <2>3. QED
    BY <2>1, <2>2
<1>5. ASSUME NEW w \in Worker, NEW x \in Task
      PROVE  InDeque(x, w)' <=> In(x, ws_queue'[w])
  BY DEF InDeque, In
<1>6. \A w \in Worker : Once(ws_queue'[w])
  BY <1>1, <1>3
<1>7. ASSUME NEW w \in Worker, NEW x \in Task
      PROVE  InDeque(x, w)' <=> InDeque(x, w) /\ ~(w = v /\ x = t)
  <2>1. CASE w = v
    BY <1>3, <1>5, <2>1 DEF InDeque
  <2>2. CASE w # v
    BY <1>3, <1>5, <2>2 DEF InDeque
  <2>3. QED
    BY <2>1, <2>2
<1>8. t \in Task /\ InDeque(t, v)
  BY <1>3 DEF InDeque
<1>9. QED
  BY <1>6, <1>7, <1>8

\* The roots submitted depend only on how far the client is.
LEMMA RootsSame ==
    ASSUME Shape, NEW t, Start \/ WaitForIdle \/ Join \/ UNCHANGED <<job, position>>
    PROVE  RootSubmitted(t)' <=> RootSubmitted(t)
<1>0. TypeOK /\ PhaseShape
  BY DEF Shape
<1>1. PICK n \in Nat, j \in Nat, p \in Nat : n = Len(Jobs) /\ j = job /\ p = position
  BY <1>0, TasksAssumption DEF TypeOK
<1>2. \A k \in 1 .. n : \A i \in 1 .. Len(Jobs[k]) :
         (k < job' \/ (k = job' /\ i <= position')) <=> (k < j \/ (k = j /\ i <= p))
  <2>1. CASE Start
    <3>1. job' = 1 /\ position' = 0 /\ j = 0
      BY <1>0, <1>1, <2>1 DEF Start, NextJob, PhaseShape
    <3>2. QED
      BY <3>1
  <2>2. CASE WaitForIdle
    <3>1. job' = j + 1 /\ position' = 0 /\ p = Len(Jobs[j])
      BY <1>0, <1>1, <2>2 DEF WaitForIdle, NextJob, PhaseShape
    <3>2. QED
      BY <1>1, <3>1
  <2>3. CASE Join
    <3>1. job' = n + 1 /\ j = n + 1
      BY <1>0, <1>1, <2>3 DEF Join, PhaseShape, Closing
    <3>2. QED
      BY <1>1, <3>1
  <2>4. CASE UNCHANGED <<job, position>>
    BY <1>1, <2>4
  <2>5. QED
    BY <2>1, <2>2, <2>3, <2>4
<1>3. RootSubmitted(t) <=>
        \E k \in 1 .. n : \E i \in 1 .. Len(Jobs[k]) :
           Jobs[k][i] = t /\ (k < j \/ (k = j /\ i <= p))
  BY <1>1 DEF RootSubmitted
<1>4. RootSubmitted(t)' <=>
        \E k \in 1 .. n : \E i \in 1 .. Len(Jobs[k]) :
           Jobs[k][i] = t /\ (k < job' \/ (k = job' /\ i <= position'))
  BY <1>1 DEF RootSubmitted
<1>5. QED
  BY <1>2, <1>3, <1>4

\* A step that moves no task and submits none.
LEMMA PlacesSame ==
    ASSUME Shape, Places, UNCHANGED <<ws_queue, task, submitted, ran>>,
           \A t \in Task : RootSubmitted(t)' <=> RootSubmitted(t)
    PROVE  Places'
<1>1. ASSUME NEW t \in Task
      PROVE  /\ Waiting(t)' <=> Waiting(t)
             /\ Running(t)' <=> Running(t)
             /\ Placed(t)' <=> Placed(t)
             /\ ChildSubmitted(t)' <=> ChildSubmitted(t)
  <2>1. Waiting(t)' <=> Waiting(t)
    BY DEF Waiting, InDeque, In
  <2>2. Running(t)' <=> Running(t)
    BY DEF Running
  <2>3. ChildSubmitted(t)' <=> ChildSubmitted(t)
    BY DEF ChildSubmitted
  <2>4. Placed(t)' <=> Placed(t)
    BY <2>1, <2>2 DEF Placed
  <2>5. QED
    BY <2>1, <2>2, <2>3, <2>4
<1>2. \A t \in Task, v \in Worker : InDeque(t, v)' <=> InDeque(t, v)
  BY DEF InDeque, In
<1>3. \A w \in Worker : ws_queue'[w] = ws_queue[w]
  OBVIOUS
<1>4. \A w \in Worker : Once(ws_queue'[w])
  BY <1>3 DEF Places
<1>5. \A t \in Task : Placed(t)' <=> Submitted(t)'
  BY <1>1 DEF Places, Submitted
<1>6. \A t \in Task : /\ ran'[t] <= 1
                      /\ Waiting(t)' => ~Running(t)' /\ ran'[t] = 0
                      /\ Running(t)' => ran'[t] = 0
  BY <1>1 DEF Places
<1>7. QED
  BY <1>2, <1>4, <1>5, <1>6 DEF Places

\* A worker takes a task from a deque.
LEMMA PlacesTake ==
    ASSUME Shape, Places, NEW w \in Worker, NEW v \in Worker, NEW t, w \notin Active,
           (TryPop(v) /\ t = Front(v)) \/ (TrySteal(v) /\ t = Back(v)),
           Execute(w, t)
    PROVE  Places'
<1>0. TypeOK
  BY DEF Shape
<1>1. /\ t \in Task /\ InDeque(t, v)
      /\ \A u \in Worker : Once(ws_queue'[u])
      /\ \A u \in Worker, x \in Task : InDeque(x, u)' <=> InDeque(x, u) /\ ~(u = v /\ x = t)
  BY <1>0, TakePlaces
<1>2. task[w] = NoTask /\ submitted[w] = 0
  BY DEF Shape, WorkerShape
<1>3. /\ \A u \in Worker : task'[u] = IF u = w THEN t ELSE task[u]
      /\ UNCHANGED <<submitted, ran, job, position>>
  BY <1>0 DEF Execute, TypeOK, clients
<1>4. \A x \in Task : x # NoTask
  BY TasksAssumption
<1>5. Waiting(t) /\ ~Running(t) /\ ran[t] = 0
  BY <1>1 DEF Places, Waiting
<1>6. ASSUME NEW x \in Task
      PROVE  /\ Waiting(x)' <=> Waiting(x) /\ x # t
             /\ Running(x)' <=> Running(x) \/ x = t
  <2>1. Waiting(x)' <=> \E u \in Worker : InDeque(x, u)'
    BY DEF Waiting
  <2>2. (\E u \in Worker : InDeque(x, u)') <=> (\E u \in Worker : InDeque(x, u)) /\ x # t
    BY <1>1 DEF Places
  <2>3. Running(x)' <=> \E u \in Worker : task'[u] = x
    BY DEF Running
  <2>4. (\E u \in Worker : task'[u] = x) <=> (\E u \in Worker : task[u] = x) \/ x = t
    BY <1>2, <1>3, <1>4
  <2>5. QED
    BY <2>1, <2>2, <2>3, <2>4 DEF Waiting, Running
<1>7. ASSUME NEW x \in Task
      PROVE  Submitted(x)' <=> Submitted(x)
  <2>1. RootSubmitted(x)' <=> RootSubmitted(x)
    BY <1>3, RootsSame
  <2>2. ASSUME NEW u \in Task, NEW i \in 1 .. Len(Children[u])
        PROVE  (\E y \in Worker : task'[y] = u /\ i <= submitted'[y])
                  <=> \E y \in Worker : task[y] = u /\ i <= submitted[y]
    <3>1. ~(i <= submitted[w])
      BY <1>2, <2>2
    <3>2. QED
      BY <1>2, <1>3, <1>4, <3>1
  <2>3. ChildSubmitted(x)' <=>
          \E u \in Task : \E i \in 1 .. Len(Children[u]) :
             Children[u][i] = x /\ (ran'[u] # 0 \/ \E y \in Worker : task'[y] = u /\ i <= submitted'[y])
    BY DEF ChildSubmitted
  <2>4. ChildSubmitted(x)' <=> ChildSubmitted(x)
    BY <1>3, <2>2, <2>3 DEF ChildSubmitted
  <2>5. QED
    BY <2>1, <2>4 DEF Submitted
<1>8. \A x \in Task, u, y \in Worker : InDeque(x, u)' /\ InDeque(x, y)' => u = y
  BY <1>1 DEF Places
<1>9. \A u, y \in Worker : task'[u] = task'[y] /\ task'[u] # NoTask => u = y
  BY <1>3, <1>5 DEF Places, Running
<1>10. \A x \in Task : /\ ran'[x] <= 1
                       /\ Waiting(x)' => ~Running(x)' /\ ran'[x] = 0
                       /\ Running(x)' => ran'[x] = 0
  BY <1>3, <1>5, <1>6 DEF Places
<1>11. \A x \in Task : Placed(x)' <=> Submitted(x)'
  <2>1. ASSUME NEW x \in Task PROVE Placed(x)' <=> Placed(x)
    BY <1>3, <1>5, <1>6 DEF Placed
  <2>2. QED
    BY <1>7, <2>1 DEF Places
<1>12. QED
  BY <1>1, <1>8, <1>9, <1>10, <1>11 DEF Places

\* A push of a task that is submitted by it.
LEMMA PlacesAdd ==
    ASSUME Shape, Places, NEW v \in Worker, NEW t \in Task, Push(v, t),
           UNCHANGED <<task, ran>>, ~Submitted(t),
           \A x \in Task : Submitted(x)' <=> Submitted(x) \/ x = t
    PROVE  Places'
<1>1. ~Waiting(t) /\ ~Running(t) /\ ran[t] # 1 /\ ran[t] = 0
  <2>1. ~Placed(t)
    BY DEF Places
  <2>2. ran[t] \in Nat /\ ran[t] <= 1
    BY DEF Shape, TypeOK, Places
  <2>3. QED
    BY <2>1, <2>2 DEF Placed
<1>2. /\ \A w \in Worker : Once(ws_queue'[w])
      /\ \A w \in Worker, x \in Task : InDeque(x, w)' <=> InDeque(x, w) \/ (w = v /\ x = t)
  BY <1>1, PushPlaces DEF Shape
<1>3. ASSUME NEW x \in Task
      PROVE  /\ Waiting(x)' <=> Waiting(x) \/ x = t
             /\ Running(x)' <=> Running(x)
  <2>1. Waiting(x)' <=> \E u \in Worker : InDeque(x, u)'
    BY DEF Waiting
  <2>2. QED
    BY <1>2, <2>1 DEF Waiting, Running
<1>4. \A x \in Task, u, y \in Worker : InDeque(x, u)' /\ InDeque(x, y)' => u = y
  BY <1>1, <1>2 DEF Places, Waiting
<1>5. \A x \in Task : /\ ran'[x] <= 1
                      /\ Waiting(x)' => ~Running(x)' /\ ran'[x] = 0
                      /\ Running(x)' => ran'[x] = 0
  BY <1>1, <1>3 DEF Places
<1>6. \A x \in Task : Placed(x)' <=> Submitted(x)'
  BY <1>1, <1>3 DEF Places, Placed
<1>7. \A u, y \in Worker : task'[u] = task'[y] /\ task'[u] # NoTask => u = y
  BY DEF Places
<1>8. QED
  BY <1>2, <1>4, <1>5, <1>6, <1>7 DEF Places

LEMMA PlacesPushChild ==
    ASSUME Shape, Places, NEW w \in Worker, PushChild(w)
    PROVE  Places'
<1>0. TypeOK
  BY DEF Shape
<1>1. PICK u \in Task, k \in Nat : u = task[w] /\ k = submitted[w] + 1
  BY PushChildTask
<1>2. k \in 1 .. Len(Children[u]) /\ Children[u][k] \in Task
  BY <1>1, PushChildTask
<1>3. PICK t \in Task : t = Children[u][k]
  BY <1>2
<1>4. /\ Push(w, t) /\ UNCHANGED <<task, ran, job, position>>
      /\ \A v \in Worker : submitted'[v] = IF v = w THEN k ELSE submitted[v]
  BY <1>0, <1>1, <1>3 DEF PushChild, clients, TypeOK
<1>5. /\ \A v \in Task : \A i \in 1 .. Len(Children[v]) : Children[v][i] = t => v = u /\ i = k
      /\ ~RootSubmitted(t)
  <2>1. \A v \in Task : DOMAIN Children[v] = 1 .. Len(Children[v])
    BY TasksAssumption
  <2>2. \A j \in 1 .. Len(Jobs) : j \in DOMAIN Jobs /\ DOMAIN Jobs[j] = 1 .. Len(Jobs[j])
    BY TasksAssumption
  <2>3. ASSUME NEW v \in Task, NEW i \in 1 .. Len(Children[v]), Children[v][i] = t
        PROVE  v = u /\ i = k
    BY <1>2, <1>3, <2>1, <2>3, OnceAssumption
  <2>4. ASSUME NEW j \in 1 .. Len(Jobs), NEW i \in 1 .. Len(Jobs[j])
        PROVE  Jobs[j][i] # t
    BY <1>2, <1>3, <2>1, <2>2, OnceAssumption
  <2>5. QED
    BY <2>3, <2>4 DEF RootSubmitted
<1>6. submitted[w] \in Nat /\ k = submitted[w] + 1
  BY <1>1, PushChildTask
<1>7. task[w] = u /\ u # NoTask /\ ran[u] = 0
  <2>1. Running(u) /\ u # NoTask
    BY <1>1, TasksAssumption DEF Running
  <2>2. QED
    BY <1>1, <2>1 DEF Places
<1>8. \A v \in Worker : task[v] = u => v = w
  BY <1>7 DEF Places
<1>9. ~ChildSubmitted(t)
  <2>1. ~(k <= submitted[w])
    BY <1>6
  <2>2. QED
    BY <1>5, <1>7, <1>8, <2>1 DEF ChildSubmitted
<1>10. ASSUME NEW x \in Task
       PROVE  Submitted(x)' <=> Submitted(x) \/ x = t
  <2>1. RootSubmitted(x)' <=> RootSubmitted(x)
    BY <1>4, RootsSame
  <2>2. ASSUME NEW y \in Task, NEW i \in 1 .. Len(Children[y])
        PROVE  (\E v \in Worker : task'[v] = y /\ i <= submitted'[v])
                  <=> (\E v \in Worker : task[v] = y /\ i <= submitted[v]) \/ (y = u /\ i = k)
    <3>1. \A v \in Worker : v # w => (task'[v] = y /\ i <= submitted'[v] <=> task[v] = y /\ i <= submitted[v])
      BY <1>4
    <3>2. i <= k <=> i <= submitted[w] \/ i = k
      BY <1>6, <2>2
    <3>3. task'[w] = y /\ i <= submitted'[w] <=> (task[w] = y /\ i <= submitted[w]) \/ (y = u /\ i = k)
      BY <1>4, <1>7, <3>2
    <3>4. QED
      BY <3>1, <3>3
  <2>3. ChildSubmitted(x)' <=>
          \E y \in Task : \E i \in 1 .. Len(Children[y]) :
             Children[y][i] = x /\ (ran'[y] # 0 \/ \E v \in Worker : task'[v] = y /\ i <= submitted'[v])
    BY DEF ChildSubmitted
  <2>4. ChildSubmitted(x)' <=> ChildSubmitted(x) \/ x = t
    BY <1>2, <1>3, <1>4, <2>2, <2>3 DEF ChildSubmitted
  <2>5. QED
    BY <2>1, <2>4 DEF Submitted
<1>11. QED
  BY <1>4, <1>5, <1>9, <1>10, PlacesAdd DEF Submitted

LEMMA PlacesPushRoot ==
    ASSUME Shape, Places, PushRoot
    PROVE  Places'
<1>1. PICK j \in Nat, k \in Nat : j = job /\ k = position + 1
  BY PushRootTask
<1>2. /\ j \in 1 .. Len(Jobs) /\ k \in 1 .. Len(Jobs[j])
      /\ Jobs[j][k] \in Task /\ position \in Nat
  BY <1>1, PushRootTask
<1>a. PICK home \in Worker : home = position % nThreads
  BY PushRootTask
<1>3. PICK t \in Task : t = Jobs[j][k]
  BY <1>2
<1>4. Push(home, t) /\ UNCHANGED <<task, submitted, ran, job>> /\ position' = k
  BY <1>1, <1>3, <1>a DEF PushRoot, workers
<1>5. /\ \A l \in 1 .. Len(Jobs) : \A i \in 1 .. Len(Jobs[l]) : Jobs[l][i] = t => l = j /\ i = k
      /\ ~ChildSubmitted(t)
  <2>1. \A v \in Task : DOMAIN Children[v] = 1 .. Len(Children[v])
    BY TasksAssumption
  <2>2. \A l \in 1 .. Len(Jobs) : l \in DOMAIN Jobs /\ DOMAIN Jobs[l] = 1 .. Len(Jobs[l])
    BY TasksAssumption
  <2>3. ASSUME NEW l \in 1 .. Len(Jobs), NEW i \in 1 .. Len(Jobs[l]), Jobs[l][i] = t
        PROVE  l = j /\ i = k
    BY <1>2, <1>3, <2>2, <2>3, OnceAssumption
  <2>4. ASSUME NEW v \in Task, NEW i \in 1 .. Len(Children[v])
        PROVE  Children[v][i] # t
    BY <1>2, <1>3, <2>1, <2>2, OnceAssumption
  <2>5. QED
    BY <2>3, <2>4 DEF ChildSubmitted
<1>6. ~RootSubmitted(t)
  <2>1. ~(j < j) /\ ~(k <= position)
    BY <1>1, <1>2
  <2>2. QED
    BY <1>1, <1>5, <2>1 DEF RootSubmitted
<1>7. ASSUME NEW x \in Task
      PROVE  Submitted(x)' <=> Submitted(x) \/ x = t
  <2>1. ChildSubmitted(x)' <=> ChildSubmitted(x)
    BY <1>4 DEF ChildSubmitted
  <2>2. RootSubmitted(x)' <=>
          \E l \in 1 .. Len(Jobs) : \E i \in 1 .. Len(Jobs[l]) :
             Jobs[l][i] = x /\ (l < job' \/ (l = job' /\ i <= position'))
    BY DEF RootSubmitted
  <2>3. ASSUME NEW l \in 1 .. Len(Jobs), NEW i \in 1 .. Len(Jobs[l])
        PROVE  (l < job' \/ (l = job' /\ i <= position'))
                 <=> (l < job \/ (l = job /\ i <= position)) \/ (l = j /\ i = k)
    BY <1>1, <1>2, <1>4
  <2>4. RootSubmitted(x)' <=> RootSubmitted(x) \/ x = t
    BY <1>2, <1>3, <2>2, <2>3 DEF RootSubmitted
  <2>5. QED
    BY <2>1, <2>4 DEF Submitted
<1>8. QED
  BY <1>2, <1>4, <1>5, <1>6, <1>7, PlacesAdd DEF Submitted

\* A task that has been executed is in its last place.
LEMMA PlacesFinish ==
    ASSUME Shape, Places, NEW w \in Worker, Finish(w)
    PROVE  Places'
<1>0. TypeOK
  BY DEF Shape
<1>1. PICK t \in Task : t = task[w]
  BY DEF Finish, Shape, WorkerShape, Active
<1>2. Running(t) /\ ~Waiting(t) /\ ran[t] = 0 /\ t # NoTask
  BY <1>1, TasksAssumption DEF Places, Running
<1>3. /\ \A v \in Worker : task'[v] = IF v = w THEN NoTask ELSE task[v]
      /\ \A v \in Worker : submitted'[v] = IF v = w THEN 0 ELSE submitted[v]
      /\ \A x \in Task : ran'[x] = IF x = t THEN 1 ELSE ran[x]
      /\ UNCHANGED <<ws_queue, job, position>>
      /\ submitted[w] = Len(Children[t])
  BY <1>0, <1>1, <1>2 DEF Finish, TypeOK, clients
<1>4. \A v \in Worker : task[v] = t => v = w
  BY <1>1, <1>2 DEF Places
<1>5. \A x \in Task : x # NoTask
  BY TasksAssumption
<1>6. ASSUME NEW x \in Task
      PROVE  /\ Waiting(x)' <=> Waiting(x)
             /\ Running(x)' <=> Running(x) /\ x # t
             /\ Placed(x)' <=> Placed(x)
  <2>1. Waiting(x)' <=> Waiting(x)
    BY <1>3 DEF Waiting, InDeque, In
  <2>2. Running(x)' <=> \E v \in Worker : task'[v] = x
    BY DEF Running
  <2>3. (\E v \in Worker : task'[v] = x) <=> (\E v \in Worker : task[v] = x) /\ x # t
    BY <1>1, <1>3, <1>4, <1>5
  <2>4. Running(x)' <=> Running(x) /\ x # t
    BY <2>2, <2>3 DEF Running
  <2>5. Placed(x)' <=> Placed(x)
    BY <1>2, <1>3, <2>1, <2>4 DEF Placed
  <2>6. QED
    BY <2>1, <2>4, <2>5
<1>7. ASSUME NEW x \in Task
      PROVE  Submitted(x)' <=> Submitted(x)
  <2>1. RootSubmitted(x)' <=> RootSubmitted(x)
    BY <1>3, RootsSame
  <2>2. ASSUME NEW y \in Task, NEW i \in 1 .. Len(Children[y])
        PROVE  (ran'[y] # 0 \/ \E v \in Worker : task'[v] = y /\ i <= submitted'[v])
                  <=> (ran[y] # 0 \/ \E v \in Worker : task[v] = y /\ i <= submitted[v])
    <3>1. CASE y = t
      <4>1. i <= submitted[w] /\ task[w] = y
        BY <1>1, <1>3, <2>2, <3>1
      <4>2. QED
        BY <1>3, <3>1, <4>1
    <3>2. CASE y # t
      BY <1>1, <1>3, <1>5, <3>2
    <3>3. QED
      BY <3>1, <3>2
  <2>3. ChildSubmitted(x)' <=>
          \E y \in Task : \E i \in 1 .. Len(Children[y]) :
             Children[y][i] = x /\ (ran'[y] # 0 \/ \E v \in Worker : task'[v] = y /\ i <= submitted'[v])
    BY DEF ChildSubmitted
  <2>4. ChildSubmitted(x)' <=> ChildSubmitted(x)
    BY <2>2, <2>3 DEF ChildSubmitted
  <2>5. QED
    BY <2>1, <2>4 DEF Submitted
<1>8. \A v, u \in Worker : task'[v] = task'[u] /\ task'[v] # NoTask => v = u
  BY <1>3 DEF Places
<1>9. \A x \in Task, u, v \in Worker : InDeque(x, u)' /\ InDeque(x, v)' => u = v
  <2>1. \A x \in Task, v \in Worker : InDeque(x, v)' <=> InDeque(x, v)
    BY <1>3 DEF InDeque, In
  <2>2. QED
    BY <2>1 DEF Places
<1>10. \A v \in Worker : Once(ws_queue'[v])
  BY <1>3 DEF Places
<1>11. \A x \in Task : /\ ran'[x] <= 1
                       /\ Waiting(x)' => ~Running(x)' /\ ran'[x] = 0
                       /\ Running(x)' => ran'[x] = 0
  BY <1>2, <1>3, <1>6 DEF Places
<1>12. \A x \in Task : Placed(x)' <=> Submitted(x)'
  BY <1>6, <1>7 DEF Places
<1>13. QED
  BY <1>8, <1>9, <1>10, <1>11, <1>12 DEF Places

LEMMA PlacesStep ==
    ASSUME Shape, Places, [Next]_vars
    PROVE  Places'
<1>1. ASSUME NEW w \in Worker, Pop(w) \/ Steal(w)
      PROVE  Places'
  <2>1. w \notin Active
    BY <1>1 DEF Pop, Steal, Active
  <2>2. CASE \E v \in Worker : \/ TryPop(v) /\ Execute(w, Front(v))
                               \/ TrySteal(v) /\ Execute(w, Back(v))
    BY <2>1, <2>2, PlacesTake
  <2>3. CASE UNCHANGED <<ws_queue, task, submitted, ran, clients>>
    BY <2>3, RootsSame, PlacesSame DEF clients
  <2>4. QED
    BY <1>1, <2>2, <2>3, Workers DEF Pop, Steal
<1>2. ASSUME NEW w \in Worker,
             Sleep(w) \/ Awake(w) \/ TestShut(w) \/ TestActive(w) \/ RegisterChild(w)
      PROVE  Places'
  <2>1. UNCHANGED <<ws_queue, task, submitted, ran, clients>>
    BY <1>2 DEF Sleep, Awake, TestShut, TestActive, RegisterChild
  <2>2. QED
    BY <2>1, RootsSame, PlacesSame DEF clients
<1>3. CASE Start \/ WaitForIdle \/ Join
  <2>1. UNCHANGED <<ws_queue, task, submitted, ran>>
    BY <1>3 DEF Start, WaitForIdle, Join, workers
  <2>2. QED
    BY <1>3, <2>1, RootsSame, PlacesSame
<1>4. CASE RegisterRoot \/ Release \/ SetShut \/ ShutWait \/ ShutRelease \/ UNCHANGED vars
  <2>1. UNCHANGED <<ws_queue, task, submitted, ran, job, position>>
    BY <1>4 DEF RegisterRoot, Release, SetShut, ShutWait, ShutRelease, vars, workers, clients
  <2>2. QED
    BY <2>1, RootsSame, PlacesSame
<1>5. QED
  BY <1>1, <1>2, <1>3, <1>4, PlacesPushChild, PlacesPushRoot, PlacesFinish
     DEF Next, Client, Work, Terminated

LEMMA PlacesInit == Init => Places
<1> SUFFICES ASSUME Init
             PROVE  Places
  OBVIOUS
<1>1. \A w \in Worker : ws_queue[w] = << >> /\ task[w] = NoTask
  BY DEF Init
<1>2. \A t \in Task : ran[t] = 0 /\ ~Running(t) /\ t # NoTask
  BY <1>1, TasksAssumption DEF Init, Running
<1>3. \A t, w : w \in Worker => ~InDeque(t, w)
  BY <1>1 DEF InDeque, In
<1>4. \A w \in Worker : Once(ws_queue[w])
  BY <1>1 DEF Once
<1>5. \A t \in Task : ~Waiting(t)
  BY <1>3 DEF Waiting
<1>6. \A t \in Task : ~RootSubmitted(t)
  BY TasksAssumption DEF Init, RootSubmitted
<1>7. \A t \in Task : ~ChildSubmitted(t)
  BY <1>1, <1>2 DEF ChildSubmitted
<1>8. QED
  BY <1>1, <1>2, <1>3, <1>4, <1>5, <1>6, <1>7 DEF Places, Placed, Submitted

LEMMA PlacesHold == Spec => [](Shape /\ Places)
<1>1. Init => Shape /\ Places
  BY ShapeInit, PlacesInit
<1>2. Shape /\ Places /\ [Next]_vars => (Shape /\ Places)'
  BY ShapeStep, PlacesStep
<1>3. QED
  BY <1>1, <1>2, PTL DEF Spec

\* A task is queued once, or run by one worker, or done once: an owner and a
\* thief never both execute it.
THEOREM OnePlaceHolds == Spec => []OnePlace
<1>1. Shape /\ Places => OnePlace
  <2> SUFFICES ASSUME Shape, Places, NEW t \in Task
               PROVE  Cardinality({q \in Queued : ws_queue[q[1]][q[2]] = t})
                        + Cardinality({w \in Worker : task[w] = t}) + ran[t] <= 1
    BY DEF OnePlace
  <2> DEFINE A == {q \in Queued : ws_queue[q[1]][q[2]] = t}
             B == {w \in Worker : task[w] = t}
  <2>1. ws_queue \in Deques /\ Queued = Cells(ws_queue) /\ ran[t] \in Nat /\ t # NoTask
    BY TasksAssumption DEF Shape, TypeOK, Deques, Queued, Cells
  <2>2. A # {} => Waiting(t)
    <3>1. ASSUME NEW q \in A PROVE Waiting(t)
      <4>1. PICK w \in Worker : \E i \in 1 .. Len(ws_queue[w]) : q = <<w, i>>
        BY <2>1, <3>1, CellsFinite
      <4>2. QED
        BY <3>1, <4>1 DEF Waiting, InDeque, In
    <3>2. QED
      BY <3>1
  <2>3. \A q, r \in A : q = r
    <3>1. ASSUME NEW q \in A, NEW r \in A PROVE q = r
      <4>1. PICK w \in Worker : \E i \in 1 .. Len(ws_queue[w]) : q = <<w, i>>
        BY <2>1, <3>1, CellsFinite
      <4>2. PICK v \in Worker : \E i \in 1 .. Len(ws_queue[v]) : r = <<v, i>>
        BY <2>1, <3>1, CellsFinite
      <4>3. InDeque(t, w) /\ InDeque(t, v)
        BY <3>1, <4>1, <4>2 DEF InDeque, In
      <4>4. w = v /\ Once(ws_queue[w])
        BY <4>3 DEF Places
      <4>5. QED
        BY <3>1, <4>1, <4>2, <4>4 DEF Once
    <3>2. QED
      BY <3>1
  <2>4. B # {} <=> Running(t)
    BY DEF Running
  <2>5. \A v, w \in B : v = w
    BY <2>1 DEF Places
  <2>6. ASSUME NEW S, \A x, y \in S : x = y
        PROVE  IF S = {} THEN Cardinality(S) = 0 ELSE Cardinality(S) = 1
    <3>1. CASE S = {}
      BY <3>1, FS_EmptySet
    <3>2. CASE S # {}
      <4>1. PICK x : x \in S
        BY <3>2
      <4>2. S = {x}
        BY <2>6, <4>1
      <4>3. QED
        BY <3>2, <4>2, FS_Singleton
    <3>3. QED
      BY <3>1, <3>2
  <2>7. IF A = {} THEN Cardinality(A) = 0 ELSE Cardinality(A) = 1
    BY <2>3, <2>6
  <2>8. IF B = {} THEN Cardinality(B) = 0 ELSE Cardinality(B) = 1
    BY <2>5, <2>6
  <2>9. ran[t] <= 1 /\ (Waiting(t) => ~Running(t) /\ ran[t] = 0) /\ (Running(t) => ran[t] = 0)
    BY DEF Places
  <2> HIDE DEF A, B
  <2>10. Cardinality(A) + Cardinality(B) + ran[t] <= 1
    BY <2>1, <2>2, <2>4, <2>7, <2>8, <2>9
  <2>11. QED
    BY <2>10 DEF A, B
<1>2. QED
  BY <1>1, PlacesHold, PTL

\* An idle pool has done everything it was given, descendants included.
THEOREM IdleMeansDoneHolds == Spec => []IdleMeansDone
<1>1. Shape /\ Places => IdleMeansDone
  <2> SUFFICES ASSUME Shape, Places, is_idle, ~Submitting
               PROVE  /\ Active = {}
                      /\ \A j \in DOMAIN Jobs : j <= job =>
                            \A i \in DOMAIN Jobs[j] : ran[Jobs[j][i]] = 1
                      /\ \A t \in Task : ran[t] # 0 =>
                            \A i \in DOMAIN Children[t] : ran[Children[t][i]] = 1
    BY DEF IdleMeansDone
  <2>1. Arrived = Worker
    BY DEF Shape, BarrierShape
  <2>2. Active = {}
    BY <2>1 DEF Arrived, Active
  <2>3. \A w \in Worker : ws_queue[w] = << >> /\ task[w] = NoTask
    BY <2>1, <2>2 DEF Arrived, Shape, SleepersLeaveNothing, WorkerShape
  <2>4. ASSUME NEW t \in Task, Submitted(t)
        PROVE  ran[t] = 1
    <3>1. ~Running(t)
      BY <2>3, TasksAssumption DEF Running
    <3>2. ~Waiting(t)
      BY <2>3 DEF Waiting, InDeque, In
    <3>3. QED
      BY <2>4, <3>1, <3>2 DEF Places, Placed
  <2>5. ASSUME NEW j \in DOMAIN Jobs, j <= job, NEW i \in DOMAIN Jobs[j]
        PROVE  ran[Jobs[j][i]] = 1
    <3>1. j \in 1 .. Len(Jobs) /\ Jobs[j] \in Seq(Task)
      BY TasksAssumption
    <3>2. i \in 1 .. Len(Jobs[j]) /\ Jobs[j][i] \in Task
      BY <3>1
    <3>3. j < job \/ (j = job /\ i <= position)
      <4>1. ASSUME j = job PROVE i <= position
        <5>1. client = "wait"
          BY <3>1, <4>1 DEF Shape, TypeOK, PhaseShape, Preparing, Closing, Submitting
        <5>2. position = Len(Jobs[j])
          BY <4>1, <5>1 DEF Shape, PhaseShape
        <5>3. QED
          BY <3>2, <5>2
      <4>2. job \in Int /\ j \in Int
        BY <3>1 DEF Shape, TypeOK
      <4>3. QED
        BY <2>5, <4>1, <4>2
    <3>4. RootSubmitted(Jobs[j][i])
      BY <3>1, <3>2, <3>3 DEF RootSubmitted
    <3>5. QED
      BY <2>4, <3>2, <3>4 DEF Submitted
  <2>6. ASSUME NEW t \in Task, ran[t] # 0, NEW i \in DOMAIN Children[t]
        PROVE  ran[Children[t][i]] = 1
    <3>1. i \in 1 .. Len(Children[t]) /\ Children[t][i] \in Task
      BY TasksAssumption
    <3>2. ChildSubmitted(Children[t][i])
      BY <2>6, <3>1 DEF ChildSubmitted
    <3>3. QED
      BY <2>4, <3>1, <3>2 DEF Submitted
  <2>7. QED
    BY <2>2, <2>5, <2>6
<1>2. QED
  BY <1>1, PlacesHold, PTL
=============================================================================
