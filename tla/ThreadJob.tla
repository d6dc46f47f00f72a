----------------------------- MODULE ThreadJob -----------------------------
(***************************************************************************)
(* A multithreaded program that runs: thread 0 is its main thread, the     *)
(* others are started by it.  Threads interleave at every access to a      *)
(* shared variable and every line of output.                               *)
(***************************************************************************)
EXTENDS ThreadPrograms, SequencesExt

CONSTANT Runs      \* the runs: a program, its threads, and "on"

VARIABLES
  run,       \* the run
  code,      \* code[t]: what thread t has still to do
  loaded,    \* loaded[t]: what it has loaded since it last used it
  mem,       \* the shared variables
  owner,     \* the thread that holds the lock, or -1
  asleep,    \* the threads that wait at the barrier
  early,     \* whether a thread left the barrier without being woken
  out        \* the lines of output, <<thread, line, values>>

vars == <<run, code, loaded, mem, owner, asleep, early, out>>

Thread == 0 .. 4
Shared == {"sum", "other", "id", "num", "next", "arrived", "ret1", "ret2", "ret3", "ret4"}

Program(prog, n, on) ==
  CASE prog = "forkJoin"          -> forkJoin
    [] prog = "forkJoin2"         -> forkJoin2(n)
    [] prog = "forkJoin3"         -> forkJoin3(n)
    [] prog = "forkJoin4"         -> forkJoin4(n)
    [] prog = "forkJoin5"         -> forkJoin5(n)
    [] prog = "forkJoin6"         -> forkJoin6(n)
    [] prog = "mutualExclusion"   -> mutualExclusion(n, on)
    [] prog = "barrier"           -> barrier(n, on)
    [] prog = "ompForkJoin"       -> ompForkJoin(n, on)
    [] prog = "ompForkJoin2"      -> ompForkJoin2(n, on)
    [] prog = "ompSpmd"           -> ompSpmd(n, on)
    [] prog = "ompSpmd2"          -> ompSpmd2(n)
    [] prog = "ompBarrier"        -> ompBarrier(n, on)
    [] prog = "ompMasterWorker"   -> ompMasterWorker(n, on)
    [] prog = "ompMasterOnly"     -> ompMasterOnly(n, on)
    [] prog = "ompEqualChunks"    -> ompEqualChunks(n)
    [] prog = "ompSlices"         -> ompSlices(n, on)
    [] prog = "ompWhile"          -> ompWhile(n)
    [] prog = "ompReduction"      -> ompReduction(n, on)
    [] prog = "ompFactorial"      -> ompFactorial(n, on)
    [] prog = "ompDynamic"        -> ompDynamic(n, on)
    [] prog = "ompPrivate"        -> ompPrivate(n, on)
    [] prog = "ompAtomic"         -> ompAtomic(n, on)
    [] prog = "ompCritical"       -> ompCritical(n, on)
    [] prog = "ompCritical2"      -> ompCritical2(n)
    [] prog = "ompCritical3"      -> ompCritical3(n, on)
    [] prog = "ompDataRace"       -> ompDataRace(n, on)
    [] prog = "ompSections"       -> ompSections
    [] prog = "ompTasks"          -> ompTasks(on)
    [] prog = "hybridSpmd"        -> hybridSpmd(n, on)
    [] prog = "hybridSpmd2"       -> hybridSpmd2(n)
    [] prog = "cilkForkJoin0"     -> cilkForkJoin0(n, on)
    [] prog = "cilkForkJoin1"     -> cilkForkJoin1(n)
    [] prog = "cilkForkJoin1a"    -> cilkForkJoin1a(n)
    [] prog = "vathForkJoin"      -> vathForkJoin
    [] prog = "vathForkJoin2"     -> vathForkJoin2
    [] prog = "vathSpmd"          -> vathSpmd(n)
    [] prog = "vathSpmd2"         -> vathSpmd2(n)
    [] prog = "vathBarrier"       -> vathBarrier(n, on)
    [] prog = "vathEqualChunks"   -> vathEqualChunks(n)
    [] prog = "vathChunksOf1"     -> vathChunksOf1(n)
    [] prog = "vathLoopRevisited" -> vathLoopRevisited(n, on)
    [] prog = "vathReduction"     -> vathReduction(n)
    [] prog = "vathReduction2"    -> vathReduction2(n)
    [] prog = "vathPrivate"       -> vathPrivate(on)
    [] prog = "vathRaceCondition" -> vathRaceCondition(n, on)
    [] prog = "vathLanguageDiff"  -> vathLanguageDiff(n, on)

Init ==
  /\ run \in Runs
  /\ code = [t \in Thread |-> IF t = 0 THEN Program(run.prog, run.n, run.on) ELSE Nothing]
  /\ loaded = [t \in Thread |-> <<>>]
  /\ mem = [v \in Shared |-> 0]
  /\ owner = -1
  /\ asleep = {}
  /\ early = FALSE
  /\ out = <<>>

(* Thread t goes on with an instruction of the given kind.                 *)
At(t, kind) == t \notin asleep /\ code[t] # <<>> /\ Head(code[t]).do = kind
GoesOn(t)   == code' = [code EXCEPT ![t] = Tail(@)]

SayLine(t) ==
  /\ At(t, "say")
  /\ LET i == Head(code[t]) IN out' = Append(out, <<t, i.line, i.values \o loaded[t]>>)
  /\ loaded' = [loaded EXCEPT ![t] = <<>>]
  /\ GoesOn(t)
  /\ UNCHANGED <<run, mem, owner, asleep, early>>

LoadVar(t) ==
  /\ At(t, "load")
  /\ loaded' = [loaded EXCEPT ![t] = Append(@, mem[Head(code[t]).var])]
  /\ GoesOn(t)
  /\ UNCHANGED <<run, mem, owner, asleep, early, out>>

PutVar(t) ==
  /\ At(t, "put")
  /\ mem' = [mem EXCEPT ![Head(code[t]).var] = Head(code[t]).x]
  /\ GoesOn(t)
  /\ UNCHANGED <<run, loaded, owner, asleep, early, out>>

Combine(op, values) ==
  FoldSeq(LAMBDA x, y : IF op = "+" THEN x + y ELSE x * y, IF op = "+" THEN 0 ELSE 1, values)

StoreVar(t) ==
  /\ At(t, "store")
  /\ LET i == Head(code[t]) IN mem' = [mem EXCEPT ![i.var] = Combine(i.op, Append(loaded[t], i.x))]
  /\ loaded' = [loaded EXCEPT ![t] = <<>>]
  /\ GoesOn(t)
  /\ UNCHANGED <<run, owner, asleep, early, out>>

UpdateVar(t) ==
  /\ At(t, "atomic")
  /\ LET i == Head(code[t]) IN mem' = [mem EXCEPT ![i.var] = Combine(i.op, <<@, i.x>>)]
  /\ GoesOn(t)
  /\ UNCHANGED <<run, loaded, owner, asleep, early, out>>

Free == owner = -1

AcquireLock(t) ==
  /\ At(t, "lock") /\ Free
  /\ owner' = t
  /\ GoesOn(t)
  /\ UNCHANGED <<run, loaded, mem, asleep, early, out>>

ReleaseLock(t) ==
  /\ At(t, "unlock")
  /\ owner' = -1
  /\ GoesOn(t)
  /\ UNCHANGED <<run, loaded, mem, asleep, early, out>>

ForkThread(t) ==
  /\ At(t, "fork")
  /\ code' = [code EXCEPT ![t] = Tail(@), ![Head(code[t]).thread] = Head(code[t]).body]
  /\ UNCHANGED <<run, loaded, mem, owner, asleep, early, out>>

JoinThread(t) ==
  /\ At(t, "join")
  /\ code[Head(code[t]).thread] = <<>>
  /\ GoesOn(t)
  /\ UNCHANGED <<run, loaded, mem, owner, asleep, early, out>>

(* Mutant of LastOne: the barrier forgets to wake up the others.           *)
NeverLast(n) == FALSE

LastOne(n) == mem["arrived"] + 1 = n

(* Threads arrive at the barrier and sleep; the last one wakes up all.     *)
WaitAtBarrier(t) ==
  /\ At(t, "barrier")
  /\ IF LastOne(Head(code[t]).n)
       THEN asleep' = {} /\ mem' = [mem EXCEPT !["arrived"] = 0]
       ELSE asleep' = asleep \cup {t} /\ mem' = [mem EXCEPT !["arrived"] = @ + 1]
  /\ GoesOn(t)
  /\ UNCHANGED <<run, loaded, owner, early, out>>

(* pthreadBarrier leaves on any return of pthread_cond_wait; BarrierWait   *)
(* and the OpenMP barrier sleep on.                                        *)
SpuriousWakeup(t) ==
  /\ run.prog = "barrier" /\ t \in asleep
  /\ asleep' = asleep \ {t}
  /\ early' = TRUE
  /\ UNCHANGED <<run, code, loaded, mem, owner, out>>

TakeIteration(t) ==
  /\ At(t, "take")
  /\ LET bodies == Head(code[t]).bodies
         next   == mem["next"] + 1
     IN  IF next > Len(bodies)
           THEN GoesOn(t) /\ UNCHANGED mem
           ELSE /\ code' = [code EXCEPT ![t] = bodies[next] \o @]
                /\ mem' = [mem EXCEPT !["next"] = next]
  /\ UNCHANGED <<run, loaded, owner, asleep, early, out>>

Step(t) ==
  \/ SayLine(t) \/ LoadVar(t) \/ PutVar(t) \/ StoreVar(t) \/ UpdateVar(t)
  \/ AcquireLock(t) \/ ReleaseLock(t) \/ ForkThread(t) \/ JoinThread(t)
  \/ WaitAtBarrier(t) \/ TakeIteration(t)

Next == \E t \in Thread : Step(t) \/ SpuriousWakeup(t)

Fairness == \A t \in Thread : WF_vars(Step(t))

Spec == Init /\ [][Next]_vars /\ Fairness
-----------------------------------------------------------------------------
AllDone == \A t \in Thread : code[t] = <<>>

(* The values of the lines that say s, in order of their output.           *)
Lines(s)  == LET said == SelectSeq(out, LAMBDA l : l[2] = s) IN [i \in 1 .. Len(said) |-> said[i][3]]
Once(s, S) == Len(Lines(s)) = Cardinality(S) /\ ToSet(Lines(s)) = S
Times(s, k) == Len(Lines(s)) = k
Positions(s) == { i \in 1 .. Len(out) : out[i][2] = s }
Before(s1, s2) == \A i \in Positions(s1), k \in Positions(s2) : i < k

Ids == 0 .. run.n - 1
Ranks == 1 .. run.n
Greetings(S, n) == { <<id, n>> : id \in S }
Parts(s, k) == Cardinality({ i \in 1 .. Len(Lines(s)) : Lines(s)[i] = <<k>> })

(* What each program says when it is through, for every schedule.  Where a *)
(* race is left open, what it can still be relied on for.                  *)
Greets ==
  LET n == run.n on == run.on team == IF run.on THEN n ELSE 1 IN
  CASE run.prog = "forkJoin"  -> Times("parent", 1) /\ Times("child", 1)
    [] run.prog = "forkJoin2" -> Once("parent", {<<0>>}) /\ Once("child", { <<k>> : k \in Ids \ {0} })
    [] run.prog = "forkJoin3" ->
         \* a child finds its own number in the buffer or that of a later one
         /\ Times("child", n - 1)
         /\ \A i \in Positions("child") : out[i][3][1] \in out[i][1] .. n - 1 /\ out[i][3][2] = n
    [] run.prog \in {"forkJoin4", "forkJoin5"} -> Once("child", Greetings(Ids \ {0}, n))
    [] run.prog = "forkJoin6" ->
         /\ Once("child", { <<k, k * k>> : k \in Ids \ {0} })
         /\ Lines("sum") = <<<<MapThenSumSet(LAMBDA k : k * k, Ids)>>>>
    [] run.prog \in {"barrier", "ompBarrier", "vathBarrier"} ->
         Times("before", n) /\ Times("after", n) /\ (on /\ ~early => Before("before", "after"))
    [] run.prog = "ompForkJoin" ->
         Times("during", team) /\ Before("before", "during") /\ Before("during", "after")
    [] run.prog = "ompForkJoin2" ->
         /\ Parts("part", 1) = n /\ Parts("part", 2) = 3 /\ Parts("part", 3) = 5
         /\ Parts("part", 4) = IF on THEN 3 ELSE 0
         /\ Before("beginning", "part") /\ Before("part", "end")
         /\ \A i \in Positions("part"), k \in Positions("between") :
              (i < k) <=> out[i][3][1] <= out[k][3][1]
    [] run.prog \in {"ompSpmd", "hybridSpmd"} -> Once("hello", Greetings(0 .. team - 1, team))
    [] run.prog = "hybridSpmd2" -> Once("hello", Greetings(Ids, n))
    [] run.prog = "ompSpmd2" ->
         \* a thread may say the number of another one, the last to say it its own
         Times("hello", n) /\ ToSet(Lines("hello")) \subseteq Greetings(Ids, n)
    [] run.prog = "ompMasterWorker" ->
         Once("master", {<<0, team>>}) /\ Once("worker", Greetings(1 .. team - 1, team))
    [] run.prog = "ompMasterOnly" -> Once("master", Greetings(IF on THEN {0} ELSE Ids, n))
    [] run.prog = "ompSections" ->
         Once("during", { <<i>> : i \in 1 .. 4 }) /\ Before("before", "during") /\ Before("during", "after")
    [] run.prog = "ompTasks" ->
         /\ Times("list", 1) /\ Times("en", 1) /\ Before("Please", "list") /\ Before("Please", "en")
         /\ on => Before("list", "!") /\ Before("en", "!")
    [] run.prog = "cilkForkJoin0" ->
         /\ Once("during", { <<k>> : k \in Ranks }) /\ Before("before", "during")
         /\ on => Before("during", "after")
    [] run.prog \in {"cilkForkJoin1", "cilkForkJoin1a"} ->
         Once("during", { <<k>> : k \in Ranks }) /\ Before("during", "after")
    [] run.prog = "vathForkJoin" ->
         Times("during", 2) /\ Before("before", "during") /\ Before("during", "after")
    [] run.prog = "vathForkJoin2" ->
         /\ Parts("part", 2) = 2 /\ Parts("part", 3) = 3 /\ Parts("part", 1) = 1
         /\ Before("beginning", "part") /\ Before("part", "end")
    [] run.prog \in {"vathSpmd", "vathSpmd2"} -> Once("hello", { <<k>> : k \in Ranks })
    [] run.prog = "vathLanguageDiff" ->
         IF on THEN Once("piece", { <<k, i>> : k \in Ranks, i \in {1, 2} })
               ELSE Once("hello", Greetings(Ranks, n))
    [] run.prog = "ompCritical3" ->
         \* the pieces of a line stay together
         \A i \in 1 .. Len(out) \div 2 : out[2 * i - 1][1] = out[2 * i][1]
    [] OTHER -> TRUE

Computes ==
  LET n == run.n on == run.on IN
  CASE run.prog \in {"ompEqualChunks", "vathEqualChunks", "vathChunksOf1"} ->
         Once("iteration", { <<i>> : i \in 0 .. Reps - 1 })
    [] run.prog \in {"ompSlices", "ompWhile"} ->
         \A i \in 0 .. Reps - 1 :
            Parts("iteration", i) = IF on \/ run.prog = "ompWhile" THEN 2 ELSE 1
    [] run.prog = "ompReduction" -> Lines("result") = Lines("sequential")
    [] run.prog = "ompFactorial" -> Lines("result") = <<<<Factorial(Reps)>>>>
    [] run.prog = "ompDynamic" -> Once("table", { <<i, Factorial(i)>> : i \in 0 .. Reps })
    [] run.prog = "vathLoopRevisited" ->
         Once("table", { <<i, Factorial(i)>> : i \in 0 .. (IF on THEN Reps - 1 ELSE Reps) })
    [] run.prog \in {"ompPrivate", "vathPrivate"} -> Once("element", { <<i, j>> : i, j \in {0, 1} })
    [] run.prog = "mutualExclusion" ->
         \* with the lock the transactions of an even number of threads cancel
         IF on /\ n % 2 = 0 THEN mem["sum"] = 0
                            ELSE mem["sum"] \in -2 * ((n + 1) \div 2) .. 2 * (n \div 2)
    [] run.prog = "ompAtomic" ->
         IF on THEN Lines("balance") = <<<<Reps>>>>
               ELSE Lines("balance")[1][1] \in (IF n = 1 THEN {Reps} ELSE 1 .. Reps)
    [] run.prog = "ompCritical" -> Lines("balance") = <<<<Reps>>>>
    [] run.prog = "ompCritical2" -> Lines("balance") = <<<<Reps>>, <<Reps>>>>
    [] run.prog = "vathRaceCondition" ->
         Lines("balance")[1][1] \in (IF n = 1 \/ ~on THEN {Reps} ELSE 1 .. Reps)
    [] run.prog = "vathReduction" ->
         Lines("result") = <<<<SumOf(1 .. Reps)>>>> /\ Lines("without")[1][1] <= SumOf(1 .. Reps)
    [] run.prog = "vathReduction2" -> Once("factorial", { <<i, Factorial(i)>> : i \in 0 .. Reps })
    [] run.prog = "ompDataRace" ->
         /\ Times("set", n) /\ Lines("won")[1][1] \in Ids
         /\ on => /\ \A i \in Positions("set") : out[i][3][1] = out[i][3][2]
                  /\ Lines("won")[1][1] = Lines("set")[n][1]
    [] OTHER -> TRUE

(* A program that is through has said and computed what it is to, whatever *)
(* the schedule: no line, iteration or update is lost or repeated, and     *)
(* nothing crosses a barrier, a join or a critical section, except for a   *)
(* thread that leaves pthreadBarrier without having been woken.            *)
Outcome == AllDone => Greets /\ Computes

(* Every program comes to an end: joins, locks and barriers are matched.   *)
Terminates == <>AllDone
=============================================================================
