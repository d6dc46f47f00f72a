---------------------------- MODULE PipeThQProofs ----------------------------
(***************************************************************************)
(* Theorems about PipeThQ, for any number of stages, any capacity of the    *)
(* queues and any number of values: its types, that the values stay in      *)
(* order and none is lost on the way, and that a queue is closed only       *)
(* behind everything that was accepted.                                     *)
(***************************************************************************)
EXTENDS PipeThQ, SequenceTheorems, WellFoundedInduction, TLAPS

(* Induction over the ranks, from the last one down, and the function Flow  *)
(* that is defined along it.                                                *)

\* A set of natural numbers has a smallest one.
LEMMA Smallest ==
    ASSUME NEW T, T \subseteq Nat, T # {}
    PROVE  \E n \in T : \A m \in T : n <= m
<1>1. PICK n \in T : \A m \in T : <<m, n>> \notin OpToRel(<, Nat)
  BY NatLessThanWellFounded, WFMin
<1>2. \A m \in T : ~(m < n)
  BY <1>1 DEF OpToRel
<1>3. QED
  BY <1>2

\* What holds of the last rank, and of each that is followed by one it holds
\* of, holds of all.
LEMMA Downwards ==
    ASSUME NEW lo \in Int, NEW hi \in Int, NEW T, hi \in T,
           \A n \in lo .. hi - 1 : n + 1 \in T => n \in T
    PROVE  lo .. hi \subseteq T
<1> DEFINE Far == {k \in Nat : hi - k >= lo /\ hi - k \notin T}
<1>1. Far = {}
  <2>1. SUFFICES ASSUME Far # {} PROVE FALSE
    OBVIOUS
  <2>2. PICK k \in Far : \A m \in Far : k <= m
    <3>1. Far \subseteq Nat
      OBVIOUS
    <3>2. QED
      BY <2>1, <3>1, Smallest
  <2>3. k \in Nat /\ hi - k >= lo /\ hi - k \notin T
    OBVIOUS
  <2>4. k # 0
    BY <2>3
  <2>5. k - 1 \in Nat /\ hi - k \in lo .. hi - 1 /\ hi - (k - 1) = (hi - k) + 1
    BY <2>3, <2>4
  <2>6. (hi - k) + 1 \notin T
    BY <2>3, <2>5
  <2>7. k - 1 \in Far
    BY <2>3, <2>5, <2>6
  <2>8. k <= k - 1
    BY <2>2, <2>7
  <2>9. QED
    BY <2>3, <2>8
<1>2. ASSUME NEW n \in lo .. hi, n \notin T PROVE FALSE
  <2>1. hi - n \in Nat /\ hi - (hi - n) = n /\ n >= lo
    OBVIOUS
  <2>2. hi - n \in Far
    BY <1>2, <2>1
  <2>3. QED
    BY <1>1, <2>2
<1>3. QED
  BY <1>2

\* There is a function that is defined in terms of its next value.
Recursion(f, base, Q, R) ==
  f = [n \in BEG .. END |-> IF n = END THEN base ELSE f[n + 1] \o Q[n] \o R[n]]

LEMMA RecursionExists ==
    ASSUME NEW base, NEW Q, NEW R
    PROVE  \E f : Recursion(f, base, Q, R)
<1> DEFINE Right(f, n) == f[n] = IF n = END THEN base ELSE f[n + 1] \o Q[n] \o R[n]
           T == {k \in BEG .. END : \E f : \A n \in k .. END : Right(f, n)}
<1>0. BEG \in Int /\ END \in Int /\ BEG <= END
  BY PipelineAssumption
<1>1. END \in T
  <2> DEFINE f == [n \in {END} |-> base]
  <2>1. \A n \in END .. END : n = END
    BY <1>0
  <2>2. f[END] = base
    OBVIOUS
  <2>3. \A n \in END .. END : Right(f, n)
    BY <2>1, <2>2
  <2>4. \E g : \A n \in END .. END : Right(g, n)
    <3> HIDE DEF f, Right
    <3>1. QED
      BY <2>3
  <2>5. END \in BEG .. END
    BY <1>0
  <2>6. QED
    BY <2>4, <2>5
<1>2. ASSUME NEW k \in BEG .. END - 1, k + 1 \in T
      PROVE  k \in T
  <2>1. PICK f : \A n \in k + 1 .. END : Right(f, n)
    BY <1>2
  <2> DEFINE g == [n \in BEG .. END |-> IF n = k THEN f[k + 1] \o Q[k] \o R[k] ELSE f[n]]
  <2>2. ASSUME NEW n \in k .. END PROVE Right(g, n)
    <3>0. /\ n \in BEG .. END /\ k \in BEG .. END /\ k + 1 \in BEG .. END
          /\ k # END /\ k + 1 # k
      BY <1>0
    <3>1. CASE n = k
      <4>1. g[k] = f[k + 1] \o Q[k] \o R[k] /\ g[k + 1] = f[k + 1]
        BY <3>0
      <4>2. QED
        BY <3>0, <3>1, <4>1
    <3>2. CASE n = END
      <4>1. g[n] = f[n] /\ n \in k + 1 .. END
        BY <1>0, <3>0, <3>2
      <4>2. QED
        BY <2>1, <3>2, <4>1
    <3>3. CASE n # k /\ n # END
      <4>1. n \in k + 1 .. END /\ n + 1 \in BEG .. END /\ n + 1 # k
        BY <1>0, <3>3
      <4>2. g[n] = f[n] /\ g[n + 1] = f[n + 1]
        BY <3>0, <3>3, <4>1
      <4>3. Right(f, n)
        BY <2>1, <4>1
      <4>4. QED
        BY <3>3, <4>2, <4>3
    <3>4. QED
      BY <3>1, <3>2, <3>3
  <2>3. k \in BEG .. END
    BY <1>0
  <2>4. QED
    BY <2>2, <2>3
<1>3. BEG \in T
  <2>1. BEG .. END \subseteq T
    <3> HIDE DEF T
    <3>1. QED
      BY <1>0, <1>1, <1>2, Downwards
  <2>2. QED
    BY <1>0, <2>1
<1>4. PICK f : \A n \in BEG .. END : Right(f, n)
  BY <1>3
<1> DEFINE h == [n \in BEG .. END |-> f[n]]
<1>5. h = [n \in BEG .. END |-> IF n = END THEN base ELSE h[n + 1] \o Q[n] \o R[n]]
  <2>1. ASSUME NEW n \in BEG .. END
        PROVE  h[n] = IF n = END THEN base ELSE h[n + 1] \o Q[n] \o R[n]
    <3>1. n # END => n + 1 \in BEG .. END
      BY <1>0
    <3>2. QED
      BY <1>4, <3>1
  <2>2. QED
    BY <2>1
<1>6. QED
  BY <1>5 DEF Recursion

S(n) == <<"stage", n>>

FlowUnfolds ==
  \A n \in BEG .. END :
     Flow[n] = IF n = END THEN out \o Holding(S(n))
                          ELSE (Flow[n + 1] \o c[n]) \o Holding(S(n))

\* Flow is the function its definition says.
LEMMA FlowIs == FlowUnfolds
<1> DEFINE Body(f) == [n \in BEG .. END |->
                         IF n = END THEN out \o Holding(<<"stage", n>>)
                         ELSE f[n + 1] \o c[n] \o Holding(<<"stage", n>>)]
           H == [n \in BEG .. END |-> Holding(<<"stage", n>>)]
<1>0. END \in BEG .. END
  BY PipelineAssumption
<1>1. PICK f : Recursion(f, out \o H[END], c, H)
  <2> HIDE DEF H
  <2>1. QED
    BY RecursionExists
<1>2. f = Body(f)
  BY <1>0, <1>1 DEF Recursion
<1>3. Flow = CHOOSE g : g = Body(g)
  BY DEF Flow
<1>4. Flow = Body(Flow)
  <2> HIDE DEF Body
  <2>1. QED
    BY <1>2, <1>3
<1>5. QED
  BY <1>4 DEF FlowUnfolds, S

\* What two such functions agree on further up, they agree on below as long as
\* nothing in between differs.
LEMMA AgreeBelow ==
    ASSUME NEW F, NEW G, NEW lo \in Int, NEW hi \in Int, lo <= hi, F[hi] = G[hi],
           \A n \in lo .. hi - 1 : F[n + 1] = G[n + 1] => F[n] = G[n]
    PROVE  F[lo] = G[lo]
<1> DEFINE T == {n \in lo .. hi : F[n] = G[n]}
<1>1. hi \in T
  OBVIOUS
<1>2. ASSUME NEW n \in lo .. hi - 1, n + 1 \in T PROVE n \in T
  BY <1>2
<1>3. lo .. hi \subseteq T
  <2> HIDE DEF T
  <2>1. QED
    BY <1>1, <1>2, Downwards
<1>4. QED
  BY <1>3

LEMMA FlowBelow ==
    ASSUME FlowUnfolds, FlowUnfolds', NEW lo \in BEG .. END, NEW hi \in BEG .. END, lo <= hi,
           Flow'[hi] = Flow[hi],
           \A n \in lo .. hi - 1 : c'[n] = c[n] /\ Holding(S(n))' = Holding(S(n))
    PROVE  Flow'[lo] = Flow[lo]
<1>0. BEG \in Int /\ END \in Int /\ lo \in Int /\ hi \in Int
  BY PipelineAssumption
<1>1. ASSUME NEW n \in lo .. hi - 1, Flow'[n + 1] = Flow[n + 1]
      PROVE  Flow'[n] = Flow[n]
  <2>1. n \in BEG .. END /\ n # END
    BY <1>0
  <2>2. Flow[n] = (Flow[n + 1] \o c[n]) \o Holding(S(n))
    BY <2>1 DEF FlowUnfolds
  <2>3. Flow'[n] = (Flow'[n + 1] \o c'[n]) \o Holding(S(n))'
    BY <2>1 DEF FlowUnfolds
  <2>4. QED
    BY <1>1, <2>2, <2>3
<1>2. PICK F : F = Flow
  OBVIOUS
<1>3. PICK G : G = Flow'
  OBVIOUS
<1>4. F[hi] = G[hi] /\ \A n \in lo .. hi - 1 : F[n + 1] = G[n + 1] => F[n] = G[n]
  BY <1>1, <1>2, <1>3
<1>5. F[lo] = G[lo]
  BY <1>0, <1>4, AgreeBelow
<1>6. QED
  BY <1>2, <1>3, <1>5

\* The flow is a sequence of values.
LEMMA FlowType ==
    ASSUME FlowUnfolds, out \in Seq(Item),
           \A n \in BEG .. END : Holding(S(n)) \in Seq(Item),
           \A n \in BEG .. END - 1 : c[n] \in Seq(Item)
    PROVE  \A n \in BEG .. END : Flow[n] \in Seq(Item)
<1> DEFINE T == {n \in BEG .. END : Flow[n] \in Seq(Item)}
<1>0. BEG \in Int /\ END \in Int /\ END \in BEG .. END
  BY PipelineAssumption
<1>1. END \in T
  <2>1. Flow[END] = out \o Holding(S(END))
    BY <1>0 DEF FlowUnfolds
  <2>2. QED
    BY <1>0, <2>1, ConcatProperties
<1>2. ASSUME NEW n \in BEG .. END - 1, n + 1 \in T PROVE n \in T
  <2>1. n \in BEG .. END /\ n # END /\ c[n] \in Seq(Item) /\ Holding(S(n)) \in Seq(Item)
    BY <1>0
  <2>2. Flow[n] = (Flow[n + 1] \o c[n]) \o Holding(S(n))
    BY <2>1 DEF FlowUnfolds
  <2>3. Flow[n + 1] \in Seq(Item)
    BY <1>2
  <2>4. Flow[n + 1] \o c[n] \in Seq(Item)
    BY <2>1, <2>3, ConcatProperties
  <2>5. (Flow[n + 1] \o c[n]) \o Holding(S(n)) \in Seq(Item)
    BY <2>1, <2>4, ConcatProperties
  <2>6. QED
    BY <2>1, <2>2, <2>5
<1>3. BEG .. END \subseteq T
  <2> HIDE DEF T
  <2>1. QED
    BY <1>0, <1>1, <1>2, Downwards
<1>4. QED
  BY <1>3

-----------------------------------------------------------------------------
(* The stages by their rank, and the calls they make.                       *)
Threads == Stage \cup {Closer}
Queues  == first .. last
Results == [what : {"none", "added", "refused", "elem", "nothing", "end"},
            elem : Item \cup {NoItem}]

AddCall(q, e) == [op |-> "Add", q |-> q, elem |-> e]
CallOf(p, q)  == [op |-> p, q |-> q]
Plain == {"Remove", "DrainQueue", "TryRemove", "Read", "CloseQueue", "Waking"}
Calls == [op : {"Add"}, q : Queues, elem : Item] \cup [op : Plain, q : Queues] \cup {ThQ!Idle}

LEMMA Ranks ==
    /\ BEG \in Nat /\ END \in Nat /\ BEG < END
    /\ BEG \in BEG .. END /\ END \in BEG .. END
    /\ Queues = BEG .. END - 1
    /\ \A n \in BEG .. END : n \in Nat /\ S(n) \in Stage /\ S(n) \in Threads /\ S(n)[2] = n
                             /\ S(n) # Closer
    /\ \A n \in BEG .. END : n # BEG => n - 1 \in Queues /\ n - 1 \in BEG .. END
    /\ \A n \in BEG .. END : n # END => n \in Queues /\ n + 1 \in BEG .. END
    /\ \A n \in Queues : n \in BEG .. END /\ n # END
    /\ \A m, n \in BEG .. END : S(m) = S(n) => m = n
    /\ \A s \in Stage : s[2] \in BEG .. END /\ s = S(s[2])
    /\ Closer \in Threads
  BY PipelineAssumption DEF Queues, Threads, Stage, Closer, S, first, last

LEMMA CallsAre ==
    /\ ThQ!Idle \in Calls /\ ThQ!Idle.op = "idle"
    /\ \A q, e : AddCall(q, e).op = "Add" /\ AddCall(q, e).q = q /\ AddCall(q, e).elem = e
    /\ \A p, q : CallOf(p, q).op = p /\ CallOf(p, q).q = q
    /\ \A q \in Queues, e \in Item : AddCall(q, e) \in Calls
    /\ \A p \in Plain, q \in Queues : CallOf(p, q) \in Calls
    /\ \A q : ThQ!Waking(q) = CallOf("Waking", q)
  BY DEF Calls, AddCall, CallOf, ThQ!Idle, ThQ!Waking

(* What a stage of rank n is executing, given where it is in its loop.  A  *)
(* queue is over when it is closed and empty; it stays so.                 *)
Over(q) == c[q] = << >> /\ ~active[q]

FirstShape ==
  LET s == S(BEG)
  IN  /\ at[s] \in {"work", "exited"}
      /\ \/ call[s] = ThQ!Idle
         \/ at[s] = "work" /\ sent \in Item /\ call[s] = AddCall(BEG, sent)

AtWork(n) ==
  LET s == S(n)
  IN  \/ call[s] = ThQ!Idle
      \/ n # END /\ \E e \in Item : call[s] = AddCall(n, e)

AtGot(n) ==
  LET s == S(n)
  IN  \/ call[s] = CallOf("Remove", n - 1)
      \/ call[s] = CallOf("Waking", n - 1) /\ result[s].what = "end" /\ Over(n - 1)
      \/ call[s] = ThQ!Idle /\ result[s].what = "elem" /\ result[s].elem \in Item
      \/ call[s] = ThQ!Idle /\ result[s].what = "end" /\ Over(n - 1)

AtClosing(n) ==
  LET s == S(n)
  IN  /\ n # END /\ Over(n - 1)
      /\ call[s] = CallOf("CloseQueue", n) \/ (call[s] = ThQ!Idle /\ ~active[n])

AtExit(n) ==
  LET s == S(n)
  IN  call[s] = ThQ!Idle /\ Over(n - 1) /\ (n # END => ~active[n])

StageShape(n) ==
  /\ at[S(n)] \in {"work", "got", "closing", "exited"}
  /\ at[S(n)] = "work" => AtWork(n)
  /\ at[S(n)] = "got" => AtGot(n)
  /\ at[S(n)] = "closing" => AtClosing(n)
  /\ at[S(n)] = "exited" => AtExit(n)

CloserShape ==
  /\ at[Closer] \in {"work", "closing", "exited"}
  /\ \/ call[Closer] = ThQ!Idle
     \/ at[Closer] = "closing" /\ call[Closer] = CallOf("CloseQueue", first)

(* Only the stage before a queue closes it, but for the first.             *)
ClosedByStage ==
  \A n \in Queues : n # BEG /\ ~active[n] => at[S(n)] \in {"closing", "exited"}

Shape ==
  /\ FirstShape
  /\ \A n \in BEG .. END : n # BEG => StageShape(n)
  /\ CloserShape
  /\ ClosedByStage

(* What a stage of rank n can do next, and what that does to the queues,   *)
(* the calls and the values.  Waiting and waking up do nothing to these.   *)
core == <<c, active, call, result, at, sent, out>>

Sets(n, place, k) ==
  /\ at' = [at EXCEPT ![S(n)] = place]
  /\ call' = [call EXCEPT ![S(n)] = k]

Returns(n) ==
  /\ at' = at /\ sent' = sent /\ out' = out
  /\ call' = [call EXCEPT ![S(n)] = ThQ!Idle]

Answers(n, what, elem) == result' = [result EXCEPT ![S(n)] = [what |-> what, elem |-> elem]]

Posts(n) ==
  /\ n = BEG /\ at[S(n)] = "work" /\ call[S(n)] = ThQ!Idle
  /\ sent + 1 \in Item /\ sent' = sent + 1
  /\ Sets(n, "work", AddCall(BEG, sent + 1))
  /\ UNCHANGED <<c, active, result, out>>

Leaves(n) ==
  /\ n = BEG /\ at[S(n)] = "work" /\ call[S(n)] = ThQ!Idle
  /\ Sets(n, "exited", ThQ!Idle)
  /\ UNCHANGED <<c, active, result, sent, out>>

Gets(n) ==
  /\ n # BEG /\ at[S(n)] = "work" /\ call[S(n)] = ThQ!Idle
  /\ Sets(n, "got", CallOf("Remove", n - 1))
  /\ UNCHANGED <<c, active, result, sent, out>>

HasValue(n) ==
  /\ n # BEG /\ at[S(n)] = "got" /\ call[S(n)] = ThQ!Idle
  /\ result[S(n)].what = "elem" /\ result[S(n)].elem \in Item

Passes(n) ==
  /\ n # END /\ HasValue(n)
  /\ Sets(n, "work", AddCall(n, result[S(n)].elem))
  /\ UNCHANGED <<c, active, result, sent, out>>

Emits(n) ==
  /\ n = END /\ HasValue(n)
  /\ out' = Append(out, result[S(n)].elem)
  /\ Sets(n, "work", ThQ!Idle)
  /\ UNCHANGED <<c, active, result, sent>>

HasEnd(n) ==
  /\ n # BEG /\ at[S(n)] = "got" /\ call[S(n)] = ThQ!Idle
  /\ result[S(n)].what = "end" /\ Over(n - 1)

PassesEnd(n) ==
  /\ HasEnd(n)
  /\ IF n = END THEN Sets(n, "exited", ThQ!Idle)
                ELSE Sets(n, "closing", CallOf("CloseQueue", n))
  /\ UNCHANGED <<c, active, result, sent, out>>

Exits(n) ==
  /\ n \notin {BEG, END} /\ at[S(n)] = "closing" /\ call[S(n)] = ThQ!Idle
  /\ Over(n - 1) /\ ~active[n]
  /\ Sets(n, "exited", ThQ!Idle)
  /\ UNCHANGED <<c, active, result, sent, out>>

Adds(n) ==
  /\ n # END /\ at[S(n)] = "work" /\ active[n]
  /\ \E e \in Item : /\ call[S(n)] = AddCall(n, e) /\ (n = BEG => e = sent)
                     /\ c' = [c EXCEPT ![n] = Append(c[n], e)]
  /\ Answers(n, "added", NoItem) /\ Returns(n) /\ active' = active

Refused(n) ==
  /\ n = BEG /\ at[S(n)] = "work" /\ ~active[n] /\ sent \in Item
  /\ call[S(n)] = AddCall(n, sent)
  /\ Answers(n, "refused", NoItem) /\ Returns(n) /\ UNCHANGED <<c, active>>

SeesEnd(n) ==
  /\ n # BEG /\ at[S(n)] = "got" /\ call[S(n)] = CallOf("Remove", n - 1) /\ Over(n - 1)
  /\ Answers(n, "end", NoItem) /\ Sets(n, "got", CallOf("Waking", n - 1))
  /\ UNCHANGED <<c, active, sent, out>>

Wakes(n) ==
  /\ n # BEG /\ at[S(n)] = "got" /\ call[S(n)] = CallOf("Waking", n - 1)
  /\ result[S(n)].what = "end" /\ Over(n - 1)
  /\ Returns(n) /\ UNCHANGED <<c, active, result>>

Takes(n) ==
  /\ n # BEG /\ at[S(n)] = "got" /\ call[S(n)] = CallOf("Remove", n - 1)
  /\ c[n - 1] # << >> /\ c' = [c EXCEPT ![n - 1] = Tail(c[n - 1])]
  /\ Answers(n, "elem", Head(c[n - 1])) /\ Returns(n) /\ active' = active

Closes(n) ==
  /\ n \notin {BEG, END} /\ at[S(n)] = "closing" /\ call[S(n)] = CallOf("CloseQueue", n)
  /\ Over(n - 1) /\ active' = [active EXCEPT ![n] = FALSE]
  /\ Returns(n) /\ UNCHANGED <<c, result>>

Acts(n) ==
  \/ Posts(n) \/ Leaves(n) \/ Gets(n) \/ Passes(n) \/ Emits(n) \/ PassesEnd(n) \/ Exits(n)
  \/ Adds(n) \/ Refused(n) \/ SeesEnd(n) \/ Wakes(n) \/ Takes(n) \/ Closes(n)

(* The thread that closes the pipeline.                                     *)
CloserActs ==
  /\ UNCHANGED <<c, result, sent, out>>
  /\ \/ /\ at[Closer] = "work" /\ at' = [at EXCEPT ![Closer] = "closing"]
        /\ call' = [call EXCEPT ![Closer] = CallOf("CloseQueue", first)] /\ active' = active
     \/ /\ at[Closer] = "closing" /\ at' = at
        /\ call[Closer] = CallOf("CloseQueue", first)
        /\ call' = [call EXCEPT ![Closer] = ThQ!Idle]
        /\ active' = [active EXCEPT ![first] = FALSE]
     \/ /\ at[Closer] = "closing" /\ call[Closer] = ThQ!Idle
        /\ at' = [at EXCEPT ![Closer] = "exited"] /\ UNCHANGED <<call, active>>

Facts ==
  /\ c \in [Queues -> Seq(Item)] /\ active \in [Queues -> BOOLEAN]
  /\ call \in [Threads -> Calls] /\ result \in [Threads -> Results]
  /\ at \in [Threads -> {"work", "got", "closing", "exited"}]
  /\ sent \in 0 .. numItems /\ out \in Seq(Item)

LEMMA TypesGive == TypeOK => Facts
  BY DEF TypeOK, ThQ!TypeOK, Facts, Threads, Queues, Calls, Plain, ThQ!Plain, Results

\* The calls of stage n are on the queues beside it.
LEMMA CallShape ==
    ASSUME Shape, NEW n \in BEG .. END
    PROVE  LET k == call[S(n)]
           IN  /\ k = ThQ!Idle \/ k.op \in {"Add", "Remove", "Waking", "CloseQueue"}
               /\ k.op = "Add" => /\ n # END /\ at[S(n)] = "work" /\ k.q = n
                                  /\ k.elem \in Item /\ k = AddCall(n, k.elem)
                                  /\ n = BEG => k.elem = sent
                                  /\ n # BEG => active[n]
               /\ k.op = "Remove" => /\ n # BEG /\ at[S(n)] = "got" /\ k.q = n - 1
                                     /\ k = CallOf("Remove", n - 1)
               /\ k.op = "Waking" => /\ n # BEG /\ at[S(n)] = "got" /\ k.q = n - 1
                                     /\ k = CallOf("Waking", n - 1)
                                     /\ result[S(n)].what = "end" /\ Over(n - 1)
               /\ k.op = "CloseQueue" => /\ n \notin {BEG, END} /\ at[S(n)] = "closing"
                                         /\ k.q = n /\ k = CallOf("CloseQueue", n)
                                         /\ Over(n - 1)
<1>0. ThQ!Idle.op \notin {"Add", "Remove", "Waking", "CloseQueue"}
  BY CallsAre
<1>1. CASE n = BEG
  BY <1>0, <1>1, CallsAre, Ranks DEF Shape, FirstShape
<1>2. CASE n # BEG
  <2>1. StageShape(n) /\ (n # END /\ ~active[n] => at[S(n)] \in {"closing", "exited"})
    BY <1>2, Ranks DEF Shape, ClosedByStage
  <2>2. CASE at[S(n)] = "work"
    BY <1>0, <1>2, <2>1, <2>2, CallsAre DEF StageShape, AtWork
  <2>3. CASE at[S(n)] = "got"
    BY <1>0, <1>2, <2>1, <2>3, CallsAre DEF StageShape, AtGot
  <2>4. CASE at[S(n)] = "closing"
    BY <1>0, <1>2, <2>1, <2>4, CallsAre DEF StageShape, AtClosing
  <2>5. CASE at[S(n)] = "exited"
    BY <1>0, <1>2, <2>1, <2>5, CallsAre DEF StageShape, AtExit
  <2>6. QED
    BY <2>1, <2>2, <2>3, <2>4, <2>5 DEF StageShape
<1>3. QED
  BY <1>1, <1>2

\* The threads' own locals stay functions.
LEMMA SetsNothing ==
    ASSUME Facts, NEW n \in BEG .. END, UNCHANGED <<at, sent, out>>
    PROVE  \A k : call' = [call EXCEPT ![S(n)] = k] => Sets(n, at[S(n)], k)
  BY Ranks DEF Facts, Sets

LEMMA QueueSteps ==
    ASSUME Facts, Shape, NEW n \in BEG .. END, ThQ!Step(S(n)), UNCHANGED <<at, sent, out>>
    PROVE  Acts(n) \/ UNCHANGED core
<1> DEFINE s == S(n)
           k == call[S(n)]
<1>q. PICK q \in Queues :
         \/ ThQ!AddWait(s, q) \/ ThQ!AddElement(s, q) \/ ThQ!AddRefused(s, q)
         \/ ThQ!WaitNotEmpty(s, q)
         \/ ThQ!RemoveEnd(s, q) \/ ThQ!WakeOthers(s, q) \/ ThQ!RemoveElement(s, q)
         \/ ThQ!TryRemove(s, q) \/ ThQ!Read(s, q) \/ ThQ!CloseQueue(s, q)
  BY DEF ThQ!Step, Queues
<1>k. /\ k = ThQ!Idle \/ k.op \in {"Add", "Remove", "Waking", "CloseQueue"}
      /\ k.op = "Add" => /\ n # END /\ at[s] = "work" /\ k.q = n
                         /\ k.elem \in Item /\ k = AddCall(n, k.elem)
                         /\ n = BEG => k.elem = sent
                         /\ n # BEG => active[n]
      /\ k.op = "Remove" => /\ n # BEG /\ at[s] = "got" /\ k.q = n - 1
                            /\ k = CallOf("Remove", n - 1)
      /\ k.op = "Waking" => /\ n # BEG /\ at[s] = "got" /\ k.q = n - 1
                            /\ k = CallOf("Waking", n - 1)
                            /\ result[s].what = "end" /\ Over(n - 1)
      /\ k.op = "CloseQueue" => /\ n \notin {BEG, END} /\ at[s] = "closing"
                                /\ k.q = n /\ k = CallOf("CloseQueue", n)
                                /\ Over(n - 1)
  BY CallShape
<1>i. ThQ!Idle.op = "idle" /\ k.op \notin {"DrainQueue", "TryRemove", "Read"}
  BY <1>k, CallsAre
<1>1. CASE ThQ!AddWait(s, q)
  BY <1>1 DEF ThQ!AddWait, core
<1>2. CASE ThQ!AddElement(s, q)
  <2>1. /\ k.op = "Add" /\ q = n /\ active[n]
        /\ c' = [c EXCEPT ![n] = Append(c[n], k.elem)] /\ active' = active
        /\ Answers(n, "added", NoItem) /\ call' = [call EXCEPT ![s] = ThQ!Idle]
    BY <1>2, <1>k DEF ThQ!AddElement, ThQ!Runs, ThQ!Accepts, ThQ!Answer, ThQ!Return, Answers
  <2>2. Adds(n)
    BY <1>k, <2>1 DEF Adds, Returns
  <2>3. QED
    BY <2>2 DEF Acts
<1>3. CASE ThQ!AddRefused(s, q)
  <2>1. /\ k.op = "Add" /\ q = n /\ ~active[n] /\ UNCHANGED <<c, active>>
        /\ Answers(n, "refused", NoItem) /\ call' = [call EXCEPT ![s] = ThQ!Idle]
    BY <1>3, <1>k DEF ThQ!AddRefused, ThQ!Runs, ThQ!Accepts, ThQ!Answer, ThQ!Return, Answers
  <2>2. Refused(n)
    BY <1>k, <2>1 DEF Refused, Returns
  <2>3. QED
    BY <2>2 DEF Acts
<1>4. CASE ThQ!WaitNotEmpty(s, q)
  BY <1>4 DEF ThQ!WaitNotEmpty, core
<1>5. CASE ThQ!RemoveEnd(s, q)
  <2>1. /\ k.op = "Remove" /\ q = n - 1 /\ Over(n - 1) /\ UNCHANGED <<c, active>>
        /\ Answers(n, "end", NoItem) /\ call' = [call EXCEPT ![s] = CallOf("Waking", n - 1)]
    BY <1>5, <1>k, <1>i, CallsAre
    DEF ThQ!RemoveEnd, ThQ!Runs, ThQ!Removals, ThQ!Ended, Over, ThQ!Answer, Answers
  <2>2. SeesEnd(n)
    BY <1>k, <2>1, SetsNothing DEF SeesEnd
  <2>3. QED
    BY <2>2 DEF Acts
<1>6. CASE ThQ!WakeOthers(s, q)
  <2>1. /\ k.op = "Waking" /\ UNCHANGED <<c, active, result>>
        /\ call' = [call EXCEPT ![s] = ThQ!Idle]
    BY <1>6, CallsAre DEF ThQ!WakeOthers, ThQ!Return
  <2>2. Wakes(n)
    BY <1>k, <2>1 DEF Wakes, Returns
  <2>3. QED
    BY <2>2 DEF Acts
<1>7. CASE ThQ!RemoveElement(s, q)
  <2>1. /\ k.op = "Remove" /\ q = n - 1 /\ c[n - 1] # << >> /\ active' = active
        /\ c' = [c EXCEPT ![n - 1] = Tail(c[n - 1])]
        /\ Answers(n, "elem", Head(c[n - 1])) /\ call' = [call EXCEPT ![s] = ThQ!Idle]
    BY <1>7, <1>k, <1>i
    DEF ThQ!RemoveElement, ThQ!Runs, ThQ!Removals, ThQ!Front, ThQ!Return, ThQ!Answer, Answers
  <2>2. Takes(n)
    BY <1>k, <2>1 DEF Takes, Returns
  <2>3. QED
    BY <2>2 DEF Acts
<1>8. CASE ThQ!TryRemove(s, q)
  BY <1>8, <1>i DEF ThQ!TryRemove, ThQ!Runs
<1>9. CASE ThQ!Read(s, q)
  BY <1>9, <1>i DEF ThQ!Read, ThQ!Runs
<1>10. CASE ThQ!CloseQueue(s, q)
  <2>1. /\ k.op = "CloseQueue" /\ q = n /\ UNCHANGED <<c, result>>
        /\ active' = [active EXCEPT ![n] = FALSE] /\ call' = [call EXCEPT ![s] = ThQ!Idle]
    BY <1>10, <1>k DEF ThQ!CloseQueue, ThQ!Runs, ThQ!Return
  <2>2. Closes(n)
    BY <1>k, <2>1 DEF Closes, Returns
  <2>3. QED
    BY <2>2 DEF Acts
<1>11. QED
  BY <1>q, <1>1, <1>2, <1>3, <1>4, <1>5, <1>6, <1>7, <1>8, <1>9, <1>10

\* What the stage itself does between its calls.
LEMMA StageSteps ==
    ASSUME Facts, Shape, NEW n \in BEG .. END, RunStage(S(n))
    PROVE  Acts(n) \/ UNCHANGED core
<1> DEFINE s == S(n)
<1>0. s \in Threads /\ s[2] = n /\ at[s] \in {"work", "got", "closing", "exited"}
  BY Ranks DEF Facts
<1>e. n # BEG => StageShape(n)
  BY DEF Shape
<1>i. ThQ!Idle.op = "idle" /\ \A p, q : CallOf(p, q) = ThQ!Idle => p = "idle"
  BY CallsAre
<1>1. CASE Feed(s)
  <2>1. n = BEG /\ at[s] = "work" /\ call[s] = ThQ!Idle
    BY <1>0, <1>1 DEF Feed, Returned, first
  <2>2. CASE sent < numItems
    <3>1. sent + 1 \in Item
      BY <2>2, PipelineAssumption DEF Facts, Item
    <3>2. /\ call' = [call EXCEPT ![s] = AddCall(BEG, sent + 1)] /\ sent' = sent + 1
          /\ UNCHANGED <<c, active, result, out, at>>
      BY <1>0, <1>1, <2>1, <2>2 DEF Feed, PostNext, ThQ!Invoke, AddCall
    <3>3. at' = [at EXCEPT ![s] = "work"]
      BY <1>0, <2>1, <3>2 DEF Facts
    <3>4. Posts(n)
      BY <2>1, <3>1, <3>2, <3>3 DEF Posts, Sets
    <3>5. QED
      BY <3>4 DEF Acts
  <2>3. CASE ~(sent < numItems)
    <3>1. at' = [at EXCEPT ![s] = "exited"] /\ UNCHANGED <<c, active, call, result, sent, out>>
      BY <1>1, <2>3 DEF Feed, Goto, queueVars
    <3>2. call' = [call EXCEPT ![s] = ThQ!Idle]
      BY <1>0, <2>1, <3>1 DEF Facts
    <3>3. Leaves(n)
      BY <2>1, <3>1, <3>2 DEF Leaves, Sets
    <3>4. QED
      BY <3>3 DEF Acts
  <2>4. QED
    BY <2>2, <2>3
<1>2. CASE GetPrevious(s)
  <2>1. Gets(n)
    BY <1>0, <1>2 DEF GetPrevious, Returned, first, ThQ!Invoke, Goto, Gets, Sets, CallOf
  <2>2. QED
    BY <2>1 DEF Acts
<1>3. CASE PassOn(s)
  <2>1. at[s] = "got" /\ call[s] = ThQ!Idle /\ result[s].what = "elem" /\ n # BEG
    BY <1>3, Ranks DEF PassOn, Returned, Shape, FirstShape
  <2>2. HasValue(n)
    BY <1>e, <1>i, <2>1 DEF StageShape, AtGot, HasValue
  <2>3. CASE n = END
    <3>1. /\ out' = Append(out, result[s].elem) /\ at' = [at EXCEPT ![s] = "work"]
          /\ UNCHANGED <<c, active, call, result, sent>>
      BY <1>0, <1>3, <2>3, Ranks DEF PassOn, last, Goto, queueVars
    <3>2. call' = [call EXCEPT ![s] = ThQ!Idle]
      BY <1>0, <2>1, <3>1 DEF Facts
    <3>3. Emits(n)
      BY <2>2, <2>3, <3>1, <3>2 DEF Emits, Sets
    <3>4. QED
      BY <3>3 DEF Acts
  <2>4. CASE n # END
    <3>1. ~(n > last)
      BY <2>4, Ranks DEF last
    <3>2. Passes(n)
      BY <1>0, <1>3, <2>2, <2>4, <3>1 DEF PassOn, PostNext, ThQ!Invoke, Goto, Passes, Sets, AddCall
    <3>3. QED
      BY <3>2 DEF Acts
  <2>5. QED
    BY <2>3, <2>4
<1>4. CASE PassClose(s)
  <2>1. at[s] = "got" /\ call[s] = ThQ!Idle /\ result[s].what = "end" /\ n # BEG
    BY <1>4, Ranks DEF PassClose, Returned, Shape, FirstShape
  <2>2. HasEnd(n)
    BY <1>e, <1>i, <2>1 DEF StageShape, AtGot, HasEnd
  <2>3. CASE n = END
    <3>1. at' = [at EXCEPT ![s] = "exited"] /\ UNCHANGED <<c, active, call, result, sent, out>>
      BY <1>0, <1>4, <2>3, Ranks DEF PassClose, last, Goto, queueVars
    <3>2. call' = [call EXCEPT ![s] = ThQ!Idle]
      BY <1>0, <2>1, <3>1 DEF Facts
    <3>3. PassesEnd(n)
      BY <2>2, <2>3, <3>1, <3>2 DEF PassesEnd, Sets
    <3>4. QED
      BY <3>3 DEF Acts
  <2>4. CASE n # END
    <3>1. ~(n > last)
      BY <2>4, Ranks DEF last
    <3>2. PassesEnd(n)
      BY <1>0, <1>4, <2>2, <2>4, <3>1 DEF PassClose, ThQ!Invoke, Goto, PassesEnd, Sets, CallOf
    <3>3. QED
      BY <3>2 DEF Acts
  <2>5. QED
    BY <2>3, <2>4
<1>5. CASE Exit(s)
  <2>1. /\ at[s] = "closing" /\ call[s] = ThQ!Idle
        /\ at' = [at EXCEPT ![s] = "exited"] /\ UNCHANGED <<c, active, call, result, sent, out>>
    BY <1>5 DEF Exit, Returned, Goto, queueVars
  <2>2. n # BEG
    BY <2>1 DEF Shape, FirstShape
  <2>3. n # END /\ Over(n - 1) /\ ~active[n]
    BY <1>e, <1>i, <2>1, <2>2 DEF StageShape, AtClosing
  <2>4. call' = [call EXCEPT ![s] = ThQ!Idle]
    BY <1>0, <2>1 DEF Facts
  <2>5. Exits(n)
    BY <2>1, <2>2, <2>3, <2>4 DEF Exits, Sets
  <2>6. QED
    BY <2>5 DEF Acts
<1>6. CASE InQueue(s)
  BY <1>6, QueueSteps DEF InQueue
<1>7. QED
  BY <1>1, <1>2, <1>3, <1>4, <1>5, <1>6 DEF RunStage

LEMMA CloserSteps ==
    ASSUME Facts, Shape, ClosePipeline
    PROVE  CloserActs \/ UNCHANGED core
<1> DEFINE k == call[Closer]
<1>0. /\ at[Closer] \in {"work", "closing", "exited"} /\ first \in Queues
      /\ k = ThQ!Idle \/ (at[Closer] = "closing" /\ k = CallOf("CloseQueue", first))
  BY Ranks DEF Shape, CloserShape, first
<1>i. /\ ThQ!Idle.op = "idle" /\ CallOf("CloseQueue", first).op = "CloseQueue"
      /\ CallOf("CloseQueue", first).q = first
  BY CallsAre
<1>1. CASE /\ at[Closer] = "work"
           /\ ThQ!Invoke(Closer, [op |-> "CloseQueue", q |-> ToClose])
           /\ Goto(Closer, "closing") /\ UNCHANGED <<sent, out>>
  BY <1>1 DEF ThQ!Invoke, Goto, ToClose, CloserActs, CallOf
<1>2. CASE Exit(Closer)
  BY <1>2 DEF Exit, Returned, Goto, queueVars, CloserActs
<1>3. CASE InQueue(Closer)
  <2>q. PICK q \in Queues :
           \/ ThQ!AddWait(Closer, q) \/ ThQ!AddElement(Closer, q) \/ ThQ!AddRefused(Closer, q)
           \/ ThQ!WaitNotEmpty(Closer, q)
           \/ ThQ!RemoveEnd(Closer, q) \/ ThQ!WakeOthers(Closer, q)
           \/ ThQ!RemoveElement(Closer, q)
           \/ ThQ!TryRemove(Closer, q) \/ ThQ!Read(Closer, q) \/ ThQ!CloseQueue(Closer, q)
    BY <1>3 DEF InQueue, ThQ!Step, Queues
  <2>n. /\ UNCHANGED <<at, sent, out>>
        /\ k.op \notin {"Add", "Remove", "Waking", "DrainQueue", "TryRemove", "Read"}
    BY <1>0, <1>i, <1>3 DEF InQueue
  <2>a. ~ThQ!AddWait(Closer, q) /\ ~ThQ!AddElement(Closer, q) /\ ~ThQ!AddRefused(Closer, q)
    BY <2>n DEF ThQ!AddWait, ThQ!AddElement, ThQ!AddRefused, ThQ!Runs
  <2>b. ~ThQ!WaitNotEmpty(Closer, q) /\ ~ThQ!Read(Closer, q) /\ ~ThQ!TryRemove(Closer, q)
    BY <2>n DEF ThQ!WaitNotEmpty, ThQ!Read, ThQ!TryRemove, ThQ!Runs, ThQ!Removals
  <2>c. ~ThQ!RemoveEnd(Closer, q) /\ ~ThQ!RemoveElement(Closer, q)
    BY <2>n DEF ThQ!RemoveEnd, ThQ!RemoveElement, ThQ!Runs, ThQ!Removals
  <2>d. ~ThQ!WakeOthers(Closer, q)
    <3>1. ThQ!Waking(q).op = "Waking"
      BY DEF ThQ!Waking
    <3>2. ThQ!WakeOthers(Closer, q) => k = ThQ!Waking(q)
      BY DEF ThQ!WakeOthers
    <3>3. QED
      BY <2>n, <3>1, <3>2
  <2>1. ThQ!CloseQueue(Closer, q)
    BY <2>q, <2>a, <2>b, <2>c, <2>d
  <2>2. /\ k.op = "CloseQueue" /\ k.q = q /\ UNCHANGED <<c, result>>
        /\ active' = [active EXCEPT ![q] = FALSE] /\ call' = [call EXCEPT ![Closer] = ThQ!Idle]
    BY <2>1 DEF ThQ!CloseQueue, ThQ!Runs, ThQ!Return
  <2>3. at[Closer] = "closing" /\ k = CallOf("CloseQueue", first) /\ q = first
    BY <1>0, <1>i, <2>2
  <2>4. QED
    BY <2>n, <2>2, <2>3 DEF CloserActs
<1>4. QED
  BY <1>1, <1>2, <1>3 DEF ClosePipeline

\* A step of the program is one of these, or concerns only who sleeps.
LEMMA AnyStep ==
    ASSUME Facts, Shape, [Next]_vars
    PROVE  (\E n \in BEG .. END : Acts(n)) \/ CloserActs \/ UNCHANGED core
<1>1. ASSUME NEW s \in Stage, RunStage(s)
      PROVE  (\E n \in BEG .. END : Acts(n)) \/ UNCHANGED core
  <2>1. s[2] \in BEG .. END /\ s = S(s[2])
    BY Ranks
  <2>2. PICK n \in BEG .. END : s = S(n)
    BY <2>1
  <2>3. RunStage(S(n))
    BY <1>1, <2>2
  <2>4. QED
    BY <2>3, StageSteps
<1>2. ASSUME NEW s \in Stage, Wakeup(s)
      PROVE  UNCHANGED core
  BY <1>2 DEF Wakeup, ThQ!SpuriousWakeup, core
<1>3. CASE UNCHANGED vars
  BY <1>3 DEF vars, queueVars, core
<1>4. QED
  BY <1>1, <1>2, <1>3, CloserSteps DEF Next

\* A queue that is over stays over, and a closed one closed.
LEMMA OverStays ==
    ASSUME Facts, (\E n \in BEG .. END : Acts(n)) \/ CloserActs \/ UNCHANGED core
    PROVE  \A q \in Queues : (Over(q) => Over(q)') /\ (~active[q] => ~active'[q])
<1>f. c \in [Queues -> Seq(Item)] /\ active \in [Queues -> BOOLEAN]
  BY DEF Facts
<1> SUFFICES ASSUME NEW q \in Queues
             PROVE  (Over(q) => Over(q)') /\ (~active[q] => ~active'[q])
  OBVIOUS
<1>1. ASSUME c' = c, active' = active
      PROVE  (Over(q) => Over(q)') /\ (~active[q] => ~active'[q])
  BY <1>1 DEF Over
<1>2. ASSUME NEW r \in Queues, c' = c, active' = [active EXCEPT ![r] = FALSE]
      PROVE  (Over(q) => Over(q)') /\ (~active[q] => ~active'[q])
  BY <1>f, <1>2 DEF Over
<1>3. ASSUME NEW n \in BEG .. END, Adds(n)
      PROVE  (Over(q) => Over(q)') /\ (~active[q] => ~active'[q])
  BY <1>f, <1>3 DEF Adds, Over
<1>4. ASSUME NEW n \in BEG .. END, Takes(n)
      PROVE  (Over(q) => Over(q)') /\ (~active[q] => ~active'[q])
  BY <1>f, <1>4 DEF Takes, Over
<1>5. ASSUME NEW n \in BEG .. END, Acts(n), ~Adds(n), ~Takes(n)
      PROVE  c' = c /\ (active' = active \/ \E r \in Queues : active' = [active EXCEPT ![r] = FALSE])
  BY <1>5, Ranks DEF Acts, Posts, Leaves, Gets, Passes, Emits, PassesEnd, Exits, Refused, SeesEnd, Wakes, Closes
<1>6. ASSUME CloserActs
      PROVE  c' = c /\ (active' = active \/ \E r \in Queues : active' = [active EXCEPT ![r] = FALSE])
  BY <1>6, Ranks DEF CloserActs, first
<1>7. ASSUME UNCHANGED core PROVE c' = c /\ active' = active
  BY <1>7 DEF core
<1>8. QED
  BY <1>1, <1>2, <1>3, <1>4, <1>5, <1>6, <1>7

-----------------------------------------------------------------------------
(* Shape is preserved.                                                      *)
Same(t) == at'[t] = at[t] /\ call'[t] = call[t] /\ result'[t] = result[t]

\* A step concerns nobody but the thread that takes it.
LEMMA OnlyMine ==
    ASSUME Facts, NEW n \in BEG .. END, Acts(n)
    PROVE  /\ \A t \in Threads : t # S(n) => Same(t)
           /\ sent' # sent => n = BEG
<1>1. ASSUME NEW t \in Threads, t # S(n) PROVE Same(t)
  <2>1. S(n) \in Threads
    BY Ranks
  <2>2. CASE Posts(n) \/ Leaves(n) \/ Gets(n) \/ Passes(n) \/ Emits(n)
    BY <1>1, <2>1, <2>2 DEF Facts, Same, Posts, Leaves, Gets, Passes, Emits, Sets
  <2>3. CASE PassesEnd(n) \/ Exits(n)
    BY <1>1, <2>1, <2>3 DEF Facts, Same, PassesEnd, Exits, Sets
  <2>4. CASE Adds(n) \/ Refused(n)
    BY <1>1, <2>1, <2>4 DEF Facts, Same, Adds, Refused, Answers, Returns
  <2>5. CASE SeesEnd(n) \/ Wakes(n) \/ Takes(n) \/ Closes(n)
    BY <1>1, <2>1, <2>5 DEF Facts, Same, SeesEnd, Wakes, Takes, Closes, Sets, Answers, Returns
  <2>6. QED
    BY <2>2, <2>3, <2>4, <2>5, Acts(n) DEF Acts
<1>2. sent' # sent => n = BEG
  BY Acts(n) DEF Acts, Posts, Leaves, Gets, Passes, Emits, PassesEnd, Exits, Adds, Refused,
     SeesEnd, Wakes, Takes, Closes, Returns
<1>3. QED
  BY <1>1, <1>2

OverStaysSo == \A q \in Queues : (Over(q) => Over(q)') /\ (~active[q] => ~active'[q])

LEMMA OtherStage ==
    ASSUME Shape, OverStaysSo, NEW m \in BEG .. END, m # BEG, Same(S(m))
    PROVE  StageShape(m)'
<1>1. StageShape(m) /\ m - 1 \in Queues /\ (m # END => m \in Queues)
  BY Ranks DEF Shape
<1>2. (Over(m - 1) => Over(m - 1)') /\ (m # END /\ ~active[m] => ~active'[m])
  BY <1>1 DEF OverStaysSo
<1>3. AtWork(m) => AtWork(m)'
  BY DEF AtWork, Same
<1>4. AtGot(m) => AtGot(m)'
  BY <1>2 DEF AtGot, Same
<1>5. AtClosing(m) => AtClosing(m)'
  BY <1>2 DEF AtClosing, Same
<1>6. AtExit(m) => AtExit(m)'
  BY <1>2 DEF AtExit, Same
<1>7. at'[S(m)] = at[S(m)]
  BY DEF Same
<1>8. QED
  BY <1>1, <1>3, <1>4, <1>5, <1>6, <1>7 DEF StageShape

\* Where the step leaves the thread that takes it.
Now(n, place, k, r) == at'[S(n)] = place /\ call'[S(n)] = k /\ result'[S(n)] = r

LEMMA Nows ==
    ASSUME Facts, NEW n \in BEG .. END
    PROVE  LET a == at[S(n)]
               r == result[S(n)]
           IN  /\ Posts(n) => Now(n, "work", AddCall(BEG, sent + 1), r)
               /\ Leaves(n) => Now(n, "exited", ThQ!Idle, r)
               /\ Gets(n) => Now(n, "got", CallOf("Remove", n - 1), r)
               /\ Passes(n) => Now(n, "work", AddCall(n, r.elem), r)
               /\ Emits(n) => Now(n, "work", ThQ!Idle, r)
               /\ PassesEnd(n) /\ n = END => Now(n, "exited", ThQ!Idle, r)
               /\ PassesEnd(n) /\ n # END => Now(n, "closing", CallOf("CloseQueue", n), r)
               /\ Exits(n) => Now(n, "exited", ThQ!Idle, r)
               /\ Adds(n) => Now(n, "work", ThQ!Idle, [what |-> "added", elem |-> NoItem])
               /\ Refused(n) => Now(n, "work", ThQ!Idle, [what |-> "refused", elem |-> NoItem])
               /\ SeesEnd(n) => Now(n, "got", CallOf("Waking", n - 1), [what |-> "end", elem |-> NoItem])
               /\ Wakes(n) => Now(n, "got", ThQ!Idle, r)
               /\ Takes(n) => Now(n, "got", ThQ!Idle, [what |-> "elem", elem |-> Head(c[n - 1])])
               /\ Closes(n) => Now(n, "closing", ThQ!Idle, r)
<1>0. S(n) \in Threads
  BY Ranks
<1>1. /\ Posts(n) => Now(n, "work", AddCall(BEG, sent + 1), result[S(n)])
      /\ Leaves(n) => Now(n, "exited", ThQ!Idle, result[S(n)])
      /\ Gets(n) => Now(n, "got", CallOf("Remove", n - 1), result[S(n)])
  BY <1>0 DEF Facts, Now, Posts, Leaves, Gets, Sets
<1>2. /\ Passes(n) => Now(n, "work", AddCall(n, result[S(n)].elem), result[S(n)])
      /\ Emits(n) => Now(n, "work", ThQ!Idle, result[S(n)])
  BY <1>0 DEF Facts, Now, Passes, Emits, Sets
<1>3. /\ PassesEnd(n) /\ n = END => Now(n, "exited", ThQ!Idle, result[S(n)])
      /\ PassesEnd(n) /\ n # END => Now(n, "closing", CallOf("CloseQueue", n), result[S(n)])
      /\ Exits(n) => Now(n, "exited", ThQ!Idle, result[S(n)])
  BY <1>0 DEF Facts, Now, PassesEnd, Exits, Sets
<1>4. /\ Adds(n) => Now(n, "work", ThQ!Idle, [what |-> "added", elem |-> NoItem])
      /\ Refused(n) => Now(n, "work", ThQ!Idle, [what |-> "refused", elem |-> NoItem])
  BY <1>0 DEF Facts, Now, Adds, Refused, Answers, Returns
<1>5. /\ SeesEnd(n) => Now(n, "got", CallOf("Waking", n - 1), [what |-> "end", elem |-> NoItem])
      /\ Wakes(n) => Now(n, "got", ThQ!Idle, result[S(n)])
  BY <1>0 DEF Facts, Now, SeesEnd, Wakes, Sets, Answers, Returns
<1>6. /\ Takes(n) => Now(n, "got", ThQ!Idle, [what |-> "elem", elem |-> Head(c[n - 1])])
      /\ Closes(n) => Now(n, "closing", ThQ!Idle, result[S(n)])
  BY <1>0 DEF Facts, Now, Takes, Closes, Answers, Returns
<1>7. QED
  BY <1>1, <1>2, <1>3, <1>4, <1>5, <1>6

LEMMA FirstStep ==
    ASSUME Facts, Shape, NEW n \in BEG .. END, Acts(n), n = BEG
    PROVE  FirstShape'
<1>0. /\ ~Gets(n) /\ ~Passes(n) /\ ~Emits(n) /\ ~PassesEnd(n) /\ ~Exits(n)
      /\ ~SeesEnd(n) /\ ~Wakes(n) /\ ~Takes(n) /\ ~Closes(n)
  BY n = BEG DEF Gets, Passes, HasValue, Emits, PassesEnd, HasEnd, Exits, SeesEnd, Wakes, Takes, Closes
<1>1. CASE Posts(n)
  <2>1. Now(n, "work", AddCall(BEG, sent + 1), result[S(n)])
    BY <1>1, Nows
  <2>2. sent' = sent + 1 /\ sent + 1 \in Item
    BY <1>1 DEF Posts
  <2>3. QED
    BY <2>1, <2>2 DEF Now, FirstShape
<1>2. CASE Leaves(n)
  BY <1>2, Nows DEF Now, FirstShape
<1>3. CASE Adds(n)
  <2>1. Now(n, "work", ThQ!Idle, [what |-> "added", elem |-> NoItem])
    BY <1>3, Nows
  <2>2. QED
    BY <2>1 DEF Now, FirstShape
<1>4. CASE Refused(n)
  <2>1. Now(n, "work", ThQ!Idle, [what |-> "refused", elem |-> NoItem])
    BY <1>4, Nows
  <2>2. QED
    BY <2>1 DEF Now, FirstShape
<1>5. QED
  BY <1>0, <1>1, <1>2, <1>3, <1>4, Acts(n) DEF Acts

LEMMA StageStep ==
    ASSUME Facts, Shape, OverStaysSo, NEW n \in BEG .. END, Acts(n), n # BEG
    PROVE  StageShape(n)'
<1>q. n - 1 \in Queues /\ (n # END => n \in Queues)
  BY Ranks
<1>o. (Over(n - 1) => Over(n - 1)') /\ (n # END /\ ~active[n] => ~active'[n])
  BY <1>q DEF OverStaysSo
<1>0. ~Posts(n) /\ ~Leaves(n) /\ ~Refused(n)
  BY n # BEG DEF Posts, Leaves, Refused
<1>1. CASE Gets(n)
  <2>1. Now(n, "got", CallOf("Remove", n - 1), result[S(n)])
    BY <1>1, Nows
  <2>2. QED
    BY <2>1 DEF Now, StageShape, AtGot
<1>2. CASE Passes(n)
  <2>1. Now(n, "work", AddCall(n, result[S(n)].elem), result[S(n)])
    BY <1>2, Nows
  <2>2. n # END /\ result[S(n)].elem \in Item
    BY <1>2 DEF Passes, HasValue
  <2>3. QED
    BY <2>1, <2>2 DEF Now, StageShape, AtWork
<1>3. CASE Emits(n) \/ Adds(n)
  <2>1. at'[S(n)] = "work" /\ call'[S(n)] = ThQ!Idle
    BY <1>3, Nows DEF Now
  <2>2. QED
    BY <2>1 DEF StageShape, AtWork
<1>4. CASE PassesEnd(n)
  <2>1. Over(n - 1)
    BY <1>4 DEF PassesEnd, HasEnd
  <2>2. CASE n = END
    <3>1. Now(n, "exited", ThQ!Idle, result[S(n)])
      BY <1>4, <2>2, Nows
    <3>2. QED
      BY <1>o, <2>1, <2>2, <3>1 DEF Now, StageShape, AtExit
  <2>3. CASE n # END
    <3>1. Now(n, "closing", CallOf("CloseQueue", n), result[S(n)])
      BY <1>4, <2>3, Nows
    <3>2. QED
      BY <1>o, <2>1, <2>3, <3>1 DEF Now, StageShape, AtClosing
  <2>4. QED
    BY <2>2, <2>3
<1>5. CASE Exits(n)
  <2>1. Now(n, "exited", ThQ!Idle, result[S(n)])
    BY <1>5, Nows
  <2>2. Over(n - 1) /\ n # END /\ ~active[n]
    BY <1>5 DEF Exits
  <2>3. QED
    BY <1>o, <2>1, <2>2 DEF Now, StageShape, AtExit
<1>6. CASE SeesEnd(n)
  <2>1. Now(n, "got", CallOf("Waking", n - 1), [what |-> "end", elem |-> NoItem])
    BY <1>6, Nows
  <2>2. Over(n - 1)
    BY <1>6 DEF SeesEnd
  <2>3. QED
    BY <1>o, <2>1, <2>2 DEF Now, StageShape, AtGot
<1>7. CASE Wakes(n)
  <2>1. Now(n, "got", ThQ!Idle, result[S(n)])
    BY <1>7, Nows
  <2>2. Over(n - 1) /\ result[S(n)].what = "end"
    BY <1>7 DEF Wakes
  <2>3. QED
    BY <1>o, <2>1, <2>2 DEF Now, StageShape, AtGot
<1>8. CASE Takes(n)
  <2>1. Now(n, "got", ThQ!Idle, [what |-> "elem", elem |-> Head(c[n - 1])])
    BY <1>8, Nows
  <2>2. c[n - 1] \in Seq(Item) /\ c[n - 1] # << >>
    BY <1>q, <1>8 DEF Takes, Facts
  <2>3. Head(c[n - 1]) \in Item
    BY <2>2
  <2>4. QED
    BY <2>1, <2>3 DEF Now, StageShape, AtGot
<1>9. CASE Closes(n)
  <2>1. Now(n, "closing", ThQ!Idle, result[S(n)])
    BY <1>9, Nows
  <2>2. Over(n - 1) /\ n # END /\ active' = [active EXCEPT ![n] = FALSE]
    BY <1>9 DEF Closes
  <2>3. ~active'[n]
    BY <1>q, <2>2 DEF Facts
  <2>4. QED
    BY <1>o, <2>1, <2>2, <2>3 DEF Now, StageShape, AtClosing
<1>10. QED
  BY <1>0, <1>1, <1>2, <1>3, <1>4, <1>5, <1>6, <1>7, <1>8, <1>9, Acts(n) DEF Acts

\* Who closes a queue is not in its loop any more, and does not return to it.
LEMMA ClosedStep ==
    ASSUME Facts, Shape, NEW n \in BEG .. END, Acts(n)
    PROVE  ClosedByStage'
<1> SUFFICES ASSUME NEW q \in Queues, q # BEG, ~active'[q]
             PROVE  at'[S(q)] \in {"closing", "exited"}
  BY Ranks DEF ClosedByStage
<1>q. q \in BEG .. END /\ S(q) \in Threads
  BY Ranks
<1>1. CASE Closes(n) /\ q = n
  BY <1>1, Nows DEF Now
<1>2. CASE ~(Closes(n) /\ q = n)
  <2>1. active'[q] = active[q]
    BY <1>2, Acts(n) DEF Facts, Acts, Posts, Leaves, Gets, Passes, Emits, PassesEnd, Exits, Adds,
       Refused, SeesEnd, Wakes, Takes, Closes
  <2>2. at[S(q)] \in {"closing", "exited"}
    BY <2>1 DEF Shape, ClosedByStage
  <2>3. CASE q # n
    <3>1. S(q) # S(n)
      BY <1>q, <2>3, Ranks
    <3>2. Same(S(q))
      BY <1>q, <3>1, OnlyMine
    <3>3. QED
      BY <2>2, <3>2 DEF Same
  <2>4. CASE q = n
    <3>1. Exits(n)
      BY <1>2, <2>2, <2>4, Acts(n) DEF Acts, Posts, Leaves, Gets, Passes, HasValue, Emits,
         PassesEnd, HasEnd, Adds, Refused, SeesEnd, Wakes, Takes
    <3>2. QED
      BY <2>4, <3>1, Nows DEF Now
  <2>5. QED
    BY <2>3, <2>4
<1>3. QED
  BY <1>1, <1>2

LEMMA CloserFrame ==
    ASSUME Facts, Shape, CloserActs
    PROVE  /\ CloserShape' /\ ClosedByStage' /\ FirstShape'
           /\ \A n \in BEG .. END : Same(S(n))
<1>0. Closer \in Threads /\ first = BEG /\ first \in Queues /\ \A n \in BEG .. END : S(n) # Closer /\ S(n) \in Threads
  BY Ranks DEF first
<1>1. \A n \in BEG .. END : Same(S(n))
  BY <1>0 DEF Facts, CloserActs, Same
<1>2. CloserShape'
  BY <1>0 DEF Facts, CloserActs, Shape, CloserShape
<1>3. FirstShape'
  <2>1. Same(S(BEG)) /\ sent' = sent
    BY <1>1, Ranks DEF CloserActs
  <2>2. FirstShape
    BY DEF Shape
  <2>3. QED
    BY <2>1, <2>2 DEF FirstShape, Same
<1>4. ClosedByStage'
  <2>1. SUFFICES ASSUME NEW q \in Queues, q # BEG, ~active'[q]
                 PROVE  at'[S(q)] \in {"closing", "exited"}
    BY Ranks DEF ClosedByStage
  <2>2. active'[q] = active[q]
    BY <1>0, <2>1 DEF CloserActs, Facts
  <2>3. at[S(q)] \in {"closing", "exited"}
    BY <2>1, <2>2 DEF Shape, ClosedByStage
  <2>4. Same(S(q))
    BY <1>1, Ranks
  <2>5. QED
    BY <2>3, <2>4 DEF Same
<1>5. QED
  BY <1>1, <1>2, <1>3, <1>4

LEMMA ShapeStep ==
    ASSUME Facts, Shape, [Next]_vars
    PROVE  Shape'
<1>0. (\E n \in BEG .. END : Acts(n)) \/ CloserActs \/ UNCHANGED core
  BY AnyStep
<1>o. OverStaysSo
  BY <1>0, OverStays DEF OverStaysSo
<1>1. ASSUME NEW n \in BEG .. END, Acts(n) PROVE Shape'
  <2>1. \A t \in Threads : t # S(n) => Same(t)
    BY <1>1, OnlyMine
  <2>2. FirstShape'
    <3>1. CASE n = BEG
      BY <1>1, <3>1, FirstStep
    <3>2. CASE n # BEG
      <4>1. Same(S(BEG)) /\ sent' = sent
        BY <1>1, <2>1, <3>2, Ranks, OnlyMine
      <4>2. FirstShape
        BY DEF Shape
      <4>3. QED
        BY <4>1, <4>2 DEF FirstShape, Same
    <3>3. QED
      BY <3>1, <3>2
  <2>3. ASSUME NEW m \in BEG .. END, m # BEG PROVE StageShape(m)'
    <3>1. CASE m = n
      BY <1>1, <1>o, <2>3, <3>1, StageStep
    <3>2. CASE m # n
      <4>1. Same(S(m))
        BY <2>1, <3>2, Ranks
      <4>2. QED
        BY <1>o, <2>3, <4>1, OtherStage
    <3>3. QED
      BY <3>1, <3>2
  <2>4. CloserShape'
    <3>1. Same(Closer)
      BY <2>1, Ranks
    <3>2. QED
      BY <3>1 DEF Shape, CloserShape, Same
  <2>5. ClosedByStage'
    BY <1>1, ClosedStep
  <2>6. QED
    BY <2>2, <2>3, <2>4, <2>5 DEF Shape
<1>2. CASE CloserActs
  <2>1. CloserShape' /\ ClosedByStage' /\ FirstShape' /\ \A n \in BEG .. END : Same(S(n))
    BY <1>2, CloserFrame
  <2>2. ASSUME NEW m \in BEG .. END, m # BEG PROVE StageShape(m)'
    BY <1>o, <2>1, <2>2, OtherStage
  <2>3. QED
    BY <2>1, <2>2 DEF Shape
<1>3. CASE UNCHANGED core
  BY <1>3 DEF core, Shape, FirstShape, StageShape, CloserShape, ClosedByStage, AtWork, AtGot,
     AtClosing, AtExit, Over
<1>4. QED
  BY <1>0, <1>1, <1>2, <1>3

LEMMA ShapeInit == Init => Shape
<1>1. SUFFICES ASSUME Init PROVE Shape
  OBVIOUS
<1>2. /\ \A t \in Threads : call[t] = ThQ!Idle /\ at[t] = "work"
      /\ \A q \in Queues : active[q]
  BY <1>1 DEF Init, ThQ!Init, Threads, Queues
<1>3. FirstShape /\ CloserShape
  BY <1>2, Ranks DEF FirstShape, CloserShape
<1>4. \A n \in BEG .. END : StageShape(n)
  BY <1>2, Ranks DEF StageShape, AtWork
<1>5. ClosedByStage
  BY <1>2, Ranks DEF ClosedByStage
<1>6. QED
  BY <1>3, <1>4, <1>5 DEF Shape

-----------------------------------------------------------------------------
(* The types.                                                               *)
WaitTypes ==
  /\ not_empty \in [Queues -> SUBSET Threads] /\ not_full \in [Queues -> SUBSET Threads]
  /\ tried \in [Queues -> BOOLEAN]
  /\ \A q \in Queues : Len(c[q]) <= size

LEMMA TypesAre == TypeOK <=> Facts /\ WaitTypes
  BY DEF TypeOK, ThQ!TypeOK, Facts, WaitTypes, Threads, Queues, Calls, Plain, ThQ!Plain, Results

LEMMA TypesInit == Init => TypeOK
<1>1. SUFFICES ASSUME Init PROVE Facts /\ WaitTypes
  BY TypesAre
<1>2. /\ c = [q \in Queues |-> << >>] /\ active = [q \in Queues |-> TRUE]
      /\ not_empty = [q \in Queues |-> {}] /\ not_full = [q \in Queues |-> {}]
      /\ call = [t \in Threads |-> ThQ!Idle]
      /\ result = [t \in Threads |-> [what |-> "none", elem |-> NoItem]]
      /\ tried = [q \in Queues |-> FALSE]
      /\ at = [t \in Threads |-> "work"] /\ sent = 0 /\ out = << >>
  BY <1>1 DEF Init, ThQ!Init, Threads, Queues
<1>3. << >> \in Seq(Item) /\ Len(<< >>) = 0 /\ 0 \in 0 .. numItems
  BY PipelineAssumption
<1>4. [what |-> "none", elem |-> NoItem] \in Results
  BY DEF Results
<1>5. Facts
  BY <1>2, <1>3, <1>4, CallsAre DEF Facts
<1>6. WaitTypes
  BY <1>2, <1>3, QueueAssumption DEF WaitTypes
<1>7. QED
  BY <1>5, <1>6

LEMMA ItemsAre ==
    /\ Item \subseteq Nat /\ NoItem \notin Item
    /\ \A w \in {"none", "added", "refused", "elem", "nothing", "end"}, e \in Item \cup {NoItem} :
          [what |-> w, elem |-> e] \in Results
  BY QueueAssumption DEF Item, Results

LEMMA FactsStep ==
    ASSUME Facts, Shape, NEW n \in BEG .. END, Acts(n)
    PROVE  Facts'
<1>0. /\ S(n) \in Threads
      /\ \A q \in Queues, e \in Item : AddCall(q, e) \in Calls
      /\ \A p \in Plain, q \in Queues : CallOf(p, q) \in Calls
      /\ ThQ!Idle \in Calls /\ {"Remove", "Waking", "CloseQueue"} \subseteq Plain
  BY Ranks, CallsAre DEF Plain
<1>q. /\ n # END => n \in Queues
      /\ n # BEG => n - 1 \in Queues
  BY Ranks
<1>1. ASSUME NEW place \in {"work", "got", "closing", "exited"}, NEW k \in Calls, Sets(n, place, k),
             UNCHANGED <<c, active, result, sent, out>>
      PROVE  Facts'
  BY <1>0, <1>1 DEF Facts, Sets
<1>2. CASE Posts(n)
  <2>1. AddCall(BEG, sent + 1) \in Calls /\ sent + 1 \in 0 .. numItems
    BY <1>2, <1>0, Ranks DEF Posts, Item
  <2>2. /\ sent' = sent + 1 /\ Sets(n, "work", AddCall(BEG, sent + 1))
        /\ UNCHANGED <<c, active, result, out>>
    BY <1>2 DEF Posts
  <2>3. QED
    BY <1>0, <2>1, <2>2 DEF Facts, Sets
<1>3. CASE Leaves(n)
  BY <1>0, <1>1, <1>3 DEF Leaves
<1>4. CASE Gets(n)
  <2>1. CallOf("Remove", n - 1) \in Calls
    BY <1>0, <1>q, <1>4 DEF Gets
  <2>2. QED
    BY <1>1, <1>4, <2>1 DEF Gets
<1>5. CASE Passes(n)
  <2>1. AddCall(n, result[S(n)].elem) \in Calls
    BY <1>0, <1>q, <1>5 DEF Passes, HasValue
  <2>2. QED
    BY <1>1, <1>5, <2>1 DEF Passes
<1>6. CASE Emits(n)
  <2>1. /\ result[S(n)].elem \in Item /\ out' = Append(out, result[S(n)].elem)
        /\ Sets(n, "work", ThQ!Idle) /\ UNCHANGED <<c, active, result, sent>>
    BY <1>6 DEF Emits, HasValue
  <2>2. out' \in Seq(Item)
    BY <2>1 DEF Facts
  <2>3. QED
    BY <1>0, <2>1, <2>2 DEF Facts, Sets
<1>7. CASE PassesEnd(n)
  <2>1. CASE n = END
    BY <1>0, <1>1, <1>7, <2>1 DEF PassesEnd
  <2>2. CASE n # END
    <3>1. CallOf("CloseQueue", n) \in Calls
      BY <1>0, <1>q, <2>2
    <3>2. QED
      BY <1>1, <1>7, <2>2, <3>1 DEF PassesEnd
  <2>3. QED
    BY <2>1, <2>2
<1>8. CASE Exits(n)
  BY <1>0, <1>1, <1>8 DEF Exits
<1>9. ASSUME NEW w \in {"none", "added", "refused", "elem", "nothing", "end"},
             NEW e \in Item \cup {NoItem}, Answers(n, w, e), Returns(n),
             c' \in [Queues -> Seq(Item)], active' \in [Queues -> BOOLEAN]
      PROVE  Facts'
  <2>1. [what |-> w, elem |-> e] \in Results
    BY ItemsAre
  <2>2. QED
    BY <1>0, <1>9, <2>1 DEF Facts, Answers, Returns
<1>10. CASE Adds(n)
  <2>1. n \in Queues
    BY <1>q, <1>10 DEF Adds
  <2>2. c' \in [Queues -> Seq(Item)] /\ active' \in [Queues -> BOOLEAN]
    <3>1. PICK e \in Item : c' = [c EXCEPT ![n] = Append(c[n], e)]
      BY <1>10 DEF Adds
    <3>2. Append(c[n], e) \in Seq(Item)
      BY <2>1 DEF Facts
    <3>3. QED
      BY <1>10, <3>1, <3>2 DEF Facts, Adds
  <2>3. QED
    BY <1>9, <1>10, <2>2 DEF Adds
<1>11. CASE Refused(n)
  BY <1>9, <1>11 DEF Refused, Facts
<1>12. CASE SeesEnd(n)
  <2>1. CallOf("Waking", n - 1) \in Calls /\ [what |-> "end", elem |-> NoItem] \in Results
    BY <1>0, <1>q, <1>12, ItemsAre DEF SeesEnd
  <2>2. QED
    BY <1>0, <1>12, <2>1 DEF Facts, SeesEnd, Sets, Answers
<1>13. CASE Wakes(n)
  BY <1>0, <1>13 DEF Facts, Wakes, Returns
<1>14. CASE Takes(n)
  <2>1. n - 1 \in Queues /\ c[n - 1] # << >> /\ c[n - 1] \in Seq(Item)
    BY <1>q, <1>14 DEF Takes, Facts
  <2>2. Head(c[n - 1]) \in Item /\ Tail(c[n - 1]) \in Seq(Item)
    BY <2>1
  <2>3. c' \in [Queues -> Seq(Item)] /\ active' \in [Queues -> BOOLEAN]
    BY <1>14, <2>2 DEF Facts, Takes
  <2>4. QED
    BY <1>9, <1>14, <2>2, <2>3 DEF Takes
<1>15. CASE Closes(n)
  BY <1>0, <1>15 DEF Facts, Closes, Returns
<1>16. QED
  BY <1>2, <1>3, <1>4, <1>5, <1>6, <1>7, <1>8, <1>10, <1>11, <1>12, <1>13, <1>14, <1>15, Acts(n) DEF Acts

\* Who sleeps, and how long the queues are, at each step of a thread in a queue.
LEMMA WaitStep ==
    ASSUME Facts, WaitTypes, NEW t \in Threads, ThQ!Step(t)
    PROVE  WaitTypes'
<1>q. PICK q \in Queues :
         \/ ThQ!AddWait(t, q) \/ ThQ!AddElement(t, q) \/ ThQ!AddRefused(t, q)
         \/ ThQ!WaitNotEmpty(t, q)
         \/ ThQ!RemoveEnd(t, q) \/ ThQ!WakeOthers(t, q) \/ ThQ!RemoveElement(t, q)
         \/ ThQ!TryRemove(t, q) \/ ThQ!Read(t, q) \/ ThQ!CloseQueue(t, q)
  BY DEF ThQ!Step, Queues
<1>b. ASSUME NEW W \in [Queues -> SUBSET Threads], NEW test
      PROVE  ThQ!Broadcast(W, q, test) \in [Queues -> SUBSET Threads]
  BY DEF ThQ!Broadcast
<1>e. /\ not_empty \in [Queues -> SUBSET Threads] /\ not_full \in [Queues -> SUBSET Threads]
      /\ tried \in [Queues -> BOOLEAN] /\ \A r \in Queues : Len(c[r]) <= size /\ Len(c[r]) \in Nat
      /\ c \in [Queues -> Seq(Item)] /\ size \in Nat /\ size # 0
  BY QueueAssumption DEF WaitTypes, Facts
<1>t. ASSUME c[q] # << >>, c' = [c EXCEPT ![q] = Tail(@)]
      PROVE  \A r \in Queues : Len(c'[r]) <= size
  <2>1. Len(Tail(c[q])) <= size
    <3>1. c[q] \in Seq(Item) /\ c[q] # << >> /\ Len(c[q]) <= size
      BY <1>e, <1>t
    <3>2. QED
      BY <1>e, <3>1
  <2>2. QED
    BY <1>e, <1>t, <2>1
<1>1. CASE ThQ!AddWait(t, q)
  BY <1>1, <1>e DEF ThQ!AddWait, WaitTypes
<1>2. CASE ThQ!AddElement(t, q)
  <2>1. /\ call[t].op = "Add" /\ Len(c[q]) # size
        /\ c' = [c EXCEPT ![q] = Append(@, call[t].elem)]
        /\ not_empty' = ThQ!Broadcast(not_empty, q, Len(c[q]) + 1 = 1)
        /\ tried' = [tried EXCEPT ![q] = @ /\ Len(c[q]) + 1 # size] /\ not_full' = not_full
    BY <1>2 DEF ThQ!AddElement, ThQ!Runs, ThQ!Full
  <2>2. call[t].elem \in Item
    <3>1. call[t] \in Calls
      BY DEF Facts
    <3>2. QED
      BY <2>1, <3>1 DEF Calls, Plain, ThQ!Idle
  <2>3. \A r \in Queues : Len(c'[r]) <= size
    <3>1. c[q] \in Seq(Item) /\ Len(c[q]) <= size
      BY <1>e
    <3>2. Len(Append(c[q], call[t].elem)) = Len(c[q]) + 1
      BY <2>2, <3>1
    <3>3. Len(Append(c[q], call[t].elem)) <= size
      BY <1>e, <2>1, <3>1, <3>2
    <3>4. c'[q] = Append(c[q], call[t].elem) /\ \A r \in Queues : r # q => c'[r] = c[r]
      BY <1>e, <2>1
    <3>5. QED
      BY <1>e, <3>3, <3>4
  <2>4. tried' \in [Queues -> BOOLEAN]
    BY <1>e, <2>1
  <2>5. not_empty' \in [Queues -> SUBSET Threads]
    BY <1>b, <1>e, <2>1
  <2>6. QED
    BY <1>e, <2>1, <2>3, <2>4, <2>5 DEF WaitTypes
<1>3. CASE ThQ!AddRefused(t, q)
  BY <1>3 DEF ThQ!AddRefused, WaitTypes
<1>4. CASE ThQ!WaitNotEmpty(t, q)
  BY <1>4, <1>e DEF ThQ!WaitNotEmpty, WaitTypes
<1>5. CASE ThQ!RemoveEnd(t, q)
  BY <1>5 DEF ThQ!RemoveEnd, WaitTypes
<1>6. CASE ThQ!WakeOthers(t, q)
  BY <1>6, <1>b DEF ThQ!WakeOthers, WaitTypes
<1>7. CASE ThQ!RemoveElement(t, q)
  <2>1. /\ c[q] # << >> /\ c' = [c EXCEPT ![q] = Tail(@)]
        /\ not_full' = ThQ!Broadcast(not_full, q, ThQ!NoLongerFull(q))
        /\ not_empty' = not_empty /\ tried' = tried
    BY <1>7 DEF ThQ!RemoveElement
  <2>2. \A r \in Queues : Len(c'[r]) <= size
    BY <1>t, <2>1
  <2>3. not_full' \in [Queues -> SUBSET Threads]
    BY <1>b, <1>e, <2>1
  <2>4. QED
    BY <1>e, <2>1, <2>2, <2>3 DEF WaitTypes
<1>8. CASE ThQ!TryRemove(t, q)
  <2>1. /\ not_empty' = not_empty /\ not_full' = not_full
        /\ \/ c' = c /\ tried' = tried
           \/ /\ c[q] # << >> /\ c' = [c EXCEPT ![q] = Tail(@)]
              /\ tried' = [tried EXCEPT ![q] = @ \/ ThQ!Full(q)]
    BY <1>8 DEF ThQ!TryRemove
  <2>2. \A r \in Queues : Len(c'[r]) <= size
    BY <1>e, <1>t, <2>1
  <2>3. tried' \in [Queues -> BOOLEAN]
    BY <1>e, <2>1 DEF ThQ!Full
  <2>4. QED
    BY <1>e, <2>1, <2>2, <2>3 DEF WaitTypes
<1>9. CASE ThQ!Read(t, q)
  BY <1>9 DEF ThQ!Read, WaitTypes
<1>10. CASE ThQ!CloseQueue(t, q)
  BY <1>10, <1>b DEF ThQ!CloseQueue, WaitTypes
<1>11. QED
  BY <1>q, <1>1, <1>2, <1>3, <1>4, <1>5, <1>6, <1>7, <1>8, <1>9, <1>10

LEMMA TypesStep ==
    ASSUME TypeOK, Shape, [Next]_vars
    PROVE  TypeOK'
<1>0. Facts /\ WaitTypes
  BY TypesAre
<1>1. Facts'
  <2>1. CASE CloserActs
    <3>1. CallOf("CloseQueue", first) \in Calls /\ ThQ!Idle \in Calls /\ Closer \in Threads
          /\ first \in Queues
      BY CallsAre, Ranks DEF Plain, first
    <3>2. QED
      BY <1>0, <2>1, <3>1 DEF CloserActs, Facts
  <2>2. CASE UNCHANGED core
    BY <1>0, <2>2 DEF core, Facts
  <2>3. QED
    BY <1>0, <2>1, <2>2, AnyStep, FactsStep
<1>2. WaitTypes'
  <2>1. ASSUME UNCHANGED <<c, not_empty, not_full, tried>>
        PROVE  WaitTypes'
    BY <1>0, <2>1 DEF WaitTypes
  <2>2. ASSUME NEW s \in Threads, InQueue(s)
        PROVE  WaitTypes'
    BY <1>0, <2>2, WaitStep DEF InQueue
  <2>3. ASSUME NEW s \in Stage, RunStage(s)
        PROVE  WaitTypes'
    <3>1. CASE InQueue(s)
      BY <2>2, <3>1 DEF Threads
    <3>2. CASE Feed(s) \/ GetPrevious(s) \/ PassOn(s) \/ PassClose(s) \/ Exit(s)
      <4>1. UNCHANGED <<c, not_empty, not_full, tried>>
        BY <3>2 DEF Feed, GetPrevious, PassOn, PassClose, Exit, PostNext, ThQ!Invoke, queueVars
      <4>2. QED
        BY <2>1, <4>1
    <3>3. QED
      BY <2>3, <3>1, <3>2 DEF RunStage
  <2>4. ASSUME NEW s \in Stage, Wakeup(s)
        PROVE  WaitTypes'
    <3>1. /\ not_empty' = [q \in Queues |-> not_empty[q] \ {s}]
          /\ not_full' = [q \in Queues |-> not_full[q] \ {s}]
          /\ UNCHANGED <<c, tried>>
      BY <2>4 DEF Wakeup, ThQ!SpuriousWakeup, Queues
    <3>2. QED
      BY <1>0, <3>1 DEF WaitTypes
  <2>5. CASE ClosePipeline
    <3>1. CASE InQueue(Closer)
      BY <2>2, <3>1, Ranks
    <3>2. CASE ~InQueue(Closer)
      <4>1. UNCHANGED <<c, not_empty, not_full, tried>>
        BY <2>5, <3>2 DEF ClosePipeline, Exit, ThQ!Invoke, queueVars
      <4>2. QED
        BY <2>1, <4>1
    <3>3. QED
      BY <3>1, <3>2
  <2>6. CASE UNCHANGED vars
    BY <2>1, <2>6 DEF vars, queueVars
  <2>7. QED
    BY <2>3, <2>4, <2>5, <2>6 DEF Next
<1>3. (TypeOK <=> Facts /\ WaitTypes)'
  BY TypesAre, PTL
<1>4. QED
  BY <1>1, <1>2, <1>3

LEMMA Types == Spec => [](TypeOK /\ Shape)
<1>1. Init => TypeOK /\ Shape
  BY TypesInit, ShapeInit
<1>2. TypeOK /\ Shape /\ [Next]_vars => (TypeOK /\ Shape)'
  BY TypesStep, ShapeStep, TypesGive
<1>3. QED
  BY <1>1, <1>2, PTL DEF Spec

\* Every variable keeps its type, for any number of stages and any size.
THEOREM TypeCorrect == Spec => []TypeOK
  BY Types, PTL

-----------------------------------------------------------------------------
(* What a stage has in hand, and how a step changes it.                     *)
Hands(n) == HasValue(n) \/ (n # BEG /\ call[S(n)].op = "Add")

InHand(n) ==
  /\ HasValue(n) => Holding(S(n)) = <<result[S(n)].elem>>
  /\ n # BEG /\ call[S(n)].op = "Add" => Holding(S(n)) = <<call[S(n)].elem>>
  /\ ~Hands(n) => Holding(S(n)) = << >>
  /\ Holding(S(n)) \in Seq(Item)

AllInHand == \A n \in BEG .. END : InHand(n)

LEMMA HoldingIs == Facts /\ Shape => AllInHand
<1> SUFFICES ASSUME Facts, Shape, NEW n \in BEG .. END
             PROVE  InHand(n)
  BY DEF AllInHand
<1>0. S(n)[2] = n /\ first = BEG
  BY Ranks DEF first
<1>1. /\ call[S(n)].op = "Add" => at[S(n)] = "work" /\ call[S(n)].elem \in Item
      /\ call[S(n)].op = "Add" => call[S(n)] # ThQ!Idle
  BY CallShape, CallsAre
<1>2. at[S(n)] = "got" /\ Returned(S(n)) /\ result[S(n)].what = "elem" <=> HasValue(n)
  <2>1. CASE n = BEG
    BY <2>1 DEF Shape, FirstShape, HasValue
  <2>2. CASE n # BEG /\ at[S(n)] = "got"
    <3>1. AtGot(n)
      BY <2>2 DEF Shape, StageShape
    <3>2. CallOf("Remove", n - 1) # ThQ!Idle /\ CallOf("Waking", n - 1) # ThQ!Idle
      BY CallsAre
    <3>3. QED
      BY <2>2, <3>1, <3>2 DEF AtGot, HasValue, Returned
  <2>3. CASE at[S(n)] # "got"
    BY <2>3 DEF HasValue
  <2>4. QED
    BY <2>1, <2>2, <2>3
<1>3. CASE HasValue(n)
  <2>1. call[S(n)].op # "Add"
    BY <1>3, CallsAre DEF HasValue
  <2>2. Holding(S(n)) = <<result[S(n)].elem>>
    BY <1>2, <1>3, <2>1 DEF Holding
  <2>3. result[S(n)].elem \in Item
    BY <1>3 DEF HasValue
  <2>4. QED
    BY <1>3, <2>1, <2>2, <2>3 DEF Hands, InHand
<1>4. CASE n # BEG /\ call[S(n)].op = "Add"
  <2>1. ~HasValue(n)
    BY <1>1, <1>4 DEF HasValue
  <2>2. Holding(S(n)) = <<call[S(n)].elem>>
    BY <1>0, <1>2, <1>4, <2>1 DEF Holding
  <2>3. QED
    BY <1>1, <1>4, <2>1, <2>2 DEF Hands, InHand
<1>5. CASE ~Hands(n)
  <2>1. Holding(S(n)) = << >>
    BY <1>0, <1>2, <1>5 DEF Holding, Hands
  <2>2. QED
    BY <1>5, <2>1 DEF Hands, InHand
<1>6. QED
  BY <1>3, <1>4, <1>5 DEF Hands

LEMMA HoldingSame ==
    ASSUME NEW t, Same(t)
    PROVE  Holding(t)' = Holding(t)
  BY DEF Holding, Same, Returned

LEMMA HoldingStep ==
    ASSUME Facts, Shape, Facts', Shape', NEW n \in BEG .. END, Acts(n)
    PROVE  /\ Emits(n) => Holding(S(n)) = <<result[S(n)].elem>> /\ Holding(S(n))' = << >>
           /\ Takes(n) => Holding(S(n)) = << >> /\ Holding(S(n))' = <<Head(c[n - 1])>>
           /\ Adds(n) /\ n # BEG => Holding(S(n)) = <<call[S(n)].elem>> /\ Holding(S(n))' = << >>
           /\ n = BEG => Holding(S(n)) = << >> /\ Holding(S(n))' = << >>
           /\ ~Emits(n) /\ ~Takes(n) /\ ~Adds(n) => Holding(S(n))' = Holding(S(n))
<1> DEFINE H == Holding(S(n))
<1>h. InHand(n)
  BY HoldingIs DEF AllInHand
<1>p. InHand(n)'
  <2>1. (Facts /\ Shape => AllInHand)'
    BY HoldingIs, PTL
  <2>2. QED
    BY <2>1 DEF AllInHand
<1>s. S(n) \in Threads
  BY Ranks
<1>i. \A k : k = ThQ!Idle => k.op # "Add"
  BY CallsAre
<1>a. \A q, e : AddCall(q, e).op = "Add" /\ AddCall(q, e).elem = e
  BY CallsAre
<1>e. Emits(n) => HasValue(n)
  BY DEF Emits
<1>v. HasValue(n) => call[S(n)].op = "idle"
  BY CallsAre DEF HasValue
<1>t. Takes(n) => n # BEG /\ call[S(n)].op = "Remove"
  BY CallsAre DEF Takes
<1>d. Adds(n) => call[S(n)].op = "Add" /\ at[S(n)] = "work"
  BY <1>a DEF Adds
<1>1. n = BEG => Holding(S(n)) = << >> /\ Holding(S(n))' = << >>
  BY <1>h, <1>p DEF InHand, Hands, HasValue
<1>2. CASE Emits(n)
  <2>1. HasValue(n) /\ Now(n, "work", ThQ!Idle, result[S(n)])
    BY <1>2, Nows DEF Emits
  <2>2. ~HasValue(n)' /\ call'[S(n)].op # "Add"
    BY <1>i, <2>1 DEF HasValue, Now
  <2>3. QED
    BY <1>1, <1>2, <1>h, <1>p, <1>v, <1>t, <1>d, <2>1, <2>2 DEF InHand, Hands
<1>3. CASE Takes(n)
  <2>1. Now(n, "got", ThQ!Idle, [what |-> "elem", elem |-> Head(c[n - 1])])
    BY <1>3, Nows
  <2>2. n # BEG /\ call[S(n)].op = "Remove" /\ call[S(n)] # ThQ!Idle
    BY <1>3, CallsAre DEF Takes
  <2>3. ~HasValue(n) /\ call[S(n)].op # "Add"
    BY <2>2 DEF HasValue
  <2>4. HasValue(n)' /\ result'[S(n)].elem = Head(c[n - 1])
    <3>1. n - 1 \in Queues /\ c[n - 1] # << >> /\ c[n - 1] \in Seq(Item)
      BY <1>3, <2>2, Ranks DEF Facts, Takes
    <3>2. Head(c[n - 1]) \in Item
      BY <3>1
    <3>3. QED
      BY <2>1, <2>2, <3>2 DEF HasValue, Now
  <2>5. ~Emits(n) /\ ~Adds(n)
    BY <1>3, <1>e, <1>v, <1>t, <1>d
  <2>6. QED
    BY <1>3, <1>h, <1>p, <2>2, <2>3, <2>4, <2>5 DEF InHand, Hands
<1>4. CASE Adds(n)
  <2>1. at'[S(n)] = "work" /\ call'[S(n)] = ThQ!Idle /\ at[S(n)] = "work" /\ call[S(n)].op = "Add"
    <3>1. Now(n, "work", ThQ!Idle, [what |-> "added", elem |-> NoItem])
      BY <1>4, Nows
    <3>2. QED
      BY <1>4, <1>d, <3>1 DEF Now
  <2>2. ~HasValue(n)' /\ call'[S(n)].op # "Add" /\ ~HasValue(n)
    BY <1>i, <2>1 DEF HasValue
  <2>3. ~Emits(n) /\ ~Takes(n)
    BY <2>1, <2>2 DEF Emits, Takes
  <2>4. QED
    BY <1>1, <1>4, <1>h, <1>p, <2>1, <2>2, <2>3 DEF InHand, Hands
<1>5. CASE Passes(n)
  <2>1. HasValue(n) /\ Now(n, "work", AddCall(n, result[S(n)].elem), result[S(n)])
    BY <1>5, Nows DEF Passes
  <2>2. n # BEG /\ call'[S(n)].op = "Add" /\ call'[S(n)].elem = result[S(n)].elem
    BY <1>a, <2>1 DEF Now, HasValue
  <2>3. Holding(S(n))' = Holding(S(n))
    BY <1>h, <1>p, <2>1, <2>2 DEF InHand
  <2>4. ~Emits(n) /\ ~Takes(n) /\ ~Adds(n)
    <3>1. n # END
      BY <1>5 DEF Passes
    <3>2. QED
      BY <1>v, <1>t, <1>d, <2>1, <3>1 DEF Emits
  <2>5. QED
    BY <1>1, <2>3, <2>4
<1>6. CASE Posts(n) \/ Leaves(n) \/ Refused(n)
  <2>1. n = BEG
    BY <1>6 DEF Posts, Leaves, Refused
  <2>2. ~Emits(n) /\ ~Takes(n)
    BY <2>1 DEF Emits, HasValue, Takes
  <2>3. QED
    BY <1>1, <2>1, <2>2
<1>7. CASE Gets(n) \/ PassesEnd(n) \/ Exits(n) \/ SeesEnd(n) \/ Wakes(n) \/ Closes(n)
  <2>1. ~HasValue(n) /\ call[S(n)].op # "Add"
    BY <1>7, CallsAre DEF Gets, PassesEnd, HasEnd, Exits, SeesEnd, Wakes, Closes, HasValue
  <2>2. ~HasValue(n)' /\ call'[S(n)].op # "Add"
    <3>1. CASE Gets(n)
      <4>1. call'[S(n)] = CallOf("Remove", n - 1)
        BY <3>1, Nows DEF Now
      <4>2. call'[S(n)].op = "Remove"
        BY <4>1, CallsAre
      <4>3. QED
        BY <4>2, CallsAre DEF HasValue
    <3>2. CASE PassesEnd(n)
      <4>1. at'[S(n)] # "got" /\ call'[S(n)] \in {ThQ!Idle, CallOf("CloseQueue", n)}
        BY <3>2, Nows DEF Now
      <4>2. CallOf("CloseQueue", n).op # "Add"
        BY CallsAre
      <4>3. QED
        BY <1>i, <4>1, <4>2 DEF HasValue
    <3>3. CASE Exits(n) \/ Closes(n)
      BY <3>3, Nows, CallsAre DEF Now, HasValue
    <3>4. CASE SeesEnd(n)
      <4>1. Now(n, "got", CallOf("Waking", n - 1), [what |-> "end", elem |-> NoItem])
        BY <3>4, Nows
      <4>2. QED
        BY <4>1, CallsAre DEF Now, HasValue
    <3>5. CASE Wakes(n)
      <4>1. Now(n, "got", ThQ!Idle, result[S(n)]) /\ result[S(n)].what = "end"
        BY <3>5, Nows DEF Wakes
      <4>2. QED
        BY <1>i, <4>1 DEF Now, HasValue
    <3>6. QED
      BY <1>7, <3>1, <3>2, <3>3, <3>4, <3>5
  <2>3. Holding(S(n)) = << >> /\ Holding(S(n))' = << >>
    BY <1>h, <1>p, <2>1, <2>2 DEF InHand, Hands
  <2>4. ~Emits(n) /\ ~Takes(n) /\ ~Adds(n)
    <3>1. ~Emits(n)
      BY <2>1 DEF Emits
    <3>2. ~Adds(n)
      BY <1>a, <2>1 DEF Adds
    <3>3. ~Takes(n)
      <4>1. Takes(n) => HasValue(n)'
        <5>1. ASSUME Takes(n) PROVE HasValue(n)'
          <6>1. Now(n, "got", ThQ!Idle, [what |-> "elem", elem |-> Head(c[n - 1])])
            BY <5>1, Nows
          <6>2. n # BEG /\ n - 1 \in Queues /\ c[n - 1] # << >> /\ c[n - 1] \in Seq(Item)
            BY <5>1, Ranks DEF Facts, Takes
          <6>3. Head(c[n - 1]) \in Item
            BY <6>2
          <6>4. QED
            BY <6>1, <6>2, <6>3 DEF HasValue, Now
        <5>2. QED
          BY <5>1
      <4>2. QED
        BY <2>2, <4>1
    <3>4. QED
      BY <3>1, <3>2, <3>3
  <2>5. QED
    BY <1>1, <2>3, <2>4
<1>8. QED
  BY <1>2, <1>3, <1>4, <1>5, <1>6, <1>7, Acts(n) DEF Acts

-----------------------------------------------------------------------------
(* How a step changes the flow: only an accepted value makes it longer.     *)
LEMMA AppendMoves ==
    ASSUME NEW s \in Seq(Item), NEW t \in Seq(Item), NEW e \in Item
    PROVE  /\ s \o Append(t, e) = (s \o t) \o <<e>>
           /\ Append(s, e) = s \o <<e>>
<1>1. <<e>> \in Seq(Item)
  OBVIOUS
<1>2. Append(t, e) = t \o <<e>> /\ Append(s, e) = s \o <<e>>
  BY AppendIsConcat
<1>3. (s \o t) \o <<e>> = s \o (t \o <<e>>)
  BY <1>1, ConcatAssociative
<1>4. QED
  BY <1>2, <1>3

LEMMA TailMoves ==
    ASSUME NEW s \in Seq(Item), NEW t \in Seq(Item), t # << >>
    PROVE  (s \o <<Head(t)>>) \o Tail(t) = s \o t
<1>1. Head(t) \in Item /\ Tail(t) \in Seq(Item) /\ <<Head(t)>> \in Seq(Item)
  OBVIOUS
<1>2. <<Head(t)>> \o Tail(t) = t
  <2>1. <<Head(t)>> \o Tail(t) \in Seq(Item) /\ Len(<<Head(t)>> \o Tail(t)) = Len(t)
    BY <1>1
  <2>2. \A i \in 1 .. Len(t) : (<<Head(t)>> \o Tail(t))[i] = t[i]
    BY <1>1
  <2>3. QED
    BY <2>1, <2>2, SeqEqual
<1>3. (s \o <<Head(t)>>) \o Tail(t) = s \o (<<Head(t)>> \o Tail(t))
  BY <1>1, ConcatAssociative
<1>4. QED
  BY <1>2, <1>3

FlowIsSeq == \A n \in BEG .. END : Flow[n] \in Seq(Item)

LEMMA FlowSeq == Facts /\ Shape => FlowIsSeq
<1>1. SUFFICES ASSUME Facts, Shape PROVE FlowIsSeq
  OBVIOUS
<1>2. FlowUnfolds
  BY FlowIs
<1>3. \A n \in BEG .. END : Holding(S(n)) \in Seq(Item)
  BY <1>1, HoldingIs DEF AllInHand, InHand
<1>4. \A n \in BEG .. END - 1 : c[n] \in Seq(Item)
  BY <1>1, Ranks DEF Facts
<1>5. out \in Seq(Item)
  BY <1>1 DEF Facts
<1>6. QED
  BY <1>2, <1>3, <1>4, <1>5, FlowType DEF FlowIsSeq

FlowStays(n) == Flow'[n] = Flow[n]

\* From a rank at which the flow is the same, and below which nothing else
\* happened, to the lowest one.
LEMMA StaysBelow ==
    ASSUME NEW lo \in BEG .. END, NEW hi \in BEG .. END, lo <= hi, FlowStays(hi),
           \A n \in lo .. hi - 1 : c'[n] = c[n] /\ Holding(S(n))' = Holding(S(n))
    PROVE  FlowStays(lo)
<1>1. FlowUnfolds
  BY FlowIs
<1>2. FlowUnfolds'
  BY FlowIs, PTL
<1>3. QED
  BY <1>1, <1>2, FlowBelow DEF FlowStays

LEMMA FlowStep ==
    ASSUME Facts, Shape, Facts', Shape', NEW n \in BEG .. END, Acts(n)
    PROVE  /\ ~(n = BEG /\ Adds(n)) => FlowStays(BEG)
           /\ n = BEG /\ Adds(n) => Flow'[BEG] = Append(Flow[BEG], sent)
<1>r. /\ BEG \in Nat /\ END \in Nat /\ BEG < END /\ BEG \in BEG .. END /\ END \in BEG .. END
      /\ Queues = BEG .. END - 1
  BY Ranks
<1>u. FlowUnfolds
  BY FlowIs
<1>w. FlowUnfolds'
  BY FlowIs, PTL
<1>s. FlowIsSeq
  BY FlowSeq
<1>h. \A m \in BEG .. END : m # n => Holding(S(m))' = Holding(S(m))
  <2>1. SUFFICES ASSUME NEW m \in BEG .. END, m # n PROVE Holding(S(m))' = Holding(S(m))
    OBVIOUS
  <2>2. S(m) \in Threads /\ S(m) # S(n)
    BY <2>1, Ranks
  <2>3. Same(S(m))
    BY <2>2, OnlyMine
  <2>4. QED
    BY <2>3, HoldingSame
<1>a. ASSUME NEW m \in BEG .. END
      PROVE  Holding(S(m)) \in Seq(Item) /\ Holding(S(m))' \in Seq(Item)
  <2>1. (Facts /\ Shape => AllInHand)'
    BY HoldingIs, PTL
  <2>2. AllInHand /\ AllInHand'
    BY <2>1, HoldingIs
  <2>3. QED
    BY <2>2 DEF AllInHand, InHand
<1>e. ASSUME out' = out, n # END \/ Holding(S(n))' = Holding(S(n)) PROVE FlowStays(END)
  <2>1. Holding(S(END))' = Holding(S(END))
    BY <1>e, <1>h, <1>r
  <2>2. Flow[END] = out \o Holding(S(END)) /\ Flow'[END] = out' \o Holding(S(END))'
    BY <1>r, <1>u, <1>w DEF FlowUnfolds
  <2>3. QED
    BY <1>e, <2>1, <2>2 DEF FlowStays
<1>1. CASE ~Emits(n) /\ ~Takes(n) /\ ~Adds(n)
  <2>1. c' = c /\ out' = out
    BY <1>1, Acts(n) DEF Acts, Posts, Leaves, Gets, Passes, PassesEnd, Exits, Refused, SeesEnd,
       Wakes, Closes, Returns
  <2>2. Holding(S(n))' = Holding(S(n))
    BY <1>1, HoldingStep
  <2>3. FlowStays(END)
    BY <1>e, <2>1, <2>2
  <2>4. \A m \in BEG .. END - 1 : c'[m] = c[m] /\ Holding(S(m))' = Holding(S(m))
    BY <1>h, <1>r, <2>1, <2>2
  <2>5. FlowStays(BEG)
    BY <1>r, <2>3, <2>4, StaysBelow
  <2>6. QED
    BY <1>1, <2>5
<1>2. CASE Emits(n)
  <2>1. n = END /\ c' = c /\ out' = Append(out, result[S(n)].elem) /\ result[S(n)].elem \in Item
    BY <1>2 DEF Emits, HasValue
  <2>2. Holding(S(n)) = <<result[S(n)].elem>> /\ Holding(S(n))' = << >>
    BY <1>2, HoldingStep
  <2>3. FlowStays(END)
    <3>1. Flow[END] = out \o <<result[S(n)].elem>> /\ Flow'[END] = out' \o << >>
      BY <1>r, <1>u, <1>w, <2>1, <2>2 DEF FlowUnfolds
    <3>2. out \in Seq(Item) /\ out' \in Seq(Item)
      BY DEF Facts
    <3>3. out' \o << >> = out'
      BY <3>2, ConcatEmptySeq
    <3>4. out' = out \o <<result[S(n)].elem>>
      BY <2>1, <3>2, AppendMoves
    <3>5. QED
      BY <3>1, <3>3, <3>4 DEF FlowStays
  <2>4. \A m \in BEG .. END - 1 : c'[m] = c[m] /\ Holding(S(m))' = Holding(S(m))
    BY <1>h, <1>r, <2>1
  <2>5. FlowStays(BEG)
    BY <1>r, <2>3, <2>4, StaysBelow
  <2>6. QED
    BY <1>r, <2>1, <2>5
<1>3. CASE Adds(n)
  <2>1. PICK e \in Item : /\ call[S(n)] = AddCall(n, e) /\ (n = BEG => e = sent)
                          /\ c' = [c EXCEPT ![n] = Append(c[n], e)]
    BY <1>3 DEF Adds
  <2>2. n # END /\ out' = out /\ n \in Queues /\ n + 1 \in BEG .. END
    BY <1>3, Ranks DEF Adds, Returns
  <2>3. \A m \in Queues : m # n => c'[m] = c[m]
    BY <2>1 DEF Facts
  <2>4. c'[n] = Append(c[n], e) /\ c[n] \in Seq(Item)
    BY <2>1, <2>2 DEF Facts
  <2>5. FlowStays(END)
    BY <1>e, <2>2
  <2>6. FlowStays(n + 1)
    <3>1. n + 1 <= END
      BY <2>2
    <3>2. \A m \in n + 1 .. END - 1 : c'[m] = c[m] /\ Holding(S(m))' = Holding(S(m))
      <4>1. SUFFICES ASSUME NEW m \in n + 1 .. END - 1
                     PROVE  c'[m] = c[m] /\ Holding(S(m))' = Holding(S(m))
        OBVIOUS
      <4>2. m \in BEG .. END /\ m \in Queues /\ m # n
        BY <1>r
      <4>3. QED
        BY <1>h, <2>3, <4>2
    <3>3. QED
      BY <1>r, <2>2, <2>5, <3>1, <3>2, StaysBelow
  <2>7. /\ Flow[n] = (Flow[n + 1] \o c[n]) \o Holding(S(n))
        /\ Flow'[n] = (Flow[n + 1] \o Append(c[n], e)) \o Holding(S(n))'
    BY <1>u, <1>w, <2>2, <2>4, <2>6 DEF FlowUnfolds, FlowStays
  <2>8. Flow[n + 1] \in Seq(Item)
    BY <1>s, <2>2 DEF FlowIsSeq
  <2>9. Flow[n + 1] \o c[n] \in Seq(Item) /\ Flow[n + 1] \o Append(c[n], e) \in Seq(Item)
    <3>1. Append(c[n], e) \in Seq(Item)
      BY <2>4
    <3>2. QED
      BY <2>4, <2>8, <3>1, ConcatProperties
  <2>10. Flow[n + 1] \o Append(c[n], e) = (Flow[n + 1] \o c[n]) \o <<e>>
    BY <2>4, <2>8, AppendMoves
  <2>11. CASE n # BEG
    <3>1. Holding(S(n)) = <<e>> /\ Holding(S(n))' = << >>
      <4>1. call[S(n)].elem = e
        BY <2>1, CallsAre
      <4>2. QED
        BY <1>3, <2>11, <4>1, HoldingStep
    <3>2. FlowStays(n)
      <4>1. Flow'[n] = Flow[n + 1] \o Append(c[n], e)
        BY <2>7, <2>9, <3>1, ConcatEmptySeq
      <4>2. Flow[n] = (Flow[n + 1] \o c[n]) \o <<e>>
        BY <2>7, <3>1
      <4>3. QED
        BY <2>10, <4>1, <4>2 DEF FlowStays
    <3>3. \A m \in BEG .. n - 1 : c'[m] = c[m] /\ Holding(S(m))' = Holding(S(m))
      <4>1. SUFFICES ASSUME NEW m \in BEG .. n - 1
                     PROVE  c'[m] = c[m] /\ Holding(S(m))' = Holding(S(m))
        OBVIOUS
      <4>2. m \in BEG .. END /\ m \in Queues /\ m # n
        BY <1>r
      <4>3. QED
        BY <1>h, <2>3, <4>2
    <3>4. FlowStays(BEG)
      BY <1>r, <3>2, <3>3, StaysBelow
    <3>5. QED
      BY <2>11, <3>4
  <2>12. CASE n = BEG
    <3>1. Holding(S(n)) = << >> /\ Holding(S(n))' = << >>
      BY <2>12, HoldingStep
    <3>2. Flow[n] = Flow[n + 1] \o c[n] /\ Flow'[n] = Flow[n + 1] \o Append(c[n], e)
      BY <2>7, <2>9, <3>1, ConcatEmptySeq
    <3>3. Append(Flow[n + 1] \o c[n], e) = (Flow[n + 1] \o c[n]) \o <<e>>
      BY <2>9, AppendMoves
    <3>4. e = sent
      BY <2>1, <2>12
    <3>5. Flow'[n] = Append(Flow[n], sent)
      BY <2>10, <3>2, <3>3, <3>4
    <3>6. QED
      BY <1>3, <2>12, <3>5
  <2>13. QED
    BY <2>11, <2>12
<1>4. CASE Takes(n)
  <2>1. /\ n # BEG /\ c[n - 1] # << >> /\ c' = [c EXCEPT ![n - 1] = Tail(c[n - 1])]
        /\ out' = out
    BY <1>4 DEF Takes, Returns
  <2>2. n - 1 \in Queues /\ n - 1 \in BEG .. END /\ n - 1 # END /\ (n - 1) + 1 = n
    BY <1>r, <2>1
  <2>3. \A m \in Queues : m # n - 1 => c'[m] = c[m]
    BY <2>1 DEF Facts
  <2>4. c'[n - 1] = Tail(c[n - 1]) /\ c[n - 1] \in Seq(Item)
    BY <2>1, <2>2 DEF Facts
  <2>5. Holding(S(n)) = << >> /\ Holding(S(n))' = <<Head(c[n - 1])>>
    BY <1>4, HoldingStep
  <2>t. Flow[n] \in Seq(Item)
    BY <1>s DEF FlowIsSeq
  <2>6. Flow'[n] = Flow[n] \o <<Head(c[n - 1])>>
    <3>1. CASE n = END
      <4>1. Flow[n] = out \o << >> /\ Flow'[n] = out \o <<Head(c[n - 1])>>
        BY <1>u, <1>w, <2>1, <2>5, <3>1 DEF FlowUnfolds
      <4>2. out \o << >> = out
        BY ConcatEmptySeq DEF Facts
      <4>3. QED
        BY <4>1, <4>2
    <3>2. CASE n # END
      <4>1. n + 1 \in BEG .. END /\ n \in Queues /\ n + 1 <= END /\ n # n - 1
        BY <1>r, <3>2
      <4>2. FlowStays(END)
        BY <1>e, <2>1, <3>2
      <4>3. \A m \in n + 1 .. END - 1 : c'[m] = c[m] /\ Holding(S(m))' = Holding(S(m))
        <5>1. SUFFICES ASSUME NEW m \in n + 1 .. END - 1
                       PROVE  c'[m] = c[m] /\ Holding(S(m))' = Holding(S(m))
          OBVIOUS
        <5>2. m \in BEG .. END /\ m \in Queues /\ m # n /\ m # n - 1
          BY <1>r
        <5>3. QED
          BY <1>h, <2>3, <5>2
      <4>4. FlowStays(n + 1)
        BY <1>r, <4>1, <4>2, <4>3, StaysBelow
      <4>5. c'[n] = c[n] /\ c[n] \in Seq(Item)
        BY <2>3, <4>1 DEF Facts
      <4>6. /\ Flow[n] = (Flow[n + 1] \o c[n]) \o << >>
            /\ Flow'[n] = (Flow[n + 1] \o c[n]) \o <<Head(c[n - 1])>>
        BY <1>u, <1>w, <2>5, <3>2, <4>4, <4>5 DEF FlowUnfolds, FlowStays
      <4>7. Flow[n + 1] \o c[n] \in Seq(Item)
        BY <1>s, <4>1, <4>5, ConcatProperties DEF FlowIsSeq
      <4>8. (Flow[n + 1] \o c[n]) \o << >> = Flow[n + 1] \o c[n]
        BY <4>7, ConcatEmptySeq
      <4>9. QED
        BY <4>6, <4>8
    <3>3. QED
      BY <3>1, <3>2
  <2>7. FlowStays(n - 1)
    <3>1. Holding(S(n - 1))' = Holding(S(n - 1))
      BY <1>h, <1>r, <2>2
    <3>2. /\ Flow[n - 1] = (Flow[n] \o c[n - 1]) \o Holding(S(n - 1))
          /\ Flow'[n - 1] = (Flow'[n] \o c'[n - 1]) \o Holding(S(n - 1))'
      BY <1>u, <1>w, <2>2 DEF FlowUnfolds
    <3>3. Flow'[n] \o c'[n - 1] = Flow[n] \o c[n - 1]
      BY <2>1, <2>4, <2>6, <2>t, TailMoves
    <3>4. QED
      BY <3>1, <3>2, <3>3 DEF FlowStays
  <2>8. \A m \in BEG .. (n - 1) - 1 : c'[m] = c[m] /\ Holding(S(m))' = Holding(S(m))
    <3>1. SUFFICES ASSUME NEW m \in BEG .. (n - 1) - 1
                   PROVE  c'[m] = c[m] /\ Holding(S(m))' = Holding(S(m))
      OBVIOUS
    <3>2. m \in BEG .. END /\ m \in Queues /\ m # n /\ m # n - 1
      BY <1>r
    <3>3. QED
      BY <1>h, <2>3, <3>2
  <2>9. FlowStays(BEG)
    BY <1>r, <2>2, <2>7, <2>8, StaysBelow
  <2>10. QED
    BY <2>1, <2>9
<1>5. QED
  BY <1>1, <1>2, <1>3, <1>4

(* How much of what the first stage has posted is accepted: everything but  *)
(* the value it is adding, until the first queue is closed.                 *)
Accepted ==
  LET k == Len(Flow[BEG])
  IN  /\ k <= sent
      /\ active[BEG] => k = sent - (IF call[S(BEG)] = ThQ!Idle THEN 0 ELSE 1)

\* A step that concerns no stage leaves the flow as it is.
LEMMA FlowIdle ==
    ASSUME c' = c, out' = out, \A n \in BEG .. END : Same(S(n))
    PROVE  FlowStays(BEG)
<1>1. /\ BEG \in BEG .. END /\ END \in BEG .. END /\ BEG <= END
      /\ \A m \in BEG .. END - 1 : m \in BEG .. END
  BY Ranks
<1>2. \A m \in BEG .. END : Holding(S(m))' = Holding(S(m))
  BY HoldingSame
<1>3. FlowStays(END)
  <2>1. FlowUnfolds
    BY FlowIs
  <2>2. FlowUnfolds'
    BY FlowIs, PTL
  <2>3. Flow[END] = out \o Holding(S(END)) /\ Flow'[END] = out' \o Holding(S(END))'
    BY <1>1, <2>1, <2>2 DEF FlowUnfolds
  <2>4. QED
    BY <1>1, <1>2, <2>3 DEF FlowStays
<1>4. QED
  BY <1>1, <1>2, <1>3, StaysBelow

\* How the flow grows.
Grows == Flow'[BEG] = Append(Flow[BEG], sent) /\ active[BEG] /\ call[S(BEG)] # ThQ!Idle
         /\ sent' = sent /\ call'[S(BEG)] = ThQ!Idle
Rests == FlowStays(BEG)
         /\ \/ sent' = sent + 1 /\ call[S(BEG)] = ThQ!Idle /\ call'[S(BEG)] # ThQ!Idle
               /\ active' = active
            \/ sent' = sent /\ ~active[BEG] /\ ~active'[BEG]
            \/ sent' = sent /\ call'[S(BEG)] = call[S(BEG)] /\ (active'[BEG] => active[BEG])

LEMMA GrowsOrRests ==
    ASSUME Facts, Shape, Facts', Shape', [Next]_vars
    PROVE  Grows \/ Rests
<1>r. BEG \in BEG .. END /\ BEG \in Queues /\ S(BEG) \in Threads /\ first = BEG
  BY Ranks DEF first
<1>0. (\E n \in BEG .. END : Acts(n)) \/ CloserActs \/ UNCHANGED core
  BY AnyStep
<1>o. ~active[BEG] => ~active'[BEG]
  BY <1>0, <1>r, OverStays
<1>a. active[BEG] \in BOOLEAN /\ active'[BEG] \in BOOLEAN
  BY <1>r DEF Facts
<1>i. \A q, e : AddCall(q, e) # ThQ!Idle
  BY CallsAre
<1>1. ASSUME NEW n \in BEG .. END, Acts(n) PROVE Grows \/ Rests
  <2>1. CASE n # BEG
    <3>1. S(BEG) # S(n)
      BY <1>r, <2>1, Ranks
    <3>2. Same(S(BEG)) /\ sent' = sent
      BY <1>1, <1>r, <2>1, <3>1, OnlyMine
    <3>3. FlowStays(BEG)
      BY <1>1, <2>1, FlowStep
    <3>4. QED
      BY <1>a, <1>o, <3>2, <3>3 DEF Rests, Same
  <2>2. CASE n = BEG /\ Adds(n)
    <3>1. Flow'[BEG] = Append(Flow[BEG], sent)
      BY <1>1, <2>2, FlowStep
    <3>2. active[BEG] /\ sent' = sent /\ call[S(BEG)] # ThQ!Idle
      BY <1>i, <2>2 DEF Adds, Returns
    <3>3. call'[S(BEG)] = ThQ!Idle
      BY <1>r, <2>2 DEF Adds, Returns, Facts
    <3>4. QED
      BY <3>1, <3>2, <3>3 DEF Grows
  <2>3. CASE n = BEG /\ ~Adds(n)
    <3>1. FlowStays(BEG)
      BY <1>1, <2>3, FlowStep
    <3>2. Posts(n) \/ Leaves(n) \/ Refused(n)
      BY <1>1, <2>3 DEF Acts, Gets, Passes, HasValue, Emits, PassesEnd, HasEnd, Exits, SeesEnd,
         Wakes, Takes, Closes
    <3>3. CASE Posts(n)
      <4>1. sent' = sent + 1 /\ call[S(BEG)] = ThQ!Idle /\ active' = active
        BY <2>3, <3>3 DEF Posts
      <4>2. call'[S(BEG)] = AddCall(BEG, sent + 1)
        BY <2>3, <3>3, Nows DEF Now
      <4>3. QED
        BY <1>i, <3>1, <4>1, <4>2 DEF Rests
    <3>4. CASE Leaves(n)
      <4>1. sent' = sent /\ call[S(BEG)] = ThQ!Idle /\ active' = active
        BY <2>3, <3>4 DEF Leaves
      <4>2. call'[S(BEG)] = ThQ!Idle
        BY <2>3, <3>4, Nows DEF Now
      <4>3. QED
        BY <3>1, <4>1, <4>2 DEF Rests
    <3>5. CASE Refused(n)
      BY <1>o, <2>3, <3>1, <3>5 DEF Refused, Returns, Rests
    <3>6. QED
      BY <3>2, <3>3, <3>4, <3>5
  <2>4. QED
    BY <2>1, <2>2, <2>3
<1>2. CASE CloserActs
  <2>1. \A n \in BEG .. END : Same(S(n))
    BY <1>2, CloserFrame
  <2>2. c' = c /\ out' = out /\ sent' = sent
    BY <1>2 DEF CloserActs
  <2>3. FlowStays(BEG) /\ call'[S(BEG)] = call[S(BEG)]
    BY <1>r, <2>1, <2>2, FlowIdle DEF Same
  <2>4. QED
    BY <1>a, <1>o, <2>2, <2>3 DEF Rests
<1>3. CASE UNCHANGED core
  <2>1. \A n \in BEG .. END : Same(S(n))
    BY <1>3 DEF core, Same
  <2>2. c' = c /\ out' = out /\ sent' = sent /\ active' = active /\ call' = call
    BY <1>3 DEF core
  <2>3. FlowStays(BEG)
    BY <2>1, <2>2, FlowIdle
  <2>4. QED
    BY <2>2, <2>3 DEF Rests
<1>4. QED
  BY <1>0, <1>1, <1>2, <1>3

LEMMA OrderInit == Init => InOrder /\ Accepted
<1>1. SUFFICES ASSUME Init PROVE InOrder /\ Accepted
  OBVIOUS
<1>2. Facts /\ Shape
  BY <1>1, TypesInit, TypesGive, ShapeInit
<1>3. /\ out = << >> /\ sent = 0 /\ \A q \in Queues : c[q] = << >>
      /\ \A t \in Threads : call[t] = ThQ!Idle /\ at[t] = "work"
  BY <1>1 DEF Init, ThQ!Init, Threads, Queues
<1>4. \A n \in BEG .. END : Holding(S(n)) = << >>
  <2>1. SUFFICES ASSUME NEW n \in BEG .. END PROVE Holding(S(n)) = << >>
    OBVIOUS
  <2>2. call[S(n)] = ThQ!Idle /\ at[S(n)] = "work"
    BY <1>3, Ranks
  <2>3. call[S(n)].op # "Add"
    BY <2>2, CallsAre
  <2>4. ~Hands(n)
    BY <2>2, <2>3 DEF Hands, HasValue
  <2>5. QED
    BY <1>2, <2>4, HoldingIs DEF AllInHand, InHand
<1>5. Flow[BEG] = << >>
  <2> DEFINE T == {n \in BEG .. END : Flow[n] = << >>}
  <2>0. FlowUnfolds
    BY FlowIs
  <2>1. END \in T
    <3>1. Flow[END] = out \o Holding(S(END)) /\ END \in BEG .. END
      BY <2>0, Ranks DEF FlowUnfolds
    <3>2. QED
      BY <1>3, <1>4, <3>1
  <2>2. ASSUME NEW n \in BEG .. END - 1, n + 1 \in T PROVE n \in T
    <3>1. n \in BEG .. END /\ n \in Queues /\ n # END
      BY Ranks
    <3>2. Flow[n] = (Flow[n + 1] \o c[n]) \o Holding(S(n))
      BY <2>0, <3>1 DEF FlowUnfolds
    <3>3. Flow[n + 1] = << >> /\ c[n] = << >> /\ Holding(S(n)) = << >>
      BY <1>3, <1>4, <2>2, <3>1
    <3>4. (<< >> \o << >>) \o << >> = << >>
      BY EmptySeq, ConcatEmptySeq
    <3>5. QED
      BY <3>1, <3>2, <3>3, <3>4
  <2>3. BEG .. END \subseteq T
    <3> HIDE DEF T
    <3>1. END \in Int /\ BEG \in Int
      BY Ranks
    <3>2. QED
      BY <2>1, <2>2, <3>1, Downwards
  <2>4. QED
    BY <2>3, Ranks
<1>6. Len(Flow[BEG]) = 0 /\ call[S(BEG)] = ThQ!Idle
  BY <1>3, <1>5, Ranks
<1>7. InOrder
  BY <1>5, <1>6 DEF InOrder
<1>8. Accepted
  BY <1>3, <1>6 DEF Accepted
<1>9. QED
  BY <1>7, <1>8

LEMMA OrderStep ==
    ASSUME Facts, Shape, Facts', Shape', InOrder, Accepted, [Next]_vars
    PROVE  InOrder' /\ Accepted' /\ Len(Flow'[BEG]) >= Len(Flow[BEG])
<1>r. BEG \in BEG .. END
  BY Ranks
<1>s. Flow[BEG] \in Seq(Item) /\ Len(Flow[BEG]) \in Nat /\ sent \in Nat
  <2>1. FlowIsSeq
    BY FlowSeq
  <2>2. Flow[BEG] \in Seq(Item)
    BY <1>r, <2>1 DEF FlowIsSeq
  <2>3. QED
    BY <2>2, PipelineAssumption DEF Facts
<1>1. CASE Grows
  <2>1. /\ Flow'[BEG] = Append(Flow[BEG], sent) /\ sent' = sent /\ call'[S(BEG)] = ThQ!Idle
        /\ active[BEG] /\ call[S(BEG)] # ThQ!Idle
    BY <1>1 DEF Grows
  <2>2. Len(Flow[BEG]) = sent - 1
    BY <2>1 DEF Accepted
  <2>3. sent \in Item
    BY <1>s, <2>2 DEF Facts, Item
  <2>4. Len(Flow'[BEG]) = sent
    BY <1>s, <2>1, <2>2, <2>3
  <2>5. Flow'[BEG] = [i \in 1 .. sent |-> i]
    <3>1. Flow'[BEG] \in Seq(Item)
      BY <1>s, <2>1, <2>3
    <3>2. Flow'[BEG] = [i \in 1 .. sent |-> Flow'[BEG][i]]
      BY <2>4, <3>1, LenProperties
    <3>3. ASSUME NEW i \in 1 .. sent PROVE Flow'[BEG][i] = i
      <4>1. CASE i = sent
        BY <1>s, <2>1, <2>2, <2>3, <4>1
      <4>2. CASE i # sent
        <5>1. i \in 1 .. Len(Flow[BEG])
          BY <1>s, <2>2, <4>2
        <5>2. Flow'[BEG][i] = Flow[BEG][i]
          BY <1>s, <2>1, <2>3, <5>1
        <5>3. Flow[BEG][i] = i
          BY <5>1 DEF InOrder
        <5>4. QED
          BY <5>2, <5>3
      <4>3. QED
        BY <4>1, <4>2
    <3>4. QED
      BY <3>2, <3>3
  <2>6. InOrder'
    BY <2>4, <2>5 DEF InOrder
  <2>7. Accepted'
    BY <1>s, <2>1, <2>4 DEF Accepted
  <2>8. QED
    BY <1>s, <2>2, <2>4, <2>6, <2>7
<1>2. CASE Rests
  <2>1. Flow'[BEG] = Flow[BEG]
    BY <1>2 DEF Rests, FlowStays
  <2>2. InOrder'
    BY <2>1 DEF InOrder
  <2>3. Accepted'
    <3>1. CASE /\ sent' = sent + 1 /\ call[S(BEG)] = ThQ!Idle /\ call'[S(BEG)] # ThQ!Idle
               /\ active' = active
      BY <1>s, <2>1, <3>1 DEF Accepted
    <3>2. CASE sent' = sent /\ ~active[BEG] /\ ~active'[BEG]
      BY <1>s, <2>1, <3>2 DEF Accepted
    <3>3. CASE sent' = sent /\ call'[S(BEG)] = call[S(BEG)] /\ (active'[BEG] => active[BEG])
      BY <1>s, <2>1, <3>3 DEF Accepted
    <3>4. QED
      BY <1>2, <3>1, <3>2, <3>3 DEF Rests
  <2>4. QED
    BY <1>s, <2>1, <2>2, <2>3
<1>3. QED
  BY <1>1, <1>2, GrowsOrRests

LEMMA Ordered == Spec => [](Facts /\ Shape /\ InOrder /\ Accepted)
<1>1. Init => InOrder /\ Accepted
  BY OrderInit
<1>2. /\ Facts /\ Shape /\ Facts' /\ Shape' /\ InOrder /\ Accepted /\ [Next]_vars
      => InOrder' /\ Accepted'
  BY OrderStep
<1>3. TypeOK => Facts
  BY TypesGive
<1>4. QED
  BY <1>1, <1>2, <1>3, Types, PTL DEF Spec

\* Values leave the last stage in the order the first one posted them in, and
\* wherever they are in between, none is missing, repeated or overtaken.
THEOREM InOrderHolds == Spec => []InOrder
  BY Ordered, PTL

\* No stage but the first can find the queue it adds to closed, so what was
\* once accepted stays.
THEOREM NothingDroppedHolds == Spec => NothingDropped
<1>1. /\ Facts /\ Shape /\ Facts' /\ Shape' /\ InOrder /\ Accepted /\ [Next]_vars
      => [Len(Flow[BEG]') >= Len(Flow[BEG])]_vars
  BY OrderStep
<1>2. QED
  BY <1>1, Ordered, PTL DEF Spec, NothingDropped

\* A queue is closed only behind everything that was before it, and a stage
\* exits only then.
THEOREM ClosedBehindHolds == Spec => []ClosedBehind
<1>1. Facts /\ Shape => ClosedBehind
  <2>1. SUFFICES ASSUME Facts, Shape PROVE ClosedBehind
    OBVIOUS
  <2>2. ASSUME NEW n \in first + 1 .. last, ~active[n]
        PROVE  ~active[n - 1] /\ c[n - 1] = << >>
    <3>1. n \in BEG .. END /\ n # BEG /\ n \in Queues
      BY Ranks DEF first, last
    <3>2. at[S(n)] \in {"closing", "exited"} /\ StageShape(n)
      BY <2>1, <2>2, <3>1 DEF Shape, ClosedByStage
    <3>3. QED
      BY <3>2 DEF StageShape, AtClosing, AtExit, Over
  <2>3. ASSUME NEW s \in Stage, at[s] = "exited", s[2] # first
        PROVE  ~active[s[2] - 1] /\ c[s[2] - 1] = << >> /\ Holding(s) = << >>
    <3>1. PICK n \in BEG .. END : s = S(n) /\ s[2] = n
      BY Ranks
    <3>2. n # BEG
      BY <2>3, <3>1 DEF first
    <3>3. AtExit(n)
      BY <2>1, <2>3, <3>1, <3>2 DEF Shape, StageShape
    <3>4. call[S(n)].op # "Add" /\ ~HasValue(n)
      BY <2>3, <3>1, <3>3, CallsAre DEF AtExit, HasValue
    <3>5. Holding(S(n)) = << >>
      BY <2>1, <3>4, HoldingIs DEF AllInHand, InHand, Hands
    <3>6. QED
      BY <3>1, <3>3, <3>5 DEF AtExit, Over
  <2>4. QED
    BY <2>2, <2>3 DEF ClosedBehind
<1>2. QED
  BY <1>1, Ordered, PTL
=============================================================================
