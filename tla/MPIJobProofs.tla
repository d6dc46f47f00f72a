---------------------------- MODULE MPIJobProofs ----------------------------
(***************************************************************************)
(* The programs messagePassingDeadlock deadlock with every even number of  *)
(* processes, however sends are implemented; the loops of the programs     *)
(* divide their iterations completely and perform each of them once; the   *)
(* task queue loses no task, hands out none twice, and ends with each      *)
(* collected and no message left; all processes of a program call its      *)
(* collectives in the same order; and the separators it prints separate.   *)
(* All this with any number of processes.                                  *)
(***************************************************************************)
EXTENDS MPIJob, SequenceTheorems, FiniteSetTheorems, WellFoundedInduction, TLAPS

DeadlockJob == job.prog = "deadlock" /\ ~Odd(job.np)

\* In a job of an even number of processes everyone is still at the first
\* instruction and nothing was ever sent.
NobodyMoves ==
  /\ job \in Jobs
  /\ DeadlockJob => /\ pc = [p \in Ranks |-> 1]
                    /\ phase = [p \in Ranks |-> "run"]
                    /\ chan = [p \in Ranks |-> [q \in Ranks |-> <<>>]]

\* The neighbour of a process exists when the number of processes is even.
LEMMA NeighbourExists ==
    ASSUME NEW n \in Nat \ {0}, ~Odd(n), NEW p \in 0 .. n - 1
    PROVE  /\ n > 1
           /\ Odd(p) => p - 1 \in 0 .. n - 1
           /\ ~Odd(p) => p + 1 \in 0 .. n - 1
<1>1. PICK k \in Nat : n = 2 * k
  BY DEF Odd
<1>2. ASSUME ~Odd(p)
      PROVE  p + 1 \in 0 .. n - 1
  <2>1. PICK j \in Nat : p = 2 * j
    BY <1>2 DEF Odd
  <2>2. QED
    BY <1>1, <2>1
<1>3. ASSUME Odd(p)
      PROVE  p - 1 \in 0 .. n - 1
  <2>1. p # 0
    BY <1>3 DEF Odd
  <2>2. QED
    BY <2>1
<1>4. QED
  BY <1>1, <1>2, <1>3

\* In all four versions of the program the first instruction is a receive
\* from a neighbour.
LEMMA FirstReceives ==
    ASSUME job \in Jobs, DeadlockJob, NEW p \in Ranks
    PROVE  /\ 1 \in DOMAIN Code(p)
           /\ Code(p)[1].op = "recv"
           /\ Code(p)[1].from \in Ranks
<1> DEFINE n == job.np
<1>1. /\ n \in Nat \ {0} /\ ~Odd(n) /\ p \in 0 .. n - 1
      /\ job.lang \in {"C", "Java", "Array", "Python"}
  BY JobsAssumption DEF DeadlockJob, Ranks
<1>2. n > 1 /\ (Odd(p) => p - 1 \in Ranks) /\ (~Odd(p) => p + 1 \in Ranks)
  BY <1>1, NeighbourExists DEF Ranks
<1>3. CASE job.lang = "C"
  <2>1. Code(p) = messagePassingDeadlock(p, n)
    BY <1>3 DEF Code, CCode, DeadlockJob
  <2>2. QED
    BY <1>1, <1>2, <2>1 DEF messagePassingDeadlock, RecvThenSend, Recv
<1>4. CASE job.lang = "Java"
  <2>1. Code(p) = JavaMessagePassingDeadlock(p, n)
    BY <1>4 DEF Code, JavaCode, DeadlockJob
  <2>2. QED
    BY <1>1, <1>2, <2>1 DEF JavaMessagePassingDeadlock, RecvThenSend, Recv
<1>5. CASE job.lang = "Array"
  <2>1. Code(p) = JavaMessagePassingDeadlock(p, n)
    BY <1>5 DEF Code, ArrayCode, ArrayMessagePassingDeadlock, DeadlockJob
  <2>2. QED
    BY <1>1, <1>2, <2>1 DEF JavaMessagePassingDeadlock, RecvThenSend, Recv
<1>6. CASE job.lang = "Python"
  <2>1. Code(p) = PyMessagePassingDeadlock(p, n)
    BY <1>6 DEF Code, PyCode, DeadlockJob
  <2>2. QED
    BY <1>1, <1>2, <2>1 DEF PyMessagePassingDeadlock, RecvThenSend, Recv
<1>7. QED
  BY <1>1, <1>3, <1>4, <1>5, <1>6

\* Nobody moves: there is only the receive to execute, and nothing to receive.
LEMMA NoStep ==
    ASSUME NobodyMoves, DeadlockJob, NEW p \in Ranks
    PROVE  /\ ~Local(p) /\ ~AbortJob(p) /\ ~SendMessage(p)
           /\ ~Receive(p) /\ ~EnterCollective(p) /\ ~LeaveCollective(p)
<1>1. /\ pc[p] = 1 /\ phase[p] = "run"
      /\ \A q \in Ranks : chan[q][p] = <<>>
  BY DEF NobodyMoves
<1>2. \A i \in Current(p) : i.op = "recv" /\ i.from \in Ranks
  BY <1>1, FirstReceives DEF NobodyMoves, Current
<1>3. ~Local(p)
  BY <1>2 DEF Local
<1>4. ~AbortJob(p)
  BY <1>2 DEF AbortJob, InvalidRank
<1>5. ~SendMessage(p)
  BY <1>2 DEF SendMessage
<1>6. ~Receive(p)
  <2>1. ASSUME NEW i, NEW q \in Ranks
        PROVE  Earliest(i, q, p) = {}
    BY <1>1 DEF Earliest
  <2>2. QED
    BY <2>1, ZenonT(40) DEF Receive
<1>7. ~EnterCollective(p)
  BY <1>2 DEF EnterCollective, Collectives
<1>8. ~LeaveCollective(p)
  BY <1>1 DEF LeaveCollective
<1>9. QED
  BY <1>3, <1>4, <1>5, <1>6, <1>7, <1>8

\* With an even number of processes, nobody ever passes the first receive of
\* messagePassingDeadlock: the deadlock its comment announces is certain, for
\* every number of processes and whether or not sends are buffered.
THEOREM DeadlockIsForEver == Spec => []DeadlockIsCertain
<1>1. Init => NobodyMoves
  BY DEF Init, NobodyMoves
<1>2. NobodyMoves /\ [Next]_vars => NobodyMoves'
  <2>1. SUFFICES ASSUME NobodyMoves, [Next]_vars PROVE NobodyMoves'
    OBVIOUS
  <2>2. CASE UNCHANGED vars
    BY <2>1, <2>2 DEF vars, NobodyMoves, DeadlockJob, Ranks
  <2>3. CASE Next
    <3>1. job' = job
      BY <2>3 DEF Next, Local, AbortJob, SendMessage, Receive, EnterCollective, LeaveCollective
    <3>2. ~DeadlockJob
      BY <2>1, <2>3, NoStep DEF Next
    <3>3. QED
      BY <2>1, <3>1, <3>2 DEF NobodyMoves, DeadlockJob
  <2>4. QED
    BY <2>1, <2>2, <2>3
<1>3. NobodyMoves => DeadlockIsCertain
  BY DEF NobodyMoves, DeadlockJob, DeadlockIsCertain, Is, Ranks
<1>4. QED
  BY <1>1, <1>2, <1>3, PTL DEF Spec

-----------------------------------------------------------------------------
(* The ways the parallel loops of the repository divide N iterations among *)
(* P processes are partitions, for every N and P.  tlapm has no sums to    *)
(* reason with: the chunks are shown to start at 0, to follow one another  *)
(* and to end at N, and to cover every iteration exactly once.             *)

\* Quotient and remainder.
LEMMA DivMod ==
    ASSUME NEW N \in Nat, NEW P \in Nat \ {0}
    PROVE  /\ N \div P \in Nat /\ N % P \in 0 .. P - 1
           /\ N = P * (N \div P) + (N % P)
  OBVIOUS

\* Multiplying by a natural number keeps an order.
LEMMA ProductMonotone ==
    ASSUME NEW D \in Nat, NEW a \in Nat, NEW b \in Nat, a <= b
    PROVE  a * D <= b * D
<1>1. PICK k \in Nat : b = a + k
  <2>1. b - a \in Nat /\ b = a + (b - a)
    OBVIOUS
  <2>2. QED
    BY <2>1
<1>2. b * D = a * D + k * D
  BY <1>1
<1>3. k * D \in Nat /\ a * D \in Nat
  OBVIOUS
<1>4. QED
  BY <1>2, <1>3

\* Every number lies in one of the intervals of length D it is divided into.
LEMMA IntervalOf ==
    ASSUME NEW i \in Nat, NEW D \in Nat \ {0}
    PROVE  \E q \in Nat : q * D <= i /\ i < q * D + D
<1>1. i \div D \in Nat /\ i % D \in 0 .. D - 1 /\ i = D * (i \div D) + (i % D)
  BY DivMod
<1>2. PICK q \in Nat, r \in 0 .. D - 1 : i = D * q + r
  BY <1>1
<1>3. q * D = D * q /\ q * D \in Nat
  OBVIOUS
<1>4. QED
  BY <1>2, <1>3

\* A product that is smaller has the smaller factor.
LEMMA ProductOrder ==
    ASSUME NEW D \in Nat, NEW a \in Nat, NEW b \in Nat, a * D < b * D
    PROVE  a < b
<1>1. SUFFICES ASSUME b <= a PROVE FALSE
  OBVIOUS
<1>2. b * D <= a * D
  BY <1>1, ProductMonotone
<1>3. a * D \in Nat /\ b * D \in Nat
  OBVIOUS
<1>4. QED
  BY <1>2, <1>3
-----------------------------------------------------------------------------
\* Where the chunk of id starts when the first R of the chunks have D + 1
\* iterations and the others D.
Begin(id, D, R) == id * D + (IF id < R THEN id ELSE R)

\* What getChunkStartStopValues() computes, without its detour by a ceiling.
LEMMA ChunkClosedForm ==
    ASSUME NEW N \in Nat, NEW P \in Nat \ {0}, NEW id \in 0 .. P - 1
    PROVE  /\ ChunkSize(id, P, N) = IF id < N % P THEN (N \div P) + 1 ELSE N \div P
           /\ ChunkStart(id, P, N) = Begin(id, N \div P, N % P)
<1> SUFFICES ASSUME NEW D \in Nat, NEW R \in 0 .. P - 1, D = N \div P, R = N % P
             PROVE  /\ ChunkSize(id, P, N) = IF id < R THEN D + 1 ELSE D
                    /\ ChunkStart(id, P, N) = Begin(id, D, R)
  <2>1. N \div P \in Nat /\ N % P \in 0 .. P - 1
    BY DivMod
  <2>2. QED
    BY <2>1
<1>1. CeilDiv(N, P) = IF R = 0 THEN D ELSE D + 1
  BY DEF CeilDiv
<1>2. ChunkSize(id, P, N) = IF id < R THEN D + 1 ELSE D
  BY <1>1 DEF ChunkSize
<1>3. CASE R = 0
  <2>1. ChunkStart(id, P, N) = id * D
    BY <1>1, <1>3 DEF ChunkStart
  <2>2. QED
    BY <1>2, <1>3, <2>1 DEF Begin
<1>4. CASE R > 0 /\ id < R
  <2>1. ChunkStart(id, P, N) = id * (D + 1)
    BY <1>1, <1>4 DEF ChunkStart
  <2>2. id * (D + 1) = id * D + id
    OBVIOUS
  <2>3. QED
    BY <1>2, <1>4, <2>1, <2>2 DEF Begin
<1>5. CASE R > 0 /\ id >= R
  <2>1. PICK c \in Nat : c = CeilDiv(N, P) /\ c = D + 1
    BY <1>1, <1>5
  <2>2. ChunkStart(id, P, N) = R * c + (id - R) * (c - 1)
    BY <1>5, <2>1 DEF ChunkStart
  <2>3. c - 1 = D
    BY <2>1
  <2>4. R * (D + 1) + (id - R) * D = id * D + R
    OBVIOUS
  <2>5. QED
    BY <1>2, <1>5, <2>1, <2>2, <2>3, <2>4 DEF Begin
<1>6. QED
  BY <1>3, <1>4, <1>5

\* One chunk begins where the one before it ends.
LEMMA BeginNext ==
    ASSUME NEW D \in Nat, NEW R \in Nat, NEW id \in Nat
    PROVE  Begin(id + 1, D, R) = Begin(id, D, R) + (IF id < R THEN D + 1 ELSE D)
<1>1. (id + 1) * D = id * D + D /\ id * D \in Nat
  OBVIOUS
<1>2. QED
  BY <1>1 DEF Begin

\* Later chunks begin later.
LEMMA BeginMonotone ==
    ASSUME NEW D \in Nat, NEW R \in Nat, NEW a \in Nat, NEW b \in Nat, a <= b
    PROVE  Begin(a, D, R) <= Begin(b, D, R)
<1>1. a * D <= b * D /\ a * D \in Nat /\ b * D \in Nat
  BY ProductMonotone
<1>2. QED
  BY <1>1 DEF Begin
-----------------------------------------------------------------------------
\* The chunks of getChunkStartStopValues() begin at 0, follow one another
\* without gap or overlap and end at N; no chunk is larger than another by
\* more than one.
THEOREM ChunksFollowOneAnother ==
    ASSUME NEW N \in Nat, NEW P \in Nat \ {0}
    PROVE  /\ ChunkStart(0, P, N) = 0
           /\ ChunkStart(P - 1, P, N) + ChunkSize(P - 1, P, N) = N
           /\ \A id \in 0 .. P - 2 :
                ChunkStart(id + 1, P, N) = ChunkStart(id, P, N) + ChunkSize(id, P, N)
           /\ \A a, b \in 0 .. P - 1 : ChunkSize(a, P, N) <= ChunkSize(b, P, N) + 1
<1>1. PICK D \in Nat, R \in 0 .. P - 1 : D = N \div P /\ R = N % P
  BY DivMod
<1>sum. N = P * D + R
  BY <1>1, DivMod
<1>2. ChunkStart(0, P, N) = 0
  <2>1. 0 \in 0 .. P - 1
    OBVIOUS
  <2>2. ChunkStart(0, P, N) = Begin(0, N \div P, N % P)
    BY <2>1, ChunkClosedForm
  <2>3. 0 * D = 0
    OBVIOUS
  <2>4. QED
    BY <1>1, <2>2, <2>3 DEF Begin
<1>3. ChunkStart(P - 1, P, N) + ChunkSize(P - 1, P, N) = N
  <2>1. P - 1 \in 0 .. P - 1 /\ P - 1 \in Nat
    OBVIOUS
  <2>2. /\ ChunkStart(P - 1, P, N) = Begin(P - 1, D, R)
        /\ ChunkSize(P - 1, P, N) = IF P - 1 < R THEN D + 1 ELSE D
    BY <1>1, <2>1, ChunkClosedForm
  <2>3. Begin(P - 1 + 1, D, R) = Begin(P - 1, D, R) + (IF P - 1 < R THEN D + 1 ELSE D)
    BY <2>1, BeginNext
  <2>4. Begin(P, D, R) = P * D + R
    BY DEF Begin
  <2>5. P - 1 + 1 = P
    OBVIOUS
  <2>6. QED
    BY <1>sum, <2>2, <2>3, <2>4, <2>5
<1>4. ASSUME NEW id \in 0 .. P - 2
      PROVE  ChunkStart(id + 1, P, N) = ChunkStart(id, P, N) + ChunkSize(id, P, N)
  <2>1. id \in Nat /\ id \in 0 .. P - 1 /\ id + 1 \in 0 .. P - 1
    OBVIOUS
  <2>2. ChunkStart(id + 1, P, N) = Begin(id + 1, D, R)
    BY <1>1, <2>1, ChunkClosedForm
  <2>3. /\ ChunkStart(id, P, N) = Begin(id, D, R)
        /\ ChunkSize(id, P, N) = IF id < R THEN D + 1 ELSE D
    BY <1>1, <2>1, ChunkClosedForm
  <2>4. QED
    BY <2>1, <2>2, <2>3, BeginNext
<1>5. ASSUME NEW a \in 0 .. P - 1, NEW b \in 0 .. P - 1
      PROVE  ChunkSize(a, P, N) <= ChunkSize(b, P, N) + 1
  <2>1. ChunkSize(a, P, N) = IF a < R THEN D + 1 ELSE D
    BY <1>1, ChunkClosedForm
  <2>2. ChunkSize(b, P, N) = IF b < R THEN D + 1 ELSE D
    BY <1>1, ChunkClosedForm
  <2>3. QED
    BY <2>1, <2>2
<1>6. QED
  BY <1>2, <1>3, <1>4, <1>5

\* The chunk of id is what lies between the beginnings of id and id + 1.
LEMMA ChunkIsInterval ==
    ASSUME NEW N \in Nat, NEW P \in Nat \ {0}, NEW id \in 0 .. P - 1,
           NEW D \in Nat, NEW R \in 0 .. P - 1, D = N \div P, R = N % P
    PROVE  Chunk(id, P, N) = Begin(id, D, R) .. Begin(id + 1, D, R) - 1
<1>1. /\ ChunkSize(id, P, N) = IF id < R THEN D + 1 ELSE D
      /\ ChunkStart(id, P, N) = Begin(id, D, R)
  BY ChunkClosedForm
<1>2. id \in Nat /\ R \in Nat
  OBVIOUS
<1>3. Begin(id + 1, D, R) = Begin(id, D, R) + (IF id < R THEN D + 1 ELSE D)
  BY <1>2, BeginNext
<1>4. QED
  BY <1>1, <1>3 DEF Chunk, Range0

\* Every iteration belongs to exactly one chunk, and nothing else does.
THEOREM ChunksPartition ==
    ASSUME NEW N \in Nat, NEW P \in Nat \ {0}
    PROVE  /\ \A id \in 0 .. P - 1 : Chunk(id, P, N) \subseteq 0 .. N - 1
           /\ \A i \in 0 .. N - 1 : \E id \in 0 .. P - 1 : i \in Chunk(id, P, N)
           /\ \A a, b \in 0 .. P - 1 : a # b => Chunk(a, P, N) \cap Chunk(b, P, N) = {}
<1>1. PICK D \in Nat, R \in 0 .. P - 1 : D = N \div P /\ R = N % P
  BY DivMod
<1>sum. N = P * D + R
  BY <1>1, DivMod
<1>2. \A id \in 0 .. P - 1 : Chunk(id, P, N) = Begin(id, D, R) .. Begin(id + 1, D, R) - 1
  BY <1>1, ChunkIsInterval, SMTT(30)
<1>3. Begin(0, D, R) = 0 /\ Begin(P, D, R) = N
  <2>1. 0 * D = 0
    OBVIOUS
  <2>2. QED
    BY <1>sum, <2>1 DEF Begin
<1>4. \A id \in Nat : Begin(id, D, R) \in Nat
  <2>1. \A id \in Nat : id * D \in Nat
    OBVIOUS
  <2>2. QED
    BY <2>1 DEF Begin
<1>5. ASSUME NEW id \in 0 .. P - 1
      PROVE  Chunk(id, P, N) \subseteq 0 .. N - 1
  <2>1. id + 1 \in Nat /\ P \in Nat /\ id + 1 <= P /\ id \in Nat
    OBVIOUS
  <2>2. Begin(id + 1, D, R) <= N
    BY <1>3, <2>1, BeginMonotone
  <2>3. Begin(id, D, R) \in Nat /\ Begin(id + 1, D, R) \in Nat
    BY <1>4, <2>1
  <2>4. QED
    BY <1>2, <2>2, <2>3
<1>6. ASSUME NEW i \in 0 .. N - 1
      PROVE  \E id \in 0 .. P - 1 : i \in Chunk(id, P, N)
  <2>1. SUFFICES \E id \in 0 .. P - 1 : Begin(id, D, R) <= i /\ i < Begin(id + 1, D, R)
    <3>1. ASSUME NEW id \in 0 .. P - 1, Begin(id, D, R) <= i, i < Begin(id + 1, D, R)
          PROVE  i \in Chunk(id, P, N)
      <4>1. Begin(id, D, R) \in Nat /\ Begin(id + 1, D, R) \in Nat
        BY <1>4
      <4>2. QED
        BY <1>2, <3>1, <4>1
    <3>2. QED
      BY <3>1
  <2>2. CASE i < R * (D + 1)
    <3>1. PICK q \in Nat : q * (D + 1) <= i /\ i < q * (D + 1) + (D + 1)
      <4>1. D + 1 \in Nat \ {0} /\ i \in Nat
        OBVIOUS
      <4>2. QED
        BY <4>1, IntervalOf
    <3>2. q < R
      <4>1. q * (D + 1) < R * (D + 1) /\ D + 1 \in Nat /\ R \in Nat
        BY <2>2, <3>1
      <4>2. QED
        BY <4>1, ProductOrder
    <3>3. q * (D + 1) = q * D + q /\ (q + 1) * D = q * D + D /\ q * D \in Nat
      OBVIOUS
    <3>4. Begin(q, D, R) <= i /\ i < Begin(q + 1, D, R)
      BY <3>1, <3>2, <3>3 DEF Begin
    <3>5. QED
      BY <3>2, <3>4
  <2>3. CASE i >= R * (D + 1)
    <3>1. PICK j \in Nat : i = R * (D + 1) + j
      <4>1. i - R * (D + 1) \in Nat /\ i = R * (D + 1) + (i - R * (D + 1))
        BY <2>3
      <4>2. QED
        BY <4>1
    <3>2. PICK S \in Nat : P = R + S
      <4>1. P - R \in Nat /\ P = R + (P - R)
        OBVIOUS
      <4>2. QED
        BY <4>1
    <3>3. j < S * D
      <4>1. N = R * D + S * D + R
        BY <1>sum, <3>2
      <4>2. R * (D + 1) = R * D + R /\ R * D \in Nat /\ S * D \in Nat
        OBVIOUS
      <4>3. QED
        BY <3>1, <4>1, <4>2
    <3>4. D \in Nat \ {0}
      <4>1. CASE D = 0
        BY <3>3, <4>1
      <4>2. QED
        BY <4>1
    <3>5. PICK q \in Nat : q * D <= j /\ j < q * D + D
      BY <3>4, IntervalOf
    <3>6. q < S
      <4>1. q * D < S * D
        <5>1. q * D \in Nat /\ S * D \in Nat
          OBVIOUS
        <5>2. QED
          BY <3>3, <3>5, <5>1
      <4>2. QED
        BY <4>1, ProductOrder
    <3>7. /\ (R + q) * D = R * D + q * D /\ (R + q + 1) * D = R * D + q * D + D
          /\ R * (D + 1) = R * D + R /\ R * D \in Nat /\ q * D \in Nat
      OBVIOUS
    <3>8. Begin(R + q, D, R) <= i /\ i < Begin(R + q + 1, D, R)
      BY <3>1, <3>5, <3>7 DEF Begin
    <3>9. R + q \in 0 .. P - 1
      BY <3>2, <3>6
    <3>10. QED
      BY <3>8, <3>9
  <2>4. QED
    <3>1. R * (D + 1) \in Nat
      OBVIOUS
    <3>2. QED
      BY <2>2, <2>3, <3>1
<1>7. ASSUME NEW a \in 0 .. P - 1, NEW b \in 0 .. P - 1, a < b
      PROVE  Chunk(a, P, N) \cap Chunk(b, P, N) = {}
  <2>1. a + 1 \in Nat /\ b \in Nat /\ a + 1 <= b /\ b + 1 \in Nat /\ a \in Nat
    BY <1>7
  <2>2. Begin(a + 1, D, R) <= Begin(b, D, R)
    BY <2>1, BeginMonotone
  <2>3. /\ Begin(a, D, R) \in Nat /\ Begin(a + 1, D, R) \in Nat
        /\ Begin(b, D, R) \in Nat /\ Begin(b + 1, D, R) \in Nat
    BY <1>4, <2>1
  <2>4. QED
    BY <1>2, <2>2, <2>3, SMTT(40)
<1>8. ASSUME NEW a \in 0 .. P - 1, NEW b \in 0 .. P - 1, a # b
      PROVE  Chunk(a, P, N) \cap Chunk(b, P, N) = {}
  <2>1. a < b \/ b < a
    BY <1>8
  <2>2. Chunk(b, P, N) \cap Chunk(a, P, N) = Chunk(a, P, N) \cap Chunk(b, P, N)
    OBVIOUS
  <2>3. QED
    BY <1>7, <2>1, <2>2
<1>9. QED
  BY <1>5, <1>6, <1>8
-----------------------------------------------------------------------------
\* The slices i = id, id + P, id + 2P, ... give every iteration to exactly one
\* process.
THEOREM SlicesPartition ==
    ASSUME NEW N \in Nat, NEW P \in Nat \ {0}
    PROVE  /\ \A i \in 0 .. N - 1 : \E id \in 0 .. P - 1 : i \in Slice(id, P, N)
           /\ \A a, b \in 0 .. P - 1 : a # b => Slice(a, P, N) \cap Slice(b, P, N) = {}
<1>1. ASSUME NEW i \in Nat, NEW id \in 0 .. P - 1, i >= id, (i - id) % P = 0
      PROVE  \E q \in Nat : i = P * q + id
  <2>1. i - id \in Nat
    BY <1>1
  <2>2. i - id = P * ((i - id) \div P) + ((i - id) % P) /\ (i - id) \div P \in Nat
    BY <2>1, DivMod
  <2>3. PICK q \in Nat : i - id = P * q
    <3>1. PICK q \in Nat, r \in Int : q = (i - id) \div P /\ r = 0 /\ i - id = P * q + r
      BY <1>1, <2>2
    <3>2. P * q \in Nat
      OBVIOUS
    <3>3. QED
      BY <3>1, <3>2
  <2>4. QED
    <3>1. P * q \in Nat
      OBVIOUS
    <3>2. QED
      BY <2>3, <3>1
<1>2. ASSUME NEW i \in 0 .. N - 1
      PROVE  \E id \in 0 .. P - 1 : i \in Slice(id, P, N)
  <2>1. PICK q \in Nat, r \in 0 .. P - 1 : i = P * q + r
    <3>1. i \in Nat
      OBVIOUS
    <3>2. QED
      BY <3>1, DivMod
  <2>2. P * q \in Nat /\ (P * q) % P = 0
    OBVIOUS
  <2>3. i >= r /\ i - r = P * q
    BY <2>1, <2>2
  <2>4. i \in Slice(r, P, N)
    BY <2>2, <2>3 DEF Slice
  <2>5. QED
    BY <2>4
<1>3. ASSUME NEW a \in 0 .. P - 1, NEW b \in 0 .. P - 1, NEW p \in Nat, NEW q \in Nat,
             a < b, P * p + a = P * q + b
      PROVE  FALSE
  <2>1. q < p
    <3>1. P * q = q * P /\ P * p = p * P /\ P * q \in Nat /\ P * p \in Nat
      OBVIOUS
    <3>2. q * P < p * P
      BY <1>3, <3>1
    <3>3. QED
      BY <3>2, ProductOrder
  <2>2. (q + 1) * P <= p * P
    BY <2>1, ProductMonotone
  <2>3. (q + 1) * P = P * q + P /\ p * P = P * p /\ P * p \in Nat /\ P * q \in Nat
    OBVIOUS
  <2>4. QED
    BY <1>3, <2>2, <2>3
<1>4. ASSUME NEW a \in 0 .. P - 1, NEW b \in 0 .. P - 1, a # b
      PROVE  Slice(a, P, N) \cap Slice(b, P, N) = {}
  <2>1. SUFFICES ASSUME NEW i \in 0 .. N - 1, i \in Slice(a, P, N), i \in Slice(b, P, N)
                 PROVE  FALSE
    BY DEF Slice
  <2>2. i \in Nat /\ i >= a /\ (i - a) % P = 0 /\ i >= b /\ (i - b) % P = 0
    BY <2>1 DEF Slice
  <2>3. PICK p \in Nat : i = P * p + a
    BY <1>1, <2>2
  <2>4. PICK q \in Nat : i = P * q + b
    BY <1>1, <2>2
  <2>5. P * p + a = P * q + b
    BY <2>3, <2>4
  <2>6. a < b \/ b < a
    BY <1>4
  <2>7. QED
    BY <1>3, <2>5, <2>6
<1>5. QED
  BY <1>2, <1>4
-----------------------------------------------------------------------------
(* The master's program in the task queue.                                 *)

\* The job runs the task queue.
TaskJob == job.prog = "taskQueue"

\* The instructions of the master: the operation at k, the task that is sent (0:
\* the message that tells a worker to stop), and to whom, when the last answer
\* came from src.
OpAt(n, k) ==
  IF \/ k <= n - 1
     \/ n - 1 < k /\ k <= 7 * (n - 1) /\ ~Odd(k - (n - 1))
     \/ k > 8 * (n - 1)
    THEN "send" ELSE "recv"
TaskAt(n, k) ==
  IF k <= n - 1 THEN k
  ELSE IF k <= 7 * (n - 1) THEN (k - (n - 1)) \div 2 + n - 1 ELSE 0
ToAt(n, k, src) ==
  IF k <= n - 1 THEN k ELSE IF k <= 7 * (n - 1) THEN src ELSE k - 8 * (n - 1)

\* The instruction list of the master has the operations, tasks and tags above.
LEMMA HandOutShape ==
    ASSUME NEW n \in Nat \ {0}, NEW m, NEW workTag, NEW recvTag, NEW doneTag
    PROVE  LET code == HandOut(n, m, workTag, recvTag, doneTag)
           IN  /\ Len(code) = 9 * (n - 1) /\ DOMAIN code = 1 .. 9 * (n - 1)
               /\ \A k \in 1 .. 9 * (n - 1) :
                    /\ code[k].op = OpAt(n, k)
                    /\ OpAt(n, k) = "recv" => code[k].var = "out"
                    /\ OpAt(n, k) = "send" =>
                         /\ code[k].val = << TaskAt(n, k) >>
                         /\ code[k].tag = IF TaskAt(n, k) # 0 THEN workTag ELSE doneTag
                         /\ code[k].to = ToAt(n, k, m.src)
<1> DEFINE Give(w)  == Send(<< w >>, w, workTag)
           Take     == Recv("out", AnySource, recvTag)
           Next1(k) == IF Odd(k) THEN Take ELSE Send(<< k \div 2 + n - 1 >>, m.src, workTag)
           Stop(w)  == Send(<< 0 >>, w, doneTag)
           first == [w \in 1 .. n - 1 |-> Give(w)]
           rest  == [k \in 1 .. 6 * (n - 1) |-> Next1(k)]
           last  == [w \in 1 .. n - 1 |-> Take]
           stop  == [w \in 1 .. n - 1 |-> Stop(w)]
           S == {Give(w) : w \in 1 .. n - 1} \cup {Next1(k) : k \in 1 .. 6 * (n - 1)}
                \cup {Take} \cup {Stop(w) : w \in 1 .. n - 1}
           code == HandOut(n, m, workTag, recvTag, doneTag)
<1>1. PICK c \in Nat : c = n - 1
  OBVIOUS
<1>2. /\ first \in Seq(S) /\ Len(first) = c
      /\ rest \in Seq(S)  /\ Len(rest) = 6 * c
      /\ last \in Seq(S)  /\ Len(last) = c
      /\ stop \in Seq(S)  /\ Len(stop) = c
  <2> HIDE DEF Give, Take, Next1, Stop
  <2>1. first \in Seq(S) /\ Len(first) = c
    BY <1>1
  <2>2. rest \in Seq(S)  /\ Len(rest) = 6 * c
    BY <1>1
  <2>3. last \in Seq(S)  /\ Len(last) = c
    BY <1>1
  <2>4. stop \in Seq(S)  /\ Len(stop) = c
    BY <1>1
  <2>5. QED
    BY <2>1, <2>2, <2>3, <2>4
<1>3. code = ((first \o rest) \o last) \o stop
  <2>1. 2 * (NumTasks(n) - (n - 1)) = 6 * (n - 1)
    BY DEF NumTasks
  <2>2. QED
    BY <2>1 DEF HandOut
<1>e. /\ \A w \in 1 .. c : first[w] = Give(w)
      /\ \A k \in 1 .. 6 * c : rest[k] = Next1(k)
      /\ \A w \in 1 .. c : last[w] = Take
      /\ \A w \in 1 .. c : stop[w] = Stop(w)
  BY <1>1
<1> HIDE DEF first, rest, last, stop, S, code
<1>4. /\ first \o rest \in Seq(S) /\ Len(first \o rest) = 7 * c
      /\ \A k \in 1 .. c : (first \o rest)[k] = Give(k)
      /\ \A k \in c + 1 .. 7 * c : (first \o rest)[k] = Next1(k - c)
  <2> HIDE DEF Give, Take, Next1, Stop
  <2>1. PICK d \in Nat : d = 6 * c
    BY <1>1
  <2>2. /\ first \o rest \in Seq(S) /\ Len(first \o rest) = c + d
        /\ \A k \in 1 .. c : (first \o rest)[k] = first[k]
        /\ \A k \in c + 1 .. c + d : (first \o rest)[k] = rest[k - c]
    <3>1. /\ first \in Seq(S) /\ Len(first) = c /\ rest \in Seq(S) /\ Len(rest) = d
      BY <1>2, <2>1
    <3>2. c \in Nat /\ d \in Nat
      BY <1>1, <2>1
    <3>3. first \o rest \in Seq(S) /\ Len(first \o rest) = c + d
      BY <3>1, <3>2
    <3>4. QED
      BY <3>1, <3>2, <3>3
  <2>3. c \in Nat /\ d \in Nat /\ d = 6 * c
    BY <1>1, <2>1
  <2>4. ASSUME NEW k \in c + 1 .. 7 * c PROVE (first \o rest)[k] = Next1(k - c)
    <3>1. k \in c + 1 .. c + d /\ k - c \in 1 .. 6 * c
      BY <2>3
    <3>2. QED
      BY <2>2, <1>e, <3>1
  <2>5. Len(first \o rest) = 7 * c
    BY <2>2, <2>3
  <2>6. QED
    BY <2>2, <2>4, <2>5, <1>e
<1>5. /\ (first \o rest) \o last \in Seq(S) /\ Len((first \o rest) \o last) = 8 * c
      /\ \A k \in 1 .. c : ((first \o rest) \o last)[k] = Give(k)
      /\ \A k \in c + 1 .. 7 * c : ((first \o rest) \o last)[k] = Next1(k - c)
      /\ \A k \in 7 * c + 1 .. 8 * c : ((first \o rest) \o last)[k] = Take
  <2> HIDE DEF Give, Take, Next1, Stop
  <2>1. PICK d \in Nat : d = 7 * c
    BY <1>1
  <2>2. /\ (first \o rest) \o last \in Seq(S) /\ Len((first \o rest) \o last) = d + c
        /\ \A k \in 1 .. d : ((first \o rest) \o last)[k] = (first \o rest)[k]
        /\ \A k \in d + 1 .. d + c : ((first \o rest) \o last)[k] = last[k - d]
    <3>1. /\ (first \o rest) \in Seq(S) /\ Len((first \o rest)) = d
          /\ last \in Seq(S) /\ Len(last) = c
      BY <1>2, <1>4, <2>1
    <3>2. c \in Nat /\ d \in Nat
      BY <1>1, <2>1
    <3>3. (first \o rest) \o last \in Seq(S) /\ Len((first \o rest) \o last) = d + c
      BY <3>1, <3>2
    <3>4. QED
      BY <3>1, <3>2, <3>3
  <2>3. c \in Nat /\ d \in Nat /\ d = 7 * c
    BY <1>1, <2>1
  <2>4. ASSUME NEW k \in 1 .. 7 * c
        PROVE  ((first \o rest) \o last)[k] = (first \o rest)[k]
    BY <2>2, <2>3
  <2>5. ASSUME NEW k \in 7 * c + 1 .. 8 * c PROVE ((first \o rest) \o last)[k] = Take
    <3>1. k \in d + 1 .. d + c /\ k - d \in 1 .. c
      BY <2>3
    <3>2. QED
      BY <2>2, <1>e, <3>1
  <2>6. Len((first \o rest) \o last) = 8 * c
    BY <2>2, <2>3
  <2>7. /\ \A k \in 1 .. c : k \in 1 .. 7 * c
        /\ \A k \in c + 1 .. 7 * c : k \in 1 .. 7 * c
    BY <2>3
  <2>8. QED
    BY <1>4, <2>2, <2>4, <2>5, <2>6, <2>7
<1>6. /\ code \in Seq(S) /\ Len(code) = 9 * c
      /\ \A k \in 1 .. c : code[k] = Give(k)
      /\ \A k \in c + 1 .. 7 * c : code[k] = Next1(k - c)
      /\ \A k \in 7 * c + 1 .. 8 * c : code[k] = Take
      /\ \A k \in 8 * c + 1 .. 9 * c : code[k] = Stop(k - 8 * c)
  <2> HIDE DEF Give, Take, Next1, Stop
  <2>1. PICK d \in Nat : d = 8 * c
    BY <1>1
  <2>2. /\ code \in Seq(S) /\ Len(code) = d + c
        /\ \A k \in 1 .. d : code[k] = ((first \o rest) \o last)[k]
        /\ \A k \in d + 1 .. d + c : code[k] = stop[k - d]
    <3>1. /\ ((first \o rest) \o last) \in Seq(S) /\ Len(((first \o rest) \o last)) = d
          /\ stop \in Seq(S) /\ Len(stop) = c
      BY <1>2, <1>5, <2>1
    <3>2. c \in Nat /\ d \in Nat
      BY <1>1, <2>1
    <3>3. code \in Seq(S) /\ Len(code) = d + c
      BY <3>1, <3>2, <1>3
    <3>4. QED
      BY <3>1, <3>2, <3>3, <1>3, SMTT(30)
  <2>3. c \in Nat /\ d \in Nat /\ d = 8 * c
    BY <1>1, <2>1
  <2>4. ASSUME NEW k \in 1 .. 8 * c
        PROVE  code[k] = ((first \o rest) \o last)[k]
    BY <2>2, <2>3
  <2>5. ASSUME NEW k \in 8 * c + 1 .. 9 * c PROVE code[k] = Stop(k - 8 * c)
    <3>1. k \in d + 1 .. d + c /\ k - d \in 1 .. c /\ k - d = k - 8 * c
      BY <2>3
    <3>2. QED
      BY <2>2, <1>e, <3>1
  <2>6. Len(code) = 9 * c
    BY <2>2, <2>3
  <2>7. /\ \A k \in 1 .. c : k \in 1 .. 8 * c
        /\ \A k \in c + 1 .. 7 * c : k \in 1 .. 8 * c
        /\ \A k \in 7 * c + 1 .. 8 * c : k \in 1 .. 8 * c
    BY <2>3
  <2>8. QED
    BY <1>5, <2>2, <2>4, <2>5, <2>6, <2>7
<1>7. DOMAIN code = 1 .. 9 * c
  BY <1>6
<1>8. ASSUME NEW k \in 1 .. 9 * c
      PROVE  /\ code[k].op = OpAt(n, k)
             /\ OpAt(n, k) = "recv" => code[k].var = "out"
             /\ OpAt(n, k) = "send" =>
                  /\ code[k].val = << TaskAt(n, k) >>
                  /\ code[k].tag = IF TaskAt(n, k) # 0 THEN workTag ELSE doneTag
                  /\ code[k].to = ToAt(n, k, m.src)
  <2>0. Take.op = "recv" /\ Take.var = "out"
    BY DEF Recv
  <2>1. CASE k \in 1 .. c
    <3>1. /\ code[k] = Give(k) /\ OpAt(n, k) = "send" /\ TaskAt(n, k) = k
          /\ ToAt(n, k, m.src) = k
      BY <1>1, <1>6, <2>1 DEF OpAt, TaskAt, ToAt
    <3>2. /\ Give(k).op = "send" /\ Give(k).val = << k >> /\ Give(k).tag = workTag
          /\ Give(k).to = k
      BY DEF Send
    <3>3. QED
      BY <2>1, <3>1, <3>2
  <2>2. CASE k \in c + 1 .. 7 * c /\ Odd(k - c)
    <3>1. code[k] = Take
      BY <1>6, <2>2
    <3>2. OpAt(n, k) = "recv"
      BY <1>1, <2>2 DEF OpAt
    <3>3. QED
      BY <2>0, <3>1, <3>2
  <2>3. CASE k \in c + 1 .. 7 * c /\ ~Odd(k - c)
    <3>1. /\ OpAt(n, k) = "send" /\ TaskAt(n, k) = (k - c) \div 2 + c
          /\ ToAt(n, k, m.src) = m.src
      BY <1>1, <2>3 DEF OpAt, TaskAt, ToAt
    <3>2. code[k] = Send(<< (k - c) \div 2 + c >>, m.src, workTag)
      BY <1>1, <1>6, <2>3
    <3>3. TaskAt(n, k) # 0
      BY <1>1, <2>3, <3>1
    <3>4. QED
      BY <3>1, <3>2, <3>3 DEF Send
  <2>4. CASE k \in 7 * c + 1 .. 8 * c
    <3>1. code[k] = Take
      BY <1>6, <2>4
    <3>2. OpAt(n, k) = "recv"
      BY <1>1, <2>4 DEF OpAt
    <3>3. QED
      BY <2>0, <3>1, <3>2
  <2>5. CASE k \in 8 * c + 1 .. 9 * c
    <3>1. code[k] = Stop(k - 8 * c)
      BY <1>6, <2>5
    <3>2. OpAt(n, k) = "send" /\ TaskAt(n, k) = 0 /\ ToAt(n, k, m.src) = k - 8 * c
      BY <1>1, <2>5 DEF OpAt, TaskAt, ToAt
    <3>3. Stop(k - 8 * c).op = "send" /\ Stop(k - 8 * c).val = << 0 >>
          /\ Stop(k - 8 * c).tag = doneTag /\ Stop(k - 8 * c).to = k - 8 * c
      BY DEF Send
    <3>4. QED
      BY <3>1, <3>2, <3>3
  <2>6. QED
    BY <2>1, <2>2, <2>3, <2>4, <2>5
<1>9. QED
  <2>1. 9 * c = 9 * (n - 1)
    BY <1>1
  <2>2. QED
    BY <1>6, <1>7, <1>8, <2>1 DEF code

-----------------------------------------------------------------------------
(* Messages in the network: what a send adds and a receive removes.        *)

\* The messages in a network c between the processes R, those whose content is
\* in the set X[p] for their sender p.
Slots(c, R) == UNION { { << p, q, k >> : k \in DOMAIN c[p][q] } : p, q \in R }
Chosen(c, R, X) == { m \in Slots(c, R) : c[m[1]][m[2]][m[3]] \in X[m[1]] }

\* A set with exactly one element.
Singleton(S) == \E x \in S : S = {x}

\* What it means for a slot to hold a chosen message.
LEMMA ChosenAre ==
    ASSUME NEW c, NEW R, NEW X
    PROVE  /\ \A p, q \in R : \A k :
                << p, q, k >> \in Chosen(c, R, X)
                  <=> k \in DOMAIN c[p][q] /\ c[p][q][k] \in X[p]
           /\ \A m \in Chosen(c, R, X) :
                \E p, q \in R : \E k \in DOMAIN c[p][q] :
                   m = << p, q, k >> /\ c[p][q][k] \in X[p]
<1> DEFINE T(p, q) == { << p, q, k >> : k \in DOMAIN c[p][q] }
<1>0. Slots(c, R) = UNION { T(p, q) : p, q \in R }
  BY DEF Slots
<1>1. ASSUME NEW m
      PROVE  m \in Slots(c, R) <=> \E p, q \in R : m \in T(p, q)
  <2> HIDE DEF T
  <2>1. QED
    BY <1>0
<1>2. ASSUME NEW p \in R, NEW q \in R, NEW k
      PROVE  << p, q, k >> \in Slots(c, R) <=> k \in DOMAIN c[p][q]
  <2>1. ASSUME k \in DOMAIN c[p][q] PROVE << p, q, k >> \in Slots(c, R)
    BY <1>1, <2>1
  <2>2. ASSUME << p, q, k >> \in Slots(c, R) PROVE k \in DOMAIN c[p][q]
    <3>1. PICK a \in R, b \in R : << p, q, k >> \in { << a, b, j >> : j \in DOMAIN c[a][b] }
      BY <1>1, <2>2
    <3>2. PICK j \in DOMAIN c[a][b] : << p, q, k >> = << a, b, j >>
      BY <3>1
    <3>3. p = a /\ q = b /\ k = j
      BY <3>2
    <3>4. QED
      BY <3>3
  <2>3. QED
    BY <2>1, <2>2
<1>3. ASSUME NEW p, NEW q, NEW k
      PROVE  << p, q, k >>[1] = p /\ << p, q, k >>[2] = q /\ << p, q, k >>[3] = k
  OBVIOUS
<1>4. ASSUME NEW p \in R, NEW q \in R, NEW k
      PROVE  << p, q, k >> \in Chosen(c, R, X)
                  <=> k \in DOMAIN c[p][q] /\ c[p][q][k] \in X[p]
  BY <1>2, <1>3 DEF Chosen
<1>5. ASSUME NEW m \in Chosen(c, R, X)
      PROVE  \E p, q \in R : \E k \in DOMAIN c[p][q] :
               m = << p, q, k >> /\ c[p][q][k] \in X[p]
  <2>0. m \in Slots(c, R)
    BY DEF Chosen
  <2>1. PICK p \in R, q \in R : m \in { << p, q, k >> : k \in DOMAIN c[p][q] }
    BY <1>1, <2>0
  <2>2. PICK k \in DOMAIN c[p][q] : m = << p, q, k >>
    BY <2>1
  <2>3. c[p][q][k] \in X[p]
    BY <1>4, <2>2
  <2>4. QED
    BY <2>2, <2>3
<1>6. QED
  BY <1>4, <1>5

\* The networks whose messages are in M, and their changes by one message.
Network(R, M) == [R -> [R -> Seq(M)]]
Added(c, p, r, msg) == [c EXCEPT ![p][r] = Append(@, msg)]
Taken(c, q, p, k)   == [c EXCEPT ![q][p] = RemoveAt(@, k)]

\* A message that is sent is added to the network.
LEMMA SendAdds ==
    ASSUME NEW R, NEW M, NEW c \in Network(R, M),
           NEW p \in R, NEW r \in R, NEW msg \in M,
           NEW d, d = Added(c, p, r, msg), NEW X
    PROVE  /\ d \in Network(R, M)
           /\ msg \notin X[p] => Chosen(d, R, X) = Chosen(c, R, X)
           /\ msg \in X[p] /\ Chosen(c, R, X) = {} => Singleton(Chosen(d, R, X))
<1> DEFINE n == Len(c[p][r]) + 1
<1> USE DEF Added, Network
<1>1. c[p][r] \in Seq(M) /\ n \in Nat
  OBVIOUS
<1>2. d \in [R -> [R -> Seq(M)]]
  OBVIOUS
<1>3. d[p][r] = Append(c[p][r], msg)
  OBVIOUS
<1>4. \A a, b \in R : a # p \/ b # r => d[a][b] = c[a][b]
  OBVIOUS
<1>5. /\ DOMAIN d[p][r] = DOMAIN c[p][r] \cup {n}
      /\ d[p][r][n] = msg
      /\ \A k \in DOMAIN c[p][r] : d[p][r][k] = c[p][r][k]
      /\ n \notin DOMAIN c[p][r]
  BY <1>1, <1>3
<1> HIDE DEF n
<1>6. ASSUME NEW a \in R, NEW b \in R, NEW k
      PROVE  << a, b, k >> \in Chosen(d, R, X)
               <=> \/ << a, b, k >> \in Chosen(c, R, X)
                   \/ a = p /\ b = r /\ k = n /\ msg \in X[p]
  <2>1. << a, b, k >> \in Chosen(d, R, X) <=> k \in DOMAIN d[a][b] /\ d[a][b][k] \in X[a]
    BY ChosenAre
  <2>2. << a, b, k >> \in Chosen(c, R, X) <=> k \in DOMAIN c[a][b] /\ c[a][b][k] \in X[a]
    BY ChosenAre
  <2>3. CASE a # p \/ b # r
    BY <1>4, <2>1, <2>2, <2>3
  <2>4. CASE a = p /\ b = r
    BY <1>5, <2>1, <2>2, <2>4
  <2>5. QED
    BY <2>3, <2>4
<1>7. \A m : m \in Chosen(d, R, X) \/ m \in Chosen(c, R, X) =>
        \E a, b \in R : \E k : m = << a, b, k >>
  <2>1. \A m \in Chosen(d, R, X) : \E a, b \in R : \E k : m = << a, b, k >>
    BY ChosenAre
  <2>2. \A m \in Chosen(c, R, X) : \E a, b \in R : \E k : m = << a, b, k >>
    BY ChosenAre
  <2>3. QED
    BY <2>1, <2>2
<1>8. msg \notin X[p] => Chosen(d, R, X) = Chosen(c, R, X)
  <2>1. SUFFICES ASSUME msg \notin X[p], NEW m
                 PROVE  m \in Chosen(d, R, X) <=> m \in Chosen(c, R, X)
    OBVIOUS
  <2>2. CASE \E a, b \in R : \E k : m = << a, b, k >>
    <3>1. PICK a \in R, b \in R : \E k : m = << a, b, k >>
      BY <2>2
    <3>2. PICK k : m = << a, b, k >>
      BY <3>1
    <3>3. QED
      BY <1>6, <2>1, <3>2
  <2>3. QED
    BY <1>7, <2>2
<1>9. msg \in X[p] /\ Chosen(c, R, X) = {} => Singleton(Chosen(d, R, X))
  <2>1. SUFFICES ASSUME msg \in X[p], Chosen(c, R, X) = {}
                 PROVE  Chosen(d, R, X) = {<< p, r, n >>}
    BY DEF Singleton
  <2>2. << p, r, n >> \in Chosen(d, R, X)
    BY <1>6, <2>1
  <2>3. ASSUME NEW m \in Chosen(d, R, X) PROVE m = << p, r, n >>
    <3>1. PICK a \in R, b \in R : \E k : m = << a, b, k >>
      BY <1>7
    <3>2. PICK k : m = << a, b, k >>
      BY <3>1
    <3>3. QED
      BY <1>6, <2>1, <3>2
  <2>4. QED
    BY <2>2, <2>3
<1>10. QED
  BY <1>2, <1>8, <1>9

\* Where the element at j was before the one at k was removed.
Prior(j, k) == IF j < k THEN j ELSE j + 1

\* Together those positions are all but the k-th, each once.
LEMMA RemovalIndices ==
    ASSUME NEW l \in Nat, NEW k \in 1 .. l
    PROVE  /\ \A j \in 1 .. l - 1 : Prior(j, k) \in 1 .. l /\ Prior(j, k) # k
           /\ \A i \in 1 .. l : i # k => \E j \in 1 .. l - 1 : Prior(j, k) = i
           /\ \A i, j \in 1 .. l - 1 : Prior(i, k) = Prior(j, k) => i = j
<1>1. \A j \in 1 .. l - 1 : Prior(j, k) \in 1 .. l /\ Prior(j, k) # k
  BY DEF Prior
<1>2. ASSUME NEW i \in 1 .. l, i # k PROVE \E j \in 1 .. l - 1 : Prior(j, k) = i
  <2>1. CASE i < k
    BY <2>1 DEF Prior
  <2>2. CASE i > k
    <3>1. i - 1 \in 1 .. l - 1 /\ Prior(i - 1, k) = i
      BY <2>2 DEF Prior
    <3>2. QED
      BY <3>1
  <2>3. QED
    BY <1>2, <2>1, <2>2
<1>3. \A i, j \in 1 .. l - 1 : Prior(i, k) = Prior(j, k) => i = j
  BY DEF Prior
<1>4. QED
  BY <1>1, <1>2, <1>3

\* What a sequence looks like without its k-th element.
LEMMA Removal ==
    ASSUME NEW M, NEW s \in Seq(M), NEW k \in 1 .. Len(s)
    PROVE  /\ RemoveAt(s, k) \in Seq(M) /\ DOMAIN RemoveAt(s, k) = 1 .. Len(s) - 1
           /\ \A j \in 1 .. Len(s) - 1 : RemoveAt(s, k)[j] = s[Prior(j, k)]
<1> DEFINE x == SubSeq(s, 1, k - 1)
           y == SubSeq(s, k + 1, Len(s))
           u == RemoveAt(s, k)
<1>0. Len(s) \in Nat
  OBVIOUS
<1>1. x \in Seq(M) /\ Len(x) = k - 1 /\ \A j \in 1 .. k - 1 : x[j] = s[j]
  OBVIOUS
<1>2. y \in Seq(M) /\ Len(y) = Len(s) - k /\ \A j \in 1 .. Len(s) - k : y[j] = s[j + k]
  OBVIOUS
<1>3. u = x \o y
  BY DEF RemoveAt
<1> HIDE DEF x, y, u
<1>4. u \in Seq(M) /\ Len(u) = Len(s) - 1
  BY <1>0, <1>1, <1>2, <1>3
<1>5. ASSUME NEW j \in 1 .. Len(s) - 1, j < k PROVE u[j] = s[j]
  BY <1>0, <1>1, <1>2, <1>3, <1>5
<1>6. ASSUME NEW j \in 1 .. Len(s) - 1, ~(j < k) PROVE u[j] = s[j + 1]
  <2>1. j - (k - 1) \in 1 .. Len(s) - k /\ (j - (k - 1)) + k = j + 1
    BY <1>0, <1>6
  <2>2. u[j] = y[j - (k - 1)]
    BY <1>0, <1>1, <1>2, <1>3, <1>6, <2>1
  <2>3. QED
    BY <1>2, <2>1, <2>2
<1>7. ASSUME NEW j \in 1 .. Len(s) - 1 PROVE u[j] = s[Prior(j, k)]
  BY <1>5, <1>6 DEF Prior
<1>8. DOMAIN u = 1 .. Len(s) - 1
  BY <1>4
<1>9. QED
  BY <1>4, <1>7, <1>8 DEF u

\* A message that is received is removed from the network, the others stay.
LEMMA ReceiveRemoves ==
    ASSUME NEW R, NEW M, NEW c \in Network(R, M),
           NEW q \in R, NEW p \in R, NEW k \in DOMAIN c[q][p],
           NEW d, d = Taken(c, q, p, k), NEW X
    PROVE  /\ d \in Network(R, M)
           /\ Chosen(c, R, X) = {} => Chosen(d, R, X) = {}
           /\ c[q][p][k] \notin X[q] /\ Singleton(Chosen(c, R, X)) => Singleton(Chosen(d, R, X))
           /\ c[q][p][k] \in X[q] /\ Singleton(Chosen(c, R, X)) => Chosen(d, R, X) = {}
<1> USE DEF Taken, Network
<1> DEFINE s == c[q][p]
           u == RemoveAt(s, k)
           Before(a, b, j) == IF a = q /\ b = p THEN Prior(j, k) ELSE j
<1>1. s \in Seq(M) /\ Len(s) \in Nat /\ k \in 1 .. Len(s) /\ DOMAIN s = 1 .. Len(s)
  OBVIOUS
<1>2. /\ u \in Seq(M) /\ DOMAIN u = 1 .. Len(s) - 1
      /\ \A j \in 1 .. Len(s) - 1 : u[j] = s[Prior(j, k)]
  <2> HIDE DEF s
  <2>1. QED
    BY <1>1, Removal
<1>p. /\ \A j \in DOMAIN u : Prior(j, k) \in DOMAIN s /\ Prior(j, k) # k /\ u[j] = s[Prior(j, k)]
      /\ \A i \in DOMAIN s : i # k => \E j \in DOMAIN u : Prior(j, k) = i
      /\ \A i, j \in DOMAIN u : Prior(i, k) = Prior(j, k) => i = j
  <2> HIDE DEF s, u
  <2>1. /\ \A j \in 1 .. Len(s) - 1 : Prior(j, k) \in 1 .. Len(s) /\ Prior(j, k) # k
        /\ \A i \in 1 .. Len(s) : i # k => \E j \in 1 .. Len(s) - 1 : Prior(j, k) = i
        /\ \A i, j \in 1 .. Len(s) - 1 : Prior(i, k) = Prior(j, k) => i = j
    BY <1>1, RemovalIndices
  <2>2. QED
    BY <1>1, <1>2, <2>1
<1>3. /\ d[q][p] = u
      /\ \A a, b \in R : a # q \/ b # p => d[a][b] = c[a][b]
  OBVIOUS
<1>4. d \in [R -> [R -> Seq(M)]]
  <2> HIDE DEF u
  <2>1. u \in Seq(M) /\ d = [c EXCEPT ![q][p] = u]
    BY <1>2 DEF u
  <2>2. QED
    BY <2>1
<1>s. c[q][p] = s
  OBVIOUS
<1> HIDE DEF s, u
<1>5. ASSUME NEW a \in R, NEW b \in R, NEW j \in DOMAIN d[a][b]
      PROVE  /\ Before(a, b, j) \in DOMAIN c[a][b]
             /\ d[a][b][j] = c[a][b][Before(a, b, j)]
             /\ ~(a = q /\ b = p /\ Before(a, b, j) = k)
  <2>1. CASE a = q /\ b = p
    <3>1. j \in DOMAIN u /\ d[a][b] = u /\ c[a][b] = s
      BY <1>3, <1>s, <2>1
    <3>2. QED
      BY <1>p, <2>1, <3>1
  <2>2. CASE ~(a = q /\ b = p)
    BY <1>3, <2>2
  <2>3. QED
    BY <2>1, <2>2
<1>6. ASSUME NEW a \in R, NEW b \in R, NEW i \in DOMAIN c[a][b], ~(a = q /\ b = p /\ i = k)
      PROVE  \E j \in DOMAIN d[a][b] : Before(a, b, j) = i
  <2>1. CASE a = q /\ b = p
    <3>1. i \in DOMAIN s /\ d[a][b] = u /\ i # k
      BY <1>3, <1>s, <1>6, <2>1
    <3>2. PICK j \in DOMAIN u : Prior(j, k) = i
      BY <1>p, <3>1
    <3>3. QED
      BY <2>1, <3>1, <3>2
  <2>2. CASE ~(a = q /\ b = p)
    BY <1>3, <2>2
  <2>3. QED
    BY <2>1, <2>2
<1>7. ASSUME NEW a \in R, NEW b \in R, NEW i \in DOMAIN d[a][b], NEW j \in DOMAIN d[a][b],
             Before(a, b, i) = Before(a, b, j)
      PROVE  i = j
  <2>1. CASE a = q /\ b = p
    BY <1>3, <1>p, <1>7, <2>1
  <2>2. CASE ~(a = q /\ b = p)
    BY <1>7, <2>2
  <2>3. QED
    BY <2>1, <2>2
<1> HIDE DEF Before, Network, Taken
\* From the messages that are left to those that were there.
<1>8. ASSUME NEW a \in R, NEW b \in R, NEW j, << a, b, j >> \in Chosen(d, R, X)
      PROVE  /\ j \in DOMAIN d[a][b]
             /\ << a, b, Before(a, b, j) >> \in Chosen(c, R, X)
             /\ << a, b, Before(a, b, j) >> # << q, p, k >>
  <2>1. j \in DOMAIN d[a][b] /\ d[a][b][j] \in X[a]
    BY <1>8, ChosenAre
  <2>2. << a, b, Before(a, b, j) >> \in Chosen(c, R, X)
    <3>1. PICK i : i = Before(a, b, j)
      OBVIOUS
    <3>a. j \in DOMAIN d[a][b]
      BY <2>1
    <3>b. /\ Before(a, b, j) \in DOMAIN c[a][b]
          /\ d[a][b][j] = c[a][b][Before(a, b, j)]
      BY <1>5, <3>a
    <3>2. i \in DOMAIN c[a][b] /\ c[a][b][i] \in X[a]
      BY <2>1, <3>1, <3>b
    <3>3. << a, b, i >> \in Chosen(c, R, X)
      BY <3>2, ChosenAre
    <3>4. QED
      BY <3>1, <3>3
  <2>3. QED
    BY <1>5, <2>1, <2>2
<1>9. ASSUME NEW a \in R, NEW b \in R, NEW i, << a, b, i >> \in Chosen(c, R, X),
             << a, b, i >> # << q, p, k >>
      PROVE  \E j : << a, b, j >> \in Chosen(d, R, X)
  <2>1. i \in DOMAIN c[a][b] /\ c[a][b][i] \in X[a]
    BY <1>9, ChosenAre
  <2>2. PICK j \in DOMAIN d[a][b] : Before(a, b, j) = i
    BY <1>6, <1>9, <2>1
  <2>3. d[a][b][j] \in X[a]
    BY <1>5, <2>1, <2>2
  <2>4. QED
    BY <2>2, <2>3, ChosenAre
<1>10. \A m : m \in Chosen(d, R, X) \/ m \in Chosen(c, R, X) =>
         \E a, b \in R : \E j : m = << a, b, j >>
  <2>1. \A m \in Chosen(d, R, X) : \E a, b \in R : \E j : m = << a, b, j >>
    BY ChosenAre
  <2>2. \A m \in Chosen(c, R, X) : \E a, b \in R : \E j : m = << a, b, j >>
    BY ChosenAre
  <2>3. QED
    BY <2>1, <2>2
<1>e. ASSUME NEW m \in Chosen(d, R, X)
      PROVE  \E x \in Chosen(c, R, X) : x # << q, p, k >>
  <2>1. PICK a \in R, b \in R : \E j : m = << a, b, j >>
    BY <1>10
  <2>2. PICK j : m = << a, b, j >>
    BY <2>1
  <2>3. /\ << a, b, Before(a, b, j) >> \in Chosen(c, R, X)
        /\ << a, b, Before(a, b, j) >> # << q, p, k >>
    BY <1>8, <2>2
  <2>4. QED
    BY <2>3
<1>11. Chosen(c, R, X) = {} => Chosen(d, R, X) = {}
  BY <1>e
<1>12. c[q][p][k] \in X[q] /\ Singleton(Chosen(c, R, X)) => Chosen(d, R, X) = {}
  <2>1. SUFFICES ASSUME c[q][p][k] \in X[q], NEW x, Chosen(c, R, X) = {x}
                 PROVE  Chosen(d, R, X) = {}
    BY DEF Singleton
  <2>2. << q, p, k >> \in Chosen(c, R, X)
    BY <2>1, ChosenAre
  <2>3. Chosen(c, R, X) = {<< q, p, k >>}
    BY <2>1, <2>2
  <2>4. QED
    BY <1>e, <2>3
<1>13. c[q][p][k] \notin X[q] /\ Singleton(Chosen(c, R, X)) => Singleton(Chosen(d, R, X))
  <2>1. SUFFICES ASSUME c[q][p][k] \notin X[q], NEW x, Chosen(c, R, X) = {x}
                 PROVE  Singleton(Chosen(d, R, X))
    BY DEF Singleton
  <2>2. << q, p, k >> \notin Chosen(c, R, X)
    BY <2>1, ChosenAre
  <2>a. PICK a \in R, b \in R : \E i : x = << a, b, i >>
    BY <1>10, <2>1
  <2>3. PICK i : x = << a, b, i >>
    BY <2>a
  <2>4. PICK j : << a, b, j >> \in Chosen(d, R, X)
    BY <1>9, <2>1, <2>2, <2>3
  <2>5. ASSUME NEW m \in Chosen(d, R, X) PROVE m = << a, b, j >>
    <3>1. PICK e \in R, f \in R : \E l : m = << e, f, l >>
      BY <1>10
    <3>2. PICK l : m = << e, f, l >>
      BY <3>1
    <3>3. /\ << e, f, Before(e, f, l) >> = << a, b, i >>
          /\ << a, b, Before(a, b, j) >> = << a, b, i >>
      BY <1>8, <2>1, <2>3, <2>4, <3>2
    <3>4. e = a /\ f = b /\ Before(a, b, l) = Before(a, b, j)
      BY <3>3
    <3>5. l \in DOMAIN d[a][b] /\ j \in DOMAIN d[a][b]
      BY <1>8, <2>4, <3>2, <3>4
    <3>6. QED
      BY <1>7, <3>2, <3>4, <3>5
  <2>6. QED
    BY <2>4, <2>5 DEF Singleton
<1>14. QED
  BY <1>4, <1>11, <1>12, <1>13 DEF Network

-----------------------------------------------------------------------------
(* The steps of the master and of its workers.                             *)

\* The tags of a task and of the message that stops a worker, by language.
WorkTag == IF job.lang = "C" THEN WORK_TAG ELSE WORKTAG
DoneTag == IF job.lang = "C" THEN DONE_TAG ELSE DIETAG

\* An even positive number is twice a positive number.
LEMMA Halved ==
    ASSUME NEW k \in Nat \ {0}, ~Odd(k)
    PROVE  \E b \in Nat : k = 2 * b /\ b > 0
<1>1. PICK b \in Nat : k = 2 * b
  BY DEF Odd
<1>2. QED
  BY <1>1

\* The three instructions of a worker that was given a task.
LEMMA Serving ==
    ASSUME NEW a, NEW b, NEW c, NEW s, s = << a >> \o << b, c >>
    PROVE  DOMAIN s = 1 .. 3 /\ Len(s) = 3 /\ s[1] = a /\ s[2] = b /\ s[3] = c
<1> DEFINE S == {a, b, c}
           x == << a >>
           y == << b, c >>
<1>1. x \in Seq(S) /\ Len(x) = 1 /\ x[1] = a
  OBVIOUS
<1>2. y \in Seq(S) /\ Len(y) = 2 /\ y[1] = b /\ y[2] = c
  OBVIOUS
<1>3. s = x \o y
  OBVIOUS
<1> HIDE DEF x, y, S
<1>4. s \in Seq(S) /\ Len(s) = 3
  BY <1>1, <1>2, <1>3
<1>5. s[1] = x[1] /\ s[2] = y[1] /\ s[3] = y[2]
  BY <1>1, <1>2, <1>3
<1>6. QED
  BY <1>1, <1>2, <1>4, <1>5

\* Two of the sends of the master never hand out the same task.
LEMMA TasksDiffer ==
    ASSUME NEW n \in Nat \ {0}, NEW k \in 1 .. 9 * (n - 1), NEW j \in 1 .. k - 1,
           OpAt(n, j) = "send", OpAt(n, k) = "send", TaskAt(n, k) # 0
    PROVE  TaskAt(n, j) # TaskAt(n, k)
<1>1. PICK c \in Nat : c = n - 1
  OBVIOUS
<1>2. CASE k <= c
  BY <1>1, <1>2 DEF TaskAt
<1>3. CASE k > c /\ k <= 7 * c
  <2>1. PICK b \in Nat : k - c = 2 * b /\ b > 0
    <3>1. k - c \in Nat \ {0} /\ ~Odd(k - c)
      BY <1>1, <1>3 DEF OpAt
    <3>2. QED
      BY <3>1, Halved
  <2>2. TaskAt(n, k) = b + c
    BY <1>1, <1>3, <2>1 DEF TaskAt
  <2>3. CASE j <= c
    <3>1. TaskAt(n, j) = j
      BY <1>1, <2>3 DEF TaskAt
    <3>2. QED
      BY <2>1, <2>2, <2>3, <3>1
  <2>4. CASE j > c
    <3>1. PICK a \in Nat : j - c = 2 * a
      <4>1. j - c \in Nat \ {0} /\ ~Odd(j - c)
        BY <1>1, <1>3, <2>4 DEF OpAt
      <4>2. QED
        BY <4>1, Halved
    <3>2. TaskAt(n, j) = a + c
      BY <1>1, <1>3, <2>4, <3>1 DEF TaskAt
    <3>3. a < b
      BY <2>1, <3>1
    <3>4. QED
      BY <2>2, <3>2, <3>3
  <2>5. QED
    BY <1>1, <2>3, <2>4
<1>4. CASE k > 7 * c
  BY <1>1, <1>4 DEF TaskAt
<1>5. QED
  BY <1>1, <1>2, <1>3, <1>4

\* What the master sends at any position is a number.
LEMMA TasksAreNumbers ==
    ASSUME NEW n \in Nat \ {0}, NEW k \in 1 .. 9 * (n - 1)
    PROVE  TaskAt(n, k) \in Nat
  BY DEF TaskAt

\* The languages of the task queue, and what its processes execute.
LEMMA TaskCode ==
    ASSUME job \in Jobs, TaskJob
    PROVE  /\ job.np \in Nat \ {0}
           /\ \E recvTag : Code(MASTER) = HandOut(job.np, mem[MASTER], WorkTag, recvTag, DoneTag)
           /\ \A w \in Ranks \ {MASTER} :
                \E replyTag \in Int : Code(w) = Serve(mem[w], replyTag, DoneTag)
<1>1. /\ job.np \in Nat \ {0}
      /\ job.lang \in {"C", "Java", "Python"}
  <2>1. job.lang \in {"C", "Java", "Array", "Python"} /\ job.prog \in Programs[job.lang]
    BY JobsAssumption
  <2>2. job.lang # "Array"
    <3>1. SUFFICES ASSUME job.lang = "Array" PROVE FALSE
      OBVIOUS
    <3>2. "taskQueue" \in Programs["Array"]
      BY <2>1, <3>1 DEF TaskJob
    <3>3. Programs["Array"] = {"deadlock", "exchange", "exchange2", "ring", "broadcast",
                               "broadcast2"} \cup {"ringAlt"}
      BY DEF Programs
    <3>4. QED
      BY <3>2, <3>3
  <2>3. QED
    BY <2>1, <2>2, JobsAssumption
<1>2. CASE job.lang = "C"
  <2>1. \A p : Code(p) = taskQueue(p, job.np, mem[p])
    BY <1>2 DEF Code, CCode, TaskJob
  <2>2. QED
    BY <1>1, <1>2, <2>1
    DEF taskQueue, handOutTasks, performWork, WorkTag, DoneTag, WORK_TAG
<1>3. CASE job.lang = "Java"
  <2>1. \A p : Code(p) = JavaDynamicLoadBalance(p, job.np, mem[p])
    BY <1>3 DEF Code, JavaCode, TaskJob
  <2>2. QED
    BY <1>1, <1>3, <2>1
    DEF JavaDynamicLoadBalance, JavaHandOutWork, JavaWorker, WorkTag, DoneTag, WORKTAG
<1>4. CASE job.lang = "Python"
  <2>1. \A p : Code(p) = PyDynamicLoadBalance(p, job.np, mem[p])
    BY <1>4 DEF Code, PyCode, TaskJob
  <2>2. QED
    BY <1>1, <1>4, <2>1
    DEF PyDynamicLoadBalance, PyHandOutWork, PyWorker, WorkTag, DoneTag, WORKTAG,
        DIETAG, PyWORKTAG, PyDIETAG
<1>5. QED
  BY <1>1, <1>2, <1>3, <1>4

\* The master's next instruction is the one its position calls for.
LEMMA MasterStep ==
    ASSUME job \in Jobs, TaskJob, pc[MASTER] \in Nat \ {0}, NEW i \in Current(MASTER)
    PROVE  /\ phase[MASTER] = "run" /\ pc[MASTER] \in 1 .. 9 * (job.np - 1)
           /\ i.op = OpAt(job.np, pc[MASTER])
           /\ i.op = "recv" => i.var = "out"
           /\ i.op = "send" =>
                /\ i.val = << TaskAt(job.np, pc[MASTER]) >>
                /\ i.tag = IF TaskAt(job.np, pc[MASTER]) # 0 THEN WorkTag ELSE DoneTag
                /\ i.to = ToAt(job.np, pc[MASTER], mem[MASTER].src)
<1>1. PICK recvTag : Code(MASTER) = HandOut(job.np, mem[MASTER], WorkTag, recvTag, DoneTag)
  BY TaskCode
<1>2. phase[MASTER] = "run" /\ pc[MASTER] \in DOMAIN Code(MASTER) /\ i = Code(MASTER)[pc[MASTER]]
  BY DEF Current
<1>3. job.np \in Nat \ {0}
  BY TaskCode
<1> DEFINE code == Code(MASTER)
           n == job.np
<1>4. /\ DOMAIN code = 1 .. 9 * (n - 1)
      /\ \A k \in 1 .. 9 * (n - 1) :
           /\ code[k].op = OpAt(n, k)
           /\ OpAt(n, k) = "recv" => code[k].var = "out"
           /\ OpAt(n, k) = "send" =>
                /\ code[k].val = << TaskAt(n, k) >>
                /\ code[k].tag = IF TaskAt(n, k) # 0 THEN WorkTag ELSE DoneTag
                /\ code[k].to = ToAt(n, k, mem[MASTER].src)
  BY <1>1, <1>3, HandOutShape
<1>5. QED
  BY <1>2, <1>4

\* A worker's: receive, answer, start again.
LEMMA WorkerStep ==
    ASSUME job \in Jobs, TaskJob, NEW w \in Ranks \ {MASTER}, pc[w] \in Nat \ {0},
           NEW i \in Current(w)
    PROVE  /\ phase[w] = "run"
           /\ \/ /\ pc[w] = 1 /\ i.op = "recv"
                 /\ i.var = "part" /\ i.from = MASTER /\ i.tag = AnyTag
              \/ /\ pc[w] = 2 /\ mem[w].tag # DoneTag
                 /\ i.op = "send" /\ i.val = mem[w].part /\ i.to = MASTER /\ i.tag \in Int
              \/ pc[w] = 3 /\ i.op = "goto" /\ i.to = 1
<1>1. PICK replyTag \in Int : Code(w) = Serve(mem[w], replyTag, DoneTag)
  BY TaskCode
<1>2. phase[w] = "run" /\ pc[w] \in DOMAIN Code(w) /\ i = Code(w)[pc[w]]
  BY DEF Current
<1>3. CASE mem[w].tag = DoneTag
  <2>1. Code(w) = << Recv("part", MASTER, AnyTag) >>
    BY <1>1, <1>3 DEF Serve
  <2>2. pc[w] = 1 /\ i = Recv("part", MASTER, AnyTag)
    BY <1>2, <2>1
  <2>3. QED
    BY <1>2, <2>2 DEF Recv
<1>4. CASE mem[w].tag # DoneTag
  <2>0. Code(w) = << Recv("part", MASTER, AnyTag) >>
                    \o << Send(mem[w].part, MASTER, replyTag), Goto(1) >>
    BY <1>1, <1>4 DEF Serve
  <2>1. /\ DOMAIN Code(w) = 1 .. 3 /\ Len(Code(w)) = 3
        /\ Code(w)[1] = Recv("part", MASTER, AnyTag)
        /\ Code(w)[2] = Send(mem[w].part, MASTER, replyTag)
        /\ Code(w)[3] = Goto(1)
    BY <2>0, Serving
  <2>2. pc[w] \in 1 .. 3
    BY <1>2, <2>1
  <2>3. CASE pc[w] = 1
    <3>1. i = Recv("part", MASTER, AnyTag)
      BY <1>2, <2>1, <2>3
    <3>2. QED
      BY <1>2, <2>3, <3>1 DEF Recv
  <2>4. CASE pc[w] = 2
    <3>1. i = Send(mem[w].part, MASTER, replyTag)
      BY <1>2, <2>1, <2>4
    <3>2. QED
      BY <1>1, <1>2, <1>4, <2>4, <3>1 DEF Send
  <2>5. CASE pc[w] = 3
    <3>1. i = Goto(1)
      BY <1>2, <2>1, <2>5
    <3>2. QED
      BY <1>2, <2>5, <3>1 DEF Goto
  <2>6. QED
    BY <2>2, <2>3, <2>4, <2>5
<1>5. QED
  BY <1>3, <1>4

\* Whether a worker goes on after a message depends on its tag.
LEMMA WorkerLength ==
    ASSUME job \in Jobs, TaskJob, NEW w \in Ranks \ {MASTER}
    PROVE  Len(Code(w)) = 3 <=> mem[w].tag # DoneTag
<1>1. PICK replyTag \in Int : Code(w) = Serve(mem[w], replyTag, DoneTag)
  BY TaskCode
<1>3. CASE mem[w].tag = DoneTag
  <2>1. Code(w) = << Recv("part", MASTER, AnyTag) >>
    BY <1>1, <1>3 DEF Serve
  <2>2. QED
    BY <1>3, <2>1
<1>4. CASE mem[w].tag # DoneTag
  <2>0. Code(w) = << Recv("part", MASTER, AnyTag) >>
                    \o << Send(mem[w].part, MASTER, replyTag), Goto(1) >>
    BY <1>1, <1>4 DEF Serve
  <2>1. /\ DOMAIN Code(w) = 1 .. 3 /\ Len(Code(w)) = 3
        /\ Code(w)[1] = Recv("part", MASTER, AnyTag)
        /\ Code(w)[2] = Send(mem[w].part, MASTER, replyTag)
        /\ Code(w)[3] = Goto(1)
    BY <2>0, Serving
  <2>2. QED
    BY <1>4, <2>1
<1>5. QED
  BY <1>3, <1>4

-----------------------------------------------------------------------------
(* The invariant of the task queue.                                        *)

\* What the messages of the task queue and the memories of its processes
\* hold: a message carries one number.
Payload == { s \in Seq(Nat) : Len(s) = 1 }
Message == [tag : Int, val : Payload, sync : BOOLEAN]
Memory  == [buf : Seq(Int), part : Seq(Nat), all : Seq(Int), out : Seq(Nat),
            src : Int, tag : Int]

\* And it is one of the jobs started.
TaskState == job \in Jobs /\ TaskJob

\* The types of its state: nobody is ever in a collective.
TaskTyped ==
  /\ pc \in [Ranks -> Nat \ {0}]
  /\ phase \in [Ranks -> {"run", "send"}]
  /\ mem \in [Ranks -> Memory]
  /\ chan \in [Ranks -> [Ranks -> Seq(Message)]]

\* The master stays within its program; a worker waits with its answer only
\* at its second instruction, and has a task there unless it was told to stop.
TaskControl ==
  /\ pc[MASTER] <= 9 * (job.np - 1) + 1
  /\ phase[MASTER] = "send" => pc[MASTER] <= 9 * (job.np - 1)
  /\ \A w \in Ranks \ {MASTER} :
       /\ phase[w] = "send" => pc[w] = 2
       /\ pc[w] = 2 /\ mem[w].tag # DoneTag => mem[w].part \in Payload

\* No task travels as a message to stop; a process in a synchronous send has
\* one message under way that it waits for, the others have none.
Misleading ==
  [a \in Ranks |-> IF a = MASTER THEN { msg \in Message : msg.val # << 0 >> /\ msg.tag = DoneTag }
                                 ELSE {}]
SyncOf(p) == [a \in Ranks |-> IF a = p THEN { msg \in Message : msg.sync } ELSE {}]

TaskNetwork ==
  /\ Chosen(chan, Ranks, Misleading) = {}
  /\ \A p \in Ranks : IF phase[p] = "send" THEN Singleton(Chosen(chan, Ranks, SyncOf(p)))
                                           ELSE Chosen(chan, Ranks, SyncOf(p)) = {}

\* The tasks the master has sent, and where each of them is.
LastSent == IF phase[MASTER] = "send" THEN pc[MASTER] ELSE pc[MASTER] - 1
Sent(t)  == \E j \in 1 .. LastSent : OpAt(job.np, j) = "send" /\ TaskAt(job.np, j) = t

\* The workers that hold a task; a task is nowhere, or in one place only.
Holders(t) == { w \in Ranks : Holds(w, t) }
NoPlace(t)  == Collected(t) = {} /\ Holders(t) = {} /\ Carrying(t) = {}
OnePlace(t) == \/ Singleton(Collected(t)) /\ Holders(t) = {} /\ Carrying(t) = {}
               \/ Collected(t) = {} /\ Singleton(Holders(t)) /\ Carrying(t) = {}
               \/ Collected(t) = {} /\ Holders(t) = {} /\ Singleton(Carrying(t))

\* What was sent is in one place, and what was not is nowhere.
TaskPlaces ==
  \A t \in 1 .. NumTasks(job.np) : IF Sent(t) THEN OnePlace(t) ELSE NoPlace(t)

\* The inductive invariant; of other jobs it says nothing.
TaskInv ==
  /\ job \in Jobs
  /\ TaskJob => TaskTyped /\ TaskControl /\ TaskNetwork /\ TaskPlaces
\* The messages that carry a task.
With(t) == [a \in Ranks |-> { msg \in Message : msg.val = << t >> }]

\* The two descriptions the proof works with in place of Carrying and Holds.
CarryingChosen == \A t : Carrying(t) = Chosen(chan, Ranks, With(t))
HoldersAre ==
  \A t, w : w \in Holders(t) <=> /\ w \in Ranks \ {MASTER}
                                 /\ pc[w] = 2 /\ phase[w] = "run"
                                 /\ mem[w].tag # DoneTag /\ mem[w].part = << t >>

\* Who holds a task, without the worker's code: it was not told to stop.
LEMMA HoldersKnown == TaskState => HoldersAre
<1> SUFFICES ASSUME TaskState, NEW t, NEW w
             PROVE  w \in Holders(t) <=> /\ w \in Ranks \ {MASTER}
                                         /\ pc[w] = 2 /\ phase[w] = "run"
                                         /\ mem[w].tag # DoneTag /\ mem[w].part = << t >>
  BY DEF HoldersAre
<1>1. CASE w \in Ranks \ {MASTER}
  <2>1. Len(Code(w)) = 3 <=> mem[w].tag # DoneTag
    BY <1>1, WorkerLength DEF TaskState
  <2>2. QED
    BY <1>1, <2>1 DEF Holders, Holds
<1>2. CASE w \notin Ranks \ {MASTER}
  BY <1>2 DEF Holders, Holds
<1>3. QED
  BY <1>1, <1>2

\* The messages with a task are a choice by content.
LEMMA CarryingKnown == TaskTyped => CarryingChosen
<1> SUFFICES ASSUME TaskTyped, NEW t PROVE Carrying(t) = Chosen(chan, Ranks, With(t))
  BY DEF CarryingChosen
<1>1. Messages = Slots(chan, Ranks)
  BY DEF Messages, Slots
<1>2. ASSUME NEW m \in Slots(chan, Ranks)
      PROVE  chan[m[1]][m[2]][m[3]].val = << t >> <=> chan[m[1]][m[2]][m[3]] \in With(t)[m[1]]
  <2>1. PICK p \in Ranks, q \in Ranks : m \in { << p, q, k >> : k \in DOMAIN chan[p][q] }
    <3> DEFINE T(p, q) == { << p, q, k >> : k \in DOMAIN chan[p][q] }
    <3>1. Slots(chan, Ranks) = UNION { T(p, q) : p, q \in Ranks }
      BY DEF Slots
    <3>2. \E p, q \in Ranks : m \in T(p, q)
      <4> HIDE DEF T
      <4>1. QED
        BY <1>2, <3>1
    <3>3. QED
      BY <3>2
  <2>2. PICK k \in DOMAIN chan[p][q] : m = << p, q, k >>
    BY <2>1
  <2>3. m[1] = p /\ m[2] = q /\ m[3] = k
    BY <2>2
  <2>4. chan[p][q][k] \in Message
    BY <2>2 DEF TaskTyped
  <2>5. With(t)[p] = { msg \in Message : msg.val = << t >> }
    BY DEF With
  <2>6. QED
    BY <2>3, <2>4, <2>5
<1>3. QED
  BY <1>1, <1>2 DEF Carrying, Chosen

\* The two facts, for the next state.
LEMMA KnownNext ==
    /\ TaskState' => HoldersAre'
    /\ TaskTyped' => CarryingChosen'
  BY HoldersKnown, CarryingKnown, PTL

\* The master is among the processes.
LEMMA MasterRank == TaskState => MASTER \in Ranks /\ job.np \in Nat \ {0} /\ Ranks \subseteq Nat
  BY JobsAssumption DEF TaskState, MASTER, Ranks

\* What depends on the job only.
LEMMA Same == job' = job => /\ Ranks' = Ranks /\ (TaskState' <=> TaskState)
                            /\ DoneTag' = DoneTag /\ Misleading' = Misleading
                            /\ \A p : SyncOf(p)' = SyncOf(p) /\ With(p)' = With(p)
  BY DEF Ranks, TaskState, TaskJob, DoneTag, Misleading, SyncOf, With

\* What a send does to the network, and to the tasks in it.
LEMMA Sending ==
    ASSUME TaskState, TaskTyped, TaskNetwork,
           NEW p \in Ranks, NEW i, i.to \in Ranks, i.tag \in Int, i.val \in Payload,
           p = MASTER /\ i.val # << 0 >> => i.tag # DoneTag,
           phase[p] = "run", NEW sync \in BOOLEAN,
           chan' = [chan EXCEPT ![p][i.to] =
                      Append(@, [tag |-> i.tag, val |-> i.val, sync |-> sync])],
           IF sync THEN phase' = [phase EXCEPT ![p] = "send"] /\ pc' = pc
                   ELSE pc' = [pc EXCEPT ![p] = @ + 1] /\ phase' = phase,
           job' = job, mem' = mem
    PROVE  /\ TaskTyped' /\ TaskNetwork'
           /\ \A t : /\ i.val # << t >> => Carrying(t)' = Carrying(t)
                     /\ i.val = << t >> /\ Carrying(t) = {} => Singleton(Carrying(t)')
<1>4. Ranks' = Ranks /\ Misleading' = Misleading /\ \A a : SyncOf(a)' = SyncOf(a) /\ With(a)' = With(a)
  BY Same
<1> DEFINE msg == [tag |-> i.tag, val |-> i.val, sync |-> sync]
           r == i.to
<1>1. msg \in Message /\ msg.tag = i.tag /\ msg.val = i.val /\ msg.sync = sync
  BY DEF Message
<1>2. /\ chan' = Added(chan, p, r, msg)
      /\ chan \in Network(Ranks, Message)
      /\ r \in Ranks
  BY DEF TaskTyped, Added, Network
<1> HIDE DEF msg, r
<1>3. /\ chan' \in Network(Ranks, Message)
      /\ \A X : /\ msg \notin X[p] => Chosen(chan', Ranks, X) = Chosen(chan, Ranks, X)
                /\ msg \in X[p] /\ Chosen(chan, Ranks, X) = {} => Singleton(Chosen(chan', Ranks, X))
  <2>1. ASSUME NEW X
        PROVE  /\ chan' \in Network(Ranks, Message)
               /\ msg \notin X[p] => Chosen(chan', Ranks, X) = Chosen(chan, Ranks, X)
               /\ msg \in X[p] /\ Chosen(chan, Ranks, X) = {} => Singleton(Chosen(chan', Ranks, X))
    <3>1. PICK R, M, c, d, e : R = Ranks /\ M = Message /\ c = chan /\ d = chan' /\ e = msg
      OBVIOUS
    <3>2. /\ c \in Network(R, M) /\ p \in R /\ r \in R /\ e \in M
          /\ d = Added(c, p, r, e)
      BY <1>1, <1>2, <3>1
    <3>3. /\ d \in Network(R, M)
          /\ e \notin X[p] => Chosen(d, R, X) = Chosen(c, R, X)
          /\ e \in X[p] /\ Chosen(c, R, X) = {} => Singleton(Chosen(d, R, X))
      BY <3>2, SendAdds
    <3>4. QED
      BY <3>1, <3>3
  <2>2. QED
    BY <2>1
<1>t. /\ pc \in [Ranks -> Nat \ {0}] /\ phase \in [Ranks -> {"run", "send"}]
      /\ mem \in [Ranks -> Memory]
  BY DEF TaskTyped
<1>5. TaskTyped'
  <2>1. pc' \in [Ranks -> Nat \ {0}]
    <3>1. pc[p] + 1 \in Nat \ {0}
      BY <1>t
    <3>2. pc' = pc \/ pc' = [pc EXCEPT ![p] = pc[p] + 1]
      OBVIOUS
    <3>3. QED
      BY <1>t, <3>1, <3>2
  <2>2. phase' \in [Ranks -> {"run", "send"}]
    BY <1>t
  <2>3. QED
    BY <1>3, <1>4, <1>t, <2>1, <2>2 DEF TaskTyped, Network
<1>6. Chosen(chan', Ranks, Misleading) = {}
  <2>1. msg \notin Misleading[p]
    BY <1>1 DEF Misleading
  <2>2. QED
    BY <1>3, <2>1 DEF TaskNetwork
<1>7. ASSUME NEW a \in Ranks
      PROVE  IF phase'[a] = "send" THEN Singleton(Chosen(chan', Ranks, SyncOf(a)))
                                   ELSE Chosen(chan', Ranks, SyncOf(a)) = {}
  <2>1. phase \in [Ranks -> {"run", "send"}]
    BY DEF TaskTyped
  <2>2. CASE a = p /\ sync
    <3>1. msg \in SyncOf(a)[p]
      BY <1>1, <2>2 DEF SyncOf
    <3>2. Chosen(chan, Ranks, SyncOf(a)) = {}
      BY <2>2 DEF TaskNetwork
    <3>3. QED
      BY <1>3, <2>1, <2>2, <3>1, <3>2
  <2>3. CASE ~(a = p /\ sync)
    <3>1. msg \notin SyncOf(a)[p]
      BY <1>1, <2>3 DEF SyncOf
    <3>2. phase'[a] = phase[a]
      BY <2>1, <2>3
    <3>3. QED
      BY <1>3, <3>1, <3>2 DEF TaskNetwork
  <2>4. QED
    BY <2>2, <2>3
<1>8. TaskNetwork'
  BY <1>4, <1>6, <1>7 DEF TaskNetwork
<1>9. ASSUME NEW t
      PROVE  /\ i.val # << t >> => Carrying(t)' = Carrying(t)
             /\ i.val = << t >> /\ Carrying(t) = {} => Singleton(Carrying(t)')
  <2>1. /\ Carrying(t) = Chosen(chan, Ranks, With(t))
        /\ Carrying(t)' = Chosen(chan', Ranks, With(t))
    <3>1. Carrying(t)' = Chosen(chan, Ranks, With(t))'
      BY <1>5, KnownNext DEF CarryingChosen
    <3>2. QED
      BY <1>4, <3>1, CarryingKnown DEF CarryingChosen
  <2>2. msg \in With(t)[p] <=> i.val = << t >>
    BY <1>1 DEF With
  <2>3. QED
    BY <1>3, <2>1, <2>2
<1>10. QED
  BY <1>5, <1>8, <1>9

\* p takes the k-th message that q sent it; q goes on if it waited for that.
Takes(p, q, k) ==
  /\ k \in DOMAIN chan[q][p]
  /\ chan' = [chan EXCEPT ![q][p] = RemoveAt(@, k)]
  /\ IF chan[q][p][k].sync
       THEN /\ pc' = [pc EXCEPT ![p] = @ + 1, ![q] = @ + 1]
            /\ phase' = [phase EXCEPT ![q] = "run"]
       ELSE pc' = [pc EXCEPT ![p] = @ + 1] /\ phase' = phase

\* What p has in its memory then.
Keeps(p, var, q, msg) ==
  mem' = [mem EXCEPT ![p][var] = IF var = "out" THEN mem[p].out \o msg.val ELSE msg.val,
                     ![p].src = q, ![p].tag = msg.tag]

\* A receive takes one message and keeps its content.
LEMMA ReceiveIs ==
    ASSUME NEW p \in Ranks, Receive(p)
    PROVE  \E i \in Current(p), q \in Ranks :
             /\ i.op = "recv" /\ i.from \in {q, AnySource}
             /\ \E k \in Earliest(i, q, p) :
                  Takes(p, q, k) /\ Keeps(p, i.var, q, chan[q][p][k])
<1>1. PICK i \in Current(p), q \in Ranks :
        /\ i.op = "recv" /\ i.from \in {q, AnySource}
        /\ \E k \in Earliest(i, q, p) :
             /\ Keeps(p, i.var, q, chan[q][p][k])
             /\ chan' = [chan EXCEPT ![q][p] = RemoveAt(@, k)]
             /\ IF chan[q][p][k].sync
                  THEN /\ pc' = [pc EXCEPT ![p] = @ + 1, ![q] = @ + 1]
                       /\ phase' = [phase EXCEPT ![q] = "run"]
                  ELSE pc' = [pc EXCEPT ![p] = @ + 1] /\ phase' = phase
  BY DEF Receive, Step, Keeps
<1>2. PICK k \in Earliest(i, q, p) :
        /\ Keeps(p, i.var, q, chan[q][p][k])
        /\ chan' = [chan EXCEPT ![q][p] = RemoveAt(@, k)]
        /\ IF chan[q][p][k].sync
             THEN /\ pc' = [pc EXCEPT ![p] = @ + 1, ![q] = @ + 1]
                  /\ phase' = [phase EXCEPT ![q] = "run"]
             ELSE pc' = [pc EXCEPT ![p] = @ + 1] /\ phase' = phase
  BY <1>1
<1>3. k \in DOMAIN chan[q][p]
  BY DEF Earliest
<1>4. Takes(p, q, k)
  BY <1>2, <1>3 DEF Takes
<1>5. QED
  BY <1>1, <1>2, <1>4

\* What a receive does to the network, and to the tasks in it.
LEMMA Receiving ==
    ASSUME TaskState, TaskTyped, TaskNetwork,
           NEW p \in Ranks, NEW q \in Ranks, NEW k, Takes(p, q, k), phase[p] = "run",
           job' = job, mem' \in [Ranks -> Memory]
    PROVE  /\ TaskTyped' /\ TaskNetwork'
           /\ chan[q][p][k] \in Message
           /\ chan[q][p][k].sync => phase[q] = "send" /\ p # q
           /\ q = MASTER /\ chan[q][p][k].val # << 0 >> => chan[q][p][k].tag # DoneTag
           /\ \A t : IF chan[q][p][k].val = << t >>
                       THEN /\ Carrying(t) # {}
                            /\ Singleton(Carrying(t)) => Carrying(t)' = {}
                       ELSE /\ Carrying(t) = {} => Carrying(t)' = {}
                            /\ Singleton(Carrying(t)) => Singleton(Carrying(t)')
<1> DEFINE msg == chan[q][p][k]
<1>1. /\ chan \in Network(Ranks, Message)
      /\ phase \in [Ranks -> {"run", "send"}]
      /\ pc \in [Ranks -> Nat \ {0}]
      /\ chan' = Taken(chan, q, p, k) /\ k \in DOMAIN chan[q][p]
  BY DEF TaskTyped, Taken, Network, Takes
<1>2. msg \in Message
  BY <1>1 DEF TaskTyped
<1>3. /\ chan' \in Network(Ranks, Message)
      /\ \A X : /\ Chosen(chan, Ranks, X) = {} => Chosen(chan', Ranks, X) = {}
                /\ msg \notin X[q] /\ Singleton(Chosen(chan, Ranks, X))
                     => Singleton(Chosen(chan', Ranks, X))
                /\ msg \in X[q] /\ Singleton(Chosen(chan, Ranks, X)) => Chosen(chan', Ranks, X) = {}
  <2>1. ASSUME NEW X
        PROVE  /\ chan' \in Network(Ranks, Message)
               /\ Chosen(chan, Ranks, X) = {} => Chosen(chan', Ranks, X) = {}
               /\ msg \notin X[q] /\ Singleton(Chosen(chan, Ranks, X))
                     => Singleton(Chosen(chan', Ranks, X))
               /\ msg \in X[q] /\ Singleton(Chosen(chan, Ranks, X)) => Chosen(chan', Ranks, X) = {}
    <3>1. PICK R, M, c, d : R = Ranks /\ M = Message /\ c = chan /\ d = chan'
      OBVIOUS
    <3>2. /\ c \in Network(R, M) /\ p \in R /\ q \in R /\ k \in DOMAIN c[q][p]
          /\ d = Taken(c, q, p, k)
      BY <1>1, <3>1
    <3>3. /\ d \in Network(R, M)
          /\ Chosen(c, R, X) = {} => Chosen(d, R, X) = {}
          /\ c[q][p][k] \notin X[q] /\ Singleton(Chosen(c, R, X)) => Singleton(Chosen(d, R, X))
          /\ c[q][p][k] \in X[q] /\ Singleton(Chosen(c, R, X)) => Chosen(d, R, X) = {}
      BY <3>2, ReceiveRemoves
    <3>4. QED
      BY <3>1, <3>3
  <2>2. QED
    BY <2>1
<1>4. Ranks' = Ranks /\ Misleading' = Misleading /\ \A a : SyncOf(a)' = SyncOf(a) /\ With(a)' = With(a)
  BY Same
<1>m. \A X : msg \in X[q] => Chosen(chan, Ranks, X) # {}
  BY <1>1, ChosenAre
<1>5. msg.sync => phase[q] = "send" /\ p # q
  <2>1. SUFFICES ASSUME msg.sync PROVE phase[q] = "send"
    OBVIOUS
  <2>2. msg \in SyncOf(q)[q]
    BY <1>2, <2>1 DEF SyncOf
  <2>3. Chosen(chan, Ranks, SyncOf(q)) # {}
    BY <1>m, <2>2
  <2>4. QED
    BY <2>3 DEF TaskNetwork
<1>6. q = MASTER /\ msg.val # << 0 >> => msg.tag # DoneTag
  <2>1. msg \notin Misleading[q]
    BY <1>m DEF TaskNetwork
  <2>2. QED
    BY <1>2, <2>1 DEF Misleading
<1> HIDE DEF msg
<1>7. TaskTyped'
  <2>1. pc' \in [Ranks -> Nat \ {0}]
    <3> USE DEF Takes
    <3>1. CASE msg.sync
      <4>1. pc' = [pc EXCEPT ![p] = @ + 1, ![q] = @ + 1]
        BY <1>2, <3>1 DEF msg
      <4>2. p # q
        BY <1>5, <3>1
      <4>3. pc[p] + 1 \in Nat \ {0} /\ pc[q] + 1 \in Nat \ {0}
        BY <1>1
      <4>4. QED
        BY <1>1, <4>1, <4>2, <4>3
    <3>2. CASE ~msg.sync
      <4>1. pc' = [pc EXCEPT ![p] = @ + 1]
        BY <3>2 DEF msg
      <4>2. pc[p] + 1 \in Nat \ {0}
        BY <1>1
      <4>3. QED
        BY <1>1, <4>1, <4>2
    <3>3. QED
      BY <3>1, <3>2
  <2>2. phase' \in [Ranks -> {"run", "send"}]
    BY <1>1 DEF Takes
  <2>3. QED
    BY <1>3, <1>4, <2>1, <2>2 DEF TaskTyped, Network
<1>8. ASSUME NEW a \in Ranks
      PROVE  IF phase'[a] = "send" THEN Singleton(Chosen(chan', Ranks, SyncOf(a)))
                                   ELSE Chosen(chan', Ranks, SyncOf(a)) = {}
  <2>1. CASE a = q /\ msg.sync
    <3>1. msg \in SyncOf(a)[q]
      BY <1>2, <2>1 DEF SyncOf
    <3>2. Singleton(Chosen(chan, Ranks, SyncOf(a)))
      BY <1>5, <2>1 DEF TaskNetwork
    <3>3. phase'[a] = "run"
      BY <1>1, <2>1 DEF msg, Takes
    <3>4. QED
      BY <1>3, <3>1, <3>2, <3>3
  <2>2. CASE ~(a = q /\ msg.sync)
    <3>1. msg \notin SyncOf(a)[q]
      BY <1>2, <2>2 DEF SyncOf
    <3>2. phase'[a] = phase[a]
      BY <1>1, <2>2 DEF msg, Takes
    <3>3. QED
      BY <1>3, <3>1, <3>2 DEF TaskNetwork
  <2>3. QED
    BY <2>1, <2>2
<1>9. TaskNetwork'
  <2>1. Chosen(chan', Ranks, Misleading) = {}
    BY <1>3 DEF TaskNetwork
  <2>2. QED
    BY <1>4, <1>8, <2>1 DEF TaskNetwork
<1>10. ASSUME NEW t
       PROVE  IF msg.val = << t >>
                THEN /\ Carrying(t) # {}
                     /\ Singleton(Carrying(t)) => Carrying(t)' = {}
                ELSE /\ Carrying(t) = {} => Carrying(t)' = {}
                     /\ Singleton(Carrying(t)) => Singleton(Carrying(t)')
  <2>1. /\ Carrying(t) = Chosen(chan, Ranks, With(t))
        /\ Carrying(t)' = Chosen(chan', Ranks, With(t))
    <3>1. Carrying(t)' = Chosen(chan, Ranks, With(t))'
      BY <1>7, KnownNext DEF CarryingChosen
    <3>2. QED
      BY <1>4, <3>1, CarryingKnown DEF CarryingChosen
  <2>2. msg \in With(t)[q] <=> msg.val = << t >>
    BY <1>2 DEF With
  <2>3. QED
    BY <1>3, <1>m, <2>1, <2>2
<1>11. QED
  BY <1>2, <1>5, <1>6, <1>7, <1>9, <1>10 DEF msg

-----------------------------------------------------------------------------
(* Every step keeps it.                                                    *)

\* Who holds a task depends on the worker's own state only.
LEMMA HolderUnchanged ==
    ASSUME TaskState, job' = job, NEW w \in Ranks,
           pc'[w] = pc[w], phase'[w] = phase[w], mem'[w] = mem[w]
    PROVE  \A t : w \in Holders(t)' <=> w \in Holders(t)
<1>1. Ranks' = Ranks /\ DoneTag' = DoneTag /\ TaskState'
  BY Same
<1>2. HoldersAre /\ HoldersAre'
  BY <1>1, HoldersKnown, KnownNext
<1>3. QED
  BY <1>1, <1>2 DEF HoldersAre

\* The master hands out the task at its position, which was nowhere before.
LEMMA MasterSends ==
    ASSUME TaskState, TaskTyped, TaskControl, TaskNetwork, TaskPlaces, SendMessage(MASTER)
    PROVE  TaskTyped' /\ TaskControl' /\ TaskNetwork' /\ TaskPlaces'
<1> DEFINE n == job.np
           at == pc[MASTER]
           v == TaskAt(n, at)
<1>1. PICK i \in Current(MASTER), sync \in BOOLEAN :
        /\ i.op = "send" /\ ~InvalidRank(i)
        /\ chan' = [chan EXCEPT ![MASTER][i.to] =
                      Append(@, [tag |-> i.tag, val |-> i.val, sync |-> sync])]
        /\ IF sync THEN phase' = [phase EXCEPT ![MASTER] = "send"] /\ pc' = pc
                   ELSE pc' = [pc EXCEPT ![MASTER] = @ + 1] /\ phase' = phase
  BY DEF SendMessage, Step
<1>2. job' = job /\ mem' = mem
  BY DEF SendMessage
<1>3. /\ MASTER \in Ranks /\ n \in Nat \ {0}
      /\ pc \in [Ranks -> Nat \ {0}] /\ phase \in [Ranks -> {"run", "send"}]
  BY MasterRank DEF TaskTyped
<1>4. /\ phase[MASTER] = "run" /\ at \in 1 .. 9 * (n - 1)
      /\ OpAt(n, at) = "send"
      /\ i.val = << v >>
      /\ i.tag = IF v # 0 THEN WorkTag ELSE DoneTag
  BY <1>1, <1>3, MasterStep DEF TaskState
<1>5. v \in Nat
  BY <1>3, <1>4, TasksAreNumbers
<1>6. /\ i.to \in Ranks /\ i.tag \in Int /\ i.val \in Payload
      /\ i.val # << 0 >> => i.tag # DoneTag
  <2>1. i.to \in Ranks
    BY <1>1 DEF InvalidRank
  <2>2. WorkTag \in Int /\ DoneTag \in Int /\ WorkTag # DoneTag
    BY DEF WorkTag, DoneTag, WORK_TAG, DONE_TAG, WORKTAG, DIETAG
  <2>3. << v >> \in Payload
    BY <1>5 DEF Payload
  <2>4. << v >> # << 0 >> => v # 0
    OBVIOUS
  <2>5. QED
    BY <1>4, <2>1, <2>2, <2>3, <2>4
<1> HIDE DEF at, v
<1>7. /\ TaskTyped' /\ TaskNetwork'
      /\ \A t : /\ i.val # << t >> => Carrying(t)' = Carrying(t)
                /\ i.val = << t >> /\ Carrying(t) = {} => Singleton(Carrying(t)')
  BY <1>1, <1>2, <1>3, <1>4, <1>6, Sending
<1>8. LastSent = at - 1 /\ LastSent' = at
  <2>1. CASE sync
    BY <1>1, <1>3, <1>4, <2>1 DEF LastSent, at
  <2>2. CASE ~sync
    BY <1>1, <1>3, <1>4, <2>2 DEF LastSent, at
  <2>3. QED
    BY <2>1, <2>2
<1>9. \A w \in Ranks \ {MASTER} : pc'[w] = pc[w] /\ phase'[w] = phase[w]
  BY <1>1, <1>3
<1>10. TaskControl'
  <2>1. pc'[MASTER] \in {at, at + 1} /\ (phase'[MASTER] = "send" => pc'[MASTER] = at)
    BY <1>1, <1>3, <1>4 DEF at
  <2>2. pc'[MASTER] <= 9 * (n - 1) + 1 /\ (phase'[MASTER] = "send" => pc'[MASTER] <= 9 * (n - 1))
    BY <1>3, <1>4, <2>1
  <2>3. Ranks' = Ranks /\ DoneTag' = DoneTag
    BY <1>2, Same
  <2>4. QED
    BY <1>2, <1>9, <2>2, <2>3 DEF TaskControl
<1>11. \A t : Sent(t)' <=> Sent(t) \/ t = v
  <2>1. \A t : Sent(t) <=> \E j \in 1 .. at - 1 : OpAt(n, j) = "send" /\ TaskAt(n, j) = t
    BY <1>8 DEF Sent
  <2>2. \A t : Sent(t)' <=> \E j \in 1 .. at : OpAt(n, j) = "send" /\ TaskAt(n, j) = t
    BY <1>2, <1>8 DEF Sent
  <2>3. \A j : j \in 1 .. at <=> j \in 1 .. at - 1 \/ j = at
    BY <1>4
  <2>4. QED
    BY <1>4, <2>1, <2>2, <2>3 DEF v
<1>12. v # 0 => ~Sent(v)
  <2>1. SUFFICES ASSUME v # 0, NEW j \in 1 .. at - 1, OpAt(n, j) = "send", TaskAt(n, j) = v
                 PROVE  FALSE
    BY <1>8 DEF Sent
  <2>2. QED
    BY <1>3, <1>4, <2>1, TasksDiffer DEF v
<1>13. \A t : Collected(t)' = Collected(t) /\ Holders(t)' = Holders(t)
  <2>1. \A t : Collected(t)' = Collected(t)
    BY <1>2 DEF Collected
  <2>2. Ranks' = Ranks
    BY <1>2, Same
  <2>3. \A w \in Ranks \ {MASTER} : \A t : w \in Holders(t)' <=> w \in Holders(t)
    BY <1>2, <1>9, HolderUnchanged
  <2>4. \A t : Holders(t) \subseteq Ranks \ {MASTER} /\ Holders(t)' \subseteq Ranks \ {MASTER}
    BY <2>2 DEF Holders, Holds
  <2>5. QED
    BY <2>1, <2>3, <2>4
<1>14. TaskPlaces'
  <2>1. ASSUME NEW t \in 1 .. NumTasks(n)
        PROVE  IF Sent(t)' THEN OnePlace(t)' ELSE NoPlace(t)'
    <3>1. IF Sent(t) THEN OnePlace(t) ELSE NoPlace(t)
      BY DEF TaskPlaces
    <3>2. CASE t = v
      <4>1. ~Sent(t) /\ Sent(t)' /\ i.val = << t >>
        BY <1>4, <1>11, <1>12, <3>2
      <4>2. NoPlace(t)
        BY <3>1, <4>1
      <4>3. QED
        BY <1>7, <1>13, <4>1, <4>2 DEF NoPlace, OnePlace
    <3>3. CASE t # v
      <4>1. i.val # << t >>
        BY <1>4, <3>3
      <4>2. Carrying(t)' = Carrying(t) /\ (Sent(t)' <=> Sent(t))
        BY <1>7, <1>11, <3>3, <4>1
      <4>3. QED
        BY <1>13, <3>1, <4>2 DEF NoPlace, OnePlace
    <3>4. QED
      BY <3>2, <3>3
  <2>2. QED
    BY <1>2, <2>1 DEF TaskPlaces
<1>15. QED
  BY <1>7, <1>10, <1>14

\* As long as the master is where it was, it has sent what it had.
LEMMA SentUnchanged ==
    ASSUME job' = job, LastSent' = LastSent
    PROVE  \A t : Sent(t)' <=> Sent(t)
  BY DEF Sent

\* A worker sends its answer: the task it held is in a message now.
LEMMA WorkerSends ==
    ASSUME TaskState, TaskTyped, TaskControl, TaskNetwork, TaskPlaces,
           NEW w \in Ranks \ {MASTER}, SendMessage(w)
    PROVE  TaskTyped' /\ TaskControl' /\ TaskNetwork' /\ TaskPlaces'
<1> DEFINE n == job.np
<1>1. PICK i \in Current(w), sync \in BOOLEAN :
        /\ i.op = "send" /\ ~InvalidRank(i)
        /\ chan' = [chan EXCEPT ![w][i.to] =
                      Append(@, [tag |-> i.tag, val |-> i.val, sync |-> sync])]
        /\ IF sync THEN phase' = [phase EXCEPT ![w] = "send"] /\ pc' = pc
                   ELSE pc' = [pc EXCEPT ![w] = @ + 1] /\ phase' = phase
  BY DEF SendMessage, Step
<1>2. job' = job /\ mem' = mem
  BY DEF SendMessage
<1>3. /\ MASTER \in Ranks /\ n \in Nat \ {0}
      /\ pc \in [Ranks -> Nat \ {0}] /\ phase \in [Ranks -> {"run", "send"}]
  BY MasterRank DEF TaskTyped
<1>4. /\ phase[w] = "run" /\ pc[w] = 2 /\ mem[w].tag # DoneTag
      /\ i.val = mem[w].part /\ i.to = MASTER /\ i.tag \in Int
  BY <1>1, <1>3, WorkerStep DEF TaskState
<1>5. i.val \in Payload
  BY <1>4 DEF TaskControl
<1>6. /\ TaskTyped' /\ TaskNetwork'
      /\ \A t : /\ i.val # << t >> => Carrying(t)' = Carrying(t)
                /\ i.val = << t >> /\ Carrying(t) = {} => Singleton(Carrying(t)')
  BY <1>1, <1>2, <1>3, <1>4, <1>5, Sending
<1>7. \A x \in Ranks \ {w} : pc'[x] = pc[x] /\ phase'[x] = phase[x]
  BY <1>1, <1>3
<1>8. Ranks' = Ranks /\ DoneTag' = DoneTag /\ TaskState'
  BY <1>2, Same
<1>9. /\ IF sync THEN phase'[w] = "send" /\ pc'[w] = 2 ELSE phase'[w] = "run" /\ pc'[w] = 3
      /\ ~(phase'[w] = "run" /\ pc'[w] = 2)
  BY <1>1, <1>3, <1>4
<1>10. TaskControl'
  <2>1. pc'[MASTER] = pc[MASTER] /\ phase'[MASTER] = phase[MASTER]
    BY <1>3, <1>7
  <2>2. ASSUME NEW x \in Ranks \ {MASTER}
        PROVE  /\ phase'[x] = "send" => pc'[x] = 2
               /\ pc'[x] = 2 /\ mem[x].tag # DoneTag => mem[x].part \in Payload
    <3>1. CASE x = w
      BY <1>4, <1>5, <1>9, <3>1
    <3>2. CASE x # w
      BY <1>7, <3>2 DEF TaskControl
    <3>3. QED
      BY <3>1, <3>2
  <2>3. QED
    BY <1>2, <1>8, <2>1, <2>2 DEF TaskControl
<1>11. \A t : Sent(t)' <=> Sent(t)
  <2>1. LastSent' = LastSent
    BY <1>3, <1>7 DEF LastSent
  <2>2. QED
    BY <1>2, <2>1, SentUnchanged
<1>12. \A t : Collected(t)' = Collected(t)
  BY <1>2 DEF Collected
<1>13. \A t : Holders(t)' = Holders(t) \ {w}
  <2>1. \A x \in Ranks \ {w} : \A t : x \in Holders(t)' <=> x \in Holders(t)
    BY <1>2, <1>7, HolderUnchanged
  <2>2. \A t : w \notin Holders(t)'
    BY <1>8, <1>9, KnownNext DEF HoldersAre
  <2>3. \A t : Holders(t) \subseteq Ranks /\ Holders(t)' \subseteq Ranks
    BY <1>8 DEF Holders
  <2>4. QED
    BY <2>1, <2>2, <2>3
<1>14. \A t : w \in Holders(t) <=> i.val = << t >>
  BY <1>4, HoldersKnown DEF HoldersAre
<1>15. TaskPlaces'
  <2>1. ASSUME NEW t \in 1 .. NumTasks(n)
        PROVE  IF Sent(t)' THEN OnePlace(t)' ELSE NoPlace(t)'
    <3>1. IF Sent(t) THEN OnePlace(t) ELSE NoPlace(t)
      BY DEF TaskPlaces
    <3>2. CASE i.val = << t >>
      <4>1. w \in Holders(t)
        BY <1>14, <3>2
      <4>2. Sent(t) /\ Collected(t) = {} /\ Holders(t) = {w} /\ Carrying(t) = {}
        BY <3>1, <4>1 DEF NoPlace, OnePlace, Singleton
      <4>3. Sent(t)' /\ Collected(t)' = {} /\ Holders(t)' = {} /\ Singleton(Carrying(t)')
        BY <1>6, <1>11, <1>12, <1>13, <3>2, <4>2
      <4>4. QED
        BY <4>3 DEF OnePlace
    <3>3. CASE i.val # << t >>
      <4>1. Holders(t)' = Holders(t)
        BY <1>13, <1>14, <3>3
      <4>2. QED
        BY <1>6, <1>11, <1>12, <3>1, <3>3, <4>1 DEF NoPlace, OnePlace
    <3>4. QED
      BY <3>2, <3>3
  <2>2. QED
    BY <1>2, <2>1 DEF TaskPlaces
<1>16. QED
  BY <1>6, <1>10, <1>15

\* A worker receives a task and holds it from then on, or is told to stop.
LEMMA WorkerReceives ==
    ASSUME TaskState, TaskTyped, TaskControl, TaskNetwork, TaskPlaces,
           NEW w \in Ranks \ {MASTER}, Receive(w)
    PROVE  TaskTyped' /\ TaskControl' /\ TaskNetwork' /\ TaskPlaces'
<1> DEFINE n == job.np
<1>0. /\ MASTER \in Ranks /\ n \in Nat \ {0}
      /\ pc \in [Ranks -> Nat \ {0}] /\ phase \in [Ranks -> {"run", "send"}]
      /\ mem \in [Ranks -> Memory]
  BY MasterRank DEF TaskTyped
<1>i. PICK i \in Current(w), q \in Ranks :
        /\ i.op = "recv" /\ i.from \in {q, AnySource}
        /\ \E k : Takes(w, q, k) /\ Keeps(w, i.var, q, chan[q][w][k])
  BY ReceiveIs
<1>1. PICK k : Takes(w, q, k) /\ Keeps(w, i.var, q, chan[q][w][k])
  BY <1>i
<1> DEFINE msg == chan[q][w][k]
<1>2. job' = job
  BY DEF Receive
<1>3. /\ phase[w] = "run" /\ pc[w] = 1 /\ i.var = "part" /\ q = MASTER
  <2>1. phase[w] = "run" /\ pc[w] = 1 /\ i.var = "part" /\ i.from = MASTER
    BY <1>0, <1>i, WorkerStep DEF TaskState
  <2>2. i.from = q \/ i.from = AnySource
    BY <1>i
  <2>3. MASTER # AnySource
    BY DEF MASTER, AnySource
  <2>4. QED
    BY <2>1, <2>2, <2>3
<1>4. msg \in Message /\ msg.val \in Seq(Nat) /\ msg.tag \in Int /\ q \in Int
  <2>0. k \in DOMAIN chan[q][w]
    BY <1>1 DEF Takes
  <2>1. msg \in Message
    BY <2>0 DEF TaskTyped
  <2>2. QED
    BY <1>3, <2>1 DEF Message, Payload, MASTER
<1>5. /\ mem' \in [Ranks -> Memory]
      /\ mem'[w].part = msg.val /\ mem'[w].tag = msg.tag
      /\ \A x \in Ranks \ {w} : mem'[x] = mem[x]
  <2>1. mem' = [mem EXCEPT ![w] = [@ EXCEPT !.part = msg.val, !.src = q, !.tag = msg.tag]]
    BY <1>0, <1>1, <1>3 DEF Keeps
  <2>2. [mem[w] EXCEPT !.part = msg.val, !.src = q, !.tag = msg.tag] \in Memory
    BY <1>0, <1>4 DEF Memory
  <2>3. QED
    BY <1>0, <2>1, <2>2 DEF Memory
<1>6. /\ TaskTyped' /\ TaskNetwork'
      /\ msg.sync => phase[q] = "send" /\ w # q
      /\ msg.val # << 0 >> => msg.tag # DoneTag
      /\ \A t : IF msg.val = << t >>
                  THEN /\ Carrying(t) # {}
                       /\ Singleton(Carrying(t)) => Carrying(t)' = {}
                  ELSE /\ Carrying(t) = {} => Carrying(t)' = {}
                       /\ Singleton(Carrying(t)) => Singleton(Carrying(t)')
  <2>1. Takes(w, q, k)
    BY <1>1
  <2>2. mem' \in [Ranks -> Memory] /\ phase[w] = "run"
    BY <1>3, <1>5
  <2>3. QED
    BY <1>2, <1>3, <2>1, <2>2, Receiving, SMTT(30)
<1>7. Ranks' = Ranks /\ DoneTag' = DoneTag /\ TaskState'
  BY <1>2, Same
<1> HIDE DEF msg
<1>8. /\ pc'[w] = 2 /\ phase'[w] = "run"
      /\ \A x \in Ranks \ {w, MASTER} : pc'[x] = pc[x] /\ phase'[x] = phase[x]
      /\ \/ /\ phase[MASTER] = "send"
            /\ pc'[MASTER] = pc[MASTER] + 1 /\ phase'[MASTER] = "run"
         \/ pc'[MASTER] = pc[MASTER] /\ phase'[MASTER] = phase[MASTER]
  <2>1. CASE msg.sync
    <3>1. /\ pc' = [pc EXCEPT ![w] = @ + 1, ![MASTER] = @ + 1]
          /\ phase' = [phase EXCEPT ![MASTER] = "run"]
      BY <1>1, <1>3, <2>1 DEF msg, Takes
    <3>2. QED
      BY <1>0, <1>3, <1>6, <2>1, <3>1
  <2>2. CASE ~msg.sync
    <3>1. pc' = [pc EXCEPT ![w] = @ + 1] /\ phase' = phase
      BY <1>1, <2>2 DEF msg, Takes
    <3>2. QED
      BY <1>0, <1>3, <3>1
  <2>3. QED
    BY <2>1, <2>2
<1>9. TaskControl'
  <2>1. /\ pc'[MASTER] <= 9 * (n - 1) + 1
        /\ phase'[MASTER] = "send" => pc'[MASTER] <= 9 * (n - 1)
    <3>1. pc[MASTER] \in Nat
      BY <1>0
    <3>2. QED
      BY <1>0, <1>8, <3>1 DEF TaskControl
  <2>2. ASSUME NEW x \in Ranks \ {MASTER}
        PROVE  /\ phase'[x] = "send" => pc'[x] = 2
               /\ pc'[x] = 2 /\ mem'[x].tag # DoneTag => mem'[x].part \in Payload
    <3>1. CASE x = w
      BY <1>4, <1>5, <1>8, <3>1 DEF Message
    <3>2. CASE x # w
      BY <1>5, <1>8, <3>2 DEF TaskControl
    <3>3. QED
      BY <3>1, <3>2
  <2>3. QED
    BY <1>2, <1>7, <2>1, <2>2 DEF TaskControl
<1>10. \A t : Sent(t)' <=> Sent(t)
  <2>1. LastSent' = LastSent
    <3>1. pc[MASTER] \in Nat
      BY <1>0
    <3>2. QED
      BY <1>8, <3>1 DEF LastSent
  <2>2. QED
    BY <1>2, <2>1, SentUnchanged
<1>11. \A t : Collected(t)' = Collected(t)
  <2>1. mem'[MASTER] = mem[MASTER]
    BY <1>0, <1>5
  <2>2. QED
    BY <2>1 DEF Collected
<1>12. \A t : Holders(t)' = IF msg.val = << t >> /\ msg.tag # DoneTag THEN Holders(t) \cup {w}
                                                                     ELSE Holders(t)
  <2>1. \A x \in Ranks \ {w, MASTER} : \A t : x \in Holders(t)' <=> x \in Holders(t)
    BY <1>2, <1>5, <1>8, HolderUnchanged
  <2>2. \A t : w \in Holders(t)' <=> msg.val = << t >> /\ msg.tag # DoneTag
    BY <1>5, <1>7, <1>8, KnownNext DEF HoldersAre
  <2>3. \A t : w \notin Holders(t)
    BY <1>3, HoldersKnown DEF HoldersAre
  <2>4. \A t : Holders(t) \subseteq Ranks \ {MASTER} /\ Holders(t)' \subseteq Ranks \ {MASTER}
    BY <1>7 DEF Holders, Holds
  <2>5. QED
    BY <2>1, <2>2, <2>3, <2>4
<1>13. TaskPlaces'
  <2>1. ASSUME NEW t \in 1 .. NumTasks(n)
        PROVE  IF Sent(t)' THEN OnePlace(t)' ELSE NoPlace(t)'
    <3>1. IF Sent(t) THEN OnePlace(t) ELSE NoPlace(t)
      BY DEF TaskPlaces
    <3>2. CASE msg.val = << t >>
      <4>1. msg.tag # DoneTag
        <5>1. << t >> # << 0 >>
          OBVIOUS
        <5>2. QED
          BY <1>6, <3>2, <5>1
      <4>2. /\ Carrying(t) # {}
            /\ Singleton(Carrying(t)) => Carrying(t)' = {}
        BY <1>6, <3>2
      <4>3. Sent(t) /\ Collected(t) = {} /\ Holders(t) = {} /\ Singleton(Carrying(t))
        BY <3>1, <4>2 DEF NoPlace, OnePlace
      <4>4. Sent(t)' /\ Collected(t)' = {} /\ Holders(t)' = {w} /\ Carrying(t)' = {}
        BY <1>10, <1>11, <1>12, <3>2, <4>1, <4>2, <4>3
      <4>5. QED
        BY <4>4 DEF OnePlace, Singleton
    <3>3. CASE msg.val # << t >>
      <4>1. /\ Carrying(t) = {} => Carrying(t)' = {}
            /\ Singleton(Carrying(t)) => Singleton(Carrying(t)')
        BY <1>6, <3>3
      <4>2. Holders(t)' = Holders(t)
        BY <1>12, <3>3
      <4>3. QED
        BY <1>10, <1>11, <3>1, <4>1, <4>2 DEF NoPlace, OnePlace
    <3>4. QED
      BY <3>2, <3>3
  <2>2. QED
    BY <1>2, <2>1 DEF TaskPlaces
<1>14. QED
  BY <1>6, <1>9, <1>13

\* The master receives an answer: the task is collected.
LEMMA MasterReceives ==
    ASSUME TaskState, TaskTyped, TaskControl, TaskNetwork, TaskPlaces, Receive(MASTER)
    PROVE  TaskTyped' /\ TaskControl' /\ TaskNetwork' /\ TaskPlaces'
<1> DEFINE n == job.np
<1>0. /\ MASTER \in Ranks /\ n \in Nat \ {0} /\ Ranks \subseteq Nat
      /\ pc \in [Ranks -> Nat \ {0}] /\ phase \in [Ranks -> {"run", "send"}]
      /\ mem \in [Ranks -> Memory]
  BY MasterRank DEF TaskTyped
<1>i. PICK i \in Current(MASTER), q \in Ranks :
        /\ i.op = "recv" /\ i.from \in {q, AnySource}
        /\ \E k : Takes(MASTER, q, k) /\ Keeps(MASTER, i.var, q, chan[q][MASTER][k])
  BY <1>0, ReceiveIs
<1>1. PICK k : Takes(MASTER, q, k) /\ Keeps(MASTER, i.var, q, chan[q][MASTER][k])
  BY <1>i
<1> DEFINE msg == chan[q][MASTER][k]
           out == mem[MASTER].out
<1>2. job' = job
  BY DEF Receive
<1>3. /\ phase[MASTER] = "run" /\ pc[MASTER] \in 1 .. 9 * (n - 1)
      /\ OpAt(n, pc[MASTER]) = "recv" /\ i.var = "out"
  BY <1>0, <1>i, MasterStep DEF TaskState
<1>4. msg \in Message /\ msg.val \in Seq(Nat) /\ Len(msg.val) = 1 /\ msg.tag \in Int /\ q \in Int
  <2>0. k \in DOMAIN chan[q][MASTER]
    BY <1>1 DEF Takes
  <2>1. msg \in Message
    <3>1. chan \in [Ranks -> [Ranks -> Seq(Message)]]
      BY DEF TaskTyped
    <3>2. chan[q][MASTER] \in Seq(Message)
      BY <1>0, <3>1
    <3>3. QED
      BY <2>0, <3>2
  <2>2. q \in Int
    BY <1>0
  <2>3. QED
    BY <2>1, <2>2 DEF Message, Payload
<1>5. out \in Seq(Nat)
  BY <1>0 DEF Memory
<1> HIDE DEF msg, out
<1>6. /\ mem' \in [Ranks -> Memory]
      /\ mem'[MASTER].out = out \o msg.val
      /\ \A x \in Ranks \ {MASTER} : mem'[x] = mem[x]
  <2>1. mem' = [mem EXCEPT ![MASTER] = [@ EXCEPT !.out = out \o msg.val, !.src = q, !.tag = msg.tag]]
    BY <1>0, <1>1, <1>3 DEF Keeps, msg, out
  <2>2. out \o msg.val \in Seq(Nat)
    BY <1>4, <1>5
  <2>3. [mem[MASTER] EXCEPT !.out = out \o msg.val, !.src = q, !.tag = msg.tag] \in Memory
    BY <1>0, <1>4, <2>2 DEF Memory
  <2>4. QED
    BY <1>0, <2>1, <2>3 DEF Memory
<1>7. /\ TaskTyped' /\ TaskNetwork'
      /\ msg.sync => phase[q] = "send" /\ MASTER # q
      /\ \A t : IF msg.val = << t >>
                  THEN /\ Carrying(t) # {}
                       /\ Singleton(Carrying(t)) => Carrying(t)' = {}
                  ELSE /\ Carrying(t) = {} => Carrying(t)' = {}
                       /\ Singleton(Carrying(t)) => Singleton(Carrying(t)')
  <2>1. MASTER \in Ranks /\ phase[MASTER] = "run" /\ mem' \in [Ranks -> Memory]
        /\ job' = job /\ Takes(MASTER, q, k)
    BY <1>0, <1>1, <1>2, <1>3, <1>6
  <2>2. QED
    BY <2>1, Receiving, Zenon DEF msg
<1>8. Ranks' = Ranks /\ DoneTag' = DoneTag /\ TaskState'
  BY <1>2, Same
<1>9. /\ pc'[MASTER] = pc[MASTER] + 1 /\ phase'[MASTER] = "run"
      /\ \A x \in Ranks \ {MASTER} :
           \/ pc'[x] = pc[x] /\ phase'[x] = phase[x]
           \/ phase[x] = "send" /\ pc'[x] = pc[x] + 1 /\ phase'[x] = "run"
  <2>1. CASE msg.sync
    <3>1. /\ pc' = [pc EXCEPT ![MASTER] = @ + 1, ![q] = @ + 1]
          /\ phase' = [phase EXCEPT ![q] = "run"]
      BY <1>1, <2>1 DEF msg, Takes
    <3>2. QED
      BY <1>0, <1>3, <1>7, <2>1, <3>1
  <2>2. CASE ~msg.sync
    <3>1. pc' = [pc EXCEPT ![MASTER] = @ + 1] /\ phase' = phase
      BY <1>1, <2>2 DEF msg, Takes
    <3>2. QED
      BY <1>0, <1>3, <3>1
  <2>3. QED
    BY <2>1, <2>2
<1>w. ASSUME NEW x \in Ranks \ {MASTER}
      PROVE  /\ phase'[x] = "send" => pc'[x] = 2
             /\ pc'[x] = 2 => pc[x] = 2 /\ phase'[x] = phase[x]
  <2>1. phase[x] = "send" => pc[x] = 2
    BY DEF TaskControl
  <2>2. QED
    BY <1>9, <2>1
<1>10. TaskControl'
  <2>1. /\ pc'[MASTER] <= 9 * (n - 1) + 1
        /\ phase'[MASTER] = "send" => pc'[MASTER] <= 9 * (n - 1)
    BY <1>0, <1>3, <1>9
  <2>2. ASSUME NEW x \in Ranks \ {MASTER}
        PROVE  /\ phase'[x] = "send" => pc'[x] = 2
               /\ pc'[x] = 2 /\ mem'[x].tag # DoneTag => mem'[x].part \in Payload
    BY <1>6, <1>w DEF TaskControl
  <2>3. QED
    BY <1>2, <1>8, <2>1, <2>2 DEF TaskControl
<1>11. \A t : Sent(t)' <=> Sent(t)
  <2>1. LastSent = pc[MASTER] - 1 /\ LastSent' = pc[MASTER]
    BY <1>0, <1>3, <1>9 DEF LastSent
  <2>2. \A j : j \in 1 .. pc[MASTER] <=> j \in 1 .. pc[MASTER] - 1 \/ j = pc[MASTER]
    BY <1>3
  <2>3. \A t : Sent(t) <=> \E j \in 1 .. pc[MASTER] - 1 : OpAt(n, j) = "send" /\ TaskAt(n, j) = t
    BY <2>1 DEF Sent
  <2>4. \A t : Sent(t)' <=> \E j \in 1 .. pc[MASTER] : OpAt(n, j) = "send" /\ TaskAt(n, j) = t
    BY <1>2, <2>1 DEF Sent
  <2>5. OpAt(n, pc[MASTER]) # "send"
    BY <1>3
  <2>6. QED
    BY <2>2, <2>3, <2>4, <2>5
<1>12. \A t : Holders(t)' = Holders(t)
  <2>1. ASSUME NEW x \in Ranks \ {MASTER}, NEW t
        PROVE  x \in Holders(t)' <=> x \in Holders(t)
    <3>1. pc'[x] = 2 /\ phase'[x] = "run" <=> pc[x] = 2 /\ phase[x] = "run"
      BY <1>0, <1>9, <1>w
    <3>2. mem'[x] = mem[x]
      BY <1>6
    <3>3. HoldersAre /\ HoldersAre'
      BY <1>8, HoldersKnown, KnownNext
    <3>4. QED
      BY <1>8, <3>1, <3>2, <3>3 DEF HoldersAre
  <2>2. \A t : Holders(t) \subseteq Ranks \ {MASTER} /\ Holders(t)' \subseteq Ranks \ {MASTER}
    BY <1>8 DEF Holders, Holds
  <2>3. QED
    BY <2>1, <2>2
<1>13. \A t : Collected(t)' = IF msg.val = << t >> THEN Collected(t) \cup {Len(out) + 1}
                                                  ELSE Collected(t)
  <2>1. /\ DOMAIN (out \o msg.val) = DOMAIN out \cup {Len(out) + 1}
        /\ Len(out) + 1 \notin DOMAIN out
        /\ \A j \in DOMAIN out : (out \o msg.val)[j] = out[j]
        /\ (out \o msg.val)[Len(out) + 1] = msg.val[1]
    <3>0. Len(out) \in Nat /\ DOMAIN out = 1 .. Len(out)
      BY <1>5
    <3>1. /\ Len(out \o msg.val) = Len(out) + 1
          /\ \A j \in 1 .. Len(out) + 1 : (out \o msg.val)[j] = IF j <= Len(out) THEN out[j]
                                                                ELSE msg.val[j - Len(out)]
          /\ out \o msg.val \in Seq(Nat)
      <4>1. msg.val \in Seq(Nat) /\ Len(msg.val) = 1
        BY <1>4
      <4>2. /\ out \o msg.val \in Seq(Nat)
            /\ Len(out \o msg.val) = Len(out) + Len(msg.val)
            /\ \A j \in 1 .. Len(out) + Len(msg.val) :
                 (out \o msg.val)[j] = IF j <= Len(out) THEN out[j] ELSE msg.val[j - Len(out)]
        BY <1>5, <4>1, ConcatProperties, Zenon
      <4>3. QED
        BY <4>1, <4>2
    <3>2. DOMAIN (out \o msg.val) = 1 .. Len(out) + 1
      BY <3>1
    <3> DEFINE l == Len(out)
    <3> HIDE DEF l
    <3>3. l \in Nat
      BY <3>0 DEF l
    <3>4. 1 .. l + 1 = 1 .. l \cup {l + 1} /\ l + 1 \notin 1 .. l
      BY <3>3
    <3>5. (l + 1) - l = 1 /\ l + 1 \in 1 .. l + 1 /\ ~(l + 1 <= l)
      BY <3>3
    <3>6. (out \o msg.val)[l + 1] = msg.val[1]
      BY <3>1, <3>5 DEF l
    <3>7. \A j \in DOMAIN out : (out \o msg.val)[j] = out[j]
      BY <3>0, <3>1
    <3>8. QED
      BY <3>0, <3>2, <3>4, <3>6, <3>7 DEF l
  <2>2. \A t : msg.val = << t >> <=> msg.val[1] = t
    <3>1. ASSUME NEW t, msg.val[1] = t PROVE msg.val = << t >>
      BY <1>4, <3>1
    <3>2. ASSUME NEW t, msg.val = << t >> PROVE msg.val[1] = t
      BY <3>2
    <3>3. QED
      BY <3>1, <3>2
  <2>3. \A t : Collected(t) = { j \in DOMAIN out : out[j] = t }
    BY DEF Collected, out
  <2>4. \A t : Collected(t)' = { j \in DOMAIN (out \o msg.val) : (out \o msg.val)[j] = t }
    BY <1>6 DEF Collected
  <2>5. QED
    BY <2>1, <2>2, <2>3, <2>4
<1>14. TaskPlaces'
  <2>1. ASSUME NEW t \in 1 .. NumTasks(n)
        PROVE  IF Sent(t)' THEN OnePlace(t)' ELSE NoPlace(t)'
    <3>1. IF Sent(t) THEN OnePlace(t) ELSE NoPlace(t)
      BY DEF TaskPlaces
    <3>2. CASE msg.val = << t >>
      <4>1. /\ Carrying(t) # {}
            /\ Singleton(Carrying(t)) => Carrying(t)' = {}
        BY <1>7, <3>2
      <4>2. Sent(t) /\ Collected(t) = {} /\ Holders(t) = {} /\ Singleton(Carrying(t))
        BY <3>1, <4>1 DEF NoPlace, OnePlace
      <4>3. Sent(t)' /\ Collected(t)' = {Len(out) + 1} /\ Holders(t)' = {} /\ Carrying(t)' = {}
        BY <1>11, <1>12, <1>13, <3>2, <4>1, <4>2
      <4>4. QED
        BY <4>3 DEF OnePlace, Singleton
    <3>3. CASE msg.val # << t >>
      <4>1. /\ Carrying(t) = {} => Carrying(t)' = {}
            /\ Singleton(Carrying(t)) => Singleton(Carrying(t)')
        BY <1>7, <3>3
      <4>2. Collected(t)' = Collected(t)
        BY <1>13, <3>3
      <4>3. QED
        BY <1>11, <1>12, <3>1, <4>1, <4>2 DEF NoPlace, OnePlace
    <3>4. QED
      BY <3>2, <3>3
  <2>2. QED
    BY <1>2, <2>1 DEF TaskPlaces
<1>15. QED
  BY <1>7, <1>10, <1>14

\* A worker starts again; nothing else moves.
LEMMA WorkerRepeats ==
    ASSUME TaskState, TaskTyped, TaskControl, TaskNetwork, TaskPlaces, NEW w \in Ranks, Local(w)
    PROVE  TaskTyped' /\ TaskControl' /\ TaskNetwork' /\ TaskPlaces'
<1>0. /\ MASTER \in Ranks
      /\ pc \in [Ranks -> Nat \ {0}] /\ phase \in [Ranks -> {"run", "send"}]
  BY MasterRank DEF TaskTyped
<1>1. PICK i \in Current(w) :
        \/ i.op = "compute" \/ i.op = "print"
        \/ i.op = "goto" /\ pc' = [pc EXCEPT ![w] = i.to] /\ mem' = mem
  BY DEF Local
<1>2. job' = job /\ phase' = phase /\ chan' = chan
  BY DEF Local
<1>3. w # MASTER
  <2>1. SUFFICES ASSUME w = MASTER PROVE FALSE
    OBVIOUS
  <2>2. i.op = OpAt(job.np, pc[MASTER])
    BY <1>0, <1>1, <2>1, MasterStep DEF TaskState
  <2>3. QED
    BY <1>1, <2>2 DEF OpAt
<1>4. phase[w] = "run" /\ pc[w] = 3 /\ i.op = "goto" /\ i.to = 1
  BY <1>0, <1>1, <1>3, WorkerStep DEF TaskState
<1>5. pc' = [pc EXCEPT ![w] = 1] /\ mem' = mem
  BY <1>1, <1>4
<1>6. Ranks' = Ranks /\ DoneTag' = DoneTag /\ TaskState' /\ Misleading' = Misleading
      /\ \A a : SyncOf(a)' = SyncOf(a)
  BY <1>2, Same
<1>7. TaskTyped'
  BY <1>0, <1>2, <1>5, <1>6 DEF TaskTyped
<1>8. TaskControl'
  <2>1. pc'[MASTER] = pc[MASTER]
    BY <1>0, <1>3, <1>5
  <2>2. \A x \in Ranks \ {MASTER} : IF x = w THEN pc'[x] = 1 ELSE pc'[x] = pc[x]
    BY <1>0, <1>5
  <2>3. QED
    BY <1>2, <1>4, <1>5, <1>6, <2>1, <2>2 DEF TaskControl
<1>9. TaskNetwork'
  BY <1>2, <1>6 DEF TaskNetwork
<1>10. \A t : Sent(t)' <=> Sent(t)
  <2>1. LastSent' = LastSent
    BY <1>0, <1>2, <1>3, <1>5 DEF LastSent
  <2>2. QED
    BY <1>2, <2>1, SentUnchanged
<1>11. \A t : Collected(t)' = Collected(t) /\ Carrying(t)' = Carrying(t)
  BY <1>2, <1>5, <1>6 DEF Collected, Carrying, Messages
<1>12. \A t : Holders(t)' = Holders(t)
  <2>1. \A x \in Ranks \ {w} : \A t : x \in Holders(t)' <=> x \in Holders(t)
    <3>1. \A x \in Ranks \ {w} : pc'[x] = pc[x]
      BY <1>0, <1>5
    <3>2. QED
      BY <1>2, <1>5, <3>1, HolderUnchanged
  <2>2. \A t : w \notin Holders(t) /\ w \notin Holders(t)'
    <3>1. pc[w] # 2 /\ pc'[w] # 2
      BY <1>0, <1>4, <1>5
    <3>2. QED
      BY <1>6, <3>1, HoldersKnown, KnownNext DEF HoldersAre
  <2>3. \A t : Holders(t) \subseteq Ranks /\ Holders(t)' \subseteq Ranks
    BY <1>6 DEF Holders
  <2>4. QED
    BY <2>1, <2>2, <2>3
<1>13. TaskPlaces'
  <2>1. ASSUME NEW t \in 1 .. NumTasks(job.np)
        PROVE  IF Sent(t)' THEN OnePlace(t)' ELSE NoPlace(t)'
    BY <1>10, <1>11, <1>12 DEF TaskPlaces, NoPlace, OnePlace
  <2>2. QED
    BY <1>2, <2>1 DEF TaskPlaces
<1>14. QED
  BY <1>7, <1>8, <1>9, <1>13

-----------------------------------------------------------------------------
(* The task queue conserves its tasks.                                     *)

\* At first nothing has been sent.
LEMMA TaskStarts == Init => TaskInv
<1> SUFFICES ASSUME Init, TaskJob
             PROVE  TaskTyped /\ TaskControl /\ TaskNetwork /\ TaskPlaces
  BY DEF TaskInv, Init
<1>1. MASTER \in Ranks /\ job.np \in Nat \ {0} /\ TaskState
  BY MasterRank DEF Init, TaskState
<1>2. Blank \in Memory /\ Blank.out = <<>>
  <2>1. Zeros(ARRAY_SIZE) \in Seq(Int)
    BY DEF Zeros, ARRAY_SIZE
  <2>2. AnySource \in Int /\ AnyTag \in Int
    BY DEF AnySource, AnyTag
  <2>3. <<>> \in Seq(Int) /\ <<>> \in Seq(Nat)
    OBVIOUS
  <2>4. QED
    BY <2>1, <2>2, <2>3 DEF Blank, Memory
<1>3. TaskTyped
  <2>1. [q \in Ranks |-> <<>>] \in [Ranks -> Seq(Message)]
    OBVIOUS
  <2>2. QED
    BY <1>2, <2>1 DEF Init, TaskTyped
<1>4. TaskControl
  <2>1. pc[MASTER] = 1 /\ phase[MASTER] = "run"
    BY <1>1 DEF Init
  <2>2. \A w \in Ranks : pc[w] = 1 /\ phase[w] = "run"
    BY DEF Init
  <2>3. QED
    BY <1>1, <2>1, <2>2 DEF TaskControl
<1>5. \A X : Chosen(chan, Ranks, X) = {}
  <2>1. \A p, q \in Ranks : DOMAIN chan[p][q] = {}
    BY DEF Init
  <2>2. QED
    BY <2>1, ChosenAre
<1>6. TaskNetwork
  BY <1>5 DEF TaskNetwork, Init
<1>7. ASSUME NEW t PROVE ~Sent(t) /\ NoPlace(t)
  <2>1. LastSent = 0
    BY <1>1 DEF LastSent, Init
  <2>2. Collected(t) = {}
    BY <1>1, <1>2 DEF Collected, Init
  <2>3. Carrying(t) = {}
    BY <1>3, <1>5, CarryingKnown DEF CarryingChosen
  <2>4. Holders(t) = {}
    BY DEF Holders, Holds, Init
  <2>5. QED
    BY <2>1, <2>2, <2>3, <2>4 DEF Sent, NoPlace
<1>8. QED
  BY <1>3, <1>4, <1>6, <1>7 DEF TaskPlaces

\* The programs of the task queue call no collective.
LEMMA NoCollectives ==
    ASSUME TaskState, TaskTyped, NEW p \in Ranks
    PROVE  ~EnterCollective(p) /\ ~LeaveCollective(p)
<1>1. MASTER \in Ranks /\ pc[p] \in Nat \ {0} /\ pc[MASTER] \in Nat \ {0} /\ phase[p] # "coll"
  BY MasterRank DEF TaskTyped
<1>2. ASSUME NEW i \in Current(p) PROVE i.op \in {"recv", "send", "goto"}
  <2>1. CASE p = MASTER
    <3>1. i.op = OpAt(job.np, pc[MASTER])
      BY <1>1, <2>1, MasterStep DEF TaskState
    <3>2. QED
      BY <3>1 DEF OpAt
  <2>2. CASE p # MASTER
    BY <1>1, <2>2, WorkerStep DEF TaskState
  <2>3. QED
    BY <2>1, <2>2
<1>3. QED
  BY <1>1, <1>2 DEF EnterCollective, LeaveCollective, Collectives

\* What the invariant depends on.
LEMMA TaskStutters ==
    ASSUME TaskState, TaskTyped, TaskControl, TaskNetwork, TaskPlaces,
           UNCHANGED << job, pc, phase, mem, chan >>
    PROVE  TaskTyped' /\ TaskControl' /\ TaskNetwork' /\ TaskPlaces'
<1>1. Ranks' = Ranks /\ DoneTag' = DoneTag /\ TaskState' /\ Misleading' = Misleading
      /\ \A a : SyncOf(a)' = SyncOf(a)
  BY Same
<1>2. TaskTyped' /\ TaskControl' /\ TaskNetwork'
  BY <1>1 DEF TaskTyped, TaskControl, TaskNetwork
<1>3. \A t : Sent(t)' <=> Sent(t)
  BY DEF Sent, LastSent
<1>4. \A t : Collected(t)' = Collected(t) /\ Carrying(t)' = Carrying(t)
  BY <1>1 DEF Collected, Carrying, Messages
<1>5. \A t : Holders(t)' = Holders(t)
  <2>1. \A t, w : w \in Holders(t)' <=> w \in Holders(t)
    BY <1>1, HoldersKnown, KnownNext DEF HoldersAre
  <2>2. \A t : Holders(t) \subseteq Ranks /\ Holders(t)' \subseteq Ranks
    BY <1>1 DEF Holders
  <2>3. QED
    BY <2>1, <2>2
<1>6. ASSUME NEW t \in 1 .. NumTasks(job.np)
      PROVE  IF Sent(t)' THEN OnePlace(t)' ELSE NoPlace(t)'
  BY <1>3, <1>4, <1>5 DEF TaskPlaces, NoPlace, OnePlace
<1>7. QED
  BY <1>2, <1>6 DEF TaskPlaces

\* Every step keeps the tasks in their places.
LEMMA TaskSteps == TaskInv /\ [Next]_vars => TaskInv'
<1> SUFFICES ASSUME TaskInv, [Next]_vars PROVE TaskInv'
  OBVIOUS
<1>1. job' = job
  BY DEF Next, vars, Local, AbortJob, SendMessage, Receive, EnterCollective, LeaveCollective
<1>2. SUFFICES ASSUME TaskJob
               PROVE  TaskTyped' /\ TaskControl' /\ TaskNetwork' /\ TaskPlaces'
  BY <1>1 DEF TaskInv, TaskJob
<1>3. TaskState /\ TaskTyped /\ TaskControl /\ TaskNetwork /\ TaskPlaces
  BY <1>2 DEF TaskInv, TaskState
<1>4. CASE UNCHANGED vars
  BY <1>3, <1>4, TaskStutters DEF vars
<1>5. ASSUME NEW p \in Ranks,
             \/ Local(p)           \/ AbortJob(p)
             \/ SendMessage(p)     \/ Receive(p)
             \/ EnterCollective(p) \/ LeaveCollective(p)
      PROVE  TaskTyped' /\ TaskControl' /\ TaskNetwork' /\ TaskPlaces'
  <2>1. CASE Local(p)
    BY <1>3, <2>1, WorkerRepeats
  <2>2. CASE AbortJob(p)
    BY <1>3, <2>2, TaskStutters DEF AbortJob
  <2>3. CASE SendMessage(p)
    BY <1>3, <2>3, MasterSends, WorkerSends
  <2>4. CASE Receive(p)
    BY <1>3, <2>4, MasterReceives, WorkerReceives
  <2>5. ~EnterCollective(p) /\ ~LeaveCollective(p)
    BY <1>3, NoCollectives
  <2>6. QED
    BY <1>5, <2>1, <2>2, <2>3, <2>4, <2>5
<1>6. QED
  BY <1>4, <1>5, SMTT(30) DEF Next

\* The tasks the master has handed out are the ones it has sent.
LEMMA HandedOutIsSent ==
    ASSUME TaskState, TaskTyped, TaskControl
    PROVE  \A t : << t >> \in HandedOut <=> Sent(t)
<1> DEFINE n == job.np
           code == Code(MASTER)
<1>1. n \in Nat \ {0} /\ MASTER \in Ranks
  BY MasterRank
<1>2. \A k \in 1 .. 9 * (n - 1) :
        /\ code[k].op = OpAt(n, k)
        /\ OpAt(n, k) = "send" => code[k].val = << TaskAt(n, k) >>
  <2>1. PICK recvTag : code = HandOut(n, mem[MASTER], WorkTag, recvTag, DoneTag)
    BY TaskCode DEF TaskState
  <2>2. QED
    BY <1>1, <2>1, HandOutShape
<1> HIDE DEF code
<1>3. \A j \in 1 .. LastSent : j \in 1 .. 9 * (n - 1)
  <2>1. LastSent \in Int /\ LastSent <= 9 * (n - 1)
    BY <1>1 DEF LastSent, TaskTyped, TaskControl
  <2>2. QED
    BY <1>1, <2>1
<1>4. HandedOut = { code[k].val : k \in { j \in 1 .. LastSent : code[j].op = "send" } }
  BY DEF HandedOut, LastSent, code
<1>5. ASSUME NEW t PROVE << t >> \in HandedOut <=> Sent(t)
  <2>1. << t >> \in HandedOut <=> \E j \in 1 .. LastSent : code[j].op = "send" /\ code[j].val = << t >>
    BY <1>4
  <2>2. \A a, b : << a >> = << b >> <=> a = b
    OBVIOUS
  <2>3. ASSUME NEW j \in 1 .. LastSent
        PROVE  code[j].op = "send" /\ code[j].val = << t >> <=> OpAt(n, j) = "send" /\ TaskAt(n, j) = t
    BY <1>2, <1>3, <2>2
  <2>4. QED
    BY <2>1, <2>3 DEF Sent
<1>6. QED
  BY <1>5

\* A set with one element has cardinality 1.
LEMMA OneElement == \A S : Singleton(S) => Cardinality(S) = 1
  BY FS_Singleton DEF Singleton

\* A task that has one place is counted once.
LEMMA TasksCounted == TaskInv => TasksConserved
<1> SUFFICES ASSUME TaskInv, TaskJob, NEW t \in 1 .. NumTasks(job.np)
             PROVE  Cardinality(Collected(t)) + Cardinality({ w \in Ranks : Holds(w, t) })
                    + Cardinality(Carrying(t)) = (IF << t >> \in HandedOut THEN 1 ELSE 0)
  BY DEF TasksConserved, Is, TaskJob
<1>1. TaskState /\ TaskTyped /\ TaskControl /\ TaskPlaces
  BY DEF TaskInv, TaskState
<1>2. << t >> \in HandedOut <=> Sent(t)
  BY <1>1, HandedOutIsSent
<1>3. { w \in Ranks : Holds(w, t) } = Holders(t)
  BY DEF Holders
<1>4. IF Sent(t) THEN OnePlace(t) ELSE NoPlace(t)
  BY <1>1 DEF TaskPlaces
<1>5. Cardinality({}) = 0
  BY FS_EmptySet
<1> HIDE DEF Collected, Carrying, Holders
<1>6. CASE Sent(t)
  <2>1. \/ /\ Cardinality(Collected(t)) = 1 /\ Cardinality(Holders(t)) = 0
           /\ Cardinality(Carrying(t)) = 0
        \/ /\ Cardinality(Collected(t)) = 0 /\ Cardinality(Holders(t)) = 1
           /\ Cardinality(Carrying(t)) = 0
        \/ /\ Cardinality(Collected(t)) = 0 /\ Cardinality(Holders(t)) = 0
           /\ Cardinality(Carrying(t)) = 1
    BY <1>4, <1>5, <1>6, OneElement DEF OnePlace
  <2>2. << t >> \in HandedOut
    BY <1>2, <1>6
  <2>3. QED
    BY <1>3, <2>1, <2>2
<1>7. CASE ~Sent(t)
  <2>1. /\ Cardinality(Collected(t)) = 0 /\ Cardinality(Holders(t)) = 0
        /\ Cardinality(Carrying(t)) = 0
    BY <1>4, <1>5, <1>7 DEF NoPlace
  <2>2. << t >> \notin HandedOut
    BY <1>2, <1>7
  <2>3. Cardinality({ w \in Ranks : Holds(w, t) }) = 0
    BY <1>3, <2>1
  <2>4. QED
    BY <2>1, <2>2, <2>3
<1>8. QED
  BY <1>6, <1>7

\* In the task queue, in every language and with any number of processes, each
\* task that the master handed out is in exactly one place, and one it did not
\* hand out is nowhere, however the messages are delayed (the loops of
\* handOutTasks and performWork in MPI/25.taskQueue/taskQueue.c).
THEOREM TasksConservedHolds == Spec => []TasksConserved
  BY TaskStarts, TaskSteps, TasksCounted, PTL DEF Spec

-----------------------------------------------------------------------------
(* The stages of a program: its collectives in order, and the lines it     *)
(* prints between them.                                                    *)

\* A stage begins with a collective (the first one with none) and lasts until
\* the next one; in it a process prints lines of one phase, or a separator.
Stage(op, var, sep, phase_) == [op |-> op, var |-> var, sep |-> sep, phase |-> phase_]
First      == Stage("start", "none", FALSE, 0)

\* The k-th stage of S.
Begins(S, k, op, var, sep, f) ==
  /\ k \in 1 .. Len(S)
  /\ S[k].op = op /\ S[k].var = var /\ S[k].sep = sep /\ S[k].phase = f

\* What instruction i does in a process that is at stage r of S: a collective
\* is the one that begins the next stage.
Place(i, S, r, t) ==
  /\ r \in 1 .. Len(S) /\ t \in 1 .. Len(S)
  /\ i.op \in {"compute", "print", "send", "recv", "abort"} \cup Collectives
  /\ IF i.op \in Collectives THEN t = r + 1 /\ i.op = S[t].op /\ i.var = S[t].var
                             ELSE t = r
  /\ i.op = "print" => S[1].op = "unordered" \/ (i.sep = S[r].sep /\ i.phase = S[r].phase)
  /\ i.op = "send" => i.tag \in Int /\ i.val \in Seq(Int)

\* c[k] is the stage a process is at after k instructions of its program.
Course(code, S, c) ==
  /\ c \in [0 .. Len(code) -> 1 .. Len(S)]
  /\ \A j, k \in 0 .. Len(code) : j <= k => c[j] <= c[k]
  /\ \A k \in 1 .. Len(code) : Place(code[k], S, c[k - 1], c[k])

Sequence(code) == \E U : code \in Seq(U)
Follows(code, S, a, b) ==
  /\ Sequence(code)
  /\ \E c : Course(code, S, c) /\ c[0] = a /\ c[Len(code)] = b

\* The empty program.
LEMMA FollowsNothing ==
    ASSUME NEW S, NEW a \in 1 .. Len(S)
    PROVE  Follows(<<>>, S, a, a)
<1> DEFINE c == [k \in 0 .. 0 |-> a]
<1>1. c \in [0 .. Len(<<>>) -> 1 .. Len(S)] /\ c[0] = a
  OBVIOUS
<1>2. Course(<<>>, S, c)
  BY <1>1 DEF Course
<1>3. Sequence(<<>>)
  BY DEF Sequence
<1>4. QED
  BY <1>1, <1>2, <1>3 DEF Follows

\* One instruction.
LEMMA FollowsOne ==
    ASSUME NEW S, Len(S) \in Nat, NEW i, NEW a, NEW b, Place(i, S, a, b)
    PROVE  Follows(<< i >>, S, a, b)
<1>0. a \in 1 .. Len(S) /\ b \in 1 .. Len(S) /\ a <= b
  BY DEF Place
<1> DEFINE c == [k \in 0 .. 1 |-> IF k = 0 THEN a ELSE b]
<1>1. Len(<< i >>) = 1 /\ << i >>[1] = i
  OBVIOUS
<1>2. c \in [0 .. 1 -> 1 .. Len(S)] /\ c[0] = a /\ c[1] = b
  BY <1>0
<1>3. \A k \in 1 .. 1 : k = 1
  OBVIOUS
<1>4. \A j, k \in 0 .. 1 : j <= k => c[j] <= c[k]
  BY <1>0
<1>5. Course(<< i >>, S, c)
  <2> HIDE DEF c
  <2>1. QED
    BY <1>1, <1>2, <1>3, <1>4 DEF Course
<1>6. Sequence(<< i >>)
  <2>1. << i >> \in Seq({i})
    OBVIOUS
  <2>2. QED
    BY <2>1 DEF Sequence
<1>7. QED
  BY <1>1, <1>2, <1>5, <1>6 DEF Follows

\* Two programs one after the other.
LEMMA FollowsBoth ==
    ASSUME NEW S, Len(S) \in Nat, NEW x, NEW y, NEW a, NEW b, NEW d,
           Follows(x, S, a, b), Follows(y, S, b, d)
    PROVE  Follows(x \o y, S, a, d)
<1>1. PICK U, V : x \in Seq(U) /\ y \in Seq(V)
  BY DEF Follows, Sequence
<1>2. PICK c, e : /\ Course(x, S, c) /\ c[0] = a /\ c[Len(x)] = b
                  /\ Course(y, S, e) /\ e[0] = b /\ e[Len(y)] = d
  BY DEF Follows
<1> DEFINE W == U \cup V
           z == x \o y
           f == [k \in 0 .. Len(z) |-> IF k <= Len(x) THEN c[k] ELSE e[k - Len(x)]]
<1>3. x \in Seq(W) /\ y \in Seq(W) /\ Len(x) \in Nat /\ Len(y) \in Nat
  BY <1>1
<1>4. /\ z \in Seq(W) /\ Len(z) = Len(x) + Len(y)
      /\ \A k \in 1 .. Len(z) : z[k] = IF k <= Len(x) THEN x[k] ELSE y[k - Len(x)]
  <2> HIDE DEF W
  <2>1. QED
    BY <1>3, ConcatProperties, Zenon
<1>5. /\ c \in [0 .. Len(x) -> 1 .. Len(S)] /\ e \in [0 .. Len(y) -> 1 .. Len(S)]
      /\ \A j, k \in 0 .. Len(x) : j <= k => c[j] <= c[k]
      /\ \A j, k \in 0 .. Len(y) : j <= k => e[j] <= e[k]
      /\ \A k \in 1 .. Len(x) : Place(x[k], S, c[k - 1], c[k])
      /\ \A k \in 1 .. Len(y) : Place(y[k], S, e[k - 1], e[k])
  BY <1>2 DEF Course
<1> HIDE DEF z, W
<1>6. f \in [0 .. Len(z) -> 1 .. Len(S)]
  <2>1. ASSUME NEW k \in 0 .. Len(z)
        PROVE  (IF k <= Len(x) THEN c[k] ELSE e[k - Len(x)]) \in 1 .. Len(S)
    <3>1. CASE k <= Len(x)
      <4>1. k \in 0 .. Len(x)
        BY <1>3, <1>4, <3>1
      <4>2. QED
        BY <1>5, <3>1, <4>1
    <3>2. CASE ~(k <= Len(x))
      <4>1. k - Len(x) \in 0 .. Len(y)
        BY <1>3, <1>4, <3>2
      <4>2. QED
        BY <1>5, <3>2, <4>1
    <3>3. QED
      BY <3>1, <3>2
  <2>2. QED
    BY <2>1
<1>7. f[0] = a /\ f[Len(z)] = d
  <2>1. 0 \in 0 .. Len(z) /\ Len(z) \in 0 .. Len(z) /\ 0 <= Len(x)
    BY <1>3, <1>4
  <2>2. f[0] = c[0]
    BY <2>1
  <2>3. CASE Len(y) = 0
    <3>1. Len(z) = Len(x)
      BY <1>3, <1>4, <2>3
    <3>2. f[Len(z)] = c[Len(x)]
      BY <1>3, <2>1, <3>1
    <3>3. QED
      BY <1>2, <2>2, <2>3, <3>2
  <2>4. CASE Len(y) # 0
    <3>1. ~(Len(z) <= Len(x)) /\ Len(z) - Len(x) = Len(y)
      BY <1>3, <1>4, <2>4
    <3>2. f[Len(z)] = e[Len(y)]
      BY <2>1, <3>1
    <3>3. QED
      BY <1>2, <2>2, <3>2
  <2>5. QED
    BY <2>3, <2>4
<1>8. ASSUME NEW j \in 0 .. Len(z), NEW k \in 0 .. Len(z), j <= k
      PROVE  f[j] <= f[k]
  <2>1. CASE k <= Len(x)
    <3>1. j \in 0 .. Len(x) /\ k \in 0 .. Len(x) /\ j <= Len(x)
      BY <1>3, <1>4, <1>8, <2>1
    <3>2. f[j] = c[j] /\ f[k] = c[k]
      BY <2>1, <3>1
    <3>3. QED
      BY <1>5, <1>8, <3>1, <3>2
  <2>2. CASE j <= Len(x) /\ ~(k <= Len(x))
    <3>1. j \in 0 .. Len(x) /\ Len(x) \in 0 .. Len(x) /\ k - Len(x) \in 0 .. Len(y) /\ 0 \in 0 .. Len(y)
          /\ 0 <= k - Len(x)
      BY <1>3, <1>4, <1>8, <2>2
    <3>2. f[j] = c[j] /\ f[k] = e[k - Len(x)]
      BY <2>2
    <3> HIDE DEF f
    <3>5. c[j] <= c[Len(x)]
      BY <1>5, <2>2, <3>1
    <3>6. e[0] <= e[k - Len(x)]
      BY <1>5, <3>1
    <3>3. c[j] <= b /\ b <= e[k - Len(x)]
      BY <1>2, <3>5, <3>6
    <3>8. c[j] \in 1 .. Len(S) /\ c[Len(x)] \in 1 .. Len(S) /\ e[k - Len(x)] \in 1 .. Len(S)
      BY <1>5, <3>1
    <3>4. c[j] \in Int /\ b \in Int /\ e[k - Len(x)] \in Int
      BY <1>2, <3>8
    <3>7. QED
      BY <3>2, <3>3, <3>4
  <2>3. CASE ~(j <= Len(x))
    <3>1. j - Len(x) \in 0 .. Len(y) /\ k - Len(x) \in 0 .. Len(y) /\ ~(k <= Len(x))
          /\ j - Len(x) <= k - Len(x)
      BY <1>3, <1>4, <1>8, <2>3
    <3>2. f[j] = e[j - Len(x)] /\ f[k] = e[k - Len(x)]
      BY <2>3, <3>1
    <3>3. QED
      BY <1>5, <3>1, <3>2
  <2>4. QED
    BY <2>1, <2>2, <2>3
<1>9. ASSUME NEW k \in 1 .. Len(z)
      PROVE  Place(z[k], S, f[k - 1], f[k])
  <2>0. k \in 0 .. Len(z) /\ k - 1 \in 0 .. Len(z)
    BY <1>3, <1>4
  <2>1. CASE k <= Len(x)
    <3>1. k \in 1 .. Len(x) /\ k - 1 <= Len(x)
      BY <1>3, <1>4, <2>1
    <3>2. f[k - 1] = c[k - 1] /\ f[k] = c[k] /\ z[k] = x[k]
      BY <1>4, <2>0, <2>1, <3>1
    <3>3. QED
      BY <1>5, <3>1, <3>2
  <2>2. CASE ~(k <= Len(x))
    <3>1. k - Len(x) \in 1 .. Len(y) /\ k - 1 - Len(x) = k - Len(x) - 1
      BY <1>3, <1>4, <2>2
    <3>2. f[k] = e[k - Len(x)] /\ z[k] = y[k - Len(x)]
      BY <1>4, <2>0, <2>2
    <3>3. f[k - 1] = e[k - Len(x) - 1]
      <4>1. CASE k - 1 <= Len(x)
        <5>1. k - 1 = Len(x) /\ k - Len(x) - 1 = 0
          BY <1>3, <2>2, <4>1
        <5>2. f[k - 1] = c[Len(x)]
          BY <2>0, <4>1, <5>1
        <5>3. QED
          BY <1>2, <5>1, <5>2
      <4>2. CASE ~(k - 1 <= Len(x))
        BY <2>0, <3>1, <4>2
      <4>3. QED
        BY <4>1, <4>2
    <3>4. QED
      BY <1>5, <3>1, <3>2, <3>3
  <2>3. QED
    BY <2>1, <2>2
<1>10. Course(z, S, f)
  <2> HIDE DEF f
  <2>1. QED
    BY <1>6, <1>8, <1>9 DEF Course
<1>11. Sequence(z)
  BY <1>4 DEF Sequence
<1>12. QED
  BY <1>7, <1>10, <1>11 DEF Follows, z
\* Programs of several instructions.
LEMMA Tuples ==
    /\ \A i, j : << i, j >> = << i >> \o << j >>
    /\ \A i, j, k : << i, j, k >> = << i >> \o << j, k >>
    /\ \A i, j, k, l : << i, j, k, l >> = << i >> \o << j, k, l >>
    /\ \A i, j, k, l, m : << i, j, k, l, m >> = << i >> \o << j, k, l, m >>
<1>1. ASSUME NEW i, NEW j PROVE << i, j >> = << i >> \o << j >>
  <2> DEFINE W == {i, j}
             x == << i >>
             y == << j >>
             s == x \o y
             u == << i, j >>
  <2>1. /\ x \in Seq(W) /\ Len(x) = 1 /\ x[1] = i
        /\ y \in Seq(W) /\ Len(y) = 1 /\ y[1] = j
    OBVIOUS
  <2>2. u \in Seq(W) /\ Len(u) = 2 /\ u[1] = i /\ u[2] = j
    OBVIOUS
  <2> HIDE DEF x, y, u, W
  <2>3. s \in Seq(W) /\ Len(s) = Len(x) + Len(y)
    BY <2>1, ConcatProperties, Zenon
  <2>4. s[1] = x[1] /\ s[2] = y[1]
    <3>1. 1 \in 1 .. Len(s) /\ 2 \in 1 .. Len(s) /\ Len(s) = 2 /\ 1 <= Len(x) /\ ~(2 <= Len(x)) /\ 2 - Len(x) = 1
      BY <2>1, <2>3
    <3>2. \A k \in 1 .. Len(x) + Len(y) : s[k] = IF k <= Len(x) THEN x[k] ELSE y[k - Len(x)]
      BY <2>1, ConcatProperties, Zenon
    <3>3. QED
      BY <2>3, <3>1, <3>2
  <2> HIDE DEF s
  <2>5. u = s
    <3>1. \A k \in 1 .. Len(u) : u[k] = s[k]
      <4>1. 1 .. Len(u) = {1, 2}
        BY <2>2
      <4>2. QED
        BY <2>1, <2>2, <2>4, <4>1
    <3>2. QED
      BY <2>1, <2>2, <2>3, <3>1, SeqEqual
  <2>6. QED
    BY <2>5 DEF u, s, x, y
<1>2. \A i, j, k : << i, j, k >> = << i >> \o << j, k >>
  OBVIOUS
<1>3. \A i, j, k, l : << i, j, k, l >> = << i >> \o << j, k, l >>
  OBVIOUS
<1>4. \A i, j, k, l, m : << i, j, k, l, m >> = << i >> \o << j, k, l, m >>
  OBVIOUS
<1>5. QED
  BY <1>1, <1>2, <1>3, <1>4

\* An instruction that is no collective leaves its process at its stage; a line
\* it prints is of that stage.
LEMMA SamePlace ==
    ASSUME NEW S, Len(S) \in Nat, NEW r, NEW op, NEW var0, NEW sep, NEW g,
           Begins(S, r, op, var0, sep, g)
    PROVE  /\ \A var, val : Place(Compute(var, val), S, r, r)
           /\ \A var, from, tag : Place(Recv(var, from, tag), S, r, r)
           /\ \A val \in Seq(Int), tag \in Int : \A to : Place(Send(val, to, tag), S, r, r)
           /\ Place(Abort, S, r, r)
           /\ sep = FALSE => Place(Line(g), S, r, r)
           /\ sep = TRUE => Place(SeparatorLine(g), S, r, r)
           /\ \A f : S[1].op = "unordered" => Place(Line(f), S, r, r) /\ Place(SeparatorLine(f), S, r, r)
<1> USE DEF Place, Collectives, Begins
<1>1. \A var, val : Place(Compute(var, val), S, r, r)
  BY DEF Compute
<1>2. \A var, from, tag : Place(Recv(var, from, tag), S, r, r)
  BY DEF Recv
<1>3. \A val \in Seq(Int), tag \in Int : \A to : Place(Send(val, to, tag), S, r, r)
  BY DEF Send
<1>4. Place(Abort, S, r, r)
  BY DEF Abort
<1>5. sep = FALSE => Place(Line(g), S, r, r)
  BY DEF Line
<1>6. sep = TRUE => Place(SeparatorLine(g), S, r, r)
  BY DEF SeparatorLine
<1>7. \A f : S[1].op = "unordered" => Place(Line(f), S, r, r) /\ Place(SeparatorLine(f), S, r, r)
  BY DEF Line, SeparatorLine
<1>8. QED
  BY <1>1, <1>2, <1>3, <1>4, <1>5, <1>6, <1>7

\* A collective takes its process to the next stage, which it begins.
LEMMA NextPlace ==
    ASSUME NEW S, Len(S) \in Nat, NEW r \in 1 .. Len(S), NEW t, t = r + 1,
           NEW op, NEW var, NEW sep, NEW f, Begins(S, t, op, var, sep, f)
    PROVE  /\ op = "barrier" /\ var = "none" => Place(Barrier, S, r, t)
           /\ \A val : op = "bcast" => Place(Bcast(var, val), S, r, t)
           /\ \A val : op = "sum" => Place(ReduceSum(val, var), S, r, t)
           /\ \A val : op = "max" => Place(ReduceMax(val, var), S, r, t)
           /\ \A val : op = "scatter" => Place(Scatter(val, var), S, r, t)
           /\ \A val, offsets : op = "gather" => Place(Gather(val, offsets, var), S, r, t)
<1> USE DEF Place, Collectives, Begins
<1>1. op = "barrier" /\ var = "none" => Place(Barrier, S, r, t)
  BY DEF Barrier
<1>2. \A val : op = "bcast" => Place(Bcast(var, val), S, r, t)
  BY DEF Bcast
<1>3. \A val : op = "sum" => Place(ReduceSum(val, var), S, r, t)
  BY DEF ReduceSum
<1>4. \A val : op = "max" => Place(ReduceMax(val, var), S, r, t)
  BY DEF ReduceMax
<1>5. \A val : op = "scatter" => Place(Scatter(val, var), S, r, t)
  BY DEF Scatter
<1>6. \A val, offsets : op = "gather" => Place(Gather(val, offsets, var), S, r, t)
  BY DEF Gather
<1>7. QED
  BY <1>1, <1>2, <1>3, <1>4, <1>5, <1>6

\* Several instructions.
LEMMA FollowsTwo ==
    ASSUME NEW S, Len(S) \in Nat, NEW i, NEW j, NEW a, NEW b, NEW d,
           Place(i, S, a, b), Place(j, S, b, d)
    PROVE  Follows(<< i, j >>, S, a, d)
<1>0. << i, j >> = << i >> \o << j >>
  BY Tuples
<1>1. Follows(<< i >> \o << j >>, S, a, d)
  BY FollowsOne, FollowsBoth, Zenon
<1>2. QED
  BY <1>0, <1>1, Zenon

\* Three instructions.
LEMMA FollowsThree ==
    ASSUME NEW S, Len(S) \in Nat, NEW i, NEW j, NEW k, NEW a, NEW b, NEW d, NEW e,
           Place(i, S, a, b), Place(j, S, b, d), Place(k, S, d, e)
    PROVE  Follows(<< i, j, k >>, S, a, e)
<1>0. << i, j, k >> = << i >> \o << j, k >>
  BY Tuples
<1>1. Follows(<< i >> \o << j, k >>, S, a, e)
  BY FollowsOne, FollowsTwo, FollowsBoth, Zenon
<1>2. QED
  BY <1>0, <1>1, Zenon

\* Four instructions.
LEMMA FollowsFour ==
    ASSUME NEW S, Len(S) \in Nat, NEW i, NEW j, NEW k, NEW l,
           NEW a, NEW b, NEW d, NEW e, NEW f,
           Place(i, S, a, b), Place(j, S, b, d), Place(k, S, d, e), Place(l, S, e, f)
    PROVE  Follows(<< i, j, k, l >>, S, a, f)
<1>0. << i, j, k, l >> = << i >> \o << j, k, l >>
  BY Tuples
<1>1. Follows(<< i >> \o << j, k, l >>, S, a, f)
  BY FollowsOne, FollowsThree, FollowsBoth, Zenon
<1>2. QED
  BY <1>0, <1>1, Zenon

\* Five instructions.
LEMMA FollowsFive ==
    ASSUME NEW S, Len(S) \in Nat, NEW i, NEW j, NEW k, NEW l, NEW m,
           NEW a, NEW b, NEW d, NEW e, NEW f, NEW g,
           Place(i, S, a, b), Place(j, S, b, d), Place(k, S, d, e), Place(l, S, e, f),
           Place(m, S, f, g)
    PROVE  Follows(<< i, j, k, l, m >>, S, a, g)
<1>0. << i, j, k, l, m >> = << i >> \o << j, k, l, m >>
  BY Tuples
<1>1. Follows(<< i >> \o << j, k, l, m >>, S, a, g)
  BY FollowsOne, FollowsFour, FollowsBoth, Zenon
<1>2. QED
  BY <1>0, <1>1, Zenon

\* Instructions only the master has.
LEMMA FollowsMaster ==
    ASSUME NEW S, Len(S) \in Nat, NEW i, NEW a, Place(i, S, a, a)
    PROVE  \A id : /\ Follows(IF id = MASTER THEN << i >> ELSE <<>>, S, a, a)
                   /\ Follows(OnlyMaster(id, i), S, a, a)
<1>1. Follows(<< i >>, S, a, a)
  BY FollowsOne
<1>2. Follows(<<>>, S, a, a)
  BY FollowsNothing DEF Place
<1>3. QED
  BY <1>1, <1>2 DEF OnlyMaster

\* A separator takes two barriers.
LEMMA FollowsSeparator ==
    ASSUME NEW S, Len(S) \in Nat, NEW r \in 1 .. Len(S), NEW t, NEW u, t = r + 1, u = r + 2,
           NEW f, NEW sep, NEW g, Begins(S, t, "barrier", "none", TRUE, f),
           Begins(S, u, "barrier", "none", sep, g)
    PROVE  \A id : Follows(PrintSeparator(id, f), S, r, u)
<1> TAKE id
<1>0. t \in 1 .. Len(S) /\ u = t + 1
  BY DEF Begins
<1>1. Place(Barrier, S, r, t)
  BY NextPlace
<1>2. Place(SeparatorLine(f), S, t, t)
  BY SamePlace
<1>3. Place(Barrier, S, t, u)
  BY <1>0, NextPlace
<1> DEFINE x == << Barrier >>
           y == IF id = MASTER THEN << SeparatorLine(f) >> ELSE <<>>
<1>4. Follows(x, S, r, t) /\ Follows(x, S, t, u)
  BY <1>1, <1>3, FollowsOne
<1>5. Follows(y, S, t, t)
  BY <1>2, FollowsMaster
<1> HIDE DEF x, y
<1>6. Follows(x \o y, S, r, t)
  BY <1>4, <1>5, FollowsBoth
<1>7. Follows((x \o y) \o x, S, r, u)
  BY <1>4, <1>6, FollowsBoth
<1>8. QED
  BY <1>7 DEF x, y, PrintSeparator

\* The numbers of the stages.
LEMMA Successors ==
    /\ 2 = 1 + 1 /\ 3 = 2 + 1 /\ 4 = 3 + 1 /\ 5 = 4 + 1 /\ 6 = 5 + 1 /\ 7 = 6 + 1
    /\ 8 = 7 + 1 /\ 9 = 8 + 1
    /\ 3 = 1 + 2 /\ 4 = 2 + 2 /\ 5 = 3 + 2 /\ 6 = 4 + 2 /\ 7 = 5 + 2 /\ 8 = 6 + 2
    /\ 9 = 7 + 2
  OBVIOUS

\* Sends only.
LEMMA FollowsSends ==
    ASSUME NEW S, Len(S) \in Nat, NEW a \in 1 .. Len(S), NEW n \in Nat \ {0},
           NEW val \in Seq(Int), NEW tag \in Int
    PROVE  Follows([r \in 1 .. n - 1 |-> Send(val, r, tag)], S, a, a)
<1> DEFINE x == [r \in 1 .. n - 1 |-> Send(val, r, tag)]
           U == { Send(val, r, tag) : r \in 1 .. n - 1 }
           c == [k \in 0 .. n - 1 |-> a]
<1>1. x \in Seq(U) /\ Len(x) = n - 1 /\ \A k \in 1 .. n - 1 : x[k] = Send(val, k, tag)
  OBVIOUS
<1>2. c \in [0 .. n - 1 -> 1 .. Len(S)] /\ \A k \in 0 .. n - 1 : c[k] = a
  OBVIOUS
<1>3. \A k : Place(Send(val, k, tag), S, a, a)
  BY DEF Place, Send, Collectives
<1> HIDE DEF c, x, U
<1>4. \A k \in 1 .. n - 1 : k \in 0 .. n - 1 /\ k - 1 \in 0 .. n - 1
  OBVIOUS
<1>5. Course(x, S, c)
  <2>1. c \in [0 .. Len(x) -> 1 .. Len(S)]
    BY <1>1, <1>2
  <2>2. \A j, k \in 0 .. Len(x) : j <= k => c[j] <= c[k]
    BY <1>1, <1>2
  <2>3. \A k \in 1 .. Len(x) : Place(x[k], S, c[k - 1], c[k])
    BY <1>1, <1>2, <1>3, <1>4
  <2>4. QED
    BY <2>1, <2>2, <2>3 DEF Course
<1>6. Sequence(x)
  BY <1>1 DEF Sequence
<1>7. c[0] = a /\ c[Len(x)] = a
  BY <1>1, <1>2
<1>8. QED
  BY <1>5, <1>6, <1>7 DEF Follows, x

-----------------------------------------------------------------------------
(* The stages of every program that calls collectives.                     *)

\* Everyone is at the same stage while a separator is printed: it is between
\* two barriers, and the lines before and after it are of other stages.
Ordered(S) ==
  /\ Len(S) \in Nat \ {0} /\ S[1].op = "start"
  /\ \A r \in 1 .. Len(S) : /\ S[r].sep \in BOOLEAN /\ S[r].phase \in Nat
                            /\ S[r].sep => S[r].op = "barrier"
  /\ \A r, t \in 1 .. Len(S) :
       r < t => /\ t = r + 1 /\ S[r].sep => S[t].op = "barrier"
                /\ S[r].phase <= S[t].phase
                /\ S[t].sep /\ ~S[r].sep => S[r].phase < S[t].phase

\* A separator is printed between a barrier that opens and one that closes.
Opened(f) == Stage("barrier", "none", TRUE, f)
Closed(f) == Stage("barrier", "none", FALSE, f)

\* A program that follows S from the first stage on.
Staged(code, S) == \E b : Follows(code, S, 1, b)

\* Broadcasts in Java: a separator, then the broadcast.
BroadcastStages == << First, Opened(1), Closed(1), Stage("bcast", "buf", FALSE, 1) >>

\* The broadcast of the user's input in Java.
InputStages == << First, Stage("bcast", "buf", FALSE, 0), Opened(1), Closed(1) >>

\* The reduction of arrays.
ReductionStages ==
  << First, Opened(1), Closed(1), Opened(2), Closed(2), Stage("sum", "all", FALSE, 2) >>

\* The scatter in Java.
ScatterStages ==
  << First, Closed(0), Opened(1), Closed(1), Stage("scatter", "part", FALSE, 1),
     Closed(1), Closed(1) >>

\* The gather in Java.
GatherStages ==
  << First, Closed(0), Closed(0), Opened(1), Closed(1), Stage("gather", "all", FALSE, 1) >>

\* The loops over scattered chunks, in C.
ChunksStages ==
  << First, Opened(1), Closed(1), Stage("scatter", "part", FALSE, 1),
     Stage("gather", "all", FALSE, 1), Opened(2), Closed(2) >>

\* The loop over a broadcast array, in Java.
LoopStages ==
  << First, Stage("bcast", "buf", FALSE, 0), Opened(1), Closed(1), Opened(2),
     Closed(2), Stage("gather", "all", FALSE, 2), Opened(3), Closed(3) >>

\* The loops over a scattered array, in Java.
PiecesStages ==
  << First, Stage("scatter", "part", FALSE, 0), Opened(1), Closed(1), Opened(2),
     Closed(2), Stage("gather", "all", FALSE, 2), Opened(3), Closed(3) >>

\* Programs that print no lines between their collectives.
One(op, var) == << First, Stage(op, var, FALSE, 0) >>
Two(op, var, op2, var2) ==
  << First, Stage(op, var, FALSE, 0), Stage(op2, var2, FALSE, 0) >>
Three(op, var, op2, var2, op3, var3) ==
  << First, Stage(op, var, FALSE, 0), Stage(op2, var2, FALSE, 0),
     Stage(op3, var3, FALSE, 0) >>

\* What these stages are, and that they are in order.
LEMMA BroadcastStagesAre ==
    /\ Len(BroadcastStages) \in Nat
    /\ \A k \in {1, 2, 3, 4} : k \in 1 .. Len(BroadcastStages)
    /\ Begins(BroadcastStages, 1, "start", "none", FALSE, 0)
    /\ Begins(BroadcastStages, 2, "barrier", "none", TRUE, 1)
    /\ Begins(BroadcastStages, 3, "barrier", "none", FALSE, 1)
    /\ Begins(BroadcastStages, 4, "bcast", "buf", FALSE, 1)
    /\ Ordered(BroadcastStages)
<1> DEFINE S == BroadcastStages
<1>1. /\ Len(S) = 4
      /\ S[1] = Stage("start", "none", FALSE, 0)
      /\ S[2] = Stage("barrier", "none", TRUE, 1)
      /\ S[3] = Stage("barrier", "none", FALSE, 1)
      /\ S[4] = Stage("bcast", "buf", FALSE, 1)
  BY DEF BroadcastStages, First, Opened, Closed
<1>2. /\ S[1].op = "start"
      /\ S[1].op = "start" /\ S[1].var = "none" /\ S[1].sep = FALSE /\ S[1].phase = 0
      /\ S[2].op = "barrier" /\ S[2].var = "none" /\ S[2].sep = TRUE /\ S[2].phase = 1
      /\ S[3].op = "barrier" /\ S[3].var = "none" /\ S[3].sep = FALSE /\ S[3].phase = 1
      /\ S[4].op = "bcast" /\ S[4].var = "buf" /\ S[4].sep = FALSE /\ S[4].phase = 1
  BY <1>1 DEF Stage
<1> HIDE DEF S
<1>3. \A r \in 1 .. Len(S) : r = 1 \/ r = 2 \/ r = 3 \/ r = 4
  BY <1>1
<1>4. ASSUME NEW r \in 1 .. Len(S)
      PROVE  /\ S[r].sep \in BOOLEAN /\ S[r].phase \in Nat
             /\ S[r].sep => S[r].op = "barrier"
  <2>1. S[r].sep \in BOOLEAN
    BY <1>2, <1>3
  <2>2. S[r].phase \in Nat
    BY <1>2, <1>3
  <2>3. S[r].sep => S[r].op = "barrier"
    BY <1>2, <1>3
  <2>5. QED
    BY <2>1, <2>2, <2>3
<1>5. ASSUME NEW r \in 1 .. Len(S), NEW t \in 1 .. Len(S), r < t
      PROVE  /\ t = r + 1 /\ S[r].sep => S[t].op = "barrier"
             /\ S[r].phase <= S[t].phase
             /\ S[t].sep /\ ~S[r].sep => S[r].phase < S[t].phase
  <2>1. S[r].phase <= S[t].phase
    BY <1>2, <1>3, <1>5
  <2>2. S[t].sep /\ ~S[r].sep => S[r].phase < S[t].phase
    BY <1>2, <1>3, <1>5
  <2>3. t = r + 1 /\ S[r].sep => S[t].op = "barrier"
    BY <1>2, <1>3
  <2>4. QED
    BY <2>1, <2>2, <2>3
<1>6. Len(S) \in Nat \ {0}
  BY <1>1
<1>8. Ordered(S)
  BY <1>2, <1>4, <1>5, <1>6, Zenon DEF Ordered
<1>9. 1 \in 1 .. Len(S) /\ 2 \in 1 .. Len(S) /\ 3 \in 1 .. Len(S) /\ 4 \in 1 .. Len(S)
  BY <1>1
<1>m. \A k \in {1, 2, 3, 4} : k \in 1 .. Len(S)
  BY <1>9
<1>10. Begins(S, 1, "start", "none", FALSE, 0)
  BY <1>2, <1>9 DEF Begins
<1>11. Begins(S, 2, "barrier", "none", TRUE, 1)
  BY <1>2, <1>9 DEF Begins
<1>12. Begins(S, 3, "barrier", "none", FALSE, 1)
  BY <1>2, <1>9 DEF Begins
<1>13. Begins(S, 4, "bcast", "buf", FALSE, 1)
  BY <1>2, <1>9 DEF Begins
<1>14. QED
  BY <1>6, <1>8, <1>m, <1>10, <1>11, <1>12, <1>13 DEF S

\* What these stages are, and that they are in order.
LEMMA InputStagesAre ==
    /\ Len(InputStages) \in Nat
    /\ \A k \in {1, 2, 3, 4} : k \in 1 .. Len(InputStages)
    /\ Begins(InputStages, 1, "start", "none", FALSE, 0)
    /\ Begins(InputStages, 2, "bcast", "buf", FALSE, 0)
    /\ Begins(InputStages, 3, "barrier", "none", TRUE, 1)
    /\ Begins(InputStages, 4, "barrier", "none", FALSE, 1)
    /\ Ordered(InputStages)
<1> DEFINE S == InputStages
<1>1. /\ Len(S) = 4
      /\ S[1] = Stage("start", "none", FALSE, 0)
      /\ S[2] = Stage("bcast", "buf", FALSE, 0)
      /\ S[3] = Stage("barrier", "none", TRUE, 1)
      /\ S[4] = Stage("barrier", "none", FALSE, 1)
  BY DEF InputStages, First, Opened, Closed
<1>2. /\ S[1].op = "start"
      /\ S[1].op = "start" /\ S[1].var = "none" /\ S[1].sep = FALSE /\ S[1].phase = 0
      /\ S[2].op = "bcast" /\ S[2].var = "buf" /\ S[2].sep = FALSE /\ S[2].phase = 0
      /\ S[3].op = "barrier" /\ S[3].var = "none" /\ S[3].sep = TRUE /\ S[3].phase = 1
      /\ S[4].op = "barrier" /\ S[4].var = "none" /\ S[4].sep = FALSE /\ S[4].phase = 1
  BY <1>1 DEF Stage
<1> HIDE DEF S
<1>3. \A r \in 1 .. Len(S) : r = 1 \/ r = 2 \/ r = 3 \/ r = 4
  BY <1>1
<1>4. ASSUME NEW r \in 1 .. Len(S)
      PROVE  /\ S[r].sep \in BOOLEAN /\ S[r].phase \in Nat
             /\ S[r].sep => S[r].op = "barrier"
  <2>1. S[r].sep \in BOOLEAN
    BY <1>2, <1>3
  <2>2. S[r].phase \in Nat
    BY <1>2, <1>3
  <2>3. S[r].sep => S[r].op = "barrier"
    BY <1>2, <1>3
  <2>5. QED
    BY <2>1, <2>2, <2>3
<1>5. ASSUME NEW r \in 1 .. Len(S), NEW t \in 1 .. Len(S), r < t
      PROVE  /\ t = r + 1 /\ S[r].sep => S[t].op = "barrier"
             /\ S[r].phase <= S[t].phase
             /\ S[t].sep /\ ~S[r].sep => S[r].phase < S[t].phase
  <2>1. S[r].phase <= S[t].phase
    BY <1>2, <1>3, <1>5
  <2>2. S[t].sep /\ ~S[r].sep => S[r].phase < S[t].phase
    BY <1>2, <1>3, <1>5
  <2>3. t = r + 1 /\ S[r].sep => S[t].op = "barrier"
    BY <1>2, <1>3
  <2>4. QED
    BY <2>1, <2>2, <2>3
<1>6. Len(S) \in Nat \ {0}
  BY <1>1
<1>8. Ordered(S)
  BY <1>2, <1>4, <1>5, <1>6, Zenon DEF Ordered
<1>9. 1 \in 1 .. Len(S) /\ 2 \in 1 .. Len(S) /\ 3 \in 1 .. Len(S) /\ 4 \in 1 .. Len(S)
  BY <1>1
<1>m. \A k \in {1, 2, 3, 4} : k \in 1 .. Len(S)
  BY <1>9
<1>10. Begins(S, 1, "start", "none", FALSE, 0)
  BY <1>2, <1>9 DEF Begins
<1>11. Begins(S, 2, "bcast", "buf", FALSE, 0)
  BY <1>2, <1>9 DEF Begins
<1>12. Begins(S, 3, "barrier", "none", TRUE, 1)
  BY <1>2, <1>9 DEF Begins
<1>13. Begins(S, 4, "barrier", "none", FALSE, 1)
  BY <1>2, <1>9 DEF Begins
<1>14. QED
  BY <1>6, <1>8, <1>m, <1>10, <1>11, <1>12, <1>13 DEF S

\* What these stages are, and that they are in order.
LEMMA ReductionStagesAre ==
    /\ Len(ReductionStages) \in Nat
    /\ \A k \in {1, 2, 3, 4, 5, 6} : k \in 1 .. Len(ReductionStages)
    /\ Begins(ReductionStages, 1, "start", "none", FALSE, 0)
    /\ Begins(ReductionStages, 2, "barrier", "none", TRUE, 1)
    /\ Begins(ReductionStages, 3, "barrier", "none", FALSE, 1)
    /\ Begins(ReductionStages, 4, "barrier", "none", TRUE, 2)
    /\ Begins(ReductionStages, 5, "barrier", "none", FALSE, 2)
    /\ Begins(ReductionStages, 6, "sum", "all", FALSE, 2)
    /\ Ordered(ReductionStages)
<1> DEFINE S == ReductionStages
<1>1. /\ Len(S) = 6
      /\ S[1] = Stage("start", "none", FALSE, 0)
      /\ S[2] = Stage("barrier", "none", TRUE, 1)
      /\ S[3] = Stage("barrier", "none", FALSE, 1)
      /\ S[4] = Stage("barrier", "none", TRUE, 2)
      /\ S[5] = Stage("barrier", "none", FALSE, 2)
      /\ S[6] = Stage("sum", "all", FALSE, 2)
  BY DEF ReductionStages, First, Opened, Closed
<1>2. /\ S[1].op = "start"
      /\ S[1].op = "start" /\ S[1].var = "none" /\ S[1].sep = FALSE /\ S[1].phase = 0
      /\ S[2].op = "barrier" /\ S[2].var = "none" /\ S[2].sep = TRUE /\ S[2].phase = 1
      /\ S[3].op = "barrier" /\ S[3].var = "none" /\ S[3].sep = FALSE /\ S[3].phase = 1
      /\ S[4].op = "barrier" /\ S[4].var = "none" /\ S[4].sep = TRUE /\ S[4].phase = 2
      /\ S[5].op = "barrier" /\ S[5].var = "none" /\ S[5].sep = FALSE /\ S[5].phase = 2
      /\ S[6].op = "sum" /\ S[6].var = "all" /\ S[6].sep = FALSE /\ S[6].phase = 2
  BY <1>1 DEF Stage
<1> HIDE DEF S
<1>3. \A r \in 1 .. Len(S) : r = 1 \/ r = 2 \/ r = 3 \/ r = 4 \/ r = 5 \/ r = 6
  BY <1>1
<1>4. ASSUME NEW r \in 1 .. Len(S)
      PROVE  /\ S[r].sep \in BOOLEAN /\ S[r].phase \in Nat
             /\ S[r].sep => S[r].op = "barrier"
  <2>1. S[r].sep \in BOOLEAN
    BY <1>2, <1>3
  <2>2. S[r].phase \in Nat
    BY <1>2, <1>3
  <2>3. S[r].sep => S[r].op = "barrier"
    BY <1>2, <1>3
  <2>5. QED
    BY <2>1, <2>2, <2>3
<1>5. ASSUME NEW r \in 1 .. Len(S), NEW t \in 1 .. Len(S), r < t
      PROVE  /\ t = r + 1 /\ S[r].sep => S[t].op = "barrier"
             /\ S[r].phase <= S[t].phase
             /\ S[t].sep /\ ~S[r].sep => S[r].phase < S[t].phase
  <2>1. S[r].phase <= S[t].phase
    BY <1>2, <1>3, <1>5
  <2>2. S[t].sep /\ ~S[r].sep => S[r].phase < S[t].phase
    BY <1>2, <1>3, <1>5
  <2>3. t = r + 1 /\ S[r].sep => S[t].op = "barrier"
    BY <1>2, <1>3
  <2>4. QED
    BY <2>1, <2>2, <2>3
<1>6. Len(S) \in Nat \ {0}
  BY <1>1
<1>8. Ordered(S)
  BY <1>2, <1>4, <1>5, <1>6, Zenon DEF Ordered
<1>9. 1 \in 1 .. Len(S) /\ 2 \in 1 .. Len(S) /\ 3 \in 1 .. Len(S) /\ 4 \in 1 .. Len(S) /\ 5 \in 1 .. Len(S) /\ 6 \in 1 .. Len(S)
  BY <1>1
<1>m. \A k \in {1, 2, 3, 4, 5, 6} : k \in 1 .. Len(S)
  BY <1>9
<1>10. Begins(S, 1, "start", "none", FALSE, 0)
  BY <1>2, <1>9 DEF Begins
<1>11. Begins(S, 2, "barrier", "none", TRUE, 1)
  BY <1>2, <1>9 DEF Begins
<1>12. Begins(S, 3, "barrier", "none", FALSE, 1)
  BY <1>2, <1>9 DEF Begins
<1>13. Begins(S, 4, "barrier", "none", TRUE, 2)
  BY <1>2, <1>9 DEF Begins
<1>14. Begins(S, 5, "barrier", "none", FALSE, 2)
  BY <1>2, <1>9 DEF Begins
<1>15. Begins(S, 6, "sum", "all", FALSE, 2)
  BY <1>2, <1>9 DEF Begins
<1>16. QED
  BY <1>6, <1>8, <1>m, <1>10, <1>11, <1>12, <1>13, <1>14, <1>15 DEF S

\* What these stages are, and that they are in order.
LEMMA ScatterStagesAre ==
    /\ Len(ScatterStages) \in Nat
    /\ \A k \in {1, 2, 3, 4, 5, 6, 7} : k \in 1 .. Len(ScatterStages)
    /\ Begins(ScatterStages, 1, "start", "none", FALSE, 0)
    /\ Begins(ScatterStages, 2, "barrier", "none", FALSE, 0)
    /\ Begins(ScatterStages, 3, "barrier", "none", TRUE, 1)
    /\ Begins(ScatterStages, 4, "barrier", "none", FALSE, 1)
    /\ Begins(ScatterStages, 5, "scatter", "part", FALSE, 1)
    /\ Begins(ScatterStages, 6, "barrier", "none", FALSE, 1)
    /\ Begins(ScatterStages, 7, "barrier", "none", FALSE, 1)
    /\ Ordered(ScatterStages)
<1> DEFINE S == ScatterStages
<1>1. /\ Len(S) = 7
      /\ S[1] = Stage("start", "none", FALSE, 0)
      /\ S[2] = Stage("barrier", "none", FALSE, 0)
      /\ S[3] = Stage("barrier", "none", TRUE, 1)
      /\ S[4] = Stage("barrier", "none", FALSE, 1)
      /\ S[5] = Stage("scatter", "part", FALSE, 1)
      /\ S[6] = Stage("barrier", "none", FALSE, 1)
      /\ S[7] = Stage("barrier", "none", FALSE, 1)
  BY DEF ScatterStages, First, Opened, Closed
<1>2. /\ S[1].op = "start"
      /\ S[1].op = "start" /\ S[1].var = "none" /\ S[1].sep = FALSE /\ S[1].phase = 0
      /\ S[2].op = "barrier" /\ S[2].var = "none" /\ S[2].sep = FALSE /\ S[2].phase = 0
      /\ S[3].op = "barrier" /\ S[3].var = "none" /\ S[3].sep = TRUE /\ S[3].phase = 1
      /\ S[4].op = "barrier" /\ S[4].var = "none" /\ S[4].sep = FALSE /\ S[4].phase = 1
      /\ S[5].op = "scatter" /\ S[5].var = "part" /\ S[5].sep = FALSE /\ S[5].phase = 1
      /\ S[6].op = "barrier" /\ S[6].var = "none" /\ S[6].sep = FALSE /\ S[6].phase = 1
      /\ S[7].op = "barrier" /\ S[7].var = "none" /\ S[7].sep = FALSE /\ S[7].phase = 1
  BY <1>1 DEF Stage
<1> HIDE DEF S
<1>3. \A r \in 1 .. Len(S) : r = 1 \/ r = 2 \/ r = 3 \/ r = 4 \/ r = 5 \/ r = 6 \/ r = 7
  BY <1>1
<1>4. ASSUME NEW r \in 1 .. Len(S)
      PROVE  /\ S[r].sep \in BOOLEAN /\ S[r].phase \in Nat
             /\ S[r].sep => S[r].op = "barrier"
  <2>1. S[r].sep \in BOOLEAN
    BY <1>2, <1>3
  <2>2. S[r].phase \in Nat
    BY <1>2, <1>3
  <2>3. S[r].sep => S[r].op = "barrier"
    BY <1>2, <1>3
  <2>5. QED
    BY <2>1, <2>2, <2>3
<1>5. ASSUME NEW r \in 1 .. Len(S), NEW t \in 1 .. Len(S), r < t
      PROVE  /\ t = r + 1 /\ S[r].sep => S[t].op = "barrier"
             /\ S[r].phase <= S[t].phase
             /\ S[t].sep /\ ~S[r].sep => S[r].phase < S[t].phase
  <2>1. S[r].phase <= S[t].phase
    BY <1>2, <1>3, <1>5, SMTT(30)
  <2>2. S[t].sep /\ ~S[r].sep => S[r].phase < S[t].phase
    BY <1>2, <1>3, <1>5
  <2>3. t = r + 1 /\ S[r].sep => S[t].op = "barrier"
    BY <1>2, <1>3
  <2>4. QED
    BY <2>1, <2>2, <2>3
<1>6. Len(S) \in Nat \ {0}
  BY <1>1
<1>8. Ordered(S)
  BY <1>2, <1>4, <1>5, <1>6, Zenon DEF Ordered
<1>9. 1 \in 1 .. Len(S) /\ 2 \in 1 .. Len(S) /\ 3 \in 1 .. Len(S) /\ 4 \in 1 .. Len(S) /\ 5 \in 1 .. Len(S) /\ 6 \in 1 .. Len(S) /\ 7 \in 1 .. Len(S)
  BY <1>1
<1>m. \A k \in {1, 2, 3, 4, 5, 6, 7} : k \in 1 .. Len(S)
  BY <1>9
<1>10. Begins(S, 1, "start", "none", FALSE, 0)
  BY <1>2, <1>9 DEF Begins
<1>11. Begins(S, 2, "barrier", "none", FALSE, 0)
  BY <1>2, <1>9 DEF Begins
<1>12. Begins(S, 3, "barrier", "none", TRUE, 1)
  BY <1>2, <1>9 DEF Begins
<1>13. Begins(S, 4, "barrier", "none", FALSE, 1)
  BY <1>2, <1>9 DEF Begins
<1>14. Begins(S, 5, "scatter", "part", FALSE, 1)
  BY <1>2, <1>9 DEF Begins
<1>15. Begins(S, 6, "barrier", "none", FALSE, 1)
  BY <1>2, <1>9 DEF Begins
<1>16. Begins(S, 7, "barrier", "none", FALSE, 1)
  BY <1>2, <1>9 DEF Begins
<1>17. QED
  BY <1>6, <1>8, <1>m, <1>10, <1>11, <1>12, <1>13, <1>14, <1>15, <1>16 DEF S

\* What these stages are, and that they are in order.
LEMMA GatherStagesAre ==
    /\ Len(GatherStages) \in Nat
    /\ \A k \in {1, 2, 3, 4, 5, 6} : k \in 1 .. Len(GatherStages)
    /\ Begins(GatherStages, 1, "start", "none", FALSE, 0)
    /\ Begins(GatherStages, 2, "barrier", "none", FALSE, 0)
    /\ Begins(GatherStages, 3, "barrier", "none", FALSE, 0)
    /\ Begins(GatherStages, 4, "barrier", "none", TRUE, 1)
    /\ Begins(GatherStages, 5, "barrier", "none", FALSE, 1)
    /\ Begins(GatherStages, 6, "gather", "all", FALSE, 1)
    /\ Ordered(GatherStages)
<1> DEFINE S == GatherStages
<1>1. /\ Len(S) = 6
      /\ S[1] = Stage("start", "none", FALSE, 0)
      /\ S[2] = Stage("barrier", "none", FALSE, 0)
      /\ S[3] = Stage("barrier", "none", FALSE, 0)
      /\ S[4] = Stage("barrier", "none", TRUE, 1)
      /\ S[5] = Stage("barrier", "none", FALSE, 1)
      /\ S[6] = Stage("gather", "all", FALSE, 1)
  BY DEF GatherStages, First, Opened, Closed
<1>2. /\ S[1].op = "start"
      /\ S[1].op = "start" /\ S[1].var = "none" /\ S[1].sep = FALSE /\ S[1].phase = 0
      /\ S[2].op = "barrier" /\ S[2].var = "none" /\ S[2].sep = FALSE /\ S[2].phase = 0
      /\ S[3].op = "barrier" /\ S[3].var = "none" /\ S[3].sep = FALSE /\ S[3].phase = 0
      /\ S[4].op = "barrier" /\ S[4].var = "none" /\ S[4].sep = TRUE /\ S[4].phase = 1
      /\ S[5].op = "barrier" /\ S[5].var = "none" /\ S[5].sep = FALSE /\ S[5].phase = 1
      /\ S[6].op = "gather" /\ S[6].var = "all" /\ S[6].sep = FALSE /\ S[6].phase = 1
  BY <1>1 DEF Stage
<1> HIDE DEF S
<1>3. \A r \in 1 .. Len(S) : r = 1 \/ r = 2 \/ r = 3 \/ r = 4 \/ r = 5 \/ r = 6
  BY <1>1
<1>4. ASSUME NEW r \in 1 .. Len(S)
      PROVE  /\ S[r].sep \in BOOLEAN /\ S[r].phase \in Nat
             /\ S[r].sep => S[r].op = "barrier"
  <2>1. S[r].sep \in BOOLEAN
    BY <1>2, <1>3
  <2>2. S[r].phase \in Nat
    BY <1>2, <1>3
  <2>3. S[r].sep => S[r].op = "barrier"
    BY <1>2, <1>3
  <2>5. QED
    BY <2>1, <2>2, <2>3
<1>5. ASSUME NEW r \in 1 .. Len(S), NEW t \in 1 .. Len(S), r < t
      PROVE  /\ t = r + 1 /\ S[r].sep => S[t].op = "barrier"
             /\ S[r].phase <= S[t].phase
             /\ S[t].sep /\ ~S[r].sep => S[r].phase < S[t].phase
  <2>1. S[r].phase <= S[t].phase
    BY <1>2, <1>3, <1>5
  <2>2. S[t].sep /\ ~S[r].sep => S[r].phase < S[t].phase
    BY <1>2, <1>3, <1>5
  <2>3. t = r + 1 /\ S[r].sep => S[t].op = "barrier"
    BY <1>2, <1>3
  <2>4. QED
    BY <2>1, <2>2, <2>3
<1>6. Len(S) \in Nat \ {0}
  BY <1>1
<1>8. Ordered(S)
  BY <1>2, <1>4, <1>5, <1>6, Zenon DEF Ordered
<1>9. 1 \in 1 .. Len(S) /\ 2 \in 1 .. Len(S) /\ 3 \in 1 .. Len(S) /\ 4 \in 1 .. Len(S) /\ 5 \in 1 .. Len(S) /\ 6 \in 1 .. Len(S)
  BY <1>1
<1>m. \A k \in {1, 2, 3, 4, 5, 6} : k \in 1 .. Len(S)
  BY <1>9
<1>10. Begins(S, 1, "start", "none", FALSE, 0)
  BY <1>2, <1>9 DEF Begins
<1>11. Begins(S, 2, "barrier", "none", FALSE, 0)
  BY <1>2, <1>9 DEF Begins
<1>12. Begins(S, 3, "barrier", "none", FALSE, 0)
  BY <1>2, <1>9 DEF Begins
<1>13. Begins(S, 4, "barrier", "none", TRUE, 1)
  BY <1>2, <1>9 DEF Begins
<1>14. Begins(S, 5, "barrier", "none", FALSE, 1)
  BY <1>2, <1>9 DEF Begins
<1>15. Begins(S, 6, "gather", "all", FALSE, 1)
  BY <1>2, <1>9 DEF Begins
<1>16. QED
  BY <1>6, <1>8, <1>m, <1>10, <1>11, <1>12, <1>13, <1>14, <1>15 DEF S

\* What these stages are, and that they are in order.
LEMMA ChunksStagesAre ==
    /\ Len(ChunksStages) \in Nat
    /\ \A k \in {1, 2, 3, 4, 5, 6, 7} : k \in 1 .. Len(ChunksStages)
    /\ Begins(ChunksStages, 1, "start", "none", FALSE, 0)
    /\ Begins(ChunksStages, 2, "barrier", "none", TRUE, 1)
    /\ Begins(ChunksStages, 3, "barrier", "none", FALSE, 1)
    /\ Begins(ChunksStages, 4, "scatter", "part", FALSE, 1)
    /\ Begins(ChunksStages, 5, "gather", "all", FALSE, 1)
    /\ Begins(ChunksStages, 6, "barrier", "none", TRUE, 2)
    /\ Begins(ChunksStages, 7, "barrier", "none", FALSE, 2)
    /\ Ordered(ChunksStages)
<1> DEFINE S == ChunksStages
<1>1. /\ Len(S) = 7
      /\ S[1] = Stage("start", "none", FALSE, 0)
      /\ S[2] = Stage("barrier", "none", TRUE, 1)
      /\ S[3] = Stage("barrier", "none", FALSE, 1)
      /\ S[4] = Stage("scatter", "part", FALSE, 1)
      /\ S[5] = Stage("gather", "all", FALSE, 1)
      /\ S[6] = Stage("barrier", "none", TRUE, 2)
      /\ S[7] = Stage("barrier", "none", FALSE, 2)
  BY DEF ChunksStages, First, Opened, Closed
<1>2. /\ S[1].op = "start"
      /\ S[1].op = "start" /\ S[1].var = "none" /\ S[1].sep = FALSE /\ S[1].phase = 0
      /\ S[2].op = "barrier" /\ S[2].var = "none" /\ S[2].sep = TRUE /\ S[2].phase = 1
      /\ S[3].op = "barrier" /\ S[3].var = "none" /\ S[3].sep = FALSE /\ S[3].phase = 1
      /\ S[4].op = "scatter" /\ S[4].var = "part" /\ S[4].sep = FALSE /\ S[4].phase = 1
      /\ S[5].op = "gather" /\ S[5].var = "all" /\ S[5].sep = FALSE /\ S[5].phase = 1
      /\ S[6].op = "barrier" /\ S[6].var = "none" /\ S[6].sep = TRUE /\ S[6].phase = 2
      /\ S[7].op = "barrier" /\ S[7].var = "none" /\ S[7].sep = FALSE /\ S[7].phase = 2
  BY <1>1 DEF Stage
<1> HIDE DEF S
<1>3. \A r \in 1 .. Len(S) : r = 1 \/ r = 2 \/ r = 3 \/ r = 4 \/ r = 5 \/ r = 6 \/ r = 7
  BY <1>1
<1>4. ASSUME NEW r \in 1 .. Len(S)
      PROVE  /\ S[r].sep \in BOOLEAN /\ S[r].phase \in Nat
             /\ S[r].sep => S[r].op = "barrier"
  <2>1. S[r].sep \in BOOLEAN
    BY <1>2, <1>3
  <2>2. S[r].phase \in Nat
    BY <1>2, <1>3
  <2>3. S[r].sep => S[r].op = "barrier"
    BY <1>2, <1>3
  <2>5. QED
    BY <2>1, <2>2, <2>3
<1>5. ASSUME NEW r \in 1 .. Len(S), NEW t \in 1 .. Len(S), r < t
      PROVE  /\ t = r + 1 /\ S[r].sep => S[t].op = "barrier"
             /\ S[r].phase <= S[t].phase
             /\ S[t].sep /\ ~S[r].sep => S[r].phase < S[t].phase
  <2>1. S[r].phase <= S[t].phase
    BY <1>2, <1>3, <1>5, SMTT(30)
  <2>2. S[t].sep /\ ~S[r].sep => S[r].phase < S[t].phase
    BY <1>2, <1>3, <1>5, SMTT(30)
  <2>3. t = r + 1 /\ S[r].sep => S[t].op = "barrier"
    BY <1>2, <1>3
  <2>4. QED
    BY <2>1, <2>2, <2>3
<1>6. Len(S) \in Nat \ {0}
  BY <1>1
<1>8. Ordered(S)
  BY <1>2, <1>4, <1>5, <1>6, Zenon DEF Ordered
<1>9. 1 \in 1 .. Len(S) /\ 2 \in 1 .. Len(S) /\ 3 \in 1 .. Len(S) /\ 4 \in 1 .. Len(S) /\ 5 \in 1 .. Len(S) /\ 6 \in 1 .. Len(S) /\ 7 \in 1 .. Len(S)
  BY <1>1
<1>m. \A k \in {1, 2, 3, 4, 5, 6, 7} : k \in 1 .. Len(S)
  BY <1>9
<1>10. Begins(S, 1, "start", "none", FALSE, 0)
  BY <1>2, <1>9 DEF Begins
<1>11. Begins(S, 2, "barrier", "none", TRUE, 1)
  BY <1>2, <1>9 DEF Begins
<1>12. Begins(S, 3, "barrier", "none", FALSE, 1)
  BY <1>2, <1>9 DEF Begins
<1>13. Begins(S, 4, "scatter", "part", FALSE, 1)
  BY <1>2, <1>9 DEF Begins
<1>14. Begins(S, 5, "gather", "all", FALSE, 1)
  BY <1>2, <1>9 DEF Begins
<1>15. Begins(S, 6, "barrier", "none", TRUE, 2)
  BY <1>2, <1>9 DEF Begins
<1>16. Begins(S, 7, "barrier", "none", FALSE, 2)
  BY <1>2, <1>9 DEF Begins
<1>17. QED
  BY <1>6, <1>8, <1>m, <1>10, <1>11, <1>12, <1>13, <1>14, <1>15, <1>16 DEF S

\* What these stages are, and that they are in order.
LEMMA LoopStagesAre ==
    /\ Len(LoopStages) \in Nat
    /\ \A k \in {1, 2, 3, 4, 5, 6, 7, 8, 9} : k \in 1 .. Len(LoopStages)
    /\ Begins(LoopStages, 1, "start", "none", FALSE, 0)
    /\ Begins(LoopStages, 2, "bcast", "buf", FALSE, 0)
    /\ Begins(LoopStages, 3, "barrier", "none", TRUE, 1)
    /\ Begins(LoopStages, 4, "barrier", "none", FALSE, 1)
    /\ Begins(LoopStages, 5, "barrier", "none", TRUE, 2)
    /\ Begins(LoopStages, 6, "barrier", "none", FALSE, 2)
    /\ Begins(LoopStages, 7, "gather", "all", FALSE, 2)
    /\ Begins(LoopStages, 8, "barrier", "none", TRUE, 3)
    /\ Begins(LoopStages, 9, "barrier", "none", FALSE, 3)
    /\ Ordered(LoopStages)
<1> DEFINE S == LoopStages
<1>1. /\ Len(S) = 9
      /\ S[1] = Stage("start", "none", FALSE, 0)
      /\ S[2] = Stage("bcast", "buf", FALSE, 0)
      /\ S[3] = Stage("barrier", "none", TRUE, 1)
      /\ S[4] = Stage("barrier", "none", FALSE, 1)
      /\ S[5] = Stage("barrier", "none", TRUE, 2)
      /\ S[6] = Stage("barrier", "none", FALSE, 2)
      /\ S[7] = Stage("gather", "all", FALSE, 2)
      /\ S[8] = Stage("barrier", "none", TRUE, 3)
      /\ S[9] = Stage("barrier", "none", FALSE, 3)
  BY DEF LoopStages, First, Opened, Closed
<1>2. /\ S[1].op = "start"
      /\ S[1].op = "start" /\ S[1].var = "none" /\ S[1].sep = FALSE /\ S[1].phase = 0
      /\ S[2].op = "bcast" /\ S[2].var = "buf" /\ S[2].sep = FALSE /\ S[2].phase = 0
      /\ S[3].op = "barrier" /\ S[3].var = "none" /\ S[3].sep = TRUE /\ S[3].phase = 1
      /\ S[4].op = "barrier" /\ S[4].var = "none" /\ S[4].sep = FALSE /\ S[4].phase = 1
      /\ S[5].op = "barrier" /\ S[5].var = "none" /\ S[5].sep = TRUE /\ S[5].phase = 2
      /\ S[6].op = "barrier" /\ S[6].var = "none" /\ S[6].sep = FALSE /\ S[6].phase = 2
      /\ S[7].op = "gather" /\ S[7].var = "all" /\ S[7].sep = FALSE /\ S[7].phase = 2
      /\ S[8].op = "barrier" /\ S[8].var = "none" /\ S[8].sep = TRUE /\ S[8].phase = 3
      /\ S[9].op = "barrier" /\ S[9].var = "none" /\ S[9].sep = FALSE /\ S[9].phase = 3
  BY <1>1 DEF Stage
<1> HIDE DEF S
<1>3. \A r \in 1 .. Len(S) : r = 1 \/ r = 2 \/ r = 3 \/ r = 4 \/ r = 5 \/ r = 6 \/ r = 7 \/ r = 8 \/ r = 9
  BY <1>1
<1>4. ASSUME NEW r \in 1 .. Len(S)
      PROVE  /\ S[r].sep \in BOOLEAN /\ S[r].phase \in Nat
             /\ S[r].sep => S[r].op = "barrier"
  <2>1. S[r].sep \in BOOLEAN
    BY <1>2, <1>3
  <2>2. S[r].phase \in Nat
    BY <1>2, <1>3, SMTT(30)
  <2>3. S[r].sep => S[r].op = "barrier"
    BY <1>2, <1>3
  <2>5. QED
    BY <2>1, <2>2, <2>3
<1>5. ASSUME NEW r \in 1 .. Len(S), NEW t \in 1 .. Len(S), r < t
      PROVE  /\ t = r + 1 /\ S[r].sep => S[t].op = "barrier"
             /\ S[r].phase <= S[t].phase
             /\ S[t].sep /\ ~S[r].sep => S[r].phase < S[t].phase
  <2>1. S[r].phase <= S[t].phase
    BY <1>2, <1>3, <1>5
  <2>2. S[t].sep /\ ~S[r].sep => S[r].phase < S[t].phase
    BY <1>2, <1>3, <1>5, SMTT(40)
  <2>3. t = r + 1 /\ S[r].sep => S[t].op = "barrier"
    BY <1>2, <1>3, SMTT(40)
  <2>4. QED
    BY <2>1, <2>2, <2>3
<1>6. Len(S) \in Nat \ {0}
  BY <1>1
<1>8. Ordered(S)
  BY <1>2, <1>4, <1>5, <1>6, Zenon DEF Ordered
<1>9. 1 \in 1 .. Len(S) /\ 2 \in 1 .. Len(S) /\ 3 \in 1 .. Len(S) /\ 4 \in 1 .. Len(S) /\ 5 \in 1 .. Len(S) /\ 6 \in 1 .. Len(S) /\ 7 \in 1 .. Len(S) /\ 8 \in 1 .. Len(S) /\ 9 \in 1 .. Len(S)
  BY <1>1
<1>m. \A k \in {1, 2, 3, 4, 5, 6, 7, 8, 9} : k \in 1 .. Len(S)
  BY <1>9
<1>10. Begins(S, 1, "start", "none", FALSE, 0)
  BY <1>2, <1>9 DEF Begins
<1>11. Begins(S, 2, "bcast", "buf", FALSE, 0)
  BY <1>2, <1>9 DEF Begins
<1>12. Begins(S, 3, "barrier", "none", TRUE, 1)
  BY <1>2, <1>9 DEF Begins
<1>13. Begins(S, 4, "barrier", "none", FALSE, 1)
  BY <1>2, <1>9 DEF Begins
<1>14. Begins(S, 5, "barrier", "none", TRUE, 2)
  BY <1>2, <1>9 DEF Begins
<1>15. Begins(S, 6, "barrier", "none", FALSE, 2)
  BY <1>2, <1>9 DEF Begins
<1>16. Begins(S, 7, "gather", "all", FALSE, 2)
  BY <1>2, <1>9 DEF Begins
<1>17. Begins(S, 8, "barrier", "none", TRUE, 3)
  BY <1>2, <1>9 DEF Begins
<1>18. Begins(S, 9, "barrier", "none", FALSE, 3)
  BY <1>2, <1>9 DEF Begins
<1>19. QED
  BY <1>6, <1>8, <1>m, <1>10, <1>11, <1>12, <1>13, <1>14, <1>15, <1>16, <1>17, <1>18 DEF S

\* What these stages are, and that they are in order.
LEMMA PiecesStagesAre ==
    /\ Len(PiecesStages) \in Nat
    /\ \A k \in {1, 2, 3, 4, 5, 6, 7, 8, 9} : k \in 1 .. Len(PiecesStages)
    /\ Begins(PiecesStages, 1, "start", "none", FALSE, 0)
    /\ Begins(PiecesStages, 2, "scatter", "part", FALSE, 0)
    /\ Begins(PiecesStages, 3, "barrier", "none", TRUE, 1)
    /\ Begins(PiecesStages, 4, "barrier", "none", FALSE, 1)
    /\ Begins(PiecesStages, 5, "barrier", "none", TRUE, 2)
    /\ Begins(PiecesStages, 6, "barrier", "none", FALSE, 2)
    /\ Begins(PiecesStages, 7, "gather", "all", FALSE, 2)
    /\ Begins(PiecesStages, 8, "barrier", "none", TRUE, 3)
    /\ Begins(PiecesStages, 9, "barrier", "none", FALSE, 3)
    /\ Ordered(PiecesStages)
<1> DEFINE S == PiecesStages
<1>1. /\ Len(S) = 9
      /\ S[1] = Stage("start", "none", FALSE, 0)
      /\ S[2] = Stage("scatter", "part", FALSE, 0)
      /\ S[3] = Stage("barrier", "none", TRUE, 1)
      /\ S[4] = Stage("barrier", "none", FALSE, 1)
      /\ S[5] = Stage("barrier", "none", TRUE, 2)
      /\ S[6] = Stage("barrier", "none", FALSE, 2)
      /\ S[7] = Stage("gather", "all", FALSE, 2)
      /\ S[8] = Stage("barrier", "none", TRUE, 3)
      /\ S[9] = Stage("barrier", "none", FALSE, 3)
  BY DEF PiecesStages, First, Opened, Closed
<1>2. /\ S[1].op = "start"
      /\ S[1].op = "start" /\ S[1].var = "none" /\ S[1].sep = FALSE /\ S[1].phase = 0
      /\ S[2].op = "scatter" /\ S[2].var = "part" /\ S[2].sep = FALSE /\ S[2].phase = 0
      /\ S[3].op = "barrier" /\ S[3].var = "none" /\ S[3].sep = TRUE /\ S[3].phase = 1
      /\ S[4].op = "barrier" /\ S[4].var = "none" /\ S[4].sep = FALSE /\ S[4].phase = 1
      /\ S[5].op = "barrier" /\ S[5].var = "none" /\ S[5].sep = TRUE /\ S[5].phase = 2
      /\ S[6].op = "barrier" /\ S[6].var = "none" /\ S[6].sep = FALSE /\ S[6].phase = 2
      /\ S[7].op = "gather" /\ S[7].var = "all" /\ S[7].sep = FALSE /\ S[7].phase = 2
      /\ S[8].op = "barrier" /\ S[8].var = "none" /\ S[8].sep = TRUE /\ S[8].phase = 3
      /\ S[9].op = "barrier" /\ S[9].var = "none" /\ S[9].sep = FALSE /\ S[9].phase = 3
  BY <1>1 DEF Stage
<1> HIDE DEF S
<1>3. \A r \in 1 .. Len(S) : r = 1 \/ r = 2 \/ r = 3 \/ r = 4 \/ r = 5 \/ r = 6 \/ r = 7 \/ r = 8 \/ r = 9
  BY <1>1
<1>4. ASSUME NEW r \in 1 .. Len(S)
      PROVE  /\ S[r].sep \in BOOLEAN /\ S[r].phase \in Nat
             /\ S[r].sep => S[r].op = "barrier"
  <2>1. S[r].sep \in BOOLEAN
    BY <1>2, <1>3
  <2>2. S[r].phase \in Nat
    BY <1>2, <1>3, SMTT(30)
  <2>3. S[r].sep => S[r].op = "barrier"
    BY <1>2, <1>3
  <2>5. QED
    BY <2>1, <2>2, <2>3
<1>5. ASSUME NEW r \in 1 .. Len(S), NEW t \in 1 .. Len(S), r < t
      PROVE  /\ t = r + 1 /\ S[r].sep => S[t].op = "barrier"
             /\ S[r].phase <= S[t].phase
             /\ S[t].sep /\ ~S[r].sep => S[r].phase < S[t].phase
  <2>1. S[r].phase <= S[t].phase
    BY <1>2, <1>3, <1>5, SMTT(30)
  <2>2. S[t].sep /\ ~S[r].sep => S[r].phase < S[t].phase
    BY <1>2, <1>3, <1>5, SMTT(40)
  <2>3. t = r + 1 /\ S[r].sep => S[t].op = "barrier"
    BY <1>2, <1>3, SMTT(40)
  <2>4. QED
    BY <2>1, <2>2, <2>3
<1>6. Len(S) \in Nat \ {0}
  BY <1>1
<1>8. Ordered(S)
  BY <1>2, <1>4, <1>5, <1>6, Zenon DEF Ordered
<1>9. 1 \in 1 .. Len(S) /\ 2 \in 1 .. Len(S) /\ 3 \in 1 .. Len(S) /\ 4 \in 1 .. Len(S) /\ 5 \in 1 .. Len(S) /\ 6 \in 1 .. Len(S) /\ 7 \in 1 .. Len(S) /\ 8 \in 1 .. Len(S) /\ 9 \in 1 .. Len(S)
  BY <1>1
<1>m. \A k \in {1, 2, 3, 4, 5, 6, 7, 8, 9} : k \in 1 .. Len(S)
  BY <1>9
<1>10. Begins(S, 1, "start", "none", FALSE, 0)
  BY <1>2, <1>9 DEF Begins
<1>11. Begins(S, 2, "scatter", "part", FALSE, 0)
  BY <1>2, <1>9 DEF Begins
<1>12. Begins(S, 3, "barrier", "none", TRUE, 1)
  BY <1>2, <1>9 DEF Begins
<1>13. Begins(S, 4, "barrier", "none", FALSE, 1)
  BY <1>2, <1>9 DEF Begins
<1>14. Begins(S, 5, "barrier", "none", TRUE, 2)
  BY <1>2, <1>9 DEF Begins
<1>15. Begins(S, 6, "barrier", "none", FALSE, 2)
  BY <1>2, <1>9 DEF Begins
<1>16. Begins(S, 7, "gather", "all", FALSE, 2)
  BY <1>2, <1>9 DEF Begins
<1>17. Begins(S, 8, "barrier", "none", TRUE, 3)
  BY <1>2, <1>9 DEF Begins
<1>18. Begins(S, 9, "barrier", "none", FALSE, 3)
  BY <1>2, <1>9 DEF Begins
<1>19. QED
  BY <1>6, <1>8, <1>m, <1>10, <1>11, <1>12, <1>13, <1>14, <1>15, <1>16, <1>17, <1>18 DEF S

\* What these stages are, and that they are in order.
LEMMA OneAre ==
    ASSUME NEW op, NEW var
    PROVE  /\ Len(One(op, var)) \in Nat
           /\ \A k \in {1, 2} : k \in 1 .. Len(One(op, var))
           /\ Begins(One(op, var), 1, "start", "none", FALSE, 0)
           /\ Begins(One(op, var), 2, op, var, FALSE, 0)
           /\ Ordered(One(op, var))
<1> DEFINE S == One(op, var)
<1>1. /\ Len(S) = 2
      /\ S[1] = Stage("start", "none", FALSE, 0)
      /\ S[2] = Stage(op, var, FALSE, 0)
  BY DEF One, First, Opened, Closed
<1>2. /\ S[1].op = "start"
      /\ S[1].op = "start" /\ S[1].var = "none" /\ S[1].sep = FALSE /\ S[1].phase = 0
      /\ S[2].op = op /\ S[2].var = var /\ S[2].sep = FALSE /\ S[2].phase = 0
  BY <1>1 DEF Stage
<1> HIDE DEF S
<1>3. \A r \in 1 .. Len(S) : r = 1 \/ r = 2
  BY <1>1
<1>4. ASSUME NEW r \in 1 .. Len(S)
      PROVE  /\ S[r].sep \in BOOLEAN /\ S[r].phase \in Nat
             /\ S[r].sep => S[r].op = "barrier"
  <2>1. S[r].sep \in BOOLEAN
    BY <1>2, <1>3
  <2>2. S[r].phase \in Nat
    BY <1>2, <1>3
  <2>3. S[r].sep => S[r].op = "barrier"
    BY <1>2, <1>3
  <2>5. QED
    BY <2>1, <2>2, <2>3
<1>5. ASSUME NEW r \in 1 .. Len(S), NEW t \in 1 .. Len(S), r < t
      PROVE  /\ t = r + 1 /\ S[r].sep => S[t].op = "barrier"
             /\ S[r].phase <= S[t].phase
             /\ S[t].sep /\ ~S[r].sep => S[r].phase < S[t].phase
  <2>1. S[r].phase <= S[t].phase
    BY <1>2, <1>3, <1>5
  <2>2. S[t].sep /\ ~S[r].sep => S[r].phase < S[t].phase
    BY <1>2, <1>3, <1>5
  <2>3. t = r + 1 /\ S[r].sep => S[t].op = "barrier"
    BY <1>2, <1>3
  <2>4. QED
    BY <2>1, <2>2, <2>3
<1>6. Len(S) \in Nat \ {0}
  BY <1>1
<1>8. Ordered(S)
  BY <1>2, <1>4, <1>5, <1>6, Zenon DEF Ordered
<1>9. 1 \in 1 .. Len(S) /\ 2 \in 1 .. Len(S)
  BY <1>1
<1>m. \A k \in {1, 2} : k \in 1 .. Len(S)
  BY <1>9
<1>10. Begins(S, 1, "start", "none", FALSE, 0)
  BY <1>2, <1>9 DEF Begins
<1>11. Begins(S, 2, op, var, FALSE, 0)
  BY <1>2, <1>9 DEF Begins
<1>12. QED
  BY <1>6, <1>8, <1>m, <1>10, <1>11 DEF S

\* What these stages are, and that they are in order.
LEMMA TwoAre ==
    ASSUME NEW op, NEW var, NEW op2, NEW var2
    PROVE  /\ Len(Two(op, var, op2, var2)) \in Nat
           /\ \A k \in {1, 2, 3} : k \in 1 .. Len(Two(op, var, op2, var2))
           /\ Begins(Two(op, var, op2, var2), 1, "start", "none", FALSE, 0)
           /\ Begins(Two(op, var, op2, var2), 2, op, var, FALSE, 0)
           /\ Begins(Two(op, var, op2, var2), 3, op2, var2, FALSE, 0)
           /\ Ordered(Two(op, var, op2, var2))
<1> DEFINE S == Two(op, var, op2, var2)
<1>1. /\ Len(S) = 3
      /\ S[1] = Stage("start", "none", FALSE, 0)
      /\ S[2] = Stage(op, var, FALSE, 0)
      /\ S[3] = Stage(op2, var2, FALSE, 0)
  BY DEF Two, First, Opened, Closed
<1>2. /\ S[1].op = "start"
      /\ S[1].op = "start" /\ S[1].var = "none" /\ S[1].sep = FALSE /\ S[1].phase = 0
      /\ S[2].op = op /\ S[2].var = var /\ S[2].sep = FALSE /\ S[2].phase = 0
      /\ S[3].op = op2 /\ S[3].var = var2 /\ S[3].sep = FALSE /\ S[3].phase = 0
  BY <1>1 DEF Stage
<1> HIDE DEF S
<1>3. \A r \in 1 .. Len(S) : r = 1 \/ r = 2 \/ r = 3
  BY <1>1
<1>4. ASSUME NEW r \in 1 .. Len(S)
      PROVE  /\ S[r].sep \in BOOLEAN /\ S[r].phase \in Nat
             /\ S[r].sep => S[r].op = "barrier"
  <2>1. S[r].sep \in BOOLEAN
    BY <1>2, <1>3
  <2>2. S[r].phase \in Nat
    BY <1>2, <1>3
  <2>3. S[r].sep => S[r].op = "barrier"
    BY <1>2, <1>3
  <2>5. QED
    BY <2>1, <2>2, <2>3
<1>5. ASSUME NEW r \in 1 .. Len(S), NEW t \in 1 .. Len(S), r < t
      PROVE  /\ t = r + 1 /\ S[r].sep => S[t].op = "barrier"
             /\ S[r].phase <= S[t].phase
             /\ S[t].sep /\ ~S[r].sep => S[r].phase < S[t].phase
  <2>1. S[r].phase <= S[t].phase
    BY <1>2, <1>3, <1>5
  <2>2. S[t].sep /\ ~S[r].sep => S[r].phase < S[t].phase
    BY <1>2, <1>3, <1>5
  <2>3. t = r + 1 /\ S[r].sep => S[t].op = "barrier"
    BY <1>2, <1>3
  <2>4. QED
    BY <2>1, <2>2, <2>3
<1>6. Len(S) \in Nat \ {0}
  BY <1>1
<1>8. Ordered(S)
  BY <1>2, <1>4, <1>5, <1>6, Zenon DEF Ordered
<1>9. 1 \in 1 .. Len(S) /\ 2 \in 1 .. Len(S) /\ 3 \in 1 .. Len(S)
  BY <1>1
<1>m. \A k \in {1, 2, 3} : k \in 1 .. Len(S)
  BY <1>9
<1>10. Begins(S, 1, "start", "none", FALSE, 0)
  BY <1>2, <1>9 DEF Begins
<1>11. Begins(S, 2, op, var, FALSE, 0)
  BY <1>2, <1>9 DEF Begins
<1>12. Begins(S, 3, op2, var2, FALSE, 0)
  BY <1>2, <1>9 DEF Begins
<1>13. QED
  BY <1>6, <1>8, <1>m, <1>10, <1>11, <1>12 DEF S

\* What these stages are, and that they are in order.
LEMMA ThreeAre ==
    ASSUME NEW op, NEW var, NEW op2, NEW var2, NEW op3, NEW var3
    PROVE  /\ Len(Three(op, var, op2, var2, op3, var3)) \in Nat
           /\ \A k \in {1, 2, 3, 4} : k \in 1 .. Len(Three(op, var, op2, var2, op3, var3))
           /\ Begins(Three(op, var, op2, var2, op3, var3), 1, "start", "none", FALSE, 0)
           /\ Begins(Three(op, var, op2, var2, op3, var3), 2, op, var, FALSE, 0)
           /\ Begins(Three(op, var, op2, var2, op3, var3), 3, op2, var2, FALSE, 0)
           /\ Begins(Three(op, var, op2, var2, op3, var3), 4, op3, var3, FALSE, 0)
           /\ Ordered(Three(op, var, op2, var2, op3, var3))
<1> DEFINE S == Three(op, var, op2, var2, op3, var3)
<1>1. /\ Len(S) = 4
      /\ S[1] = Stage("start", "none", FALSE, 0)
      /\ S[2] = Stage(op, var, FALSE, 0)
      /\ S[3] = Stage(op2, var2, FALSE, 0)
      /\ S[4] = Stage(op3, var3, FALSE, 0)
  BY DEF Three, First, Opened, Closed
<1>2. /\ S[1].op = "start"
      /\ S[1].op = "start" /\ S[1].var = "none" /\ S[1].sep = FALSE /\ S[1].phase = 0
      /\ S[2].op = op /\ S[2].var = var /\ S[2].sep = FALSE /\ S[2].phase = 0
      /\ S[3].op = op2 /\ S[3].var = var2 /\ S[3].sep = FALSE /\ S[3].phase = 0
      /\ S[4].op = op3 /\ S[4].var = var3 /\ S[4].sep = FALSE /\ S[4].phase = 0
  BY <1>1 DEF Stage
<1> HIDE DEF S
<1>3. \A r \in 1 .. Len(S) : r = 1 \/ r = 2 \/ r = 3 \/ r = 4
  BY <1>1
<1>4. ASSUME NEW r \in 1 .. Len(S)
      PROVE  /\ S[r].sep \in BOOLEAN /\ S[r].phase \in Nat
             /\ S[r].sep => S[r].op = "barrier"
  <2>1. S[r].sep \in BOOLEAN
    BY <1>2, <1>3
  <2>2. S[r].phase \in Nat
    BY <1>2, <1>3
  <2>3. S[r].sep => S[r].op = "barrier"
    BY <1>2, <1>3
  <2>5. QED
    BY <2>1, <2>2, <2>3
<1>5. ASSUME NEW r \in 1 .. Len(S), NEW t \in 1 .. Len(S), r < t
      PROVE  /\ t = r + 1 /\ S[r].sep => S[t].op = "barrier"
             /\ S[r].phase <= S[t].phase
             /\ S[t].sep /\ ~S[r].sep => S[r].phase < S[t].phase
  <2>1. S[r].phase <= S[t].phase
    BY <1>2, <1>3, <1>5
  <2>2. S[t].sep /\ ~S[r].sep => S[r].phase < S[t].phase
    BY <1>2, <1>3, <1>5
  <2>3. t = r + 1 /\ S[r].sep => S[t].op = "barrier"
    BY <1>2, <1>3
  <2>4. QED
    BY <2>1, <2>2, <2>3
<1>6. Len(S) \in Nat \ {0}
  BY <1>1
<1>8. Ordered(S)
  BY <1>2, <1>4, <1>5, <1>6, Zenon DEF Ordered
<1>9. 1 \in 1 .. Len(S) /\ 2 \in 1 .. Len(S) /\ 3 \in 1 .. Len(S) /\ 4 \in 1 .. Len(S)
  BY <1>1
<1>m. \A k \in {1, 2, 3, 4} : k \in 1 .. Len(S)
  BY <1>9
<1>10. Begins(S, 1, "start", "none", FALSE, 0)
  BY <1>2, <1>9 DEF Begins
<1>11. Begins(S, 2, op, var, FALSE, 0)
  BY <1>2, <1>9 DEF Begins
<1>12. Begins(S, 3, op2, var2, FALSE, 0)
  BY <1>2, <1>9 DEF Begins
<1>13. Begins(S, 4, op3, var3, FALSE, 0)
  BY <1>2, <1>9 DEF Begins
<1>14. QED
  BY <1>6, <1>8, <1>m, <1>10, <1>11, <1>12, <1>13 DEF S

-----------------------------------------------------------------------------
(* Every program follows its stages.                                       *)

\* The broadcast of the answer in broadcast.c.
LEMMA BroadcastStaged ==
    \A id, given : Staged(broadcast(id, given), One("bcast", "buf"))
<1> TAKE id, given
<1> DEFINE S == One("bcast", "buf")
<1> DEFINE v == << IF id = MASTER THEN ANSWER ELSE 0 >>
<1> DEFINE x1 == IF id = MASTER /\ ~given THEN << Abort >> ELSE <<>>
           x2 == << Bcast("buf", v) >>
<1> HIDE DEF v
<1>1. Place(Abort, S, 1, 1)
  BY OneAre, SamePlace
<1>2. Place(Bcast("buf", v), S, 1, 2)
  BY OneAre, Successors, NextPlace
<1>3. Follows(x1, S, 1, 1)
  BY <1>1, <1>2, OneAre, FollowsOne, FollowsNothing
<1>4. Follows(x2, S, 1, 2)
  BY <1>1, <1>2, OneAre, FollowsOne
<1> HIDE DEF x1, x2
<1>5. Follows(x1 \o x2, S, 1, 2)
  BY <1>3, <1>4, OneAre, FollowsBoth
<1>6. QED
  BY <1>5 DEF Staged, broadcast, v, x1, x2

\* The broadcast of what the user gives.
LEMMA BroadcastUserInputStaged ==
    \A id, given : Staged(broadcastUserInput(id, given), One("bcast", "buf"))
<1> TAKE id, given
<1> DEFINE S == One("bcast", "buf")
<1> DEFINE v == << IF id = MASTER /\ given THEN ANSWER ELSE 0 >>
<1> DEFINE x1 == << Bcast("buf", v) >>
<1> HIDE DEF v
<1>1. Place(Bcast("buf", v), S, 1, 2)
  BY OneAre, Successors, NextPlace
<1>2. Follows(x1, S, 1, 2)
  BY <1>1, OneAre, FollowsOne
<1> HIDE DEF x1
<1>3. QED
  BY <1>2 DEF Staged, broadcastUserInput, v, x1

\* The broadcast of an array.
LEMMA BroadcastArrayStaged ==
    \A id : Staged(broadcast2(id), One("bcast", "buf"))
<1> TAKE id
<1> DEFINE S == One("bcast", "buf")
<1> DEFINE v == IF id = MASTER THEN Fill(ARRAY_SIZE) ELSE Zeros(ARRAY_SIZE)
<1> DEFINE x1 == << Bcast("buf", v) >>
<1> HIDE DEF v
<1>1. Place(Bcast("buf", v), S, 1, 2)
  BY OneAre, Successors, NextPlace
<1>2. Follows(x1, S, 1, 2)
  BY <1>1, OneAre, FollowsOne
<1> HIDE DEF x1
<1>3. QED
  BY <1>2 DEF Staged, broadcast2, v, x1

\* The sum and the maximum of squares.
LEMMA ReductionStaged ==
    \A id : Staged(reduction(id), Two("sum", "buf", "max", "all"))
<1> TAKE id
<1> DEFINE S == Two("sum", "buf", "max", "all")
<1> DEFINE v == << (id + 1) * (id + 1) >>
<1> DEFINE x1 == << ReduceSum(v, "buf"), ReduceMax(v, "all") >>
<1> HIDE DEF v
<1>1. Place(ReduceSum(v, "buf"), S, 1, 2)
  BY TwoAre, Successors, NextPlace
<1>2. Place(ReduceMax(v, "all"), S, 2, 3)
  BY TwoAre, Successors, NextPlace
<1>3. Follows(x1, S, 1, 3)
  BY <1>1, <1>2, TwoAre, FollowsTwo
<1> HIDE DEF x1
<1>4. QED
  BY <1>3 DEF Staged, reduction, v, x1

\* The sum of arrays, printed on both sides of it.
LEMMA ReductionArraysStaged ==
    \A id : Staged(reduction2(id), ReductionStages)
<1> TAKE id
<1> DEFINE S == ReductionStages
<1> DEFINE v == [i \in 1 .. 5 |-> id * (i - 1)]
<1> DEFINE x1 == IF id = MASTER THEN << Line(0) >> ELSE <<>>
           x2 == PrintSeparator(id, 1)
           x3 == << Line(1) >>
           x4 == PrintSeparator(id, 2)
           x5 == << ReduceSum(v, "all") >>
           x6 == IF id = MASTER THEN << Line(2) >> ELSE <<>>
<1> HIDE DEF v
<1>1. Place(Line(0), S, 1, 1)
  BY ReductionStagesAre, SamePlace
<1>2. Place(Line(1), S, 3, 3)
  BY ReductionStagesAre, SamePlace
<1>3. Place(ReduceSum(v, "all"), S, 5, 6)
  BY ReductionStagesAre, Successors, NextPlace
<1>4. Place(Line(2), S, 6, 6)
  BY ReductionStagesAre, SamePlace
<1>5. Follows(x1, S, 1, 1)
  BY <1>1, <1>2, <1>3, <1>4, ReductionStagesAre, FollowsMaster
<1>6. Follows(x2, S, 1, 3)
  BY ReductionStagesAre, Successors, FollowsSeparator
<1>7. Follows(x3, S, 3, 3)
  BY <1>1, <1>2, <1>3, <1>4, ReductionStagesAre, FollowsOne
<1>8. Follows(x4, S, 3, 5)
  BY ReductionStagesAre, Successors, FollowsSeparator
<1>9. Follows(x5, S, 5, 6)
  BY <1>1, <1>2, <1>3, <1>4, ReductionStagesAre, FollowsOne
<1>10. Follows(x6, S, 6, 6)
  BY <1>1, <1>2, <1>3, <1>4, ReductionStagesAre, FollowsMaster
<1> HIDE DEF x1, x2, x3, x4, x5, x6
<1>11. Follows(x1 \o x2, S, 1, 3)
  BY <1>5, <1>6, ReductionStagesAre, FollowsBoth
<1>12. Follows(x1 \o x2 \o x3, S, 1, 3)
  BY <1>11, <1>7, ReductionStagesAre, FollowsBoth
<1>13. Follows(x1 \o x2 \o x3 \o x4, S, 1, 5)
  BY <1>12, <1>8, ReductionStagesAre, FollowsBoth
<1>14. Follows(x1 \o x2 \o x3 \o x4 \o x5, S, 1, 6)
  BY <1>13, <1>9, ReductionStagesAre, FollowsBoth
<1>15. Follows(x1 \o x2 \o x3 \o x4 \o x5 \o x6, S, 1, 6)
  BY <1>14, <1>10, ReductionStagesAre, FollowsBoth
<1>16. QED
  BY <1>15 DEF Staged, reduction2, v, x1, x2, x3, x4, x5, x6

\* The scatter in C.
LEMMA ScatterStaged ==
    \A id, n : Staged(scatter(id, n), One("scatter", "part"))
<1> TAKE id, n
<1> DEFINE S == One("scatter", "part")
<1> DEFINE v == EqualPieces([i \in 1 .. 8 |-> i * 11], 8 \div n, n)
<1> DEFINE x1 == << Scatter(v, "part") >>
<1> HIDE DEF v
<1>1. Place(Scatter(v, "part"), S, 1, 2)
  BY OneAre, Successors, NextPlace
<1>2. Follows(x1, S, 1, 2)
  BY <1>1, OneAre, FollowsOne
<1> HIDE DEF x1
<1>3. QED
  BY <1>2 DEF Staged, scatter, v, x1

\* The gather in C.
LEMMA GatherStaged ==
    \A id, n : Staged(gather(id, n), One("gather", "all"))
<1> TAKE id, n
<1> DEFINE S == One("gather", "all")
<1> DEFINE v == [i \in 1 .. 3 |-> id * 10 + (i - 1)]
           o == EqualOffsets(3, n)
<1> DEFINE x1 == << Gather(v, o, "all") >>
<1> HIDE DEF v, o
<1>1. Place(Gather(v, o, "all"), S, 1, 2)
  BY OneAre, Successors, NextPlace
<1>2. Follows(x1, S, 1, 2)
  BY <1>1, OneAre, FollowsOne
<1> HIDE DEF x1
<1>3. QED
  BY <1>2 DEF Staged, gather, v, o, x1

\* The barrier and the timing of reduceTiming.c.
LEMMA ReduceTimingStaged ==
    \A id, n : Staged(reduceTiming(id, n), Two("barrier", "none", "max", "all"))
<1> TAKE id, n
<1> DEFINE S == Two("barrier", "none", "max", "all")
<1> DEFINE v == << (id + 1) \div n >>
<1> DEFINE x1 == << Barrier, ReduceMax(v, "all") >>
<1> HIDE DEF v
<1>1. Place(Barrier, S, 1, 2)
  BY TwoAre, Successors, NextPlace
<1>2. Place(ReduceMax(v, "all"), S, 2, 3)
  BY TwoAre, Successors, NextPlace
<1>3. Follows(x1, S, 1, 3)
  BY <1>1, <1>2, TwoAre, FollowsTwo
<1> HIDE DEF x1
<1>4. QED
  BY <1>3 DEF Staged, reduceTiming, v, x1

\* The loop over a broadcast array, in C.
LEMMA BroadcastLoopStaged ==
    \A id, n, m : Staged(broadcastLoopGather(id, n, m), Three("bcast", "buf", "barrier", "none", "gather", "all"))
<1> TAKE id, n, m
<1> DEFINE S == Three("bcast", "buf", "barrier", "none", "gather", "all")
<1> DEFINE v == IF id = MASTER THEN Fill(ARRAY_SIZE) ELSE Zeros(ARRAY_SIZE)
           d == Doubled(Piece(m.buf, ARRAY_SIZE \div n, id * (ARRAY_SIZE \div n)))
           g == m.part
           o == EqualOffsets(ARRAY_SIZE \div n, n)
<1> DEFINE x1 == << Bcast("buf", v), Compute("part", d), Barrier, Gather(g, o, "all") >>
<1> HIDE DEF v, d, g, o
<1>1. Place(Bcast("buf", v), S, 1, 2)
  BY ThreeAre, Successors, NextPlace
<1>2. Place(Compute("part", d), S, 2, 2)
  BY ThreeAre, SamePlace
<1>3. Place(Barrier, S, 2, 3)
  BY ThreeAre, Successors, NextPlace
<1>4. Place(Gather(g, o, "all"), S, 3, 4)
  BY ThreeAre, Successors, NextPlace
<1>5. Follows(x1, S, 1, 4)
  BY <1>1, <1>2, <1>3, <1>4, ThreeAre, FollowsFour
<1> HIDE DEF x1
<1>6. Follows(<<>>, S, 1, 1)
  BY ThreeAre, FollowsNothing
<1>7. QED
  BY <1>5, <1>6 DEF Staged, broadcastLoopGather, v, d, g, o, x1

\* The loop over scattered pieces, in C.
LEMMA ScatterLoopStaged ==
    \A id, n, m : Staged(scatterLoopGather(id, n, m), ChunksStages)
<1> TAKE id, n, m
<1> DEFINE S == ChunksStages
<1> DEFINE v == EqualPieces(Fill(ARRAY_SIZE), ARRAY_SIZE \div n, n)
           d == Doubled(m.part)
           g == m.part
           o == EqualOffsets(ARRAY_SIZE \div n, n)
<1> DEFINE x1 == PrintSeparator(id, 1)
           x2 == << Line(1), Scatter(v, "part"), Compute("part", d), Gather(g, o, "all"), Line(1) >>
           x3 == PrintSeparator(id, 2)
<1> HIDE DEF v, d, g, o
<1>1. Place(Line(1), S, 3, 3)
  BY ChunksStagesAre, SamePlace
<1>2. Place(Scatter(v, "part"), S, 3, 4)
  BY ChunksStagesAre, Successors, NextPlace
<1>3. Place(Compute("part", d), S, 4, 4)
  BY ChunksStagesAre, SamePlace
<1>4. Place(Gather(g, o, "all"), S, 4, 5)
  BY ChunksStagesAre, Successors, NextPlace
<1>5. Place(Line(1), S, 5, 5)
  BY ChunksStagesAre, SamePlace
<1>6. Follows(x1, S, 1, 3)
  BY ChunksStagesAre, Successors, FollowsSeparator
<1>7. Follows(x2, S, 3, 5)
  BY <1>1, <1>2, <1>3, <1>4, <1>5, ChunksStagesAre, FollowsFive
<1>8. Follows(x3, S, 5, 7)
  BY ChunksStagesAre, Successors, FollowsSeparator
<1> HIDE DEF x1, x2, x3
<1>9. Follows(x2 \o x3, S, 3, 7)
  BY <1>7, <1>8, ChunksStagesAre, FollowsBoth
<1>10. Follows(x1 \o (x2 \o x3), S, 1, 7)
  BY <1>6, <1>9, ChunksStagesAre, FollowsBoth
<1>11. Follows(<<>>, S, 3, 3)
  BY ChunksStagesAre, FollowsNothing
<1>12. Follows(x1 \o <<>>, S, 1, 3)
  BY <1>6, <1>11, ChunksStagesAre, FollowsBoth
<1>13. CASE ~Divides(n, ARRAY_SIZE)
  BY <1>12, <1>13 DEF Staged, scatterLoopGather, x1
<1>14. CASE ~(~Divides(n, ARRAY_SIZE))
  BY <1>10, <1>14 DEF Staged, scatterLoopGather, v, d, g, o, x1, x2, x3
<1>15. QED
  BY <1>13, <1>14

\* The loop over scattered chunks, in C.
LEMMA ScatterChunksStaged ==
    \A id, n, m : Staged(scatterVGatherV(id, n, m), ChunksStages)
<1> TAKE id, n, m
<1> DEFINE S == ChunksStages
<1> DEFINE v == Chunks(Fill(ARRAY_SIZE), n)
           d == Doubled(m.part)
           g == m.part
           o == ChunkOffsets(n)
<1> DEFINE x1 == PrintSeparator(id, 1)
           x2 == << Line(1), Scatter(v, "part"), Compute("part", d), Gather(g, o, "all"), Line(1) >>
           x3 == PrintSeparator(id, 2)
<1> HIDE DEF v, d, g, o
<1>1. Place(Line(1), S, 3, 3)
  BY ChunksStagesAre, SamePlace
<1>2. Place(Scatter(v, "part"), S, 3, 4)
  BY ChunksStagesAre, Successors, NextPlace
<1>3. Place(Compute("part", d), S, 4, 4)
  BY ChunksStagesAre, SamePlace
<1>4. Place(Gather(g, o, "all"), S, 4, 5)
  BY ChunksStagesAre, Successors, NextPlace
<1>5. Place(Line(1), S, 5, 5)
  BY ChunksStagesAre, SamePlace
<1>6. Follows(x1, S, 1, 3)
  BY ChunksStagesAre, Successors, FollowsSeparator
<1>7. Follows(x2, S, 3, 5)
  BY <1>1, <1>2, <1>3, <1>4, <1>5, ChunksStagesAre, FollowsFive
<1>8. Follows(x3, S, 5, 7)
  BY ChunksStagesAre, Successors, FollowsSeparator
<1> HIDE DEF x1, x2, x3
<1>9. Follows(x2 \o x3, S, 3, 7)
  BY <1>7, <1>8, ChunksStagesAre, FollowsBoth
<1>10. Follows(x1 \o (x2 \o x3), S, 1, 7)
  BY <1>6, <1>9, ChunksStagesAre, FollowsBoth
<1>11. Follows(<<>>, S, 3, 3)
  BY ChunksStagesAre, FollowsNothing
<1>12. Follows(x1 \o <<>>, S, 1, 3)
  BY <1>6, <1>11, ChunksStagesAre, FollowsBoth
<1>13. CASE n > ARRAY_SIZE
  BY <1>12, <1>13 DEF Staged, scatterVGatherV, x1
<1>14. CASE ~(n > ARRAY_SIZE)
  BY <1>10, <1>14 DEF Staged, scatterVGatherV, v, d, g, o, x1, x2, x3
<1>15. QED
  BY <1>13, <1>14

\* The broadcast of the answer in Java; without the file the master does nothing.
LEMMA JavaBroadcastStaged ==
    \A id, given : Staged(JavaBroadcast(id, given), BroadcastStages)
<1> TAKE id, given
<1> DEFINE S == BroadcastStages
<1> DEFINE v == << IF id = MASTER THEN ANSWER ELSE 0 >>
<1> DEFINE x1 == << Line(0) >>
           x2 == PrintSeparator(id, 1)
           x3 == << Bcast("buf", v), Line(1) >>
<1> HIDE DEF v
<1>1. Place(Line(0), S, 1, 1)
  BY BroadcastStagesAre, SamePlace
<1>2. Place(Bcast("buf", v), S, 3, 4)
  BY BroadcastStagesAre, Successors, NextPlace
<1>3. Place(Line(1), S, 4, 4)
  BY BroadcastStagesAre, SamePlace
<1>4. Follows(x1, S, 1, 1)
  BY <1>1, <1>2, <1>3, BroadcastStagesAre, FollowsOne
<1>5. Follows(x2, S, 1, 3)
  BY BroadcastStagesAre, Successors, FollowsSeparator
<1>6. Follows(x3, S, 3, 4)
  BY <1>1, <1>2, <1>3, BroadcastStagesAre, FollowsTwo
<1> HIDE DEF x1, x2, x3
<1>7. Follows(x1 \o x2, S, 1, 3)
  BY <1>4, <1>5, BroadcastStagesAre, FollowsBoth
<1>8. Follows(x1 \o x2 \o x3, S, 1, 4)
  BY <1>7, <1>6, BroadcastStagesAre, FollowsBoth
<1>9. Follows(<<>>, S, 1, 1)
  BY BroadcastStagesAre, FollowsNothing
<1>10. QED
  BY <1>8, <1>9 DEF Staged, JavaBroadcast, v, x1, x2, x3

\* The broadcast of what the user gives, in Java.
LEMMA JavaBroadcastUserInputStaged ==
    \A id, given : Staged(JavaBroadcastUserInput(id, given), InputStages)
<1> TAKE id, given
<1> DEFINE S == InputStages
<1> DEFINE v == << IF id = MASTER /\ given THEN ANSWER ELSE 0 >>
<1> DEFINE x1 == << Line(0), Bcast("buf", v) >>
           x2 == PrintSeparator(id, 1)
           x3 == << Line(1) >>
<1> HIDE DEF v
<1>1. Place(Line(0), S, 1, 1)
  BY InputStagesAre, SamePlace
<1>2. Place(Bcast("buf", v), S, 1, 2)
  BY InputStagesAre, Successors, NextPlace
<1>3. Place(Line(1), S, 4, 4)
  BY InputStagesAre, SamePlace
<1>4. Follows(x1, S, 1, 2)
  BY <1>1, <1>2, <1>3, InputStagesAre, FollowsTwo
<1>5. Follows(x2, S, 2, 4)
  BY InputStagesAre, Successors, FollowsSeparator
<1>6. Follows(x3, S, 4, 4)
  BY <1>1, <1>2, <1>3, InputStagesAre, FollowsOne
<1> HIDE DEF x1, x2, x3
<1>7. Follows(x1 \o x2, S, 1, 4)
  BY <1>4, <1>5, InputStagesAre, FollowsBoth
<1>8. Follows(x1 \o x2 \o x3, S, 1, 4)
  BY <1>7, <1>6, InputStagesAre, FollowsBoth
<1>9. QED
  BY <1>8 DEF Staged, JavaBroadcastUserInput, v, x1, x2, x3

\* The broadcast of an array in Java.
LEMMA JavaBroadcastArrayStaged ==
    \A id : Staged(JavaBroadcast2(id), BroadcastStages)
<1> TAKE id
<1> DEFINE S == BroadcastStages
<1> DEFINE v == IF id = MASTER THEN Fill(ARRAY_SIZE) ELSE Zeros(ARRAY_SIZE)
<1> DEFINE x1 == << Line(0) >>
           x2 == PrintSeparator(id, 1)
           x3 == << Bcast("buf", v), Line(1) >>
<1> HIDE DEF v
<1>1. Place(Line(0), S, 1, 1)
  BY BroadcastStagesAre, SamePlace
<1>2. Place(Bcast("buf", v), S, 3, 4)
  BY BroadcastStagesAre, Successors, NextPlace
<1>3. Place(Line(1), S, 4, 4)
  BY BroadcastStagesAre, SamePlace
<1>4. Follows(x1, S, 1, 1)
  BY <1>1, <1>2, <1>3, BroadcastStagesAre, FollowsOne
<1>5. Follows(x2, S, 1, 3)
  BY BroadcastStagesAre, Successors, FollowsSeparator
<1>6. Follows(x3, S, 3, 4)
  BY <1>1, <1>2, <1>3, BroadcastStagesAre, FollowsTwo
<1> HIDE DEF x1, x2, x3
<1>7. Follows(x1 \o x2, S, 1, 3)
  BY <1>4, <1>5, BroadcastStagesAre, FollowsBoth
<1>8. Follows(x1 \o x2 \o x3, S, 1, 4)
  BY <1>7, <1>6, BroadcastStagesAre, FollowsBoth
<1>9. QED
  BY <1>8 DEF Staged, JavaBroadcast2, v, x1, x2, x3

\* The scatter in Java.
LEMMA JavaScatterStaged ==
    \A id, n : Staged(JavaScatter(id, n), ScatterStages)
<1> TAKE id, n
<1> DEFINE S == ScatterStages
<1> DEFINE v == EqualPieces([i \in 1 .. 8 |-> i * 11], 8 \div n, n)
<1> DEFINE x1 == OnlyMaster(id, Line(0))
           x2 == << Barrier, Line(0) >>
           x3 == PrintSeparator(id, 1)
           x4 == << Scatter(v, "part") >>
           x5 == OnlyMaster(id, Line(1))
           x6 == << Barrier, Line(1), Barrier >>
           x7 == OnlyMaster(id, Line(1))
<1> HIDE DEF v
<1>1. Place(Line(0), S, 1, 1)
  BY ScatterStagesAre, SamePlace
<1>2. Place(Barrier, S, 1, 2)
  BY ScatterStagesAre, Successors, NextPlace
<1>3. Place(Line(0), S, 2, 2)
  BY ScatterStagesAre, SamePlace
<1>4. Place(Scatter(v, "part"), S, 4, 5)
  BY ScatterStagesAre, Successors, NextPlace
<1>5. Place(Line(1), S, 5, 5)
  BY ScatterStagesAre, SamePlace
<1>6. Place(Barrier, S, 5, 6)
  BY ScatterStagesAre, Successors, NextPlace
<1>7. Place(Line(1), S, 6, 6)
  BY ScatterStagesAre, SamePlace
<1>8. Place(Barrier, S, 6, 7)
  BY ScatterStagesAre, Successors, NextPlace
<1>9. Place(Line(1), S, 7, 7)
  BY ScatterStagesAre, SamePlace
<1>10. Follows(x1, S, 1, 1)
  BY <1>1, <1>2, <1>3, <1>4, <1>5, <1>6, <1>7, <1>8, <1>9, ScatterStagesAre, FollowsMaster
<1>11. Follows(x2, S, 1, 2)
  BY <1>1, <1>2, <1>3, <1>4, <1>5, <1>6, <1>7, <1>8, <1>9, ScatterStagesAre, FollowsTwo
<1>12. Follows(x3, S, 2, 4)
  BY ScatterStagesAre, Successors, FollowsSeparator
<1>13. Follows(x4, S, 4, 5)
  BY <1>1, <1>2, <1>3, <1>4, <1>5, <1>6, <1>7, <1>8, <1>9, ScatterStagesAre, FollowsOne
<1>14. Follows(x5, S, 5, 5)
  BY <1>1, <1>2, <1>3, <1>4, <1>5, <1>6, <1>7, <1>8, <1>9, ScatterStagesAre, FollowsMaster
<1>15. Follows(x6, S, 5, 7)
  BY <1>1, <1>2, <1>3, <1>4, <1>5, <1>6, <1>7, <1>8, <1>9, ScatterStagesAre, FollowsThree
<1>16. Follows(x7, S, 7, 7)
  BY <1>1, <1>2, <1>3, <1>4, <1>5, <1>6, <1>7, <1>8, <1>9, ScatterStagesAre, FollowsMaster
<1> HIDE DEF x1, x2, x3, x4, x5, x6, x7
<1>17. Follows(x1 \o x2, S, 1, 2)
  BY <1>10, <1>11, ScatterStagesAre, FollowsBoth
<1>18. Follows(x1 \o x2 \o x3, S, 1, 4)
  BY <1>17, <1>12, ScatterStagesAre, FollowsBoth
<1>19. Follows(x1 \o x2 \o x3 \o x4, S, 1, 5)
  BY <1>18, <1>13, ScatterStagesAre, FollowsBoth
<1>20. Follows(x1 \o x2 \o x3 \o x4 \o x5, S, 1, 5)
  BY <1>19, <1>14, ScatterStagesAre, FollowsBoth
<1>21. Follows(x1 \o x2 \o x3 \o x4 \o x5 \o x6, S, 1, 7)
  BY <1>20, <1>15, ScatterStagesAre, FollowsBoth
<1>22. Follows(x1 \o x2 \o x3 \o x4 \o x5 \o x6 \o x7, S, 1, 7)
  BY <1>21, <1>16, ScatterStagesAre, FollowsBoth
<1>23. Follows(<<>>, S, 1, 1)
  BY ScatterStagesAre, FollowsNothing
<1>24. QED
  BY <1>22, <1>23 DEF Staged, JavaScatter, v, x1, x2, x3, x4, x5, x6, x7

\* The gather in Java.
LEMMA JavaGatherStaged ==
    \A id, n : Staged(JavaGather(id, n), GatherStages)
<1> TAKE id, n
<1> DEFINE S == GatherStages
<1> DEFINE g == [i \in 1 .. 3 |-> id * 10 + (i - 1)]
           o == EqualOffsets(3, n)
<1> DEFINE x1 == OnlyMaster(id, Line(0))
           x2 == << Barrier, Line(0), Barrier >>
           x3 == PrintSeparator(id, 1)
           x4 == << Gather(g, o, "all") >>
           x5 == OnlyMaster(id, Line(1))
<1> HIDE DEF g, o
<1>1. Place(Line(0), S, 1, 1)
  BY GatherStagesAre, SamePlace
<1>2. Place(Barrier, S, 1, 2)
  BY GatherStagesAre, Successors, NextPlace
<1>3. Place(Line(0), S, 2, 2)
  BY GatherStagesAre, SamePlace
<1>4. Place(Barrier, S, 2, 3)
  BY GatherStagesAre, Successors, NextPlace
<1>5. Place(Gather(g, o, "all"), S, 5, 6)
  BY GatherStagesAre, Successors, NextPlace
<1>6. Place(Line(1), S, 6, 6)
  BY GatherStagesAre, SamePlace
<1>7. Follows(x1, S, 1, 1)
  BY <1>1, <1>2, <1>3, <1>4, <1>5, <1>6, GatherStagesAre, FollowsMaster
<1>8. Follows(x2, S, 1, 3)
  BY <1>1, <1>2, <1>3, <1>4, <1>5, <1>6, GatherStagesAre, FollowsThree
<1>9. Follows(x3, S, 3, 5)
  BY GatherStagesAre, Successors, FollowsSeparator
<1>10. Follows(x4, S, 5, 6)
  BY <1>1, <1>2, <1>3, <1>4, <1>5, <1>6, GatherStagesAre, FollowsOne
<1>11. Follows(x5, S, 6, 6)
  BY <1>1, <1>2, <1>3, <1>4, <1>5, <1>6, GatherStagesAre, FollowsMaster
<1> HIDE DEF x1, x2, x3, x4, x5
<1>12. Follows(x1 \o x2, S, 1, 3)
  BY <1>7, <1>8, GatherStagesAre, FollowsBoth
<1>13. Follows(x1 \o x2 \o x3, S, 1, 5)
  BY <1>12, <1>9, GatherStagesAre, FollowsBoth
<1>14. Follows(x1 \o x2 \o x3 \o x4, S, 1, 6)
  BY <1>13, <1>10, GatherStagesAre, FollowsBoth
<1>15. Follows(x1 \o x2 \o x3 \o x4 \o x5, S, 1, 6)
  BY <1>14, <1>11, GatherStagesAre, FollowsBoth
<1>16. QED
  BY <1>15 DEF Staged, JavaGather, g, o, x1, x2, x3, x4, x5

\* The barriers and the timing of the Java version.
LEMMA JavaReduceTimingStaged ==
    Staged(JavaReducePlusTiming, Three("barrier", "none", "barrier", "none", "sum", "all"))
<1> DEFINE S == Three("barrier", "none", "barrier", "none", "sum", "all")
<1> DEFINE v == << 1000 >>
<1> DEFINE x1 == << Barrier, Barrier, ReduceSum(v, "all") >>
<1> HIDE DEF v
<1>1. Place(Barrier, S, 1, 2)
  BY ThreeAre, Successors, NextPlace
<1>2. Place(Barrier, S, 2, 3)
  BY ThreeAre, Successors, NextPlace
<1>3. Place(ReduceSum(v, "all"), S, 3, 4)
  BY ThreeAre, Successors, NextPlace
<1>4. Follows(x1, S, 1, 4)
  BY <1>1, <1>2, <1>3, ThreeAre, FollowsThree
<1> HIDE DEF x1
<1>5. QED
  BY <1>4 DEF Staged, JavaReducePlusTiming, v, x1

\* The loop over a broadcast array, in Java.
LEMMA JavaBroadcastLoopStaged ==
    \A id, n, m : Staged(JavaBroadcastLoopGather(id, n, m), LoopStages)
<1> TAKE id, n, m
<1> DEFINE S == LoopStages
<1> DEFINE v == IF id = MASTER THEN Fill(ARRAY_SIZE) ELSE Zeros(ARRAY_SIZE)
           d == Doubled(Piece(m.buf, ARRAY_SIZE \div n, id * (ARRAY_SIZE \div n)))
           g == m.part
           o == EqualOffsets(ARRAY_SIZE \div n, n)
<1> DEFINE x1 == << Line(0), Bcast("buf", v) >>
           x2 == PrintSeparator(id, 1)
           x3 == << Line(1), Compute("part", d) >>
           x4 == PrintSeparator(id, 2)
           x5 == << Line(2), Gather(g, o, "all") >>
           x6 == PrintSeparator(id, 3)
           x7 == << Line(3) >>
<1> HIDE DEF v, d, g, o
<1>1. Place(Line(0), S, 1, 1)
  BY LoopStagesAre, SamePlace
<1>2. Place(Bcast("buf", v), S, 1, 2)
  BY LoopStagesAre, Successors, NextPlace
<1>3. Place(Line(1), S, 4, 4)
  BY LoopStagesAre, SamePlace
<1>4. Place(Compute("part", d), S, 4, 4)
  BY LoopStagesAre, SamePlace
<1>5. Place(Line(2), S, 6, 6)
  BY LoopStagesAre, SamePlace
<1>6. Place(Gather(g, o, "all"), S, 6, 7)
  BY LoopStagesAre, Successors, NextPlace
<1>7. Place(Line(3), S, 9, 9)
  BY LoopStagesAre, SamePlace
<1>8. Follows(x1, S, 1, 2)
  BY <1>1, <1>2, <1>3, <1>4, <1>5, <1>6, <1>7, LoopStagesAre, FollowsTwo
<1>9. Follows(x2, S, 2, 4)
  BY LoopStagesAre, Successors, FollowsSeparator
<1>10. Follows(x3, S, 4, 4)
  BY <1>1, <1>2, <1>3, <1>4, <1>5, <1>6, <1>7, LoopStagesAre, FollowsTwo
<1>11. Follows(x4, S, 4, 6)
  BY LoopStagesAre, Successors, FollowsSeparator
<1>12. Follows(x5, S, 6, 7)
  BY <1>1, <1>2, <1>3, <1>4, <1>5, <1>6, <1>7, LoopStagesAre, FollowsTwo
<1>13. Follows(x6, S, 7, 9)
  BY LoopStagesAre, Successors, FollowsSeparator
<1>14. Follows(x7, S, 9, 9)
  BY <1>1, <1>2, <1>3, <1>4, <1>5, <1>6, <1>7, LoopStagesAre, FollowsOne
<1> HIDE DEF x1, x2, x3, x4, x5, x6, x7
<1>15. Follows(x1 \o x2, S, 1, 4)
  BY <1>8, <1>9, LoopStagesAre, FollowsBoth
<1>16. Follows(x1 \o x2 \o x3, S, 1, 4)
  BY <1>15, <1>10, LoopStagesAre, FollowsBoth
<1>17. Follows(x1 \o x2 \o x3 \o x4, S, 1, 6)
  BY <1>16, <1>11, LoopStagesAre, FollowsBoth
<1>18. Follows(x1 \o x2 \o x3 \o x4 \o x5, S, 1, 7)
  BY <1>17, <1>12, LoopStagesAre, FollowsBoth
<1>19. Follows(x1 \o x2 \o x3 \o x4 \o x5 \o x6, S, 1, 9)
  BY <1>18, <1>13, LoopStagesAre, FollowsBoth
<1>20. Follows(x1 \o x2 \o x3 \o x4 \o x5 \o x6 \o x7, S, 1, 9)
  BY <1>19, <1>14, LoopStagesAre, FollowsBoth
<1>21. Follows(<<>>, S, 1, 1)
  BY LoopStagesAre, FollowsNothing
<1>22. QED
  BY <1>20, <1>21 DEF Staged, JavaBroadcastLoopGather, v, d, g, o, x1, x2, x3, x4, x5, x6, x7

\* The loop over scattered pieces, in Java.
LEMMA JavaScatterLoopStaged ==
    \A id, n, m : Staged(JavaScatterLoopGather(id, n, m), PiecesStages)
<1> TAKE id, n, m
<1> DEFINE S == PiecesStages
<1> DEFINE v == EqualPieces(Fill(ARRAY_SIZE), ARRAY_SIZE \div n, n)
           d == Doubled(m.part)
           g == m.part
           o == EqualOffsets(ARRAY_SIZE \div n, n)
<1> DEFINE x1 == << Line(0), Scatter(v, "part") >>
           x2 == PrintSeparator(id, 1)
           x3 == << Line(1), Compute("part", d) >>
           x4 == PrintSeparator(id, 2)
           x5 == << Line(2), Gather(g, o, "all") >>
           x6 == PrintSeparator(id, 3)
           x7 == << Line(3) >>
<1> HIDE DEF v, d, g, o
<1>1. Place(Line(0), S, 1, 1)
  BY PiecesStagesAre, SamePlace
<1>2. Place(Scatter(v, "part"), S, 1, 2)
  BY PiecesStagesAre, Successors, NextPlace
<1>3. Place(Line(1), S, 4, 4)
  BY PiecesStagesAre, SamePlace
<1>4. Place(Compute("part", d), S, 4, 4)
  BY PiecesStagesAre, SamePlace
<1>5. Place(Line(2), S, 6, 6)
  BY PiecesStagesAre, SamePlace
<1>6. Place(Gather(g, o, "all"), S, 6, 7)
  BY PiecesStagesAre, Successors, NextPlace
<1>7. Place(Line(3), S, 9, 9)
  BY PiecesStagesAre, SamePlace
<1>8. Follows(x1, S, 1, 2)
  BY <1>1, <1>2, <1>3, <1>4, <1>5, <1>6, <1>7, PiecesStagesAre, FollowsTwo
<1>9. Follows(x2, S, 2, 4)
  BY PiecesStagesAre, Successors, FollowsSeparator
<1>10. Follows(x3, S, 4, 4)
  BY <1>1, <1>2, <1>3, <1>4, <1>5, <1>6, <1>7, PiecesStagesAre, FollowsTwo
<1>11. Follows(x4, S, 4, 6)
  BY PiecesStagesAre, Successors, FollowsSeparator
<1>12. Follows(x5, S, 6, 7)
  BY <1>1, <1>2, <1>3, <1>4, <1>5, <1>6, <1>7, PiecesStagesAre, FollowsTwo
<1>13. Follows(x6, S, 7, 9)
  BY PiecesStagesAre, Successors, FollowsSeparator
<1>14. Follows(x7, S, 9, 9)
  BY <1>1, <1>2, <1>3, <1>4, <1>5, <1>6, <1>7, PiecesStagesAre, FollowsOne
<1> HIDE DEF x1, x2, x3, x4, x5, x6, x7
<1>15. Follows(x1 \o x2, S, 1, 4)
  BY <1>8, <1>9, PiecesStagesAre, FollowsBoth
<1>16. Follows(x1 \o x2 \o x3, S, 1, 4)
  BY <1>15, <1>10, PiecesStagesAre, FollowsBoth
<1>17. Follows(x1 \o x2 \o x3 \o x4, S, 1, 6)
  BY <1>16, <1>11, PiecesStagesAre, FollowsBoth
<1>18. Follows(x1 \o x2 \o x3 \o x4 \o x5, S, 1, 7)
  BY <1>17, <1>12, PiecesStagesAre, FollowsBoth
<1>19. Follows(x1 \o x2 \o x3 \o x4 \o x5 \o x6, S, 1, 9)
  BY <1>18, <1>13, PiecesStagesAre, FollowsBoth
<1>20. Follows(x1 \o x2 \o x3 \o x4 \o x5 \o x6 \o x7, S, 1, 9)
  BY <1>19, <1>14, PiecesStagesAre, FollowsBoth
<1>21. Follows(<<>>, S, 1, 1)
  BY PiecesStagesAre, FollowsNothing
<1>22. QED
  BY <1>20, <1>21 DEF Staged, JavaScatterLoopGather, v, d, g, o, x1, x2, x3, x4, x5, x6, x7

\* The loop over scattered chunks, in Java.
LEMMA JavaScatterChunksStaged ==
    \A id, n, m : Staged(JavaScatterVGatherV(id, n, m), PiecesStages)
<1> TAKE id, n, m
<1> DEFINE S == PiecesStages
<1> DEFINE v == Chunks(Fill(ARRAY_SIZE), n)
           d == Doubled(m.part)
           g == m.part
           o == ChunkOffsets(n)
<1> DEFINE x1 == << Line(0), Scatter(v, "part") >>
           x2 == PrintSeparator(id, 1)
           x3 == << Line(1), Compute("part", d) >>
           x4 == PrintSeparator(id, 2)
           x5 == << Line(2), Gather(g, o, "all") >>
           x6 == PrintSeparator(id, 3)
           x7 == << Line(3) >>
<1> HIDE DEF v, d, g, o
<1>1. Place(Line(0), S, 1, 1)
  BY PiecesStagesAre, SamePlace
<1>2. Place(Scatter(v, "part"), S, 1, 2)
  BY PiecesStagesAre, Successors, NextPlace
<1>3. Place(Line(1), S, 4, 4)
  BY PiecesStagesAre, SamePlace
<1>4. Place(Compute("part", d), S, 4, 4)
  BY PiecesStagesAre, SamePlace
<1>5. Place(Line(2), S, 6, 6)
  BY PiecesStagesAre, SamePlace
<1>6. Place(Gather(g, o, "all"), S, 6, 7)
  BY PiecesStagesAre, Successors, NextPlace
<1>7. Place(Line(3), S, 9, 9)
  BY PiecesStagesAre, SamePlace
<1>8. Follows(x1, S, 1, 2)
  BY <1>1, <1>2, <1>3, <1>4, <1>5, <1>6, <1>7, PiecesStagesAre, FollowsTwo
<1>9. Follows(x2, S, 2, 4)
  BY PiecesStagesAre, Successors, FollowsSeparator
<1>10. Follows(x3, S, 4, 4)
  BY <1>1, <1>2, <1>3, <1>4, <1>5, <1>6, <1>7, PiecesStagesAre, FollowsTwo
<1>11. Follows(x4, S, 4, 6)
  BY PiecesStagesAre, Successors, FollowsSeparator
<1>12. Follows(x5, S, 6, 7)
  BY <1>1, <1>2, <1>3, <1>4, <1>5, <1>6, <1>7, PiecesStagesAre, FollowsTwo
<1>13. Follows(x6, S, 7, 9)
  BY PiecesStagesAre, Successors, FollowsSeparator
<1>14. Follows(x7, S, 9, 9)
  BY <1>1, <1>2, <1>3, <1>4, <1>5, <1>6, <1>7, PiecesStagesAre, FollowsOne
<1> HIDE DEF x1, x2, x3, x4, x5, x6, x7
<1>15. Follows(x1 \o x2, S, 1, 4)
  BY <1>8, <1>9, PiecesStagesAre, FollowsBoth
<1>16. Follows(x1 \o x2 \o x3, S, 1, 4)
  BY <1>15, <1>10, PiecesStagesAre, FollowsBoth
<1>17. Follows(x1 \o x2 \o x3 \o x4, S, 1, 6)
  BY <1>16, <1>11, PiecesStagesAre, FollowsBoth
<1>18. Follows(x1 \o x2 \o x3 \o x4 \o x5, S, 1, 7)
  BY <1>17, <1>12, PiecesStagesAre, FollowsBoth
<1>19. Follows(x1 \o x2 \o x3 \o x4 \o x5 \o x6, S, 1, 9)
  BY <1>18, <1>13, PiecesStagesAre, FollowsBoth
<1>20. Follows(x1 \o x2 \o x3 \o x4 \o x5 \o x6 \o x7, S, 1, 9)
  BY <1>19, <1>14, PiecesStagesAre, FollowsBoth
<1>21. Follows(<<>>, S, 1, 1)
  BY PiecesStagesAre, FollowsNothing
<1>22. QED
  BY <1>20, <1>21 DEF Staged, JavaScatterVGatherV, v, d, g, o, x1, x2, x3, x4, x5, x6, x7

\* The broadcast of a dictionary.
LEMMA PyBroadcastStaged ==
    \A id, n : Staged(PyBroadcast(id, n), One("bcast", "buf"))
<1> TAKE id, n
<1> DEFINE S == One("bcast", "buf")
<1> DEFINE v == IF id = MASTER THEN << 1, 2, 3 >> ELSE <<>>
<1> DEFINE x1 == << Bcast("buf", v) >>
<1> HIDE DEF v
<1>1. Place(Bcast("buf", v), S, 1, 2)
  BY OneAre, Successors, NextPlace
<1>2. Follows(x1, S, 1, 2)
  BY <1>1, OneAre, FollowsOne
<1> HIDE DEF x1
<1>3. Follows(<<>>, S, 1, 1)
  BY OneAre, FollowsNothing
<1>4. QED
  BY <1>2, <1>3 DEF Staged, PyBroadcast, v, x1

\* The broadcast of what the user gives, in Python.
LEMMA PyBroadcastUserInputStaged ==
    \A id, n, given : Staged(PyBroadcastUserInput(id, n, given), One("bcast", "buf"))
<1> TAKE id, n, given
<1> DEFINE S == One("bcast", "buf")
<1> DEFINE v == << IF id = MASTER THEN ANSWER ELSE 0 >>
<1> DEFINE x1 == << Bcast("buf", v) >>
<1> HIDE DEF v
<1>1. Place(Bcast("buf", v), S, 1, 2)
  BY OneAre, Successors, NextPlace
<1>2. Follows(x1, S, 1, 2)
  BY <1>1, OneAre, FollowsOne
<1> HIDE DEF x1
<1>3. Follows(<<>>, S, 1, 1)
  BY OneAre, FollowsNothing
<1>4. QED
  BY <1>2, <1>3 DEF Staged, PyBroadcastUserInput, v, x1

\* The broadcast of a list.
LEMMA PyBroadcastListStaged ==
    \A id, n : Staged(PyBroadcastList(id, n), One("bcast", "buf"))
<1> TAKE id, n
<1> DEFINE S == One("bcast", "buf")
<1> DEFINE v == IF id = MASTER THEN [k \in 1 .. n |-> k - 1] ELSE <<>>
<1> DEFINE x1 == << Bcast("buf", v) >>
<1> HIDE DEF v
<1>1. Place(Bcast("buf", v), S, 1, 2)
  BY OneAre, Successors, NextPlace
<1>2. Follows(x1, S, 1, 2)
  BY <1>1, OneAre, FollowsOne
<1> HIDE DEF x1
<1>3. Follows(<<>>, S, 1, 1)
  BY OneAre, FollowsNothing
<1>4. QED
  BY <1>2, <1>3 DEF Staged, PyBroadcastList, v, x1

\* The reductions of lists.
LEMMA PyReductionListStaged ==
    \A id, n : Staged(PyReductionList(id, n), Two("max", "all", "gather", "buf"))
<1> TAKE id, n
<1> DEFINE S == Two("max", "all", "gather", "buf")
<1> DEFINE v == [k \in 1 .. 5 |-> k * id]
           o == EqualOffsets(5, n)
<1> DEFINE x1 == << ReduceMax(v, "all"), Gather(v, o, "buf") >>
<1> HIDE DEF v, o
<1>1. Place(ReduceMax(v, "all"), S, 1, 2)
  BY TwoAre, Successors, NextPlace
<1>2. Place(Gather(v, o, "buf"), S, 2, 3)
  BY TwoAre, Successors, NextPlace
<1>3. Follows(x1, S, 1, 3)
  BY <1>1, <1>2, TwoAre, FollowsTwo
<1> HIDE DEF x1
<1>4. QED
  BY <1>3 DEF Staged, PyReductionList, v, o, x1

\* The scatter of a list.
LEMMA PyScatterStaged ==
    \A n : Staged(PyScatter(n), One("scatter", "part"))
<1> TAKE n
<1> DEFINE S == One("scatter", "part")
<1> DEFINE v == [r \in 1 .. n |-> [j \in 1 .. 3 |-> r * j]]
<1> DEFINE x1 == << Scatter(v, "part") >>
<1> HIDE DEF v
<1>1. Place(Scatter(v, "part"), S, 1, 2)
  BY OneAre, Successors, NextPlace
<1>2. Follows(x1, S, 1, 2)
  BY <1>1, OneAre, FollowsOne
<1> HIDE DEF x1
<1>3. QED
  BY <1>2 DEF Staged, PyScatter, v, x1

\* The gather of lists.
LEMMA PyGatherStaged ==
    \A id, n : Staged(PyGather(id, n), One("gather", "all"))
<1> TAKE id, n
<1> DEFINE S == One("gather", "all")
<1> DEFINE g == [j \in 1 .. 3 |-> (id * 10) * j]
           o == EqualOffsets(3, n)
<1> DEFINE x1 == << Gather(g, o, "all") >>
<1> HIDE DEF g, o
<1>1. Place(Gather(g, o, "all"), S, 1, 2)
  BY OneAre, Successors, NextPlace
<1>2. Follows(x1, S, 1, 2)
  BY <1>1, OneAre, FollowsOne
<1> HIDE DEF x1
<1>3. QED
  BY <1>2 DEF Staged, PyGather, g, o, x1

\* What is scattered is gathered again.
LEMMA PyScatterGatherStaged ==
    \A n, m : Staged(PyScatterGather(n, m), Two("scatter", "part", "gather", "all"))
<1> TAKE n, m
<1> DEFINE S == Two("scatter", "part", "gather", "all")
<1> DEFINE v == EqualPieces([k \in 1 .. 3 * n |-> k], 3, n)
           g == [k \in 1 .. Len(m.part) |-> 10 * m.part[k]]
           o == EqualOffsets(3, n)
<1> DEFINE x1 == << Scatter(v, "part"), Gather(g, o, "all") >>
<1> HIDE DEF v, g, o
<1>1. Place(Scatter(v, "part"), S, 1, 2)
  BY TwoAre, Successors, NextPlace
<1>2. Place(Gather(g, o, "all"), S, 2, 3)
  BY TwoAre, Successors, NextPlace
<1>3. Follows(x1, S, 1, 3)
  BY <1>1, <1>2, TwoAre, FollowsTwo
<1> HIDE DEF x1
<1>4. QED
  BY <1>3 DEF Staged, PyScatterGather, v, g, o, x1

\* Sums of squares of one process are computed without a collective.
LEMMA PyReductionStaged ==
    \A id, n : Staged(PyReduction(id, n), Two("sum", "buf", "max", "all"))
<1> TAKE id, n
<1> DEFINE S == Two("sum", "buf", "max", "all")
           v == << (id + 1) * (id + 1) >>
<1> HIDE DEF v
<1>1. Place(ReduceSum(v, "buf"), S, 1, 2) /\ Place(ReduceMax(v, "all"), S, 2, 3)
  BY TwoAre, Successors, NextPlace
<1>2. Place(Compute("buf", v), S, 1, 1) /\ Place(Compute("all", v), S, 1, 1)
  BY TwoAre, SamePlace
<1>3. Follows(<< ReduceSum(v, "buf"), ReduceMax(v, "all") >>, S, 1, 3)
  BY <1>1, TwoAre, FollowsTwo
<1>4. Follows(<< Compute("buf", v), Compute("all", v) >>, S, 1, 1)
  BY <1>2, TwoAre, FollowsTwo
<1>5. QED
  BY <1>3, <1>4 DEF Staged, PyReduction, v

\* The arrays that are broadcast are sequences of numbers.
LEMMA FillNumbers == Fill(ARRAY_SIZE) \in Seq(Int) /\ << 1, 2, 3 >> \in Seq(Int)
  BY DEF Fill, ARRAY_SIZE

\* The broadcasts that are made of sends, in C and Python.
LEMMA SendReceiveStaged ==
    ASSUME NEW n \in Nat \ {0}
    PROVE  \A id : /\ Staged(broadcastSendReceive(id, n), BroadcastStages)
                   /\ Staged(PyBroadcastSendReceive(id, n), BroadcastStages)
<1> TAKE id
<1> DEFINE S == BroadcastStages
           a == Fill(ARRAY_SIZE)
           d == << 1, 2, 3 >>
           x == << Compute("buf", a) >>
           y == [r \in 1 .. n - 1 |-> Send(a, r, 1)]
           u == << Compute("buf", d) >>
           w == [r \in 1 .. n - 1 |-> Send(d, r, 0)]
<1> HIDE DEF a, d
<1>1. a \in Seq(Int) /\ d \in Seq(Int)
  BY FillNumbers DEF a, d
<1>2. Place(Compute("buf", a), S, 1, 1) /\ Place(Compute("buf", d), S, 1, 1)
      /\ Place(Recv("buf", MASTER, 1), S, 1, 1) /\ Place(Recv("buf", MASTER, AnyTag), S, 1, 1)
  BY BroadcastStagesAre, SamePlace
<1>3. Follows(x, S, 1, 1) /\ Follows(u, S, 1, 1)
  BY <1>2, BroadcastStagesAre, FollowsOne
<1>4. Follows(y, S, 1, 1) /\ Follows(w, S, 1, 1)
  <2>1. 1 \in Int /\ 0 \in Int /\ Len(S) \in Nat /\ 1 \in 1 .. Len(S)
    BY BroadcastStagesAre
  <2>2. QED
    BY <1>1, <2>1, FollowsSends
<1>5. Follows(<< Recv("buf", MASTER, 1) >>, S, 1, 1) /\ Follows(<< Recv("buf", MASTER, AnyTag) >>, S, 1, 1)
  BY <1>2, BroadcastStagesAre, FollowsOne
<1>6. Follows(<<>>, S, 1, 1)
  BY BroadcastStagesAre, FollowsNothing
<1> HIDE DEF x, y, u, w
<1>7. Follows(x \o y, S, 1, 1) /\ Follows(u \o w, S, 1, 1)
  BY <1>3, <1>4, BroadcastStagesAre, FollowsBoth
<1>8. Staged(broadcastSendReceive(id, n), S)
  BY <1>5, <1>7 DEF Staged, broadcastSendReceive, a, x, y
<1>9. Staged(PyBroadcastSendReceive(id, n), S)
  BY <1>5, <1>6, <1>7 DEF Staged, PyBroadcastSendReceive, d, u, w
<1>10. QED
  BY <1>8, <1>9

\* The broadcast that is made of sends, in Java.
LEMMA JavaSendReceiveStaged ==
    ASSUME NEW n \in Nat \ {0}
    PROVE  \A id : Staged(JavaSendReceivePseudoBroadcast(id, n), BroadcastStages)
<1> TAKE id
<1> DEFINE S == BroadcastStages
           a == Fill(ARRAY_SIZE)
           x == << Compute("buf", a), Line(0) >>
           y == [r \in 1 .. n - 1 |-> Send(a, r, 0)]
           z == << Line(0), Recv("buf", MASTER, 0) >>
           s == PrintSeparator(id, 1)
           t == << Line(1) >>
           first == IF id = MASTER THEN x \o y ELSE z
<1> HIDE DEF a
<1>1. Place(Compute("buf", a), S, 1, 1) /\ Place(Recv("buf", MASTER, 0), S, 1, 1)
      /\ Place(Line(0), S, 1, 1) /\ Place(Line(1), S, 3, 3)
  BY BroadcastStagesAre, SamePlace
<1>2. Follows(x, S, 1, 1) /\ Follows(z, S, 1, 1)
  BY <1>1, BroadcastStagesAre, FollowsTwo
<1>3. Follows(t, S, 3, 3)
  BY <1>1, BroadcastStagesAre, FollowsOne
<1>4. Follows(s, S, 1, 3)
  BY BroadcastStagesAre, Successors, FollowsSeparator
<1>5. Follows(y, S, 1, 1)
  <2>1. a \in Seq(Int) /\ 0 \in Int /\ Len(S) \in Nat /\ 1 \in 1 .. Len(S)
    BY FillNumbers, BroadcastStagesAre DEF a
  <2>2. QED
    BY <2>1, FollowsSends
<1> HIDE DEF x, y, z, s, t
<1>6. Follows(x \o y, S, 1, 1)
  BY <1>2, <1>5, BroadcastStagesAre, FollowsBoth
<1>7. Follows(first, S, 1, 1)
  BY <1>2, <1>6
<1> HIDE DEF first
<1>8. Follows(first \o s, S, 1, 3)
  BY <1>4, <1>7, BroadcastStagesAre, FollowsBoth
<1>9. Follows(first \o s \o t, S, 1, 3)
  BY <1>3, <1>8, BroadcastStagesAre, FollowsBoth
<1>10. QED
  BY <1>9 DEF Staged, JavaSendReceivePseudoBroadcast, first, a, x, y, z, s, t

\* In the version with Java arrays no barriers surround the separator.
FileStages == << Stage("unordered", "none", FALSE, 0), Stage("bcast", "buf", FALSE, 0) >>

\* The array version of the broadcast follows these two stages, in no order.
LEMMA ArrayBroadcastStaged ==
    /\ Len(FileStages) \in Nat \ {0}
    /\ \A id, given : Staged(ArrayBroadcast(id, given), FileStages)
<1> DEFINE S == FileStages
<1>1. /\ Len(S) = 2
      /\ S[1] = Stage("unordered", "none", FALSE, 0)
      /\ S[2] = Stage("bcast", "buf", FALSE, 0)
  BY DEF FileStages
<1>2. Len(S) \in Nat \ {0} /\ 1 \in 1 .. Len(S) /\ 2 \in 1 .. Len(S)
  BY <1>1
<1>3. Begins(S, 1, "unordered", "none", FALSE, 0)
  BY <1>1, <1>2 DEF Begins, Stage
<1>4. Begins(S, 2, "bcast", "buf", FALSE, 0)
  BY <1>1, <1>2 DEF Begins, Stage
<1>5. S[1].op = "unordered"
  BY <1>3 DEF Begins
<1> HIDE DEF S
<1>6. ASSUME NEW id, NEW given
      PROVE  Staged(ArrayBroadcast(id, given), S)
  <2> DEFINE v == << IF id = MASTER THEN ANSWER ELSE 0 >>
             x == << Line(0) >>
             y == OnlyMaster(id, SeparatorLine(1))
             z == << Bcast("buf", v), Line(1) >>
  <2> HIDE DEF v
  <2>1. /\ Place(Line(0), S, 1, 1) /\ Place(SeparatorLine(1), S, 1, 1)
        /\ Place(Line(1), S, 2, 2)
    BY <1>2, <1>3, <1>4, <1>5, SamePlace
  <2>2. Place(Bcast("buf", v), S, 1, 2)
    BY <1>2, <1>4, Successors, NextPlace
  <2>3. Follows(x, S, 1, 1)
    BY <1>2, <2>1, FollowsOne
  <2>4. Follows(y, S, 1, 1)
    BY <1>2, <2>1, FollowsMaster
  <2>5. Follows(z, S, 1, 2)
    BY <1>2, <2>1, <2>2, FollowsTwo
  <2> HIDE DEF x, y, z
  <2>6. Follows(x \o y, S, 1, 1)
    BY <1>2, <2>3, <2>4, FollowsBoth
  <2>7. Follows(x \o y \o z, S, 1, 2)
    BY <1>2, <2>5, <2>6, FollowsBoth
  <2>8. Follows(<<>>, S, 1, 1)
    BY <1>2, FollowsNothing
  <2>9. QED
    BY <2>7, <2>8 DEF Staged, ArrayBroadcast, v, x, y, z
<1>7. QED
  BY <1>2, <1>6 DEF S

\* Stages in order are not empty.
LEMMA OrderedLength == \A S : Ordered(S) => Len(S) \in Nat \ {0}
  BY DEF Ordered

\* The program of process p of job j when its memory is m.
Text(j, p, m) ==
  CASE j.lang = "C"      -> CCode(j.prog, p, j.np, m, j.given)
    [] j.lang = "Java"   -> JavaCode(j.prog, p, j.np, m, j.given)
    [] j.lang = "Array"  -> ArrayCode(j.prog, p, j.np, m, j.given)
    [] j.lang = "Python" -> PyCode(j.prog, p, j.np, m, j.given)

\* The programs that call collectives, or separate the lines they print.
CollectiveProgs ==
  {"broadcast", "broadcastInput", "broadcastSend", "broadcast2", "reduction", "reduction2",
   "scatter", "gather", "reduceTiming", "broadcastLoop", "scatterLoop", "scatterV",
   "scatterGather"}

\* S are the stages of a job: everyone follows them.  They are in order but in
\* the broadcast with Java arrays.
StagesOf(j, S) ==
  /\ Len(S) \in Nat \ {0}
  /\ (j.lang = "Array" /\ j.prog = "broadcast") \/ Ordered(S)
  /\ \A p, m : Staged(Text(j, p, m), S)

\* The jobs in C have stages.
LEMMA CStages ==
    ASSUME NEW j \in Jobs, j.lang = "C", j.prog \in CollectiveProgs
    PROVE  \E S : StagesOf(j, S)
<1>1. j.np \in Nat \ {0} /\ j.prog \in Programs[j.lang]
  BY JobsAssumption
<1>2. \A p, m : Text(j, p, m) = CCode(j.prog, p, j.np, m, j.given)
  BY DEF Text
<1>3. CASE j.prog = "broadcast"
  <2>1. \A p, m : Text(j, p, m) = broadcast(p, j.given)
    BY <1>2, <1>3 DEF CCode
  <2>2. Ordered(One("bcast", "buf"))
    BY OneAre
  <2>3. StagesOf(j, One("bcast", "buf"))
    BY <1>1, <2>1, <2>2, BroadcastStaged, OrderedLength DEF StagesOf
  <2>4. QED
    BY <2>3
<1>4. CASE j.prog = "broadcastInput"
  <2>1. \A p, m : Text(j, p, m) = broadcastUserInput(p, j.given)
    BY <1>2, <1>4 DEF CCode
  <2>2. Ordered(One("bcast", "buf"))
    BY OneAre
  <2>3. StagesOf(j, One("bcast", "buf"))
    BY <1>1, <2>1, <2>2, BroadcastUserInputStaged, OrderedLength DEF StagesOf
  <2>4. QED
    BY <2>3
<1>5. CASE j.prog = "broadcastSend"
  <2>1. \A p, m : Text(j, p, m) = broadcastSendReceive(p, j.np)
    BY <1>2, <1>5 DEF CCode
  <2>2. Ordered(BroadcastStages)
    BY BroadcastStagesAre
  <2>3. StagesOf(j, BroadcastStages)
    BY <1>1, <2>1, <2>2, SendReceiveStaged, OrderedLength DEF StagesOf
  <2>4. QED
    BY <2>3
<1>6. CASE j.prog = "broadcast2"
  <2>1. \A p, m : Text(j, p, m) = broadcast2(p)
    BY <1>2, <1>6 DEF CCode
  <2>2. Ordered(One("bcast", "buf"))
    BY OneAre
  <2>3. StagesOf(j, One("bcast", "buf"))
    BY <1>1, <2>1, <2>2, BroadcastArrayStaged, OrderedLength DEF StagesOf
  <2>4. QED
    BY <2>3
<1>7. CASE j.prog = "reduction"
  <2>1. \A p, m : Text(j, p, m) = reduction(p)
    BY <1>2, <1>7 DEF CCode
  <2>2. Ordered(Two("sum", "buf", "max", "all"))
    BY TwoAre
  <2>3. StagesOf(j, Two("sum", "buf", "max", "all"))
    BY <1>1, <2>1, <2>2, ReductionStaged, OrderedLength DEF StagesOf
  <2>4. QED
    BY <2>3
<1>8. CASE j.prog = "reduction2"
  <2>1. \A p, m : Text(j, p, m) = reduction2(p)
    BY <1>2, <1>8 DEF CCode
  <2>2. Ordered(ReductionStages)
    BY ReductionStagesAre
  <2>3. StagesOf(j, ReductionStages)
    BY <1>1, <2>1, <2>2, ReductionArraysStaged, OrderedLength DEF StagesOf
  <2>4. QED
    BY <2>3
<1>9. CASE j.prog = "scatter"
  <2>1. \A p, m : Text(j, p, m) = scatter(p, j.np)
    BY <1>2, <1>9 DEF CCode
  <2>2. Ordered(One("scatter", "part"))
    BY OneAre
  <2>3. StagesOf(j, One("scatter", "part"))
    BY <1>1, <2>1, <2>2, ScatterStaged, OrderedLength DEF StagesOf
  <2>4. QED
    BY <2>3
<1>10. CASE j.prog = "gather"
  <2>1. \A p, m : Text(j, p, m) = gather(p, j.np)
    BY <1>2, <1>10 DEF CCode
  <2>2. Ordered(One("gather", "all"))
    BY OneAre
  <2>3. StagesOf(j, One("gather", "all"))
    BY <1>1, <2>1, <2>2, GatherStaged, OrderedLength DEF StagesOf
  <2>4. QED
    BY <2>3
<1>11. CASE j.prog = "reduceTiming"
  <2>1. \A p, m : Text(j, p, m) = reduceTiming(p, j.np)
    BY <1>2, <1>11 DEF CCode
  <2>2. Ordered(Two("barrier", "none", "max", "all"))
    BY TwoAre
  <2>3. StagesOf(j, Two("barrier", "none", "max", "all"))
    BY <1>1, <2>1, <2>2, ReduceTimingStaged, OrderedLength DEF StagesOf
  <2>4. QED
    BY <2>3
<1>12. CASE j.prog = "broadcastLoop"
  <2>1. \A p, m : Text(j, p, m) = broadcastLoopGather(p, j.np, m)
    BY <1>2, <1>12 DEF CCode
  <2>2. Ordered(Three("bcast", "buf", "barrier", "none", "gather", "all"))
    BY ThreeAre
  <2>3. StagesOf(j, Three("bcast", "buf", "barrier", "none", "gather", "all"))
    BY <1>1, <2>1, <2>2, BroadcastLoopStaged, OrderedLength DEF StagesOf
  <2>4. QED
    BY <2>3
<1>13. CASE j.prog = "scatterLoop"
  <2>1. \A p, m : Text(j, p, m) = scatterLoopGather(p, j.np, m)
    BY <1>2, <1>13 DEF CCode
  <2>2. Ordered(ChunksStages)
    BY ChunksStagesAre
  <2>3. StagesOf(j, ChunksStages)
    BY <1>1, <2>1, <2>2, ScatterLoopStaged, OrderedLength DEF StagesOf
  <2>4. QED
    BY <2>3
<1>14. CASE j.prog = "scatterV"
  <2>1. \A p, m : Text(j, p, m) = scatterVGatherV(p, j.np, m)
    BY <1>2, <1>14 DEF CCode
  <2>2. Ordered(ChunksStages)
    BY ChunksStagesAre
  <2>3. StagesOf(j, ChunksStages)
    BY <1>1, <2>1, <2>2, ScatterChunksStaged, OrderedLength DEF StagesOf
  <2>4. QED
    BY <2>3
<1>15. j.prog \in {"broadcast", "broadcastInput", "broadcastSend", "broadcast2", "reduction", "reduction2", "scatter", "gather", "reduceTiming", "broadcastLoop", "scatterLoop", "scatterV"}
  BY <1>1 DEF Programs, CollectiveProgs
<1>16. QED
  BY <1>3, <1>4, <1>5, <1>6, <1>7, <1>8, <1>9, <1>10, <1>11, <1>12, <1>13, <1>14, <1>15

\* The jobs in Java have stages.
LEMMA JavaStages ==
    ASSUME NEW j \in Jobs, j.lang = "Java", j.prog \in CollectiveProgs
    PROVE  \E S : StagesOf(j, S)
<1>1. j.np \in Nat \ {0} /\ j.prog \in Programs[j.lang]
  BY JobsAssumption
<1>2. \A p, m : Text(j, p, m) = JavaCode(j.prog, p, j.np, m, j.given)
  BY DEF Text
<1>3. CASE j.prog = "broadcast"
  <2>1. \A p, m : Text(j, p, m) = JavaBroadcast(p, j.given)
    BY <1>2, <1>3 DEF JavaCode
  <2>2. Ordered(BroadcastStages)
    BY BroadcastStagesAre
  <2>3. StagesOf(j, BroadcastStages)
    BY <1>1, <2>1, <2>2, JavaBroadcastStaged, OrderedLength DEF StagesOf
  <2>4. QED
    BY <2>3
<1>4. CASE j.prog = "broadcastInput"
  <2>1. \A p, m : Text(j, p, m) = JavaBroadcastUserInput(p, j.given)
    BY <1>2, <1>4 DEF JavaCode
  <2>2. Ordered(InputStages)
    BY InputStagesAre
  <2>3. StagesOf(j, InputStages)
    BY <1>1, <2>1, <2>2, JavaBroadcastUserInputStaged, OrderedLength DEF StagesOf
  <2>4. QED
    BY <2>3
<1>5. CASE j.prog = "broadcastSend"
  <2>1. \A p, m : Text(j, p, m) = JavaSendReceivePseudoBroadcast(p, j.np)
    BY <1>2, <1>5 DEF JavaCode
  <2>2. Ordered(BroadcastStages)
    BY BroadcastStagesAre
  <2>3. StagesOf(j, BroadcastStages)
    BY <1>1, <2>1, <2>2, JavaSendReceiveStaged, OrderedLength DEF StagesOf
  <2>4. QED
    BY <2>3
<1>6. CASE j.prog = "broadcast2"
  <2>1. \A p, m : Text(j, p, m) = JavaBroadcast2(p)
    BY <1>2, <1>6 DEF JavaCode
  <2>2. Ordered(BroadcastStages)
    BY BroadcastStagesAre
  <2>3. StagesOf(j, BroadcastStages)
    BY <1>1, <2>1, <2>2, JavaBroadcastArrayStaged, OrderedLength DEF StagesOf
  <2>4. QED
    BY <2>3
<1>7. CASE j.prog = "reduction"
  <2>1. \A p, m : Text(j, p, m) = reduction(p)
    BY <1>2, <1>7 DEF JavaCode, JavaReduction
  <2>2. Ordered(Two("sum", "buf", "max", "all"))
    BY TwoAre
  <2>3. StagesOf(j, Two("sum", "buf", "max", "all"))
    BY <1>1, <2>1, <2>2, ReductionStaged, OrderedLength DEF StagesOf
  <2>4. QED
    BY <2>3
<1>8. CASE j.prog = "reduction2"
  <2>1. \A p, m : Text(j, p, m) = reduction2(p)
    BY <1>2, <1>8 DEF JavaCode, JavaReduction2
  <2>2. Ordered(ReductionStages)
    BY ReductionStagesAre
  <2>3. StagesOf(j, ReductionStages)
    BY <1>1, <2>1, <2>2, ReductionArraysStaged, OrderedLength DEF StagesOf
  <2>4. QED
    BY <2>3
<1>9. CASE j.prog = "scatter"
  <2>1. \A p, m : Text(j, p, m) = JavaScatter(p, j.np)
    BY <1>2, <1>9 DEF JavaCode
  <2>2. Ordered(ScatterStages)
    BY ScatterStagesAre
  <2>3. StagesOf(j, ScatterStages)
    BY <1>1, <2>1, <2>2, JavaScatterStaged, OrderedLength DEF StagesOf
  <2>4. QED
    BY <2>3
<1>10. CASE j.prog = "gather"
  <2>1. \A p, m : Text(j, p, m) = JavaGather(p, j.np)
    BY <1>2, <1>10 DEF JavaCode
  <2>2. Ordered(GatherStages)
    BY GatherStagesAre
  <2>3. StagesOf(j, GatherStages)
    BY <1>1, <2>1, <2>2, JavaGatherStaged, OrderedLength DEF StagesOf
  <2>4. QED
    BY <2>3
<1>11. CASE j.prog = "reduceTiming"
  <2>1. \A p, m : Text(j, p, m) = JavaReducePlusTiming
    BY <1>2, <1>11 DEF JavaCode
  <2>2. Ordered(Three("barrier", "none", "barrier", "none", "sum", "all"))
    BY ThreeAre
  <2>3. StagesOf(j, Three("barrier", "none", "barrier", "none", "sum", "all"))
    BY <1>1, <2>1, <2>2, JavaReduceTimingStaged, OrderedLength DEF StagesOf
  <2>4. QED
    BY <2>3
<1>12. CASE j.prog = "broadcastLoop"
  <2>1. \A p, m : Text(j, p, m) = JavaBroadcastLoopGather(p, j.np, m)
    BY <1>2, <1>12 DEF JavaCode
  <2>2. Ordered(LoopStages)
    BY LoopStagesAre
  <2>3. StagesOf(j, LoopStages)
    BY <1>1, <2>1, <2>2, JavaBroadcastLoopStaged, OrderedLength DEF StagesOf
  <2>4. QED
    BY <2>3
<1>13. CASE j.prog = "scatterLoop"
  <2>1. \A p, m : Text(j, p, m) = JavaScatterLoopGather(p, j.np, m)
    BY <1>2, <1>13 DEF JavaCode
  <2>2. Ordered(PiecesStages)
    BY PiecesStagesAre
  <2>3. StagesOf(j, PiecesStages)
    BY <1>1, <2>1, <2>2, JavaScatterLoopStaged, OrderedLength DEF StagesOf
  <2>4. QED
    BY <2>3
<1>14. CASE j.prog = "scatterV"
  <2>1. \A p, m : Text(j, p, m) = JavaScatterVGatherV(p, j.np, m)
    BY <1>2, <1>14 DEF JavaCode
  <2>2. Ordered(PiecesStages)
    BY PiecesStagesAre
  <2>3. StagesOf(j, PiecesStages)
    BY <1>1, <2>1, <2>2, JavaScatterChunksStaged, OrderedLength DEF StagesOf
  <2>4. QED
    BY <2>3
<1>15. j.prog \in {"broadcast", "broadcastInput", "broadcastSend", "broadcast2", "reduction", "reduction2", "scatter", "gather", "reduceTiming", "broadcastLoop", "scatterLoop", "scatterV"}
  BY <1>1 DEF Programs, CollectiveProgs
<1>16. QED
  BY <1>3, <1>4, <1>5, <1>6, <1>7, <1>8, <1>9, <1>10, <1>11, <1>12, <1>13, <1>14, <1>15

\* The jobs in Java with arrays have stages.
LEMMA ArrayStages ==
    ASSUME NEW j \in Jobs, j.lang = "Array", j.prog \in CollectiveProgs
    PROVE  \E S : StagesOf(j, S)
<1>1. j.np \in Nat \ {0} /\ j.prog \in Programs[j.lang]
  BY JobsAssumption
<1>2. \A p, m : Text(j, p, m) = ArrayCode(j.prog, p, j.np, m, j.given)
  BY DEF Text
<1>3. CASE j.prog = "broadcast"
  <2>1. \A p, m : Text(j, p, m) = ArrayBroadcast(p, j.given)
    BY <1>2, <1>3 DEF ArrayCode
  <2>3. StagesOf(j, FileStages)
    BY <1>3, <2>1, ArrayBroadcastStaged DEF StagesOf
  <2>4. QED
    BY <2>3
<1>4. CASE j.prog = "broadcast2"
  <2>1. \A p, m : Text(j, p, m) = JavaBroadcast2(p)
    BY <1>2, <1>4 DEF ArrayCode, ArrayBroadcast2
  <2>2. Ordered(BroadcastStages)
    BY BroadcastStagesAre
  <2>3. StagesOf(j, BroadcastStages)
    BY <1>1, <2>1, <2>2, JavaBroadcastArrayStaged, OrderedLength DEF StagesOf
  <2>4. QED
    BY <2>3
<1>5. j.prog \in {"broadcast", "broadcast2"}
  BY <1>1 DEF Programs, CollectiveProgs
<1>6. QED
  BY <1>3, <1>4, <1>5

\* The jobs in Python have stages.
LEMMA PythonStages ==
    ASSUME NEW j \in Jobs, j.lang = "Python", j.prog \in CollectiveProgs
    PROVE  \E S : StagesOf(j, S)
<1>1. j.np \in Nat \ {0} /\ j.prog \in Programs[j.lang]
  BY JobsAssumption
<1>2. \A p, m : Text(j, p, m) = PyCode(j.prog, p, j.np, m, j.given)
  BY DEF Text
<1>3. CASE j.prog = "broadcast"
  <2>1. \A p, m : Text(j, p, m) = PyBroadcast(p, j.np)
    BY <1>2, <1>3 DEF PyCode
  <2>2. Ordered(One("bcast", "buf"))
    BY OneAre
  <2>3. StagesOf(j, One("bcast", "buf"))
    BY <1>1, <2>1, <2>2, PyBroadcastStaged, OrderedLength DEF StagesOf
  <2>4. QED
    BY <2>3
<1>4. CASE j.prog = "broadcastInput"
  <2>1. \A p, m : Text(j, p, m) = PyBroadcastUserInput(p, j.np, j.given)
    BY <1>2, <1>4 DEF PyCode
  <2>2. Ordered(One("bcast", "buf"))
    BY OneAre
  <2>3. StagesOf(j, One("bcast", "buf"))
    BY <1>1, <2>1, <2>2, PyBroadcastUserInputStaged, OrderedLength DEF StagesOf
  <2>4. QED
    BY <2>3
<1>5. CASE j.prog = "broadcastSend"
  <2>1. \A p, m : Text(j, p, m) = PyBroadcastSendReceive(p, j.np)
    BY <1>2, <1>5 DEF PyCode
  <2>2. Ordered(BroadcastStages)
    BY BroadcastStagesAre
  <2>3. StagesOf(j, BroadcastStages)
    BY <1>1, <2>1, <2>2, SendReceiveStaged, OrderedLength DEF StagesOf
  <2>4. QED
    BY <2>3
<1>6. CASE j.prog = "broadcast2"
  <2>1. \A p, m : Text(j, p, m) = PyBroadcastList(p, j.np)
    BY <1>2, <1>6 DEF PyCode
  <2>2. Ordered(One("bcast", "buf"))
    BY OneAre
  <2>3. StagesOf(j, One("bcast", "buf"))
    BY <1>1, <2>1, <2>2, PyBroadcastListStaged, OrderedLength DEF StagesOf
  <2>4. QED
    BY <2>3
<1>7. CASE j.prog = "reduction"
  <2>1. \A p, m : Text(j, p, m) = PyReduction(p, j.np)
    BY <1>2, <1>7 DEF PyCode
  <2>2. Ordered(Two("sum", "buf", "max", "all"))
    BY TwoAre
  <2>3. StagesOf(j, Two("sum", "buf", "max", "all"))
    BY <1>1, <2>1, <2>2, PyReductionStaged, OrderedLength DEF StagesOf
  <2>4. QED
    BY <2>3
<1>8. CASE j.prog = "reduction2"
  <2>1. \A p, m : Text(j, p, m) = PyReductionList(p, j.np)
    BY <1>2, <1>8 DEF PyCode
  <2>2. Ordered(Two("max", "all", "gather", "buf"))
    BY TwoAre
  <2>3. StagesOf(j, Two("max", "all", "gather", "buf"))
    BY <1>1, <2>1, <2>2, PyReductionListStaged, OrderedLength DEF StagesOf
  <2>4. QED
    BY <2>3
<1>9. CASE j.prog = "scatter"
  <2>1. \A p, m : Text(j, p, m) = PyScatter(j.np)
    BY <1>2, <1>9 DEF PyCode
  <2>2. Ordered(One("scatter", "part"))
    BY OneAre
  <2>3. StagesOf(j, One("scatter", "part"))
    BY <1>1, <2>1, <2>2, PyScatterStaged, OrderedLength DEF StagesOf
  <2>4. QED
    BY <2>3
<1>10. CASE j.prog = "gather"
  <2>1. \A p, m : Text(j, p, m) = PyGather(p, j.np)
    BY <1>2, <1>10 DEF PyCode
  <2>2. Ordered(One("gather", "all"))
    BY OneAre
  <2>3. StagesOf(j, One("gather", "all"))
    BY <1>1, <2>1, <2>2, PyGatherStaged, OrderedLength DEF StagesOf
  <2>4. QED
    BY <2>3
<1>11. CASE j.prog = "scatterGather"
  <2>1. \A p, m : Text(j, p, m) = PyScatterGather(j.np, m)
    BY <1>2, <1>11 DEF PyCode
  <2>2. Ordered(Two("scatter", "part", "gather", "all"))
    BY TwoAre
  <2>3. StagesOf(j, Two("scatter", "part", "gather", "all"))
    BY <1>1, <2>1, <2>2, PyScatterGatherStaged, OrderedLength DEF StagesOf
  <2>4. QED
    BY <2>3
<1>12. j.prog \in {"broadcast", "broadcastInput", "broadcastSend", "broadcast2", "reduction", "reduction2", "scatter", "gather", "scatterGather"}
  BY <1>1 DEF Programs, CollectiveProgs
<1>13. QED
  BY <1>3, <1>4, <1>5, <1>6, <1>7, <1>8, <1>9, <1>10, <1>11, <1>12

\* Every job of a program with collectives has stages.
LEMMA JobStages ==
    ASSUME NEW j \in Jobs, j.prog \in CollectiveProgs
    PROVE  \E S : StagesOf(j, S)
<1>1. j.lang \in {"C", "Java", "Array", "Python"}
  BY JobsAssumption
<1>2. QED
  BY <1>1, CStages, JavaStages, ArrayStages, PythonStages

-----------------------------------------------------------------------------
(* What a process has in its memory does not change the stages it follows. *)

\* Instructions that may differ in what is computed or contributed only.
SameKind(i, j) ==
  /\ i.op = j.op
  /\ i.op \in Collectives => i.var = j.var
  /\ i.op = "print" => i.sep = j.sep /\ i.phase = j.phase
  /\ i.op = "send" => i.tag = j.tag /\ i.val = j.val

SameShape(x, y) ==
  /\ Sequence(x) /\ Sequence(y) /\ Len(x) = Len(y)
  /\ \A k \in 1 .. Len(x) : SameKind(x[k], y[k])

\* Programs of the same shape follow the same course.
LEMMA ShapeCourse ==
    ASSUME NEW x, NEW y, NEW S, NEW c, SameShape(x, y), Course(x, S, c)
    PROVE  Course(y, S, c)
<1>1. Len(x) = Len(y) /\ \A k \in 1 .. Len(y) : SameKind(x[k], y[k])
  BY DEF SameShape
<1>2. ASSUME NEW k \in 1 .. Len(y)
      PROVE  Place(y[k], S, c[k - 1], c[k])
  <2>1. Place(x[k], S, c[k - 1], c[k]) /\ SameKind(x[k], y[k])
    BY <1>1 DEF Course
  <2>2. \A i, j, r, t : Place(i, S, r, t) /\ SameKind(i, j) => Place(j, S, r, t)
    BY DEF Place, SameKind
  <2>3. QED
    BY <2>1, <2>2
<1>3. QED
  BY <1>1, <1>2 DEF Course

\* A program has its own shape.
LEMMA ShapeSelf == \A x : Sequence(x) => SameShape(x, x)
  BY DEF SameShape, SameKind

\* Instructions that compute or contribute something else are of the same kind.
LEMMA Kinds ==
    /\ \A i : SameKind(i, i)
    /\ \A var, v, w : SameKind(Compute(var, v), Compute(var, w))
    /\ \A var, v, w, o : SameKind(Gather(v, o, var), Gather(w, o, var))
  BY DEF SameKind, Compute, Gather, Collectives

\* One instruction.
LEMMA ShapeOne ==
    ASSUME NEW i, NEW j, SameKind(i, j)
    PROVE  SameShape(<< i >>, << j >>)
<1>1. << i >> \in Seq({i}) /\ << j >> \in Seq({j}) /\ Len(<< i >>) = 1 /\ Len(<< j >>) = 1
      /\ << i >>[1] = i /\ << j >>[1] = j
  OBVIOUS
<1>2. Sequence(<< i >>) /\ Sequence(<< j >>)
  BY <1>1 DEF Sequence
<1>3. QED
  BY <1>1, <1>2 DEF SameShape

\* Two programs one after the other.
LEMMA ShapeBoth ==
    ASSUME NEW x, NEW y, NEW u, NEW v, SameShape(x, y), SameShape(u, v)
    PROVE  SameShape(x \o u, y \o v)
<1>1. PICK A, B, C, D : x \in Seq(A) /\ y \in Seq(B) /\ u \in Seq(C) /\ v \in Seq(D)
  BY DEF SameShape, Sequence
<1> DEFINE W == (A \cup B) \cup (C \cup D)
           s == x \o u
           t == y \o v
<1>2. x \in Seq(W) /\ y \in Seq(W) /\ u \in Seq(W) /\ v \in Seq(W)
  BY <1>1
<1>3. /\ Len(x) \in Nat /\ Len(u) \in Nat /\ Len(x) = Len(y) /\ Len(u) = Len(v)
      /\ \A k \in 1 .. Len(x) : SameKind(x[k], y[k])
      /\ \A k \in 1 .. Len(u) : SameKind(u[k], v[k])
  BY <1>1 DEF SameShape
<1> HIDE DEF W
<1>4. /\ s \in Seq(W) /\ Len(s) = Len(x) + Len(u)
      /\ \A k \in 1 .. Len(x) + Len(u) : s[k] = IF k <= Len(x) THEN x[k] ELSE u[k - Len(x)]
  BY <1>2, ConcatProperties, Zenon
<1>5. /\ t \in Seq(W) /\ Len(t) = Len(y) + Len(v)
      /\ \A k \in 1 .. Len(y) + Len(v) : t[k] = IF k <= Len(y) THEN y[k] ELSE v[k - Len(y)]
  BY <1>2, ConcatProperties, Zenon
<1> HIDE DEF s, t
<1>6. ASSUME NEW k \in 1 .. Len(s)
      PROVE  SameKind(s[k], t[k])
  <2>1. CASE k <= Len(x)
    <3>1. k \in 1 .. Len(x) /\ s[k] = x[k] /\ t[k] = y[k]
      BY <1>3, <1>4, <1>5, <2>1
    <3>2. QED
      BY <1>3, <3>1
  <2>2. CASE ~(k <= Len(x))
    <3>1. k - Len(x) \in 1 .. Len(u) /\ s[k] = u[k - Len(x)] /\ t[k] = v[k - Len(x)]
      BY <1>3, <1>4, <1>5, <2>2
    <3>2. QED
      BY <1>3, <3>1
  <2>3. QED
    BY <2>1, <2>2
<1>7. Len(s) = Len(t) /\ Sequence(s) /\ Sequence(t)
  BY <1>3, <1>4, <1>5 DEF Sequence
<1>8. SameShape(s, t)
  BY <1>6, <1>7 DEF SameShape
<1>9. QED
  BY <1>8 DEF s, t

\* Two instructions.
LEMMA ShapeTwo ==
    ASSUME NEW i, NEW j, NEW k, NEW l, SameKind(i, k), SameKind(j, l)
    PROVE  SameShape(<< i, j >>, << k, l >>)
<1>1. << i, j >> = << i >> \o << j >> /\ << k, l >> = << k >> \o << l >>
  BY Tuples
<1>2. SameShape(<< i >>, << k >>) /\ SameShape(<< j >>, << l >>)
  BY ShapeOne
<1>3. SameShape(<< i >> \o << j >>, << k >> \o << l >>)
  BY <1>2, ShapeBoth
<1>4. QED
  BY <1>1, <1>3, Zenon

\* Four instructions of which the second and the last depend on the memory.
LEMMA ShapeFour ==
    ASSUME NEW a, NEW i, NEW b, NEW k, NEW j, NEW l, SameKind(i, j), SameKind(k, l)
    PROVE  SameShape(<< a, i, b, k >>, << a, j, b, l >>)
<1>1. /\ << a, i, b, k >> = << a >> \o << i, b, k >> /\ << i, b, k >> = << i >> \o << b, k >>
      /\ << a, j, b, l >> = << a >> \o << j, b, l >> /\ << j, b, l >> = << j >> \o << b, l >>
  <2>1. << a, i, b, k >> = << a >> \o << i, b, k >> /\ << i, b, k >> = << i >> \o << b, k >>
    <3>1. << a, i, b, k >> = << a >> \o << i, b, k >>
      BY Tuples
    <3>2. << i, b, k >> = << i >> \o << b, k >>
      BY Tuples
    <3>3. QED
      BY <3>1, <3>2, Zenon
  <2>2. << a, j, b, l >> = << a >> \o << j, b, l >> /\ << j, b, l >> = << j >> \o << b, l >>
    <3>1. << a, j, b, l >> = << a >> \o << j, b, l >>
      BY Tuples
    <3>2. << j, b, l >> = << j >> \o << b, l >>
      BY Tuples
    <3>3. QED
      BY <3>1, <3>2, Zenon
  <2>3. QED
    BY <2>1, <2>2, Zenon
<1>2. /\ SameShape(<< a >>, << a >>) /\ SameShape(<< i >>, << j >>)
      /\ SameShape(<< b, k >>, << b, l >>)
  BY Kinds, ShapeOne, ShapeTwo
<1>3. SameShape(<< i >> \o << b, k >>, << j >> \o << b, l >>)
  BY <1>2, ShapeBoth
<1>4. SameShape(<< i, b, k >>, << j, b, l >>)
  BY <1>1, <1>3, Zenon
<1>5. SameShape(<< a >> \o << i, b, k >>, << a >> \o << j, b, l >>)
  BY <1>2, <1>4, ShapeBoth
<1>6. QED
  BY <1>1, <1>5

\* Five instructions of which the third and the fourth depend on the memory.
LEMMA ShapeFive ==
    ASSUME NEW a, NEW b, NEW i, NEW k, NEW e, NEW j, NEW l, SameKind(i, j), SameKind(k, l)
    PROVE  SameShape(<< a, b, i, k, e >>, << a, b, j, l, e >>)
<1>0. \A f, g : /\ << a, b, f, g, e >> = << a >> \o << b, f, g, e >>
               /\ << b, f, g, e >> = << b >> \o << f, g, e >>
               /\ << f, g, e >> = << f >> \o << g, e >>
  <2> TAKE f, g
  <2>1. << a, b, f, g, e >> = << a >> \o << b, f, g, e >>
    BY Tuples
  <2>2. << b, f, g, e >> = << b >> \o << f, g, e >>
    BY Tuples, SMTT(30)
  <2>3. << f, g, e >> = << f >> \o << g, e >>
    BY Tuples
  <2>4. QED
    BY <2>1, <2>2, <2>3, Zenon
<1>1. /\ << a, b, i, k, e >> = << a >> \o << b, i, k, e >>
      /\ << b, i, k, e >> = << b >> \o << i, k, e >> /\ << i, k, e >> = << i >> \o << k, e >>
      /\ << a, b, j, l, e >> = << a >> \o << b, j, l, e >>
      /\ << b, j, l, e >> = << b >> \o << j, l, e >> /\ << j, l, e >> = << j >> \o << l, e >>
  BY <1>0, Zenon
<1>2. /\ SameShape(<< a >>, << a >>) /\ SameShape(<< b >>, << b >>)
      /\ SameShape(<< i >>, << j >>) /\ SameShape(<< k, e >>, << l, e >>)
  BY Kinds, ShapeOne, ShapeTwo
<1>3. SameShape(<< i >> \o << k, e >>, << j >> \o << l, e >>)
  BY <1>2, ShapeBoth
<1>4. SameShape(<< i, k, e >>, << j, l, e >>)
  BY <1>1, <1>3
<1>5. SameShape(<< b >> \o << i, k, e >>, << b >> \o << j, l, e >>)
  BY <1>2, <1>4, ShapeBoth
<1>6. SameShape(<< b, i, k, e >>, << b, j, l, e >>)
  BY <1>1, <1>5
<1>7. SameShape(<< a >> \o << b, i, k, e >>, << a >> \o << b, j, l, e >>)
  BY <1>2, <1>6, ShapeBoth
<1>8. QED
  BY <1>1, <1>7

\* A separator does not depend on the memory.
LEMMA ShapeSeparator == \A id, f : SameShape(PrintSeparator(id, f), PrintSeparator(id, f))
<1> TAKE id, f
<1> DEFINE x == << Barrier >>
           y == IF id = MASTER THEN << SeparatorLine(f) >> ELSE <<>>
<1>1. SameShape(x, x)
  BY Kinds, ShapeOne
<1>2. SameShape(y, y)
  <2>1. SameShape(<<>>, <<>>)
    <3>1. Sequence(<<>>)
      BY DEF Sequence
    <3>2. QED
      BY <3>1, ShapeSelf
  <2>2. SameShape(<< SeparatorLine(f) >>, << SeparatorLine(f) >>)
    BY Kinds, ShapeOne
  <2>3. QED
    BY <2>1, <2>2
<1> HIDE DEF x, y
<1>3. SameShape(x \o y, x \o y)
  BY <1>1, <1>2, ShapeBoth
<1>4. SameShape(x \o y \o x, x \o y \o x)
  BY <1>1, <1>3, ShapeBoth
<1>5. QED
  BY <1>4 DEF PrintSeparator, x, y

\* The empty program has its own shape.
LEMMA ShapeNothing == SameShape(<<>>, <<>>)
<1>1. Sequence(<<>>)
  BY DEF Sequence
<1>2. QED
  BY <1>1, ShapeSelf

\* The programs in C whose instructions depend on the memory have one shape.
LEMMA BroadcastLoopShape ==
    ASSUME NEW p, NEW n, NEW m, NEW w
    PROVE  SameShape(broadcastLoopGather(p, n, m), broadcastLoopGather(p, n, w))
<1> DEFINE size == ARRAY_SIZE \div n
           a == Bcast("buf", IF p = MASTER THEN Fill(ARRAY_SIZE) ELSE Zeros(ARRAY_SIZE))
           i == Compute("part", Doubled(Piece(m.buf, size, p * size)))
           j == Compute("part", Doubled(Piece(w.buf, size, p * size)))
           k == Gather(m.part, EqualOffsets(size, n), "all")
           l == Gather(w.part, EqualOffsets(size, n), "all")
<1>1. SameKind(i, j) /\ SameKind(k, l)
  BY Kinds
<1>2. /\ broadcastLoopGather(p, n, m) =
           IF ~Divides(n, ARRAY_SIZE) THEN <<>> ELSE << a, i, Barrier, k >>
      /\ broadcastLoopGather(p, n, w) =
           IF ~Divides(n, ARRAY_SIZE) THEN <<>> ELSE << a, j, Barrier, l >>
  BY Zenon DEF broadcastLoopGather
<1> HIDE DEF a, i, j, k, l
<1>3. SameShape(<< a, i, Barrier, k >>, << a, j, Barrier, l >>)
  BY <1>1, ShapeFour
<1>4. QED
  BY <1>2, <1>3, ShapeNothing, Zenon

\* scatterLoopGather, whose chunk and result depend on the memory.
LEMMA ScatterLoopGatherShape ==
    ASSUME NEW p, NEW n, NEW m, NEW w
    PROVE  SameShape(scatterLoopGather(p, n, m), scatterLoopGather(p, n, w))
<1> DEFINE size == ARRAY_SIZE \div n
           a == Line(1)
           b == Scatter(EqualPieces(Fill(ARRAY_SIZE), size, n), "part")
           i == Compute("part", Doubled(m.part))
           j == Compute("part", Doubled(w.part))
           k == Gather(m.part, EqualOffsets(size, n), "all")
           l == Gather(w.part, EqualOffsets(size, n), "all")
           x == PrintSeparator(p, 1)
           y == PrintSeparator(p, 2)
           u == << a, b, i, k, a >>
           v == << a, b, j, l, a >>
<1>1. SameKind(i, j) /\ SameKind(k, l) /\ SameShape(x, x) /\ SameShape(y, y)
  BY Kinds, ShapeSeparator
<1>2. /\ scatterLoopGather(p, n, m) = x \o (IF ~Divides(n, ARRAY_SIZE) THEN <<>> ELSE u \o y)
      /\ scatterLoopGather(p, n, w) = x \o (IF ~Divides(n, ARRAY_SIZE) THEN <<>> ELSE v \o y)
  BY Zenon DEF scatterLoopGather
<1> HIDE DEF a, b, i, j, k, l, x, y
<1>3. SameShape(u, v)
  BY <1>1, ShapeFive
<1> HIDE DEF u, v
<1>4. SameShape(u \o y, v \o y)
  BY <1>1, <1>3, ShapeBoth
<1>5. SameShape(IF ~Divides(n, ARRAY_SIZE) THEN <<>> ELSE u \o y,
                IF ~Divides(n, ARRAY_SIZE) THEN <<>> ELSE v \o y)
  BY <1>4, ShapeNothing, Zenon
<1>6. SameShape(x \o (IF ~Divides(n, ARRAY_SIZE) THEN <<>> ELSE u \o y),
                x \o (IF ~Divides(n, ARRAY_SIZE) THEN <<>> ELSE v \o y))
  BY <1>1, <1>5, ShapeBoth, Zenon
<1>7. QED
  BY <1>2, <1>6, Zenon

\* scatterVGatherV, likewise.
LEMMA ScatterVGatherVShape ==
    ASSUME NEW p, NEW n, NEW m, NEW w
    PROVE  SameShape(scatterVGatherV(p, n, m), scatterVGatherV(p, n, w))
<1> DEFINE size == ARRAY_SIZE \div n
           a == Line(1)
           b == Scatter(Chunks(Fill(ARRAY_SIZE), n), "part")
           i == Compute("part", Doubled(m.part))
           j == Compute("part", Doubled(w.part))
           k == Gather(m.part, ChunkOffsets(n), "all")
           l == Gather(w.part, ChunkOffsets(n), "all")
           x == PrintSeparator(p, 1)
           y == PrintSeparator(p, 2)
           u == << a, b, i, k, a >>
           v == << a, b, j, l, a >>
<1>1. SameKind(i, j) /\ SameKind(k, l) /\ SameShape(x, x) /\ SameShape(y, y)
  BY Kinds, ShapeSeparator
<1>2. /\ scatterVGatherV(p, n, m) = x \o (IF n > ARRAY_SIZE THEN <<>> ELSE u \o y)
      /\ scatterVGatherV(p, n, w) = x \o (IF n > ARRAY_SIZE THEN <<>> ELSE v \o y)
  BY Zenon DEF scatterVGatherV
<1> HIDE DEF a, b, i, j, k, l, x, y
<1>3. SameShape(u, v)
  BY <1>1, ShapeFive
<1> HIDE DEF u, v
<1>4. SameShape(u \o y, v \o y)
  BY <1>1, <1>3, ShapeBoth
<1>5. SameShape(IF n > ARRAY_SIZE THEN <<>> ELSE u \o y,
                IF n > ARRAY_SIZE THEN <<>> ELSE v \o y)
  BY <1>4, ShapeNothing, Zenon
<1>6. SameShape(x \o (IF n > ARRAY_SIZE THEN <<>> ELSE u \o y),
                x \o (IF n > ARRAY_SIZE THEN <<>> ELSE v \o y))
  BY <1>1, <1>5, ShapeBoth, Zenon
<1>7. QED
  BY <1>2, <1>6, Zenon

\* Two instructions, a separator, two, a separator, two, a separator and one.
LEMMA ShapeLong ==
    ASSUME NEW a, NEW b, NEW i, NEW j, NEW d, NEW k, NEW l, NEW p,
           NEW c, NEW f, SameKind(i, j), SameKind(k, l)
    PROVE  SameShape(<< a, b >> \o PrintSeparator(p, 1) \o << c, i >> \o PrintSeparator(p, 2)
                       \o << d, k >> \o PrintSeparator(p, 3) \o << f >>,
                     << a, b >> \o PrintSeparator(p, 1) \o << c, j >> \o PrintSeparator(p, 2)
                       \o << d, l >> \o PrintSeparator(p, 3) \o << f >>)
<1>1. /\ SameShape(<< a, b >>, << a, b >>) /\ SameShape(<< c, i >>, << c, j >>)
      /\ SameShape(<< d, k >>, << d, l >>) /\ SameShape(<< f >>, << f >>)
  BY Kinds, ShapeOne, ShapeTwo
<1>2. \A g : SameShape(PrintSeparator(p, g), PrintSeparator(p, g))
  BY ShapeSeparator
<1>3. SameShape(<< a, b >> \o PrintSeparator(p, 1), << a, b >> \o PrintSeparator(p, 1))
  BY <1>1, <1>2, ShapeBoth, Zenon
<1>4. SameShape(<< a, b >> \o PrintSeparator(p, 1) \o << c, i >>,
                << a, b >> \o PrintSeparator(p, 1) \o << c, j >>)
  BY <1>1, <1>3, ShapeBoth, Zenon
<1>5. SameShape(<< a, b >> \o PrintSeparator(p, 1) \o << c, i >> \o PrintSeparator(p, 2),
                << a, b >> \o PrintSeparator(p, 1) \o << c, j >> \o PrintSeparator(p, 2))
  BY <1>2, <1>4, ShapeBoth, Zenon
<1>6. SameShape(<< a, b >> \o PrintSeparator(p, 1) \o << c, i >> \o PrintSeparator(p, 2) \o << d, k >>,
                << a, b >> \o PrintSeparator(p, 1) \o << c, j >> \o PrintSeparator(p, 2) \o << d, l >>)
  BY <1>1, <1>5, ShapeBoth, Zenon
<1>7. SameShape(<< a, b >> \o PrintSeparator(p, 1) \o << c, i >> \o PrintSeparator(p, 2) \o << d, k >>
                  \o PrintSeparator(p, 3),
                << a, b >> \o PrintSeparator(p, 1) \o << c, j >> \o PrintSeparator(p, 2) \o << d, l >>
                  \o PrintSeparator(p, 3))
  BY <1>2, <1>6, ShapeBoth, Zenon
<1>8. QED
  BY <1>1, <1>7, ShapeBoth, Zenon

\* The same programs in Java.
LEMMA JavaBroadcastLoopGatherShape ==
    ASSUME NEW p, NEW n, NEW m, NEW w
    PROVE  SameShape(JavaBroadcastLoopGather(p, n, m), JavaBroadcastLoopGather(p, n, w))
<1> DEFINE size == ARRAY_SIZE \div n
           a == Line(0)
           b == Bcast("buf", IF p = MASTER THEN Fill(ARRAY_SIZE) ELSE Zeros(ARRAY_SIZE))
           c == Line(1)
           i == Compute("part", Doubled(Piece(m.buf, size, p * size)))
           j == Compute("part", Doubled(Piece(w.buf, size, p * size)))
           d == Line(2)
           k == Gather(m.part, EqualOffsets(size, n), "all")
           l == Gather(w.part, EqualOffsets(size, n), "all")
           f == Line(3)
           x == << a, b >> \o PrintSeparator(p, 1) \o << c, i >> \o PrintSeparator(p, 2)
                  \o << d, k >> \o PrintSeparator(p, 3) \o << f >>
           y == << a, b >> \o PrintSeparator(p, 1) \o << c, j >> \o PrintSeparator(p, 2)
                  \o << d, l >> \o PrintSeparator(p, 3) \o << f >>
<1>1. SameKind(i, j) /\ SameKind(k, l)
  BY Kinds
<1>2. /\ JavaBroadcastLoopGather(p, n, m) = IF ~Divides(n, ARRAY_SIZE) THEN <<>> ELSE x
      /\ JavaBroadcastLoopGather(p, n, w) = IF ~Divides(n, ARRAY_SIZE) THEN <<>> ELSE y
  BY Zenon DEF JavaBroadcastLoopGather
<1> HIDE DEF a, b, c, d, f, i, j, k, l
<1>3. SameShape(x, y)
  BY <1>1, ShapeLong, Zenon
<1> HIDE DEF x, y
<1>4. QED
  BY <1>2, <1>3, ShapeNothing, Zenon

\* JavaScatterLoopGather, whose chunk and result depend on the memory.
LEMMA JavaScatterLoopGatherShape ==
    ASSUME NEW p, NEW n, NEW m, NEW w
    PROVE  SameShape(JavaScatterLoopGather(p, n, m), JavaScatterLoopGather(p, n, w))
<1> DEFINE size == ARRAY_SIZE \div n
           a == Line(0)
           b == Scatter(EqualPieces(Fill(ARRAY_SIZE), size, n), "part")
           c == Line(1)
           i == Compute("part", Doubled(m.part))
           j == Compute("part", Doubled(w.part))
           d == Line(2)
           k == Gather(m.part, EqualOffsets(size, n), "all")
           l == Gather(w.part, EqualOffsets(size, n), "all")
           f == Line(3)
           x == << a, b >> \o PrintSeparator(p, 1) \o << c, i >> \o PrintSeparator(p, 2)
                  \o << d, k >> \o PrintSeparator(p, 3) \o << f >>
           y == << a, b >> \o PrintSeparator(p, 1) \o << c, j >> \o PrintSeparator(p, 2)
                  \o << d, l >> \o PrintSeparator(p, 3) \o << f >>
<1>1. SameKind(i, j) /\ SameKind(k, l)
  BY Kinds
<1>2. /\ JavaScatterLoopGather(p, n, m) = IF ~Divides(n, ARRAY_SIZE) THEN <<>> ELSE x
      /\ JavaScatterLoopGather(p, n, w) = IF ~Divides(n, ARRAY_SIZE) THEN <<>> ELSE y
  BY Zenon DEF JavaScatterLoopGather
<1> HIDE DEF a, b, c, d, f, i, j, k, l
<1>3. SameShape(x, y)
  BY <1>1, ShapeLong, Zenon
<1> HIDE DEF x, y
<1>4. QED
  BY <1>2, <1>3, ShapeNothing, Zenon

\* JavaScatterVGatherV, likewise.
LEMMA JavaScatterVGatherVShape ==
    ASSUME NEW p, NEW n, NEW m, NEW w
    PROVE  SameShape(JavaScatterVGatherV(p, n, m), JavaScatterVGatherV(p, n, w))
<1> DEFINE size == ARRAY_SIZE \div n
           a == Line(0)
           b == Scatter(Chunks(Fill(ARRAY_SIZE), n), "part")
           c == Line(1)
           i == Compute("part", Doubled(m.part))
           j == Compute("part", Doubled(w.part))
           d == Line(2)
           k == Gather(m.part, ChunkOffsets(n), "all")
           l == Gather(w.part, ChunkOffsets(n), "all")
           f == Line(3)
           x == << a, b >> \o PrintSeparator(p, 1) \o << c, i >> \o PrintSeparator(p, 2)
                  \o << d, k >> \o PrintSeparator(p, 3) \o << f >>
           y == << a, b >> \o PrintSeparator(p, 1) \o << c, j >> \o PrintSeparator(p, 2)
                  \o << d, l >> \o PrintSeparator(p, 3) \o << f >>
<1>1. SameKind(i, j) /\ SameKind(k, l)
  BY Kinds
<1>2. /\ JavaScatterVGatherV(p, n, m) = IF n > ARRAY_SIZE THEN <<>> ELSE x
      /\ JavaScatterVGatherV(p, n, w) = IF n > ARRAY_SIZE THEN <<>> ELSE y
  BY Zenon DEF JavaScatterVGatherV
<1> HIDE DEF a, b, c, d, f, i, j, k, l
<1>3. SameShape(x, y)
  BY <1>1, ShapeLong, Zenon
<1> HIDE DEF x, y
<1>4. QED
  BY <1>2, <1>3, ShapeNothing, Zenon

\* The one in Python.
LEMMA PyScatterGatherShape ==
    ASSUME NEW n, NEW m, NEW w
    PROVE  SameShape(PyScatterGather(n, m), PyScatterGather(n, w))
<1> DEFINE data == [k \in 1 .. 3 * n |-> k]
           a == Scatter(EqualPieces(data, 3, n), "part")
           i == Gather([k \in 1 .. Len(m.part) |-> 10 * m.part[k]], EqualOffsets(3, n), "all")
           j == Gather([k \in 1 .. Len(w.part) |-> 10 * w.part[k]], EqualOffsets(3, n), "all")
<1>1. SameKind(a, a) /\ SameKind(i, j)
  BY Kinds
<1>2. PyScatterGather(n, m) = << a, i >> /\ PyScatterGather(n, w) = << a, j >>
  BY Zenon DEF PyScatterGather
<1> HIDE DEF a, i, j
<1>3. SameShape(<< a, i >>, << a, j >>)
  BY <1>1, ShapeTwo
<1>4. QED
  BY <1>2, <1>3, Zenon

\* The shape of a program does not depend on the memory of the process.
LEMMA TextShape ==
    ASSUME NEW j \in Jobs, j.prog \in CollectiveProgs, NEW p, NEW m, NEW w
    PROVE  SameShape(Text(j, p, m), Text(j, p, w))
<1>1. PICK S : StagesOf(j, S)
  BY JobStages
<1>2. Sequence(Text(j, p, m))
  BY <1>1 DEF StagesOf, Staged, Follows
<1>3. SUFFICES Text(j, p, m) = Text(j, p, w) \/ SameShape(Text(j, p, m), Text(j, p, w))
  BY <1>2, ShapeSelf, Zenon
<1>4. j.lang \in {"C", "Java", "Array", "Python"} /\ j.prog \in Programs[j.lang]
  BY JobsAssumption
<1>5. CASE j.lang = "C"
  <2>1. \A v : Text(j, p, v) = CCode(j.prog, p, j.np, v, j.given)
    BY <1>5 DEF Text
  <2>2. CASE j.prog = "broadcastLoop"
    <3>1. \A v : Text(j, p, v) = broadcastLoopGather(p, j.np, v)
      BY <2>1, <2>2 DEF CCode
    <3>2. QED
      BY <3>1, BroadcastLoopShape
  <2>3. CASE j.prog = "scatterLoop"
    <3>1. \A v : Text(j, p, v) = scatterLoopGather(p, j.np, v)
      BY <2>1, <2>3 DEF CCode
    <3>2. QED
      BY <3>1, ScatterLoopGatherShape
  <2>4. CASE j.prog = "scatterV"
    <3>1. \A v : Text(j, p, v) = scatterVGatherV(p, j.np, v)
      BY <2>1, <2>4 DEF CCode
    <3>2. QED
      BY <3>1, ScatterVGatherVShape
  <2>5. CASE j.prog \notin {"broadcastLoop", "scatterLoop", "scatterV"}
    <3>1. CCode(j.prog, p, j.np, m, j.given) = CCode(j.prog, p, j.np, w, j.given)
      BY <1>4, <1>5, <2>5 DEF CCode, CollectiveProgs, Programs
    <3>2. QED
      BY <2>1, <3>1
  <2>6. QED
    BY <2>2, <2>3, <2>4, <2>5
<1>6. CASE j.lang = "Java"
  <2>1. \A v : Text(j, p, v) = JavaCode(j.prog, p, j.np, v, j.given)
    BY <1>6 DEF Text
  <2>2. CASE j.prog = "broadcastLoop"
    <3>1. \A v : Text(j, p, v) = JavaBroadcastLoopGather(p, j.np, v)
      BY <2>1, <2>2 DEF JavaCode
    <3>2. QED
      BY <3>1, JavaBroadcastLoopGatherShape
  <2>3. CASE j.prog = "scatterLoop"
    <3>1. \A v : Text(j, p, v) = JavaScatterLoopGather(p, j.np, v)
      BY <2>1, <2>3 DEF JavaCode
    <3>2. QED
      BY <3>1, JavaScatterLoopGatherShape
  <2>4. CASE j.prog = "scatterV"
    <3>1. \A v : Text(j, p, v) = JavaScatterVGatherV(p, j.np, v)
      BY <2>1, <2>4 DEF JavaCode
    <3>2. QED
      BY <3>1, JavaScatterVGatherVShape
  <2>5. CASE j.prog \notin {"broadcastLoop", "scatterLoop", "scatterV"}
    <3>1. JavaCode(j.prog, p, j.np, m, j.given) = JavaCode(j.prog, p, j.np, w, j.given)
      BY <1>4, <1>6, <2>5 DEF JavaCode, CollectiveProgs, Programs
    <3>2. QED
      BY <2>1, <3>1
  <2>6. QED
    BY <2>2, <2>3, <2>4, <2>5
<1>7. CASE j.lang = "Array"
  <2>1. \A v : Text(j, p, v) = ArrayCode(j.prog, p, j.np, v, j.given)
    BY <1>7 DEF Text
  <2>2. ArrayCode(j.prog, p, j.np, m, j.given) = ArrayCode(j.prog, p, j.np, w, j.given)
    BY <1>4, <1>7 DEF ArrayCode, CollectiveProgs, Programs
  <2>3. QED
    BY <2>1, <2>2
<1>8. CASE j.lang = "Python"
  <2>1. \A v : Text(j, p, v) = PyCode(j.prog, p, j.np, v, j.given)
    BY <1>8 DEF Text
  <2>2. CASE j.prog = "scatterGather"
    <3>1. \A v : Text(j, p, v) = PyScatterGather(j.np, v)
      BY <2>1, <2>2 DEF PyCode
    <3>2. QED
      BY <3>1, PyScatterGatherShape
  <2>3. CASE j.prog # "scatterGather"
    <3>1. PyCode(j.prog, p, j.np, m, j.given) = PyCode(j.prog, p, j.np, w, j.given)
      BY <1>4, <1>8, <2>3 DEF PyCode, CollectiveProgs, Programs
    <3>2. QED
      BY <2>1, <3>1
  <2>4. QED
    BY <2>2, <2>3
<1>9. QED
  BY <1>4, <1>5, <1>6, <1>7, <1>8

-----------------------------------------------------------------------------
(* The other programs call no collective.                                  *)

\* A program without collectives.
Silent(x) == Sequence(x) /\ \A k \in 1 .. Len(x) : x[k].op \notin Collectives

\* What the instructions other than the collectives are.
LEMMA SilentInstructions ==
    /\ \A var, v : Compute(var, v).op \notin Collectives
    /\ \A k : Goto(k).op \notin Collectives
    /\ \A v, to, tag : Send(v, to, tag).op \notin Collectives
    /\ \A var, from, tag : Recv(var, from, tag).op \notin Collectives
  BY DEF Compute, Goto, Send, Recv, Collectives

\* The empty program, programs of one and of two instructions.
LEMMA SilentFew ==
    /\ Silent(<<>>)
    /\ \A i : i.op \notin Collectives => Silent(<< i >>)
    /\ \A i, j : i.op \notin Collectives /\ j.op \notin Collectives => Silent(<< i, j >>)
<1>1. Silent(<<>>)
  BY DEF Silent, Sequence
<1>2. ASSUME NEW i, i.op \notin Collectives PROVE Silent(<< i >>)
  <2> DEFINE x == << i >>
  <2>1. x \in Seq({i}) /\ Len(x) = 1 /\ x[1] = i
    OBVIOUS
  <2> HIDE DEF x
  <2>2. Silent(x)
    <3>1. \A k \in 1 .. Len(x) : x[k] = i
      BY <2>1
    <3>2. QED
      BY <1>2, <2>1, <3>1 DEF Silent, Sequence
  <2>3. QED
    BY <2>2 DEF x
<1>3. ASSUME NEW i, NEW j, i.op \notin Collectives, j.op \notin Collectives
      PROVE  Silent(<< i, j >>)
  <2> DEFINE x == << i, j >>
  <2>1. x \in Seq({i, j}) /\ Len(x) = 2 /\ x[1] = i /\ x[2] = j
    OBVIOUS
  <2> HIDE DEF x
  <2>2. Silent(x)
    <3>1. \A k \in 1 .. Len(x) : x[k] = i \/ x[k] = j
      BY <2>1
    <3>2. QED
      BY <1>3, <2>1, <3>1 DEF Silent, Sequence
  <2>3. QED
    BY <2>2 DEF x
<1>4. QED
  BY <1>1, <1>2, <1>3

\* A program given instruction by instruction.
LEMMA SilentFunction ==
    ASSUME NEW n \in Nat, NEW x, x = [k \in 1 .. n |-> x[k]],
           \A k \in 1 .. n : x[k].op \notin Collectives
    PROVE  Silent(x)
<1>1. x \in Seq({ x[k] : k \in 1 .. n })
  OBVIOUS
<1>2. Len(x) = n
  OBVIOUS
<1>3. QED
  BY <1>1, <1>2 DEF Silent, Sequence

\* Two programs one after the other.
LEMMA SilentBoth ==
    ASSUME NEW x, NEW y, Silent(x), Silent(y)
    PROVE  Silent(x \o y)
<1>1. PICK A, B : x \in Seq(A) /\ y \in Seq(B)
  BY DEF Silent, Sequence
<1> DEFINE W == A \cup B
           s == x \o y
<1>2. x \in Seq(W) /\ y \in Seq(W) /\ Len(x) \in Nat /\ Len(y) \in Nat
  BY <1>1
<1> HIDE DEF W
<1>3. /\ s \in Seq(W) /\ Len(s) = Len(x) + Len(y)
      /\ \A k \in 1 .. Len(x) + Len(y) : s[k] = IF k <= Len(x) THEN x[k] ELSE y[k - Len(x)]
  BY <1>2, ConcatProperties, Zenon
<1> HIDE DEF s
<1>4. ASSUME NEW k \in 1 .. Len(s) PROVE s[k].op \notin Collectives
  <2>1. CASE k <= Len(x)
    <3>1. k \in 1 .. Len(x) /\ s[k] = x[k]
      BY <1>2, <1>3, <2>1
    <3>2. QED
      BY <3>1 DEF Silent
  <2>2. CASE ~(k <= Len(x))
    <3>1. k - Len(x) \in 1 .. Len(y) /\ s[k] = y[k - Len(x)]
      BY <1>2, <1>3, <2>2
    <3>2. QED
      BY <3>1 DEF Silent
  <2>3. QED
    BY <2>1, <2>2
<1>5. QED
  BY <1>3, <1>4 DEF Silent, Sequence, s

\* The parallel loops.
LEMMA LoopsSilent ==
    ASSUME NEW p, NEW n
    PROVE  /\ Silent(spmd(p, n)) /\ Silent(masterWorker(p, n))
           /\ Silent(parallelLoopEqualChunks(p, n)) /\ Silent(parallelLoopSlices(p, n))
           /\ Silent(parallelLoopChunks(p, n)) /\ Silent(parallelLoopChunks2(p, n))
           /\ Silent(barrierTiming(p, n)) /\ Silent(JavaBarrierPlusTiming(p, n))
<1>1. \A var, v : Silent(<< Compute(var, v) >>)
  BY SilentFew, SilentInstructions, Zenon
<1>2. \A S : Silent(Iterations(S))
  BY <1>1, Zenon DEF Iterations
<1>3. Silent(<<>>)
  BY SilentFew
<1>4. Silent(spmd(p, n)) /\ Silent(masterWorker(p, n))
  BY <1>1, Zenon DEF spmd, masterWorker
<1>5. Silent(parallelLoopEqualChunks(p, n)) /\ Silent(parallelLoopSlices(p, n))
  BY <1>2, <1>3, Zenon DEF parallelLoopEqualChunks, parallelLoopSlices
<1>6. Silent(parallelLoopChunks(p, n)) /\ Silent(parallelLoopChunks2(p, n))
  BY <1>2, <1>3, Zenon DEF parallelLoopChunks, parallelLoopChunks2
<1>7. Silent(barrierTiming(p, n)) /\ Silent(JavaBarrierPlusTiming(p, n))
  <2>1. Silent(barrierTiming(p, n))
    BY <1>1 DEF barrierTiming
  <2>2. Silent(JavaBarrierPlusTiming(p, n))
    BY <1>1 DEF JavaBarrierPlusTiming
  <2>3. QED
    BY <2>1, <2>2
<1>8. QED
  BY <1>4, <1>5, <1>6, <1>7

\* The exchanges of messages.
LEMMA ExchangesSilent ==
    ASSUME NEW p, NEW n
    PROVE  /\ Silent(messagePassingDeadlock(p, n)) /\ Silent(messagePassing(p, n))
           /\ Silent(messagePassing2(p, n)) /\ Silent(JavaMessagePassingDeadlock(p, n))
           /\ Silent(JavaMessagePassing(p, n)) /\ Silent(JavaMessagePassing2(p, n))
           /\ Silent(PyMessagePassingDeadlock(p, n)) /\ Silent(PyMessagePassing(p, n))
           /\ Silent(PyMessagePassing2(p, n))
<1>1. \A v, q, s, r : Silent(SendThenRecv(v, q, s, r)) /\ Silent(RecvThenSend(v, q, s, r))
  BY SilentFew, SilentInstructions, Zenon DEF SendThenRecv, RecvThenSend
<1>2. Silent(<<>>)
  BY SilentFew
<1>3. Silent(messagePassingDeadlock(p, n)) /\ Silent(messagePassing(p, n))
  BY <1>1, <1>2, Zenon DEF messagePassingDeadlock, messagePassing
<1>4. Silent(messagePassing2(p, n)) /\ Silent(JavaMessagePassingDeadlock(p, n))
  BY <1>1, <1>2, Zenon DEF messagePassing2, JavaMessagePassingDeadlock
<1>5. Silent(JavaMessagePassing(p, n)) /\ Silent(JavaMessagePassing2(p, n))
  BY <1>1, <1>2, Zenon DEF JavaMessagePassing, JavaMessagePassing2
<1>6. Silent(PyMessagePassingDeadlock(p, n)) /\ Silent(PyMessagePassing(p, n))
  BY <1>1, <1>2, Zenon DEF PyMessagePassingDeadlock, PyMessagePassing
<1>7. Silent(PyMessagePassing2(p, n))
  BY <1>1, <1>2, Zenon DEF PyMessagePassing2
<1>8. QED
  BY <1>3, <1>4, <1>5, <1>6, <1>7

\* The rings.
LEMMA RingsSilent ==
    ASSUME NEW p, NEW n, NEW m
    PROVE  /\ Silent(messagePassing3(p, n, m)) /\ Silent(JavaMessagePassing3(p, n, m))
           /\ Silent(ArrayMessagePassing3alt(p, n, m)) /\ Silent(PyMessagePassing3(p, n, m))
<1>1. \A v, q, s, var, from, r : /\ Silent(<< Send(v, q, s), Recv(var, from, r) >>)
                                 /\ Silent(<< Recv(var, from, r), Send(v, q, s) >>)
  BY SilentFew, SilentInstructions, Zenon
<1>2. Silent(<<>>)
  BY SilentFew
<1>3. Silent(messagePassing3(p, n, m))
  BY <1>1, <1>2, Zenon DEF messagePassing3
<1>4. Silent(JavaMessagePassing3(p, n, m))
  BY <1>1, <1>2, Zenon DEF JavaMessagePassing3
<1>5. Silent(ArrayMessagePassing3alt(p, n, m))
  BY <1>1, <1>2, Zenon DEF ArrayMessagePassing3alt
<1>6. Silent(PyMessagePassing3(p, n, m))
  BY <1>1, <1>2, Zenon DEF PyMessagePassing3
<1>7. QED
  BY <1>3, <1>4, <1>5, <1>6

\* The rounds of messages.
LEMMA RoundsSilent ==
    ASSUME NEW p, NEW n \in Nat \ {0}
    PROVE  Silent(barrier(p, n)) /\ Silent(sequenceNumbers(p, n))
<1>1. ASSUME NEW round, NEW s, NEW r PROVE Silent(sendReceivePrint(p, n, round, s, r))
  <2>1. Silent(<< Send(<< p, round >>, MASTER, s) >>)
    BY SilentFew, SilentInstructions, Zenon
  <2>2. Silent([i \in 1 .. n - 1 |-> Recv("out", AnySource, r)])
    <3> DEFINE x == [i \in 1 .. n - 1 |-> Recv("out", AnySource, r)]
    <3>1. x = [k \in 1 .. n - 1 |-> x[k]] /\ n - 1 \in Nat
      OBVIOUS
    <3>2. \A k \in 1 .. n - 1 : x[k].op \notin Collectives
      BY SilentInstructions
    <3> HIDE DEF x
    <3>3. Silent(x)
      BY <3>1, <3>2, SilentFunction
    <3>4. QED
      BY <3>3 DEF x
  <2>3. QED
    BY <2>1, <2>2, Zenon DEF sendReceivePrint
<1>2. QED
  BY <1>1, SilentBoth, Zenon DEF barrier, sequenceNumbers

\* The task queue.
LEMMA QueuesSilent ==
    ASSUME NEW p, NEW n \in Nat \ {0}, NEW m
    PROVE  /\ Silent(taskQueue(p, n, m)) /\ Silent(JavaDynamicLoadBalance(p, n, m))
           /\ Silent(PyDynamicLoadBalance(p, n, m))
<1>1. ASSUME NEW w, NEW r, NEW d PROVE Silent(HandOut(n, m, w, r, d))
  <2> DEFINE x == [k \in 1 .. n - 1 |-> Send(<< k >>, k, w)]
             y == [k \in 1 .. 2 * (NumTasks(n) - (n - 1)) |->
                     IF Odd(k) THEN Recv("out", AnySource, r)
                               ELSE Send(<< k \div 2 + n - 1 >>, m.src, w)]
             z == [k \in 1 .. n - 1 |-> Recv("out", AnySource, r)]
             u == [k \in 1 .. n - 1 |-> Send(<< 0 >>, k, d)]
  <2>0. n - 1 \in Nat /\ 2 * (NumTasks(n) - (n - 1)) \in Nat
    BY DEF NumTasks
  <2>1. Silent(x)
    <3>1. x = [k \in 1 .. n - 1 |-> x[k]]
      OBVIOUS
    <3>2. \A k \in 1 .. n - 1 : x[k].op \notin Collectives
      BY SilentInstructions
    <3> HIDE DEF x
    <3>3. QED
      BY <2>0, <3>1, <3>2, SilentFunction
  <2>2. Silent(y)
    <3> DEFINE l == 2 * (NumTasks(n) - (n - 1))
    <3>1. y = [k \in 1 .. l |-> y[k]]
      OBVIOUS
    <3>2. ASSUME NEW k \in 1 .. l PROVE y[k].op \notin Collectives
      <4>1. \/ y[k] = Recv("out", AnySource, r)
            \/ y[k] = Send(<< k \div 2 + n - 1 >>, m.src, w)
        OBVIOUS
      <4> HIDE DEF y
      <4>2. QED
        BY <4>1, SilentInstructions
    <3> HIDE DEF y
    <3>3. QED
      BY <2>0, <3>1, <3>2, SilentFunction
  <2>3. Silent(z)
    <3>1. z = [k \in 1 .. n - 1 |-> z[k]]
      OBVIOUS
    <3>2. \A k \in 1 .. n - 1 : z[k].op \notin Collectives
      BY SilentInstructions
    <3> HIDE DEF z
    <3>3. QED
      BY <2>0, <3>1, <3>2, SilentFunction
  <2>4. Silent(u)
    <3>1. u = [k \in 1 .. n - 1 |-> u[k]]
      OBVIOUS
    <3>2. \A k \in 1 .. n - 1 : u[k].op \notin Collectives
      BY SilentInstructions
    <3> HIDE DEF u
    <3>3. QED
      BY <2>0, <3>1, <3>2, SilentFunction
  <2>5. HandOut(n, m, w, r, d) = x \o y \o z \o u
    BY Zenon DEF HandOut
  <2> HIDE DEF x, y, z, u
  <2>6. Silent(x \o y \o z \o u)
    BY <2>1, <2>2, <2>3, <2>4, SilentBoth, Zenon
  <2>7. QED
    BY <2>5, <2>6, Zenon
<1>2. ASSUME NEW r, NEW d PROVE Silent(Serve(m, r, d))
  <2>1. Silent(<< Recv("part", MASTER, AnyTag) >>)
    BY SilentFew, SilentInstructions, Zenon
  <2>2. Silent(IF m.tag # d THEN << Send(m.part, MASTER, r), Goto(1) >> ELSE <<>>)
    BY SilentFew, SilentInstructions, Zenon
  <2>3. QED
    BY <2>1, <2>2, SilentBoth, Zenon DEF Serve
<1>3. Silent(taskQueue(p, n, m))
  BY <1>1, <1>2, Zenon DEF taskQueue, handOutTasks, performWork
<1>4. Silent(JavaDynamicLoadBalance(p, n, m))
  BY <1>1, <1>2, Zenon DEF JavaDynamicLoadBalance, JavaHandOutWork, JavaWorker
<1>5. Silent(PyDynamicLoadBalance(p, n, m))
  BY <1>1, <1>2, Zenon DEF PyDynamicLoadBalance, PyHandOutWork, PyWorker
<1>6. QED
  BY <1>3, <1>4, <1>5

\* Every job that is not one of a program with collectives.
LEMMA TextSilent ==
    ASSUME NEW j \in Jobs, j.prog \notin CollectiveProgs, NEW p, NEW m
    PROVE  Silent(Text(j, p, m))
<1>1. /\ j.lang \in {"C", "Java", "Array", "Python"} /\ j.np \in Nat \ {0}
      /\ j.prog \in Programs[j.lang]
  BY JobsAssumption
<1> DEFINE n == j.np
<1>a. /\ Silent(spmd(p, n)) /\ Silent(masterWorker(p, n))
      /\ Silent(parallelLoopEqualChunks(p, n)) /\ Silent(parallelLoopSlices(p, n))
      /\ Silent(parallelLoopChunks(p, n)) /\ Silent(parallelLoopChunks2(p, n))
      /\ Silent(barrierTiming(p, n)) /\ Silent(JavaBarrierPlusTiming(p, n))
  BY LoopsSilent
<1>b. /\ Silent(messagePassingDeadlock(p, n)) /\ Silent(messagePassing(p, n))
      /\ Silent(messagePassing2(p, n)) /\ Silent(JavaMessagePassingDeadlock(p, n))
      /\ Silent(JavaMessagePassing(p, n)) /\ Silent(JavaMessagePassing2(p, n))
      /\ Silent(PyMessagePassingDeadlock(p, n)) /\ Silent(PyMessagePassing(p, n))
      /\ Silent(PyMessagePassing2(p, n))
  BY ExchangesSilent
<1>c. /\ Silent(messagePassing3(p, n, m)) /\ Silent(JavaMessagePassing3(p, n, m))
      /\ Silent(ArrayMessagePassing3alt(p, n, m)) /\ Silent(PyMessagePassing3(p, n, m))
  BY RingsSilent
<1>d. Silent(barrier(p, n)) /\ Silent(sequenceNumbers(p, n))
  BY <1>1, RoundsSilent
<1>e. /\ Silent(taskQueue(p, n, m)) /\ Silent(JavaDynamicLoadBalance(p, n, m))
      /\ Silent(PyDynamicLoadBalance(p, n, m))
  BY <1>1, QueuesSilent
<1>2. CASE j.lang = "C"
  <2>1. Text(j, p, m) = CCode(j.prog, p, n, m, j.given)
    BY <1>2 DEF Text
  <2>2. j.prog \in {"spmd", "masterWorker", "equalChunks", "slices", "chunks", "chunks2", "deadlock",
                    "exchange", "exchange2", "ring", "barrier", "sequence", "timing", "taskQueue"}
    BY <1>1, <1>2 DEF Programs, CollectiveProgs
  <2>3. QED
    BY <2>1, <2>2, <1>a, <1>b, <1>c, <1>d, <1>e DEF CCode
<1>3. CASE j.lang = "Java"
  <2>1. Text(j, p, m) = JavaCode(j.prog, p, n, m, j.given)
    BY <1>3 DEF Text
  <2>2. j.prog \in {"spmd", "masterWorker", "equalChunks", "slices", "chunks", "deadlock",
                    "exchange", "exchange2", "ring", "barrier", "sequence", "timing", "taskQueue"}
    BY <1>1, <1>3 DEF Programs, CollectiveProgs
  <2>3. QED
    BY <2>1, <2>2, <1>a, <1>b, <1>c, <1>d, <1>e
       DEF JavaCode, JavaSpmd, JavaMasterWorker, JavaParallelLoopEqualChunks,
           JavaParallelLoopChunksOf1, JavaParallelLoopAdvanced, JavaBarrier, JavaSequenceNumbers
<1>4. CASE j.lang = "Array"
  <2>1. Text(j, p, m) = ArrayCode(j.prog, p, n, m, j.given)
    BY <1>4 DEF Text
  <2>2. j.prog \in {"deadlock", "exchange", "exchange2", "ring", "ringAlt"}
    BY <1>1, <1>4 DEF Programs, CollectiveProgs
  <2>3. QED
    BY <2>1, <2>2, <1>b, <1>c
       DEF ArrayCode, ArrayMessagePassingDeadlock, ArrayMessagePassing, ArrayMessagePassing2,
           ArrayMessagePassing3
<1>5. CASE j.lang = "Python"
  <2>1. Text(j, p, m) = PyCode(j.prog, p, n, m, j.given)
    BY <1>5 DEF Text
  <2>2. j.prog \in {"spmd", "masterWorker", "equalChunks", "slices", "deadlock",
                    "exchange", "exchange2", "ring", "taskQueue"}
    BY <1>1, <1>5 DEF Programs, CollectiveProgs
  <2>3. QED
    BY <2>1, <2>2, <1>a, <1>b, <1>c, <1>e
       DEF PyCode, PySpmd, PyMasterWorker, PyParallelLoopEqualChunks, PyParallelLoopChunksOf1
<1>6. QED
  BY <1>1, <1>2, <1>3, <1>4, <1>5

-----------------------------------------------------------------------------
(* Where a process is in its stages.                                       *)

\* A process with program x and course d is at instruction k with status f,
\* and has entered the collectives e: those that begin the stages up to its own.
Position(S, x, d, k, f, e) ==
  /\ k \in 1 .. Len(x) + 1
  /\ f # "run" => k <= Len(x)
  /\ f = "send" => x[k].op = "send"
  /\ f = "coll" => x[k].op \in Collectives
  /\ Sequence(e)
  /\ Len(e) = IF f = "coll" THEN d[k - 1] ELSE d[k - 1] - 1
  /\ \A j \in 1 .. Len(e) : /\ j + 1 \in 1 .. Len(S)
                            /\ e[j].op = S[j + 1].op /\ e[j].var = S[j + 1].var

\* A process that is at instruction k of its course d has left the collectives
\* that begin its stage and the ones before it: a barrier among them was
\* entered by one who has entered l collectives.
Passed(S, d, k, l) == \A j \in 1 .. d[k - 1] - 1 : S[j + 1].op = "barrier" => l >= j

\* What a program and its course are.
Charted(S, x, d) ==
  /\ Len(S) \in Nat \ {0} /\ Sequence(x) /\ Course(x, S, d)

\* The stage before an instruction and the one after it.
LEMMA StageNext ==
    ASSUME NEW S, NEW x, NEW d, Charted(S, x, d), NEW k \in 1 .. Len(x)
    PROVE  /\ Len(x) \in Nat /\ k - 1 \in 0 .. Len(x) /\ k \in 0 .. Len(x)
           /\ d[k - 1] \in 1 .. Len(S) /\ d[k] \in 1 .. Len(S)
           /\ Place(x[k], S, d[k - 1], d[k])
           /\ IF x[k].op \in Collectives
                THEN d[k] = d[k - 1] + 1 /\ x[k].op = S[d[k]].op /\ x[k].var = S[d[k]].var
                ELSE d[k] = d[k - 1]
<1>1. Len(x) \in Nat
  BY DEF Charted, Sequence
<1>2. k - 1 \in 0 .. Len(x) /\ k \in 0 .. Len(x)
  BY <1>1
<1>3. d[k - 1] \in 1 .. Len(S) /\ d[k] \in 1 .. Len(S) /\ Place(x[k], S, d[k - 1], d[k])
  BY <1>2 DEF Charted, Course
<1>4. QED
  BY <1>1, <1>2, <1>3 DEF Place

\* Going on after an instruction that is no collective.
LEMMA Advances ==
    ASSUME NEW S, NEW x, NEW d, NEW k, NEW f \in {"run", "send"}, NEW e, Charted(S, x, d),
           Position(S, x, d, k, f, e), k <= Len(x), x[k].op \notin Collectives
    PROVE  /\ Position(S, x, d, k + 1, "run", e)
           /\ \A l : Passed(S, d, k, l) => Passed(S, d, k + 1, l)
<1>1. k \in 1 .. Len(x)
  <2>1. Len(x) \in Nat /\ k \in 1 .. Len(x) + 1
    BY DEF Charted, Sequence, Position
  <2>2. QED
    BY <2>1
<1>2. Len(x) \in Nat /\ d[k] = d[k - 1]
  BY <1>1, StageNext
<1>3. (k + 1) - 1 = k /\ k + 1 \in 1 .. Len(x) + 1
  BY <1>1, <1>2
<1>4. Position(S, x, d, k + 1, "run", e)
  BY <1>2, <1>3 DEF Position
<1>5. QED
  BY <1>2, <1>3, <1>4 DEF Passed

\* Waiting for the receiver of a message.
LEMMA Waits ==
    ASSUME NEW S, NEW x, NEW d, NEW k, NEW e,
           Position(S, x, d, k, "run", e), k <= Len(x), x[k].op = "send"
    PROVE  Position(S, x, d, k, "send", e)
  BY DEF Position

\* Entering a collective.
LEMMA Enters ==
    ASSUME NEW S, NEW x, NEW d, NEW k, NEW e, NEW i, Charted(S, x, d),
           Position(S, x, d, k, "run", e), k <= Len(x),
           x[k].op \in Collectives, i.op = x[k].op, i.var = x[k].var
    PROVE  Position(S, x, d, k, "coll", Append(e, i)) /\ Len(Append(e, i)) = Len(e) + 1
<1> DEFINE u == Append(e, i)
<1>1. k \in 1 .. Len(x)
  <2>1. Len(x) \in Nat /\ k \in 1 .. Len(x) + 1
    BY DEF Charted, Sequence, Position
  <2>2. QED
    BY <2>1
<1>2. /\ d[k - 1] \in 1 .. Len(S) /\ d[k] \in 1 .. Len(S) /\ d[k] = d[k - 1] + 1
      /\ i.op = S[d[k]].op /\ i.var = S[d[k]].var
  BY <1>1, StageNext
<1>3. Len(e) = d[k - 1] - 1 /\ Len(S) \in Nat
  BY DEF Position, Charted
<1>4. PICK U : e \in Seq(U)
  BY DEF Position, Sequence
<1>5. /\ u \in Seq(U \cup {i}) /\ Len(u) = Len(e) + 1 /\ u[Len(e) + 1] = i
      /\ \A j \in 1 .. Len(e) : u[j] = e[j]
  <2>1. e \in Seq(U \cup {i})
    BY <1>4
  <2>2. QED
    BY <2>1
<1> HIDE DEF u
<1>6. Len(u) = d[k - 1] /\ Len(u) + 1 = d[k]
  BY <1>2, <1>3, <1>5
<1>7. ASSUME NEW j \in 1 .. Len(u)
      PROVE  /\ j + 1 \in 1 .. Len(S)
             /\ u[j].op = S[j + 1].op /\ u[j].var = S[j + 1].var
  <2>1. CASE j = Len(u)
    <3>1. j + 1 = d[k] /\ u[j] = i
      BY <1>2, <1>3, <1>5, <1>6, <2>1
    <3>2. QED
      BY <1>2, <3>1
  <2>2. CASE j # Len(u)
    <3>1. j \in 1 .. Len(e)
      BY <1>2, <1>3, <1>5, <1>6, <2>2
    <3>2. u[j] = e[j]
      BY <1>5, <3>1
    <3>3. QED
      BY <3>1, <3>2 DEF Position
  <2>3. QED
    BY <2>1, <2>2
<1>8. Position(S, x, d, k, "coll", u)
  <2>1. Sequence(u)
    BY <1>5 DEF Sequence
  <2>2. QED
    BY <1>6, <1>7, <2>1 DEF Position
<1>9. QED
  BY <1>5, <1>8 DEF u

\* Leaving a collective, the last one entered: if it is a barrier, l says how
\* many collectives another process has entered.
LEMMA Leaves ==
    ASSUME NEW S, NEW x, NEW d, NEW k, NEW e, Charted(S, x, d),
           Position(S, x, d, k, "coll", e)
    PROVE  /\ Position(S, x, d, k + 1, "run", e) /\ Len(e) \in Nat \ {0}
           /\ \A l \in Nat : /\ Passed(S, d, k, l)
                             /\ e[Len(e)].op = "barrier" => l >= Len(e)
                             => Passed(S, d, k + 1, l)
<1>1. k \in 1 .. Len(x)
  <2>1. Len(x) \in Nat /\ k \in 1 .. Len(x) + 1 /\ k <= Len(x)
    BY DEF Charted, Sequence, Position
  <2>2. QED
    BY <2>1
<1>2. /\ Len(x) \in Nat
      /\ d[k - 1] \in 1 .. Len(S) /\ d[k] \in 1 .. Len(S) /\ d[k] = d[k - 1] + 1
  <2>1. x[k].op \in Collectives
    BY DEF Position
  <2>2. QED
    BY <1>1, <2>1, StageNext
<1>3. Len(e) = d[k - 1] /\ Len(S) \in Nat
  BY DEF Position, Charted
<1>4. (k + 1) - 1 = k /\ k + 1 \in 1 .. Len(x) + 1 /\ Len(e) = d[k] - 1 /\ Len(e) \in Nat \ {0}
  BY <1>1, <1>2, <1>3
<1>5. Position(S, x, d, k + 1, "run", e)
  BY <1>4 DEF Position
<1>6. ASSUME NEW l \in Nat, Passed(S, d, k, l),
             e[Len(e)].op = "barrier" => l >= Len(e)
      PROVE  Passed(S, d, k + 1, l)
  <2>1. ASSUME NEW j \in 1 .. d[k] - 1, S[j + 1].op = "barrier"
        PROVE  l >= j
    <3>1. CASE j = Len(e)
      <4>1. e[Len(e)].op = S[Len(e) + 1].op
        <5>1. Len(e) \in 1 .. Len(e)
          BY <1>4
        <5>2. QED
          BY <5>1 DEF Position
      <4>2. QED
        BY <1>6, <2>1, <3>1, <4>1
    <3>2. CASE j # Len(e)
      <4>1. j \in 1 .. d[k - 1] - 1
        BY <1>2, <1>3, <1>4, <3>2, SMTT(30)
      <4>2. QED
        BY <1>6, <2>1, <4>1 DEF Passed
    <3>3. QED
      BY <3>1, <3>2
  <2>2. QED
    BY <1>4, <2>1 DEF Passed
<1>7. QED
  BY <1>4, <1>5, <1>6

\* More collectives entered do not change what was passed.
LEMMA PassedMore ==
    ASSUME NEW S, NEW d, NEW k, d[k - 1] \in Nat, NEW l \in Nat, NEW m \in Nat, l <= m,
           Passed(S, d, k, l)
    PROVE  Passed(S, d, k, m)
<1>1. ASSUME NEW j \in 1 .. d[k - 1] - 1, S[j + 1].op = "barrier" PROVE m >= j
  <2>1. l >= j
    BY <1>1 DEF Passed
  <2>2. QED
    BY <2>1
<1>2. QED
  BY <1>1 DEF Passed

-----------------------------------------------------------------------------
(* The collectives of a job.                                               *)

\* The program of process p, but for what it computes and contributes.
Script(p) == Text(job, p, Blank)

\* A job of a program with collectives.
CollectiveJob == job \in Jobs /\ job.prog \in CollectiveProgs

\* The messages of these programs, and the types of the state.
Letter == [tag : Int, val : Seq(Int), sync : BOOLEAN]

CollectiveTyped ==
  /\ pc \in [Ranks -> Nat \ {0}]
  /\ phase \in [Ranks -> {"run", "send", "coll"}]
  /\ chan \in Network(Ranks, Letter)
  /\ entered = [p \in Ranks |-> entered[p]]

\* A process in a synchronous send has one message under way that it waits
\* for, the others have none.
LettersOf(p) == [a \in Ranks |-> IF a = p THEN { msg \in Letter : msg.sync } ELSE {}]

CollectiveNetwork ==
  \A p \in Ranks : IF phase[p] = "send" THEN Singleton(Chosen(chan, Ranks, LettersOf(p)))
                                        ELSE Chosen(chan, Ranks, LettersOf(p)) = {}

\* S are the stages of the job, and c[p] is the course of process p.
Plan(S, c) ==
  /\ StagesOf(job, S)
  /\ \A p \in Ranks : Charted(S, Script(p), c[p])

\* Everyone is where it can be, and nobody has left a barrier that someone has
\* not entered.
Positions(S, c) ==
  \A p \in Ranks : /\ Position(S, Script(p), c[p], pc[p], phase[p], entered[p])
                   /\ \A q \in Ranks : Passed(S, c[p], pc[p], Len(entered[q]))

\* In the other jobs nobody ever enters a collective.
NoCollective ==
  /\ phase \in [Ranks -> {"run", "send"}]
  /\ \A p \in Ranks : entered[p] = <<>>

\* The inductive invariant.
StageInv ==
  /\ job \in Jobs
  /\ job.prog \in CollectiveProgs =>
       CollectiveTyped /\ CollectiveNetwork /\ \E S, c : Plan(S, c) /\ Positions(S, c)
  /\ job.prog \notin CollectiveProgs => NoCollective

\* What depends on the job only.
LEMMA JobSame ==
    job' = job => /\ Ranks' = Ranks /\ (CollectiveJob' <=> CollectiveJob)
                  /\ \A p : Script(p)' = Script(p) /\ LettersOf(p)' = LettersOf(p)
  BY DEF Ranks, CollectiveJob, Script, LettersOf

\* The plan depends on the job only.
LEMMA PlanSame == ASSUME job' = job, NEW S, NEW c, Plan(S, c) PROVE Plan(S, c)'
  BY JobSame DEF Plan

\* Everyone's program has the shape of its script.
LEMMA CodeShape ==
    ASSUME CollectiveJob, NEW p
    PROVE  SameShape(Script(p), Code(p))
<1>1. Code(p) = Text(job, p, mem[p])
  BY DEF Code, Text
<1>2. QED
  BY <1>1, TextShape DEF Script, CollectiveJob

\* There is a plan.
LEMMA PlanExists == CollectiveJob => \E S, c : Plan(S, c) /\ \A p \in Ranks : c[p][0] = 1
<1> SUFFICES ASSUME CollectiveJob
             PROVE  \E S, c : Plan(S, c) /\ \A p \in Ranks : c[p][0] = 1
  OBVIOUS
<1>1. PICK S : StagesOf(job, S)
  BY JobStages DEF CollectiveJob
<1> DEFINE Fits(p, d) == Charted(S, Script(p), d) /\ d[0] = 1
           c == [p \in Ranks |-> CHOOSE d : Fits(p, d)]
<1>2. ASSUME NEW p \in Ranks PROVE \E d : Fits(p, d)
  <2>1. PICK b : Follows(Script(p), S, 1, b)
    BY <1>1 DEF StagesOf, Staged, Script
  <2>2. PICK d : Course(Script(p), S, d) /\ d[0] = 1
    BY <2>1 DEF Follows
  <2>3. QED
    BY <1>1, <2>1, <2>2 DEF Charted, StagesOf, Follows
<1>3. ASSUME NEW p \in Ranks PROVE Fits(p, c[p])
  <2>1. c[p] = CHOOSE d : Fits(p, d)
    OBVIOUS
  <2> HIDE DEF Fits
  <2>2. QED
    BY <1>2, <2>1
<1>4. Plan(S, c) /\ \A p \in Ranks : c[p][0] = 1
  <2> HIDE DEF c
  <2>1. QED
    BY <1>1, <1>3 DEF Plan
<1>5. QED
  BY <1>4

\* The instruction a process is about to execute: it calls no collective that
\* the others do not call, and does not jump.
LEMMA InstructionIs ==
    ASSUME CollectiveJob, NEW S, NEW c, Plan(S, c), NEW p \in Ranks, NEW i \in Current(p)
    PROVE  /\ phase[p] = "run" /\ pc[p] \in 1 .. Len(Script(p))
           /\ SameKind(Script(p)[pc[p]], i)
           /\ i.op \in {"compute", "print", "send", "recv", "abort"} \cup Collectives
           /\ i.op = "send" => i.tag \in Int /\ i.val \in Seq(Int)
<1>1. /\ phase[p] = "run" /\ pc[p] \in DOMAIN Code(p) /\ i = Code(p)[pc[p]]
  BY DEF Current
<1>2. SameShape(Script(p), Code(p)) /\ Charted(S, Script(p), c[p])
  BY CodeShape DEF Plan
<1>3. /\ pc[p] \in 1 .. Len(Script(p))
      /\ SameKind(Script(p)[pc[p]], i)
  BY <1>1, <1>2 DEF SameShape, Sequence
<1>4. Place(Script(p)[pc[p]], S, c[p][pc[p] - 1], c[p][pc[p]])
  BY <1>2, <1>3, StageNext
<1>5. QED
  BY <1>1, <1>3, <1>4 DEF Place, SameKind

\* One process moves, and enters no fewer collectives than before.
LEMMA OneMoves ==
    ASSUME CollectiveJob, NEW S, NEW c, Plan(S, c), Positions(S, c), job' = job,
           NEW p \in Ranks,
           \A r \in Ranks \ {p} : /\ pc'[r] = pc[r] /\ phase'[r] = phase[r]
                                  /\ entered'[r] = entered[r],
           Position(S, Script(p), c[p], pc'[p], phase'[p], entered'[p]),
           Len(entered[p]) <= Len(entered'[p]),
           \A q \in Ranks : Passed(S, c[p], pc'[p], Len(entered'[q]))
    PROVE  Positions(S, c)'
<1>1. Ranks' = Ranks /\ \A r : Script(r)' = Script(r)
  BY JobSame
<1>2. ASSUME NEW r \in Ranks, r # p
      PROVE  /\ Position(S, Script(r), c[r], pc'[r], phase'[r], entered'[r])
             /\ \A q \in Ranks : Passed(S, c[r], pc'[r], Len(entered'[q]))
  <2>1. Position(S, Script(r), c[r], pc'[r], phase'[r], entered'[r])
    BY <1>2 DEF Positions
  <2>2. ASSUME NEW q \in Ranks PROVE Passed(S, c[r], pc'[r], Len(entered'[q]))
    <3>1. pc'[r] = pc[r] /\ Passed(S, c[r], pc[r], Len(entered[q]))
      BY <1>2 DEF Positions
    <3>2. CASE q # p
      BY <3>1, <3>2
    <3>3. CASE q = p
      <4>1. Len(entered[p]) \in Nat /\ Len(entered'[p]) \in Nat
        BY SMTT(30) DEF Positions, Position, Sequence
      <4>2. c[r][pc[r] - 1] \in Nat
        <5>1. Charted(S, Script(r), c[r]) /\ pc[r] \in 1 .. Len(Script(r)) + 1
          BY DEF Plan, Positions, Position
        <5>2. Len(Script(r)) \in Nat /\ c[r] \in [0 .. Len(Script(r)) -> 1 .. Len(S)]
          BY <5>1 DEF Charted, Course, Sequence
        <5>3. pc[r] - 1 \in 0 .. Len(Script(r))
          BY <5>1, <5>2
        <5>4. c[r][pc[r] - 1] \in 1 .. Len(S)
          BY <5>2, <5>3
        <5>5. QED
          BY <5>4
      <4>3. Passed(S, c[r], pc[r], Len(entered'[p]))
        BY <3>1, <3>3, <4>1, <4>2, PassedMore
      <4>4. QED
        BY <3>1, <3>3, <4>3
    <3>4. QED
      BY <3>2, <3>3
  <2>3. QED
    BY <2>1, <2>2
<1>3. ASSUME NEW r \in Ranks
      PROVE  /\ Position(S, Script(r), c[r], pc'[r], phase'[r], entered'[r])
             /\ \A q \in Ranks : Passed(S, c[r], pc'[r], Len(entered'[q]))
  BY <1>2
<1>4. QED
  BY <1>1, <1>3 DEF Positions

\* A process goes on to its next instruction, from one that is no collective.
LEMMA MovesOn ==
    ASSUME CollectiveJob, NEW S, NEW c, Plan(S, c), Positions(S, c),
           NEW p \in Ranks, phase[p] \in {"run", "send"}, pc[p] <= Len(Script(p)),
           Script(p)[pc[p]].op \notin Collectives
    PROVE  /\ Position(S, Script(p), c[p], pc[p] + 1, "run", entered[p])
           /\ \A q \in Ranks : Passed(S, c[p], pc[p] + 1, Len(entered[q]))
<1>1. PICK x, d, k, f, e : /\ x = Script(p) /\ d = c[p] /\ k = pc[p] /\ f = phase[p]
                           /\ e = entered[p]
  OBVIOUS
<1>2. /\ Charted(S, x, d) /\ Position(S, x, d, k, f, e)
      /\ \A q \in Ranks : Passed(S, d, k, Len(entered[q]))
  BY <1>1 DEF Plan, Positions
<1>3. /\ Position(S, x, d, k + 1, "run", e)
      /\ \A l : Passed(S, d, k, l) => Passed(S, d, k + 1, l)
  BY <1>1, <1>2, Advances
<1>4. QED
  BY <1>1, <1>2, <1>3

-----------------------------------------------------------------------------
(* Every step of a job with collectives keeps to the plan.                 *)

\* What a send does to the network.
LEMMA Posting ==
    ASSUME CollectiveTyped, CollectiveNetwork, NEW p \in Ranks, phase[p] = "run", job' = job,
           NEW r \in Ranks, NEW tag \in Int, NEW val \in Seq(Int), NEW sync \in BOOLEAN,
           chan' = Added(chan, p, r, [tag |-> tag, val |-> val, sync |-> sync]),
           IF sync THEN phase' = [phase EXCEPT ![p] = "send"] ELSE phase' = phase
    PROVE  chan' \in Network(Ranks, Letter) /\ CollectiveNetwork'
<1> DEFINE msg == [tag |-> tag, val |-> val, sync |-> sync]
<1>1. /\ msg \in Letter /\ msg.sync = sync
      /\ chan' = Added(chan, p, r, msg) /\ chan \in Network(Ranks, Letter)
      /\ phase \in [Ranks -> {"run", "send", "coll"}]
  BY DEF Letter, CollectiveTyped
<1> HIDE DEF msg
<1>2. ASSUME NEW X
      PROVE  /\ chan' \in Network(Ranks, Letter)
             /\ msg \notin X[p] => Chosen(chan', Ranks, X) = Chosen(chan, Ranks, X)
             /\ msg \in X[p] /\ Chosen(chan, Ranks, X) = {} => Singleton(Chosen(chan', Ranks, X))
  <2>1. PICK R, M, c, d, e : R = Ranks /\ M = Letter /\ c = chan /\ d = chan' /\ e = msg
    OBVIOUS
  <2>2. /\ c \in Network(R, M) /\ p \in R /\ r \in R /\ e \in M
        /\ d = Added(c, p, r, e)
    BY <1>1, <2>1
  <2>3. /\ d \in Network(R, M)
        /\ e \notin X[p] => Chosen(d, R, X) = Chosen(c, R, X)
        /\ e \in X[p] /\ Chosen(c, R, X) = {} => Singleton(Chosen(d, R, X))
    BY <2>2, SendAdds
  <2>4. QED
    BY <2>1, <2>3
<1>3. Ranks' = Ranks /\ \A a : LettersOf(a)' = LettersOf(a)
  BY JobSame
<1>4. ASSUME NEW a \in Ranks
      PROVE  IF phase'[a] = "send" THEN Singleton(Chosen(chan', Ranks, LettersOf(a)))
                                   ELSE Chosen(chan', Ranks, LettersOf(a)) = {}
  <2>1. CASE a = p /\ sync
    <3>1. msg \in LettersOf(a)[p]
      BY <1>1, <2>1 DEF LettersOf
    <3>2. Chosen(chan, Ranks, LettersOf(a)) = {}
      BY <2>1 DEF CollectiveNetwork
    <3>3. QED
      BY <1>1, <1>2, <2>1, <3>1, <3>2
  <2>2. CASE ~(a = p /\ sync)
    <3>1. msg \notin LettersOf(a)[p]
      BY <1>1, <2>2 DEF LettersOf
    <3>2. phase'[a] = phase[a]
      BY <1>1, <2>2
    <3>3. QED
      BY <1>2, <3>1, <3>2 DEF CollectiveNetwork
  <2>3. QED
    BY <2>1, <2>2
<1>5. QED
  BY <1>2, <1>3, <1>4 DEF CollectiveNetwork

\* What a receive does to the network.
LEMMA Fetching ==
    ASSUME CollectiveTyped, CollectiveNetwork, NEW p \in Ranks, phase[p] = "run", job' = job,
           NEW q \in Ranks, NEW k, Takes(p, q, k)
    PROVE  /\ chan' \in Network(Ranks, Letter) /\ CollectiveNetwork'
           /\ chan[q][p][k].sync \in BOOLEAN
           /\ chan[q][p][k].sync => phase[q] = "send" /\ p # q
<1> DEFINE msg == chan[q][p][k]
<1>1. /\ chan \in Network(Ranks, Letter)
      /\ phase \in [Ranks -> {"run", "send", "coll"}]
      /\ chan' = Taken(chan, q, p, k) /\ k \in DOMAIN chan[q][p]
  BY DEF CollectiveTyped, Takes, Taken
<1>2. msg \in Letter
  BY <1>1 DEF Network
<1>3. ASSUME NEW X
      PROVE  /\ chan' \in Network(Ranks, Letter)
             /\ Chosen(chan, Ranks, X) = {} => Chosen(chan', Ranks, X) = {}
             /\ msg \notin X[q] /\ Singleton(Chosen(chan, Ranks, X))
                  => Singleton(Chosen(chan', Ranks, X))
             /\ msg \in X[q] /\ Singleton(Chosen(chan, Ranks, X)) => Chosen(chan', Ranks, X) = {}
  <2>1. PICK R, M, c, d : R = Ranks /\ M = Letter /\ c = chan /\ d = chan'
    OBVIOUS
  <2>2. /\ c \in Network(R, M) /\ p \in R /\ q \in R /\ k \in DOMAIN c[q][p]
        /\ d = Taken(c, q, p, k)
    BY <1>1, <2>1
  <2>3. /\ d \in Network(R, M)
        /\ Chosen(c, R, X) = {} => Chosen(d, R, X) = {}
        /\ c[q][p][k] \notin X[q] /\ Singleton(Chosen(c, R, X)) => Singleton(Chosen(d, R, X))
        /\ c[q][p][k] \in X[q] /\ Singleton(Chosen(c, R, X)) => Chosen(d, R, X) = {}
    BY <2>2, ReceiveRemoves
  <2>4. QED
    BY <2>1, <2>3
<1>4. Ranks' = Ranks /\ \A a : LettersOf(a)' = LettersOf(a)
  BY JobSame
<1>5. msg.sync => phase[q] = "send" /\ p # q
  <2>1. SUFFICES ASSUME msg.sync PROVE phase[q] = "send"
    OBVIOUS
  <2>2. msg \in LettersOf(q)[q]
    BY <1>2, <2>1 DEF LettersOf
  <2>3. Chosen(chan, Ranks, LettersOf(q)) # {}
    BY <1>1, <2>2, ChosenAre
  <2>4. QED
    BY <2>3 DEF CollectiveNetwork
<1>6. msg.sync \in BOOLEAN
  BY <1>2 DEF Letter
<1> HIDE DEF msg
<1>7. ASSUME NEW a \in Ranks
      PROVE  IF phase'[a] = "send" THEN Singleton(Chosen(chan', Ranks, LettersOf(a)))
                                   ELSE Chosen(chan', Ranks, LettersOf(a)) = {}
  <2>1. CASE a = q /\ msg.sync
    <3>1. msg \in LettersOf(a)[q]
      BY <1>2, <2>1 DEF LettersOf
    <3>2. Singleton(Chosen(chan, Ranks, LettersOf(a)))
      BY <1>5, <2>1 DEF CollectiveNetwork
    <3>3. phase'[a] = "run"
      BY <1>1, <2>1 DEF msg, Takes
    <3>4. QED
      BY <1>3, <3>1, <3>2, <3>3
  <2>2. CASE ~(a = q /\ msg.sync)
    <3>1. msg \notin LettersOf(a)[q]
      BY <1>2, <2>2 DEF LettersOf
    <3>2. phase'[a] = phase[a]
      BY <1>1, <2>2 DEF msg, Takes
    <3>3. QED
      BY <1>3, <3>1, <3>2 DEF CollectiveNetwork
  <2>3. QED
    BY <2>1, <2>2
<1>8. CollectiveNetwork'
  BY <1>4, <1>7 DEF CollectiveNetwork
<1>9. QED
  BY <1>3, <1>5, <1>6, <1>8 DEF msg

\* The network matters only for who is in a synchronous send.
LEMMA NetworkSame ==
    ASSUME CollectiveNetwork, job' = job, chan' = chan,
           \A a \in Ranks : (phase'[a] = "send") <=> (phase[a] = "send")
    PROVE  CollectiveNetwork'
<1>1. Ranks' = Ranks /\ \A a : LettersOf(a)' = LettersOf(a)
  BY JobSame
<1>2. QED
  BY <1>1 DEF CollectiveNetwork

\* What is to be shown of a step.
Kept(S, c) == CollectiveTyped /\ CollectiveNetwork /\ Positions(S, c)

\* A local step.
LEMMA LocalKeeps ==
    ASSUME CollectiveJob, NEW S, NEW c, Plan(S, c), Kept(S, c), NEW p \in Ranks, Local(p)
    PROVE  Kept(S, c)'
<1>1. PICK i \in Current(p) :
        \/ i.op = "compute" /\ Step(p)
        \/ i.op = "print" /\ Step(p)
        \/ i.op = "goto"
  BY DEF Local
<1>2. job' = job /\ phase' = phase /\ chan' = chan /\ entered' = entered
  BY DEF Local
<1>3. /\ phase[p] = "run" /\ pc[p] \in 1 .. Len(Script(p)) /\ SameKind(Script(p)[pc[p]], i)
      /\ i.op \in {"compute", "print", "send", "recv", "abort"} \cup Collectives
  BY InstructionIs
<1>4. i.op \in {"compute", "print"} /\ pc' = [pc EXCEPT ![p] = @ + 1]
  BY <1>1, <1>3 DEF Step, Collectives
<1>5. Script(p)[pc[p]].op \notin Collectives
  BY <1>3, <1>4 DEF SameKind, Collectives
<1>6. pc \in [Ranks -> Nat \ {0}] /\ Positions(S, c)
  BY DEF Kept, CollectiveTyped
<1>7. pc' \in [Ranks -> Nat \ {0}] /\ pc'[p] = pc[p] + 1 /\ \A r \in Ranks \ {p} : pc'[r] = pc[r]
  <2>1. pc[p] + 1 \in Nat \ {0}
    BY <1>6
  <2>2. QED
    BY <1>4, <1>6, <2>1
<1>8. /\ Position(S, Script(p), c[p], pc[p] + 1, "run", entered[p])
      /\ \A q \in Ranks : Passed(S, c[p], pc[p] + 1, Len(entered[q]))
  <2>1. pc[p] <= Len(Script(p)) /\ phase[p] \in {"run", "send"}
    BY <1>3 DEF SameShape
  <2>2. QED
    BY <1>5, <1>6, <2>1, MovesOn
<1>9. Len(entered[p]) <= Len(entered'[p])
  <2>1. Len(entered[p]) \in Nat
    BY <1>6 DEF Positions, Position, Sequence
  <2>2. QED
    BY <1>2, <2>1
<1>10. Positions(S, c)'
  <2>1. Position(S, Script(p), c[p], pc'[p], phase'[p], entered'[p])
    BY <1>2, <1>3, <1>7, <1>8
  <2>2. \A q \in Ranks : Passed(S, c[p], pc'[p], Len(entered'[q]))
    BY <1>2, <1>7, <1>8
  <2>3. QED
    BY <1>2, <1>6, <1>7, <1>9, <2>1, <2>2, OneMoves
<1>11. CollectiveTyped' /\ CollectiveNetwork'
  BY <1>2, <1>7, NetworkSame, JobSame DEF Kept, CollectiveTyped
<1>12. QED
  BY <1>10, <1>11 DEF Kept

\* A send.
LEMMA SendKeeps ==
    ASSUME CollectiveJob, NEW S, NEW c, Plan(S, c), Kept(S, c), NEW p \in Ranks, SendMessage(p)
    PROVE  Kept(S, c)'
<1>1. PICK i \in Current(p), sync \in BOOLEAN :
        /\ i.op = "send" /\ i.to \in Ranks
        /\ chan' = Added(chan, p, i.to, [tag |-> i.tag, val |-> i.val, sync |-> sync])
        /\ IF sync THEN phase' = [phase EXCEPT ![p] = "send"] /\ pc' = pc
                   ELSE pc' = [pc EXCEPT ![p] = @ + 1] /\ phase' = phase
  BY DEF SendMessage, InvalidRank, Step, Added
<1>2. job' = job /\ entered' = entered
  BY DEF SendMessage
<1>3. /\ phase[p] = "run" /\ pc[p] \in 1 .. Len(Script(p)) /\ SameKind(Script(p)[pc[p]], i)
      /\ i.tag \in Int /\ i.val \in Seq(Int)
  BY <1>1, InstructionIs
<1>4. Script(p)[pc[p]].op = "send" /\ "send" \notin Collectives
  BY <1>1, <1>3 DEF SameKind, Collectives
<1>5. /\ pc \in [Ranks -> Nat \ {0}] /\ phase \in [Ranks -> {"run", "send", "coll"}]
      /\ CollectiveTyped /\ CollectiveNetwork /\ Positions(S, c)
  BY DEF Kept, CollectiveTyped
<1>6. chan' \in Network(Ranks, Letter) /\ CollectiveNetwork'
  <2>1. IF sync THEN phase' = [phase EXCEPT ![p] = "send"] ELSE phase' = phase
    BY <1>1
  <2>2. QED
    BY <1>1, <1>2, <1>3, <1>5, <2>1, Posting
<1>7. pc[p] <= Len(Script(p)) /\ pc[p] + 1 \in Nat \ {0}
  BY <1>3, <1>5
<1>8. /\ Position(S, Script(p), c[p], pc[p] + 1, "run", entered[p])
      /\ \A q \in Ranks : Passed(S, c[p], pc[p] + 1, Len(entered[q]))
  BY <1>3, <1>4, <1>5, <1>7, MovesOn
<1>9. /\ Position(S, Script(p), c[p], pc[p], "send", entered[p])
      /\ \A q \in Ranks : Passed(S, c[p], pc[p], Len(entered[q]))
  <2>1. /\ Position(S, Script(p), c[p], pc[p], "run", entered[p])
        /\ \A q \in Ranks : Passed(S, c[p], pc[p], Len(entered[q]))
    BY <1>3, <1>5 DEF Positions
  <2>2. QED
    BY <1>4, <1>7, <2>1, Waits
<1>10. Len(entered[p]) <= Len(entered'[p])
  <2>1. Len(entered[p]) \in Nat
    BY <1>5 DEF Positions, Position, Sequence
  <2>2. QED
    BY <1>2, <2>1
<1>11. /\ Position(S, Script(p), c[p], pc'[p], phase'[p], entered'[p])
       /\ \A q \in Ranks : Passed(S, c[p], pc'[p], Len(entered'[q]))
       /\ pc' \in [Ranks -> Nat \ {0}] /\ phase' \in [Ranks -> {"run", "send", "coll"}]
       /\ \A r \in Ranks \ {p} : pc'[r] = pc[r] /\ phase'[r] = phase[r]
  <2>1. CASE sync
    <3>1. pc' = pc /\ phase' = [phase EXCEPT ![p] = "send"]
      BY <1>1, <2>1
    <3>2. phase'[p] = "send" /\ phase' \in [Ranks -> {"run", "send", "coll"}]
          /\ \A r \in Ranks \ {p} : phase'[r] = phase[r]
      BY <1>5, <3>1
    <3>3. QED
      BY <1>2, <1>5, <1>9, <3>1, <3>2
  <2>2. CASE ~sync
    <3>1. pc' = [pc EXCEPT ![p] = @ + 1] /\ phase' = phase
      BY <1>1, <2>2
    <3>2. pc'[p] = pc[p] + 1 /\ pc' \in [Ranks -> Nat \ {0}]
          /\ \A r \in Ranks \ {p} : pc'[r] = pc[r]
      BY <1>5, <1>7, <3>1
    <3>3. QED
      BY <1>2, <1>3, <1>5, <1>8, <3>1, <3>2
  <2>3. QED
    BY <2>1, <2>2
<1>12. Positions(S, c)'
  BY <1>2, <1>5, <1>10, <1>11, OneMoves
<1>13. CollectiveTyped'
  BY <1>2, <1>5, <1>6, <1>11, JobSame DEF CollectiveTyped
<1>14. QED
  BY <1>6, <1>12, <1>13 DEF Kept

\* A receive: the sender goes on too if it waited for it.
LEMMA ReceiveKeeps ==
    ASSUME CollectiveJob, NEW S, NEW c, Plan(S, c), Kept(S, c), NEW p \in Ranks, Receive(p)
    PROVE  Kept(S, c)'
<1>1. PICK i \in Current(p), q \in Ranks : i.op = "recv" /\ \E k : Takes(p, q, k)
  BY ReceiveIs
<1>2. PICK k : Takes(p, q, k)
  BY <1>1
<1>3. job' = job /\ entered' = entered
  BY DEF Receive
<1>4. /\ phase[p] = "run" /\ pc[p] \in 1 .. Len(Script(p)) /\ SameKind(Script(p)[pc[p]], i)
  BY InstructionIs
<1>5. /\ pc \in [Ranks -> Nat \ {0}] /\ phase \in [Ranks -> {"run", "send", "coll"}]
      /\ CollectiveTyped /\ CollectiveNetwork /\ Positions(S, c)
  BY DEF Kept, CollectiveTyped
<1> DEFINE sync == chan[q][p][k].sync
<1>6. /\ chan' \in Network(Ranks, Letter) /\ CollectiveNetwork'
      /\ sync \in BOOLEAN /\ sync => phase[q] = "send" /\ p # q
  BY <1>2, <1>3, <1>4, <1>5, Fetching
<1>7. IF sync THEN pc' = [pc EXCEPT ![p] = @ + 1, ![q] = @ + 1] /\ phase' = [phase EXCEPT ![q] = "run"]
              ELSE pc' = [pc EXCEPT ![p] = @ + 1] /\ phase' = phase
  BY <1>2 DEF Takes
<1> HIDE DEF sync
<1>8. /\ pc[p] + 1 \in Nat \ {0} /\ pc[q] + 1 \in Nat \ {0} /\ pc[p] <= Len(Script(p))
  BY <1>4, <1>5
<1>9. /\ Position(S, Script(p), c[p], pc[p] + 1, "run", entered[p])
      /\ \A r \in Ranks : Passed(S, c[p], pc[p] + 1, Len(entered[r]))
  <2>1. Script(p)[pc[p]].op \notin Collectives
    BY <1>1, <1>4 DEF SameKind, Collectives
  <2>2. QED
    BY <1>4, <1>5, <1>8, <2>1, MovesOn
<1>10. ASSUME sync
       PROVE  /\ Position(S, Script(q), c[q], pc[q] + 1, "run", entered[q])
              /\ \A r \in Ranks : Passed(S, c[q], pc[q] + 1, Len(entered[r]))
  <2>1. phase[q] = "send" /\ Position(S, Script(q), c[q], pc[q], phase[q], entered[q])
    BY <1>5, <1>6, <1>10 DEF Positions
  <2>2. pc[q] <= Len(Script(q)) /\ Script(q)[pc[q]].op \notin Collectives
    BY <2>1 DEF Position, Collectives
  <2>3. QED
    BY <1>5, <2>1, <2>2, MovesOn
<1>11. ASSUME NEW a \in Ranks
       PROVE  /\ Position(S, Script(a), c[a], pc[a], phase[a], entered[a])
              /\ \A r \in Ranks : Passed(S, c[a], pc[a], Len(entered[r]))
  BY <1>5 DEF Positions
<1>12. /\ pc' \in [Ranks -> Nat \ {0}] /\ phase' \in [Ranks -> {"run", "send", "coll"}]
       /\ \A a \in Ranks : /\ Position(S, Script(a), c[a], pc'[a], phase'[a], entered[a])
                           /\ \A r \in Ranks : Passed(S, c[a], pc'[a], Len(entered[r]))
  <2>1. CASE sync
    <3>1. /\ pc' = [pc EXCEPT ![p] = @ + 1, ![q] = @ + 1] /\ phase' = [phase EXCEPT ![q] = "run"]
          /\ p # q
      BY <1>6, <1>7, <2>1
    <3>2. /\ pc' \in [Ranks -> Nat \ {0}] /\ pc'[p] = pc[p] + 1 /\ pc'[q] = pc[q] + 1
          /\ \A a \in Ranks \ {p, q} : pc'[a] = pc[a]
      BY <1>5, <1>8, <3>1
    <3>3. /\ phase' \in [Ranks -> {"run", "send", "coll"}] /\ phase'[q] = "run"
          /\ \A a \in Ranks \ {q} : phase'[a] = phase[a]
      BY <1>5, <3>1
    <3>4. ASSUME NEW a \in Ranks
          PROVE  /\ Position(S, Script(a), c[a], pc'[a], phase'[a], entered[a])
                 /\ \A r \in Ranks : Passed(S, c[a], pc'[a], Len(entered[r]))
      <4>1. CASE a = p
        BY <1>4, <1>9, <3>1, <3>2, <3>3, <4>1
      <4>2. CASE a = q
        BY <1>10, <2>1, <3>2, <3>3, <4>2
      <4>3. CASE a # p /\ a # q
        BY <1>11, <3>2, <3>3, <4>3
      <4>4. QED
        BY <4>1, <4>2, <4>3
    <3>5. QED
      BY <3>2, <3>3, <3>4
  <2>2. CASE ~sync
    <3>1. pc' = [pc EXCEPT ![p] = @ + 1] /\ phase' = phase
      BY <1>7, <2>2
    <3>2. /\ pc' \in [Ranks -> Nat \ {0}] /\ pc'[p] = pc[p] + 1
          /\ \A a \in Ranks \ {p} : pc'[a] = pc[a]
      BY <1>5, <1>8, <3>1
    <3>3. ASSUME NEW a \in Ranks
          PROVE  /\ Position(S, Script(a), c[a], pc'[a], phase'[a], entered[a])
                 /\ \A r \in Ranks : Passed(S, c[a], pc'[a], Len(entered[r]))
      <4>1. CASE a = p
        BY <1>4, <1>9, <3>1, <3>2, <4>1
      <4>2. CASE a # p
        BY <1>11, <3>1, <3>2, <4>2
      <4>3. QED
        BY <4>1, <4>2
    <3>4. QED
      BY <1>5, <3>1, <3>2, <3>3
  <2>3. QED
    BY <2>1, <2>2
<1>13. Positions(S, c)'
  BY <1>3, <1>12, JobSame DEF Positions
<1>14. CollectiveTyped'
  BY <1>3, <1>5, <1>6, <1>12, JobSame DEF CollectiveTyped
<1>15. QED
  BY <1>6, <1>13, <1>14 DEF Kept

\* Entering a collective.
LEMMA EnterKeeps ==
    ASSUME CollectiveJob, NEW S, NEW c, Plan(S, c), Kept(S, c), NEW p \in Ranks,
           EnterCollective(p)
    PROVE  Kept(S, c)'
<1>1. PICK i \in Current(p) :
        /\ i.op \in Collectives
        /\ entered' = [entered EXCEPT ![p] = Append(@, i)]
        /\ phase' = [phase EXCEPT ![p] = "coll"]
  BY DEF EnterCollective
<1>2. job' = job /\ pc' = pc /\ chan' = chan
  BY DEF EnterCollective
<1>3. /\ phase[p] = "run" /\ pc[p] \in 1 .. Len(Script(p)) /\ SameKind(Script(p)[pc[p]], i)
  BY InstructionIs
<1>4. /\ Script(p)[pc[p]].op \in Collectives
      /\ i.op = Script(p)[pc[p]].op /\ i.var = Script(p)[pc[p]].var
  BY <1>1, <1>3 DEF SameKind
<1>5. /\ phase \in [Ranks -> {"run", "send", "coll"}] /\ entered = [r \in Ranks |-> entered[r]]
      /\ CollectiveTyped /\ CollectiveNetwork /\ Positions(S, c)
  BY DEF Kept, CollectiveTyped
<1>6. /\ phase' \in [Ranks -> {"run", "send", "coll"}] /\ phase'[p] = "coll"
      /\ \A r \in Ranks \ {p} : phase'[r] = phase[r]
  BY <1>1, <1>5
<1>7. /\ entered' = [r \in Ranks |-> entered'[r]] /\ entered'[p] = Append(entered[p], i)
      /\ \A r \in Ranks \ {p} : entered'[r] = entered[r]
  BY <1>1, <1>5
<1>8. /\ Position(S, Script(p), c[p], pc[p], "coll", entered'[p])
      /\ Len(entered'[p]) = Len(entered[p]) + 1
  <2>1. PICK x, d, k, e, u : /\ x = Script(p) /\ d = c[p] /\ k = pc[p] /\ e = entered[p]
                             /\ u = entered'[p]
    OBVIOUS
  <2>2. Charted(S, x, d) /\ Position(S, x, d, k, "run", e) /\ k <= Len(x)
    BY <1>3, <1>5, <2>1 DEF Plan, Positions
  <2>3. x[k].op \in Collectives /\ i.op = x[k].op /\ i.var = x[k].var /\ u = Append(e, i)
    BY <1>4, <1>7, <2>1
  <2>4. Position(S, x, d, k, "coll", Append(e, i)) /\ Len(Append(e, i)) = Len(e) + 1
    BY <2>2, <2>3, Enters
  <2>5. QED
    BY <2>1, <2>3, <2>4
<1>9. Len(entered[p]) \in Nat
  BY <1>5 DEF Positions, Position, Sequence
<1>10. ASSUME NEW q \in Ranks PROVE Passed(S, c[p], pc[p], Len(entered'[q]))
  <2>1. Passed(S, c[p], pc[p], Len(entered[q]))
    BY <1>5 DEF Positions
  <2>2. CASE q # p
    BY <1>7, <2>1, <2>2
  <2>3. CASE q = p
    <3>1. c[p][pc[p] - 1] \in Nat
      <4>1. Charted(S, Script(p), c[p])
        BY DEF Plan
      <4>2. c[p][pc[p] - 1] \in 1 .. Len(S)
        BY <1>3, <4>1, StageNext
      <4>3. QED
        BY <4>2
    <3>2. PICK l, m : l = Len(entered[p]) /\ m = Len(entered'[p])
      OBVIOUS
    <3>3. l \in Nat /\ m \in Nat /\ l <= m
      BY <1>8, <1>9, <3>2
    <3>4. Passed(S, c[p], pc[p], l)
      BY <2>1, <2>3, <3>2
    <3>5. Passed(S, c[p], pc[p], m)
      BY <3>1, <3>3, <3>4, PassedMore
    <3>6. QED
      BY <2>3, <3>2, <3>5
  <2>4. QED
    BY <2>2, <2>3
<1>11. Positions(S, c)'
  <2>1. Len(entered[p]) <= Len(entered'[p])
    BY <1>8, <1>9
  <2>2. Position(S, Script(p), c[p], pc'[p], phase'[p], entered'[p])
    BY <1>2, <1>6, <1>8
  <2>3. \A q \in Ranks : Passed(S, c[p], pc'[p], Len(entered'[q]))
    BY <1>2, <1>10
  <2>4. QED
    BY <1>2, <1>5, <1>6, <1>7, <2>1, <2>2, <2>3, OneMoves
<1>12. CollectiveTyped'
  BY <1>2, <1>5, <1>6, <1>7, JobSame DEF CollectiveTyped
<1>13. CollectiveNetwork'
  <2>1. \A a \in Ranks : (phase'[a] = "send") <=> (phase[a] = "send")
    BY <1>3, <1>6
  <2>2. QED
    BY <1>2, <1>5, <2>1, NetworkSame
<1>14. QED
  BY <1>11, <1>12, <1>13 DEF Kept

\* Leaving a collective.
LEMMA LeaveKeeps ==
    ASSUME CollectiveJob, NEW S, NEW c, Plan(S, c), Kept(S, c), NEW p \in Ranks,
           LeaveCollective(p)
    PROVE  Kept(S, c)'
<1> DEFINE e == entered[p]
<1>1. /\ phase[p] = "coll" /\ phase' = [phase EXCEPT ![p] = "run"]
      /\ pc' = [pc EXCEPT ![p] = @ + 1]
      /\ \A q \in Awaited(e[Len(e)], p, job.np) : Len(entered[q]) >= Len(e)
      /\ job' = job /\ chan' = chan /\ entered' = entered
  BY DEF LeaveCollective, Step
<1>2. /\ pc \in [Ranks -> Nat \ {0}] /\ phase \in [Ranks -> {"run", "send", "coll"}]
      /\ CollectiveTyped /\ CollectiveNetwork /\ Positions(S, c)
  BY DEF Kept, CollectiveTyped
<1>3. e[Len(e)].op = "barrier" => \A q \in Ranks : Len(entered[q]) >= Len(e)
  <2>1. e[Len(e)].op = "barrier" => Awaited(e[Len(e)], p, job.np) = Ranks
    BY DEF Awaited, Ranks
  <2>2. QED
    BY <1>1, <2>1
<1> HIDE DEF e
<1>4. /\ Charted(S, Script(p), c[p]) /\ Position(S, Script(p), c[p], pc[p], "coll", e)
      /\ \A q \in Ranks : Passed(S, c[p], pc[p], Len(entered[q]))
  BY <1>1, <1>2 DEF Plan, Positions, e
<1>5. /\ Position(S, Script(p), c[p], pc[p] + 1, "run", e)
      /\ \A l \in Nat : /\ Passed(S, c[p], pc[p], l)
                        /\ e[Len(e)].op = "barrier" => l >= Len(e)
                        => Passed(S, c[p], pc[p] + 1, l)
  BY <1>4, Leaves
<1>6. ASSUME NEW q \in Ranks PROVE Passed(S, c[p], pc[p] + 1, Len(entered[q]))
  <2>1. Len(entered[q]) \in Nat
    BY <1>2 DEF Positions, Position, Sequence
  <2>2. QED
    BY <1>3, <1>4, <1>5, <2>1
<1>7. /\ pc' \in [Ranks -> Nat \ {0}] /\ pc'[p] = pc[p] + 1
      /\ \A r \in Ranks \ {p} : pc'[r] = pc[r]
  <2>1. pc[p] + 1 \in Nat \ {0}
    BY <1>2
  <2>2. QED
    BY <1>1, <1>2, <2>1
<1>8. /\ phase' \in [Ranks -> {"run", "send", "coll"}] /\ phase'[p] = "run"
      /\ \A r \in Ranks \ {p} : phase'[r] = phase[r]
  BY <1>1, <1>2
<1>9. Positions(S, c)'
  <2>1. Len(entered[p]) <= Len(entered'[p])
    <3>1. Len(entered[p]) \in Nat
      BY <1>2 DEF Positions, Position, Sequence
    <3>2. QED
      BY <1>1, <3>1
  <2>2. Position(S, Script(p), c[p], pc'[p], phase'[p], entered'[p])
    BY <1>1, <1>5, <1>7, <1>8 DEF e
  <2>3. \A q \in Ranks : Passed(S, c[p], pc'[p], Len(entered'[q]))
    BY <1>1, <1>6, <1>7
  <2>4. QED
    BY <1>1, <1>2, <1>7, <1>8, <2>1, <2>2, <2>3, OneMoves
<1>10. CollectiveTyped'
  BY <1>1, <1>2, <1>7, <1>8, JobSame DEF CollectiveTyped
<1>11. CollectiveNetwork'
  <2>1. \A a \in Ranks : (phase'[a] = "send") <=> (phase[a] = "send")
    BY <1>1, <1>8
  <2>2. QED
    BY <1>1, <1>2, <2>1, NetworkSame
<1>12. QED
  BY <1>9, <1>10, <1>11 DEF Kept

\* A step that changes neither where the processes are nor the network.
LEMMA RestKeeps ==
    ASSUME NEW S, NEW c, Kept(S, c), UNCHANGED << job, pc, phase, chan, entered >>
    PROVE  Kept(S, c)'
<1>1. /\ job' = job /\ pc' = pc /\ phase' = phase /\ chan' = chan /\ entered' = entered
      /\ CollectiveTyped /\ CollectiveNetwork /\ Positions(S, c)
  BY DEF Kept
<1>2. Ranks' = Ranks /\ \A r : Script(r)' = Script(r)
  BY <1>1, JobSame
<1>3. CollectiveTyped'
  BY <1>1, <1>2 DEF CollectiveTyped
<1>4. CollectiveNetwork'
  BY <1>1, NetworkSame
<1>5. Positions(S, c)'
  BY <1>1, <1>2 DEF Positions
<1>6. QED
  BY <1>3, <1>4, <1>5 DEF Kept

\* The other jobs.
LEMMA SilentKeeps ==
    ASSUME job \in Jobs, job.prog \notin CollectiveProgs, NoCollective, [Next]_vars
    PROVE  NoCollective'
<1>1. job' = job /\ Ranks' = Ranks
  BY DEF Next, vars, Local, AbortJob, SendMessage, Receive, EnterCollective, LeaveCollective, Ranks
<1>2. CASE UNCHANGED vars
  BY <1>1, <1>2 DEF vars, NoCollective
<1>3. ASSUME NEW p \in Ranks,
             \/ Local(p)           \/ AbortJob(p)
             \/ SendMessage(p)     \/ Receive(p)
             \/ EnterCollective(p) \/ LeaveCollective(p)
      PROVE  NoCollective'
  <2>1. ASSUME NEW i \in Current(p) PROVE i.op \notin Collectives
    <3>1. Silent(Code(p))
      BY TextSilent DEF Code, Text
    <3>2. \E k \in DOMAIN Code(p) : i = Code(p)[k]
      BY DEF Current
    <3>3. QED
      BY <3>1, <3>2 DEF Silent, Sequence
  <2>2. ~EnterCollective(p)
    BY <2>1 DEF EnterCollective
  <2>3. ~LeaveCollective(p)
    BY DEF LeaveCollective, NoCollective
  <2>4. CASE Local(p)
    BY <1>1, <2>4 DEF Local, NoCollective
  <2>5. CASE AbortJob(p)
    BY <1>1, <2>5 DEF AbortJob, NoCollective
  <2>6. CASE SendMessage(p)
    BY <1>1, <2>6 DEF SendMessage, NoCollective
  <2>7. CASE Receive(p)
    BY <1>1, <2>7, ZenonT(60) DEF Receive, NoCollective
  <2>8. QED
    BY <1>3, <2>2, <2>3, <2>4, <2>5, <2>6, <2>7
<1>4. QED
  BY <1>2, <1>3, SMTT(40) DEF Next

\* At first everyone is at the start.
LEMMA StageStarts == Init => StageInv
<1> SUFFICES ASSUME Init PROVE StageInv
  OBVIOUS
<1>1. /\ job \in Jobs
      /\ pc = [p \in Ranks |-> 1] /\ phase = [p \in Ranks |-> "run"]
      /\ chan = [p \in Ranks |-> [q \in Ranks |-> <<>>]]
      /\ entered = [p \in Ranks |-> <<>>]
  BY DEF Init
<1>2. CASE job.prog \notin CollectiveProgs
  <2>1. NoCollective
    BY <1>1 DEF NoCollective
  <2>2. QED
    BY <1>1, <1>2, <2>1 DEF StageInv
<1>3. CASE job.prog \in CollectiveProgs
  <2>1. CollectiveJob
    BY <1>1, <1>3 DEF CollectiveJob
  <2>2. CollectiveTyped
    <3>1. chan \in [Ranks -> [Ranks -> Seq(Letter)]]
      BY <1>1
    <3>2. entered = [p \in Ranks |-> entered[p]]
      BY <1>1
    <3>3. QED
      BY <1>1, <3>1, <3>2 DEF CollectiveTyped, Network
  <2>3. CollectiveNetwork
    <3>1. \A p, q \in Ranks : DOMAIN chan[p][q] = {}
      BY <1>1
    <3>2. \A X : Chosen(chan, Ranks, X) = {}
      BY <3>1, ChosenAre
    <3>3. QED
      BY <1>1, <3>2 DEF CollectiveNetwork
  <2>4. PICK S, c : Plan(S, c) /\ \A p \in Ranks : c[p][0] = 1
    BY <2>1, PlanExists
  <2>5. ASSUME NEW p \in Ranks
        PROVE  /\ Position(S, Script(p), c[p], pc[p], phase[p], entered[p])
               /\ \A q \in Ranks : Passed(S, c[p], pc[p], Len(entered[q]))
    <3>1. pc[p] = 1 /\ phase[p] = "run" /\ entered[p] = <<>> /\ c[p][pc[p] - 1] = 1
      BY <1>1, <2>4
    <3>2. Len(Script(p)) \in Nat
      BY <2>4 DEF Plan, Charted, Sequence
    <3>3. Sequence(<<>>) /\ Len(<<>>) = 0
      BY DEF Sequence
    <3>4. Position(S, Script(p), c[p], pc[p], phase[p], entered[p])
      BY <3>1, <3>2, <3>3 DEF Position
    <3>5. QED
      BY <3>1, <3>4 DEF Passed
  <2>6. Positions(S, c)
    BY <2>5 DEF Positions
  <2>7. QED
    BY <1>1, <1>3, <2>2, <2>3, <2>4, <2>6 DEF StageInv
<1>4. QED
  BY <1>2, <1>3

\* Every step keeps the invariant.
LEMMA StageSteps == StageInv /\ [Next]_vars => StageInv'
<1> SUFFICES ASSUME StageInv, [Next]_vars PROVE StageInv'
  OBVIOUS
<1>1. job' = job /\ job \in Jobs
  BY DEF StageInv, Next, vars, Local, AbortJob, SendMessage, Receive, EnterCollective, LeaveCollective
<1>2. CASE job.prog \notin CollectiveProgs
  <2>1. NoCollective'
    BY <1>1, <1>2, SilentKeeps DEF StageInv
  <2>2. QED
    BY <1>1, <1>2, <2>1 DEF StageInv
<1>3. CASE job.prog \in CollectiveProgs
  <2>1. CollectiveJob
    BY <1>1, <1>3 DEF CollectiveJob
  <2>2. PICK S, c : Plan(S, c) /\ Kept(S, c)
    BY <1>3 DEF StageInv, Kept
  <2>3. Kept(S, c)'
    <3>1. CASE UNCHANGED vars
      BY <2>2, <3>1, RestKeeps DEF vars
    <3>2. ASSUME NEW p \in Ranks,
                 \/ Local(p)           \/ AbortJob(p)
                 \/ SendMessage(p)     \/ Receive(p)
                 \/ EnterCollective(p) \/ LeaveCollective(p)
          PROVE  Kept(S, c)'
      <4>1. CASE Local(p)
        BY <2>1, <2>2, <4>1, LocalKeeps
      <4>2. CASE AbortJob(p)
        BY <2>2, <4>2, RestKeeps DEF AbortJob
      <4>3. CASE SendMessage(p)
        BY <2>1, <2>2, <4>3, SendKeeps
      <4>4. CASE Receive(p)
        BY <2>1, <2>2, <4>4, ReceiveKeeps
      <4>5. CASE EnterCollective(p)
        BY <2>1, <2>2, <4>5, EnterKeeps
      <4>6. CASE LeaveCollective(p)
        BY <2>1, <2>2, <4>6, LeaveKeeps
      <4>7. QED
        BY <3>2, <4>1, <4>2, <4>3, <4>4, <4>5, <4>6
    <3>3. QED
      BY <3>1, <3>2 DEF Next
  <2>4. Plan(S, c)'
    BY <1>1, <2>2, PlanSame
  <2>5. CollectiveTyped' /\ CollectiveNetwork' /\ Positions(S, c)'
    BY <2>3 DEF Kept
  <2>6. (\E T, d : Plan(T, d) /\ Positions(T, d))'
    BY <2>4, <2>5
  <2>7. QED
    BY <1>1, <1>3, <2>5, <2>6 DEF StageInv
<1>4. QED
  BY <1>2, <1>3, SMTT(30)

\* The collectives two processes have entered are those of the stages.
LEMMA StagesAgree == StageInv => CollectivesAgree
<1> SUFFICES ASSUME StageInv, NEW p \in Ranks, NEW q \in Ranks,
                    NEW k \in DOMAIN entered[p] \cap DOMAIN entered[q]
             PROVE  entered[p][k].op = entered[q][k].op /\ entered[p][k].var = entered[q][k].var
  BY DEF CollectivesAgree
<1>1. CASE job.prog \notin CollectiveProgs
  <2>1. entered[p] = <<>>
    BY <1>1 DEF StageInv, NoCollective
  <2>2. QED
    BY <2>1
<1>2. CASE job.prog \in CollectiveProgs
  <2>1. PICK S, c : Positions(S, c)
    BY <1>2 DEF StageInv
  <2>2. ASSUME NEW r \in {p, q}
        PROVE  entered[r][k].op = S[k + 1].op /\ entered[r][k].var = S[k + 1].var
    <3>1. Position(S, Script(r), c[r], pc[r], phase[r], entered[r])
      BY <2>1 DEF Positions
    <3>2. k \in DOMAIN entered[r]
      OBVIOUS
    <3>3. k \in 1 .. Len(entered[r])
      BY <3>1, <3>2 DEF Position, Sequence
    <3>4. QED
      BY <3>1, <3>3 DEF Position
  <2>3. QED
    BY <2>2
<1>3. QED
  BY <1>1, <1>2

-----------------------------------------------------------------------------
(* The separators separate.                                                *)

\* The stages of the lines a process has printed, and of those it is to print.
LEMMA LinesBefore ==
    ASSUME NEW S, NEW x, NEW d, NEW k, NEW f, NEW e, Charted(S, x, d),
           Position(S, x, d, k, f, e), NEW j \in 1 .. k - 1
    PROVE  j \in 1 .. Len(x) /\ d[j] <= d[k - 1]
<1>1. Len(x) \in Nat /\ k \in 1 .. Len(x) + 1
  BY DEF Charted, Sequence, Position
<1>2. j \in 1 .. Len(x) /\ j \in 0 .. Len(x) /\ k - 1 \in 0 .. Len(x) /\ j <= k - 1
  BY <1>1
<1>3. QED
  BY <1>2 DEF Charted, Course

\* A line still to be printed comes after all the collectives entered.
LEMMA LinesAfter ==
    ASSUME NEW S, NEW x, NEW d, NEW k, NEW f \in {"run", "send", "coll"}, NEW e, Charted(S, x, d),
           Position(S, x, d, k, f, e), NEW j \in k .. Len(x), x[j].op = "print"
    PROVE  j \in 1 .. Len(x) /\ d[j] >= Len(e) + 1
<1>1. Len(x) \in Nat /\ k \in 1 .. Len(x) + 1 /\ Len(e) \in Nat
  BY DEF Charted, Sequence, Position
<1>2. /\ j \in 1 .. Len(x) /\ j \in 0 .. Len(x) /\ k - 1 \in 0 .. Len(x) /\ k - 1 <= j
      /\ k \in 1 .. Len(x) /\ k \in 0 .. Len(x) /\ k <= j
  BY <1>1
<1>3. /\ d[k - 1] <= d[j] /\ d[k] <= d[j]
      /\ d[k - 1] \in 1 .. Len(S) /\ d[k] \in 1 .. Len(S) /\ d[j] \in 1 .. Len(S)
  BY <1>2 DEF Charted, Course
<1>4. CASE f = "coll"
  <2>1. x[k].op \in Collectives /\ Len(e) = d[k - 1]
    BY <1>4 DEF Position
  <2>2. d[k] = d[k - 1] + 1
    BY <1>2, <2>1, StageNext
  <2>3. QED
    BY <1>1, <1>2, <1>3, <2>1, <2>2
<1>5. CASE f # "coll"
  <2>1. Len(e) = d[k - 1] - 1
    BY <1>5 DEF Position
  <2>2. QED
    BY <1>1, <1>2, <1>3, <2>1
<1>6. QED
  BY <1>4, <1>5

\* The line a process prints is that of its stage.
LEMMA LineIs ==
    ASSUME CollectiveJob, NEW S, NEW c, Plan(S, c), Ordered(S), NEW p \in Ranks,
           NEW k \in 1 .. Len(Script(p)), Code(p)[k].op = "print"
    PROVE  /\ Script(p)[k].op = "print" /\ c[p][k] \in 1 .. Len(S)
           /\ Code(p)[k].sep = S[c[p][k]].sep /\ Code(p)[k].phase = S[c[p][k]].phase
<1>1. Charted(S, Script(p), c[p]) /\ SameKind(Script(p)[k], Code(p)[k])
  BY CodeShape DEF Plan, SameShape
<1>2. /\ Script(p)[k].op = "print"
      /\ Code(p)[k].sep = Script(p)[k].sep /\ Code(p)[k].phase = Script(p)[k].phase
  BY <1>1 DEF SameKind
<1>3. /\ c[p][k - 1] \in 1 .. Len(S) /\ c[p][k] \in 1 .. Len(S)
      /\ Place(Script(p)[k], S, c[p][k - 1], c[p][k]) /\ c[p][k] = c[p][k - 1]
  <2>1. "print" \notin Collectives
    BY DEF Collectives
  <2>2. QED
    BY <1>1, <1>2, <2>1, StageNext
<1>4. S[1].op # "unordered"
  BY DEF Ordered
<1>5. Script(p)[k].sep = S[c[p][k]].sep /\ Script(p)[k].phase = S[c[p][k]].phase
  BY <1>2, <1>3, <1>4 DEF Place
<1>6. QED
  BY <1>2, <1>3, <1>5

\* A separator r of the master's and another line t, of someone who has left a
\* barrier that the master has not entered yet, or the other way round.
LEMMA StagesApart ==
    ASSUME NEW S, Ordered(S), NEW r \in 1 .. Len(S), NEW t \in 1 .. Len(S), S[r].sep, ~S[t].sep
    PROVE  /\ S[r].op = "barrier" /\ r >= 2
           /\ t >= r => S[t].phase >= S[r].phase /\ t >= r + 1 /\ S[r + 1].op = "barrier"
           /\ t < r => S[t].phase < S[r].phase
<1>1. /\ Len(S) \in Nat /\ S[1].op = "start" /\ S[r].op = "barrier"
      /\ S[r].phase \in Nat /\ S[t].phase \in Nat
  BY DEF Ordered
<1>2. r # 1 /\ r # t
  BY <1>1
<1>3. ASSUME t >= r PROVE S[t].phase >= S[r].phase /\ t >= r + 1 /\ S[r + 1].op = "barrier"
  <2>1. r < t /\ r + 1 \in 1 .. Len(S) /\ r < r + 1
    BY <1>1, <1>2, <1>3
  <2>2. S[r].phase <= S[t].phase
    BY <2>1 DEF Ordered
  <2>3. S[r + 1].op = "barrier"
    BY <2>1 DEF Ordered
  <2>4. QED
    BY <1>1, <2>1, <2>2, <2>3
<1>4. ASSUME t < r PROVE S[t].phase < S[r].phase
  BY <1>4 DEF Ordered
<1>5. QED
  BY <1>1, <1>2, <1>3, <1>4

\* Whoever waits for the barrier after a separator cannot be past it.
LEMMA SeparatorsApart ==
    ASSUME StageInv, job.prog \in CollectiveProgs, ~(job.lang = "Array" /\ job.prog = "broadcast"),
           NEW p \in Ranks
    PROVE  /\ \A s \in Printed(MASTER), i \in ToPrint(p) :
                s.sep /\ ~i.sep => i.phase >= s.phase
           /\ \A s \in ToPrint(MASTER), i \in Printed(p) :
                s.sep /\ ~i.sep => i.phase < s.phase
<1>1. CollectiveJob /\ MASTER \in Ranks
  BY JobsAssumption DEF StageInv, CollectiveJob, MASTER, Ranks
<1>2. PICK S, c : Plan(S, c) /\ Positions(S, c)
  BY DEF StageInv
<1>3. Ordered(S) /\ phase \in [Ranks -> {"run", "send", "coll"}]
  BY <1>2 DEF Plan, StagesOf, StageInv, CollectiveTyped
<1>4. ASSUME NEW q \in Ranks
      PROVE  /\ Charted(S, Script(q), c[q])
             /\ Position(S, Script(q), c[q], pc[q], phase[q], entered[q])
             /\ \A r \in Ranks : Passed(S, c[q], pc[q], Len(entered[r]))
             /\ Len(entered[q]) \in Nat /\ Len(Code(q)) = Len(Script(q))
             /\ pc[q] \in 1 .. Len(Script(q)) + 1
             /\ phase[q] \in {"run", "send", "coll"}
  <2>1. Charted(S, Script(q), c[q])
    BY <1>2, <1>4 DEF Plan
  <2>2. /\ Position(S, Script(q), c[q], pc[q], phase[q], entered[q])
        /\ \A r \in Ranks : Passed(S, c[q], pc[q], Len(entered[r]))
    BY <1>2, <1>4 DEF Positions
  <2>3. Len(entered[q]) \in Nat /\ pc[q] \in 1 .. Len(Script(q)) + 1
    BY <2>2 DEF Position, Sequence
  <2>4. Len(Code(q)) = Len(Script(q))
    BY <1>1, CodeShape DEF SameShape
  <2>5. phase[q] \in {"run", "send", "coll"}
    BY <1>3, <1>4
  <2>6. QED
    BY <2>1, <2>2, <2>3, <2>4, <2>5
<1>5. ASSUME NEW q \in Ranks, NEW s \in Printed(q)
      PROVE  \E j \in 1 .. Len(Script(q)) :
               /\ c[q][j] \in 1 .. Len(S) /\ c[q][j] <= c[q][pc[q] - 1]
               /\ c[q][pc[q] - 1] \in Int
               /\ s.sep = S[c[q][j]].sep /\ s.phase = S[c[q][j]].phase
  <2>1. PICK j \in 1 .. pc[q] - 1 : Code(q)[j].op = "print" /\ s = Code(q)[j]
    BY <1>5 DEF Printed, PrintsOf
  <2>2. j \in 1 .. Len(Script(q)) /\ c[q][j] <= c[q][pc[q] - 1]
    BY <1>4, <2>1, LinesBefore
  <2>3. /\ c[q][j] \in 1 .. Len(S)
        /\ Code(q)[j].sep = S[c[q][j]].sep /\ Code(q)[j].phase = S[c[q][j]].phase
    BY <1>1, <1>2, <1>3, <2>1, <2>2, LineIs
  <2>4. c[q][pc[q] - 1] \in Int
    <3>1. /\ Len(Script(q)) \in Nat /\ pc[q] - 1 \in 0 .. Len(Script(q))
          /\ c[q] \in [0 .. Len(Script(q)) -> 1 .. Len(S)]
      BY <1>4 DEF Charted, Course, Sequence
    <3>2. c[q][pc[q] - 1] \in 1 .. Len(S)
      BY <3>1
    <3>3. QED
      BY <3>2
  <2>5. QED
    BY <2>1, <2>2, <2>3, <2>4
<1>6. ASSUME NEW q \in Ranks, NEW s \in ToPrint(q)
      PROVE  \E j \in 1 .. Len(Script(q)) :
               /\ c[q][j] \in 1 .. Len(S) /\ c[q][j] >= Len(entered[q]) + 1
               /\ s.sep = S[c[q][j]].sep /\ s.phase = S[c[q][j]].phase
  <2>1. PICK j \in pc[q] .. Len(Script(q)) : Code(q)[j].op = "print" /\ s = Code(q)[j]
    BY <1>4, <1>6 DEF ToPrint, PrintsOf
  <2>2. j \in 1 .. Len(Script(q))
    BY <1>4, <2>1
  <2>3. /\ Script(q)[j].op = "print" /\ c[q][j] \in 1 .. Len(S)
        /\ Code(q)[j].sep = S[c[q][j]].sep /\ Code(q)[j].phase = S[c[q][j]].phase
    BY <1>1, <1>2, <1>3, <2>1, <2>2, LineIs
  <2>4. c[q][j] >= Len(entered[q]) + 1
    BY <1>4, <2>1, <2>3, LinesAfter
  <2>5. QED
    BY <2>1, <2>2, <2>3, <2>4
<1>7. ASSUME NEW s \in Printed(MASTER), NEW i \in ToPrint(p), s.sep, ~i.sep
      PROVE  i.phase >= s.phase
  <2>1. PICK j \in 1 .. Len(Script(MASTER)) :
          /\ c[MASTER][j] \in 1 .. Len(S) /\ c[MASTER][j] <= c[MASTER][pc[MASTER] - 1]
          /\ c[MASTER][pc[MASTER] - 1] \in Int
          /\ s.sep = S[c[MASTER][j]].sep /\ s.phase = S[c[MASTER][j]].phase
    BY <1>1, <1>5
  <2>2. PICK k \in 1 .. Len(Script(p)) :
          /\ c[p][k] \in 1 .. Len(S) /\ c[p][k] >= Len(entered[p]) + 1
          /\ i.sep = S[c[p][k]].sep /\ i.phase = S[c[p][k]].phase
    BY <1>6
  <2>3. PICK r, t, b, l : /\ r = c[MASTER][j] /\ t = c[p][k] /\ b = c[MASTER][pc[MASTER] - 1]
                          /\ l = Len(entered[p])
    OBVIOUS
  <2>4. /\ r \in 1 .. Len(S) /\ t \in 1 .. Len(S) /\ r <= b /\ b \in Int /\ t >= l + 1 /\ l \in Nat
        /\ S[r].sep /\ ~S[t].sep
    BY <1>4, <1>7, <2>1, <2>2, <2>3
  <2>5. /\ S[r].op = "barrier" /\ r >= 2
        /\ t >= r => S[t].phase >= S[r].phase
    BY <1>3, <2>4, StagesApart
  <2>6. l >= r - 1
    <3>1. r - 1 \in 1 .. b - 1 /\ (r - 1) + 1 = r
      BY <2>4, <2>5, SMTT(30)
    <3>2. Passed(S, c[MASTER], pc[MASTER], l)
      BY <1>1, <1>4, <2>3
    <3>3. \A m \in 1 .. b - 1 : S[m + 1].op = "barrier" => l >= m
      BY <2>3, <3>2 DEF Passed
    <3>4. QED
      BY <2>5, <3>1, <3>3
  <2>7. t >= r
    BY <2>4, <2>6
  <2>8. QED
    BY <2>1, <2>2, <2>3, <2>5, <2>7
<1>8. ASSUME NEW s \in ToPrint(MASTER), NEW i \in Printed(p), s.sep, ~i.sep
      PROVE  i.phase < s.phase
  <2>1. PICK j \in 1 .. Len(Script(MASTER)) :
          /\ c[MASTER][j] \in 1 .. Len(S) /\ c[MASTER][j] >= Len(entered[MASTER]) + 1
          /\ s.sep = S[c[MASTER][j]].sep /\ s.phase = S[c[MASTER][j]].phase
    BY <1>1, <1>6
  <2>2. PICK k \in 1 .. Len(Script(p)) :
          /\ c[p][k] \in 1 .. Len(S) /\ c[p][k] <= c[p][pc[p] - 1] /\ c[p][pc[p] - 1] \in Int
          /\ i.sep = S[c[p][k]].sep /\ i.phase = S[c[p][k]].phase
    BY <1>5
  <2>3. PICK r, t, b, l : /\ r = c[MASTER][j] /\ t = c[p][k] /\ b = c[p][pc[p] - 1]
                          /\ l = Len(entered[MASTER])
    OBVIOUS
  <2>4. /\ r \in 1 .. Len(S) /\ t \in 1 .. Len(S) /\ t <= b /\ b \in Int /\ r >= l + 1 /\ l \in Nat
        /\ S[r].sep /\ ~S[t].sep
    BY <1>1, <1>4, <1>8, <2>1, <2>2, <2>3
  <2>5. /\ t >= r => t >= r + 1 /\ S[r + 1].op = "barrier"
        /\ t < r => S[t].phase < S[r].phase
    BY <1>3, <2>4, StagesApart
  <2>6. ~(t >= r)
    <3>1. SUFFICES ASSUME t >= r PROVE FALSE
      OBVIOUS
    <3>2. r \in 1 .. b - 1 /\ S[r + 1].op = "barrier"
      BY <2>4, <2>5, <3>1
    <3>3. Passed(S, c[p], pc[p], l)
      BY <1>1, <1>4, <2>3
    <3>4. \A m \in 1 .. b - 1 : S[m + 1].op = "barrier" => l >= m
      BY <2>3, <3>3 DEF Passed
    <3>5. l >= r
      BY <3>2, <3>4
    <3>6. QED
      BY <2>4, <3>5
  <2>7. t < r
    BY <2>4, <2>6
  <2>8. QED
    BY <2>1, <2>2, <2>3, <2>5, <2>7
<1>9. QED
  BY <1>7, <1>8

\* The property, for the jobs it is about.
LEMMA StagesSplit == StageInv => SeparatorSplits
<1> SUFFICES ASSUME StageInv,
                    Is({"reduction2", "broadcast", "broadcastInput", "broadcastSend", "broadcast2",
                        "scatter", "gather", "broadcastLoop", "scatterLoop", "scatterV"}),
                    ~(job.lang = "Array" /\ Is({"broadcast"})),
                    NEW p \in Ranks
             PROVE  /\ \A s \in Printed(MASTER), i \in ToPrint(p) :
                         s.sep /\ ~i.sep => i.phase >= s.phase
                    /\ \A s \in ToPrint(MASTER), i \in Printed(p) :
                         s.sep /\ ~i.sep => i.phase < s.phase
  BY Zenon DEF SeparatorSplits
<1>1. job.prog \in CollectiveProgs /\ ~(job.lang = "Array" /\ job.prog = "broadcast")
  BY DEF Is, CollectiveProgs
<1>2. QED
  BY <1>1, SeparatorsApart

\* In every job, in every language and with any number of processes, the k-th
\* collective a process calls is the k-th collective everyone else calls, with
\* the result in the same place: no process ever waits in MPI_Bcast() for one
\* that has gone on to MPI_Barrier() (for instance the calls of main() in
\* MPI/22.broadcastLoopGather/broadcastLoopGather.c).
THEOREM CollectivesAgreeHolds == Spec => []CollectivesAgree
  BY StageStarts, StageSteps, StagesAgree, PTL DEF Spec

\* The separators that a program prints between two barriers do separate the
\* lines before from the lines after, with any number of processes and in every
\* program that prints them (printSeparator(), for instance in
\* MPI/13.reduction2/reduction2.c).
THEOREM SeparatorSplitsHolds == Spec => []SeparatorSplits
  BY StageStarts, StageSteps, StagesSplit, PTL DEF Spec
-----------------------------------------------------------------------------
(* What the task queue leaves behind: nothing.                             *)

\* How many answers the master has received before its k-th instruction.
Answers(n, k) ==
  IF k <= n THEN 0
  ELSE IF k <= 7 * (n - 1) + 1 THEN (k - (n - 1)) \div 2
  ELSE IF k <= 8 * (n - 1) + 1 THEN k - 4 * (n - 1) - 1
  ELSE 4 * (n - 1)

\* Each answer counts, and nothing else.
LEMMA AnswersCount ==
    ASSUME NEW n \in Nat \ {0}, NEW k \in 1 .. 9 * (n - 1)
    PROVE  /\ OpAt(n, k) = "recv" => k <= 8 * (n - 1) /\ Answers(n, k + 1) = Answers(n, k) + 1
           /\ OpAt(n, k) = "send" => Answers(n, k + 1) = Answers(n, k)
<1>1. PICK c \in Nat : c = n - 1
  OBVIOUS
<1>2. n = c + 1 /\ k \in Nat /\ k >= 1 /\ k <= 9 * c
  BY <1>1
<1>3. CASE k <= c
  <2>1. OpAt(n, k) = "send"
    BY <1>1, <1>3 DEF OpAt
  <2>2. Answers(n, k) = 0
    BY <1>2, <1>3 DEF Answers
  <2>3. Answers(n, k + 1) = 0
    BY <1>2, <1>3 DEF Answers
  <2>4. QED
    BY <2>1, <2>2, <2>3
<1>4. CASE k > c /\ k <= 7 * c
  <2>1. PICK d \in Nat : d = k - c
    BY <1>2, <1>4
  <2>2. OpAt(n, k) = IF Odd(d) THEN "recv" ELSE "send"
    BY <1>1, <1>2, <1>4, <2>1 DEF OpAt
  <2>3. Answers(n, k) = d \div 2
    <3>1. CASE k <= n
      <4>1. d = 1
        BY <1>2, <1>4, <2>1, <3>1
      <4>2. QED
        BY <3>1, <4>1 DEF Answers
    <3>2. CASE k > n
      BY <1>1, <1>2, <1>4, <2>1, <3>2 DEF Answers
    <3>3. QED
      BY <1>2, <3>1, <3>2
  <2>4. Answers(n, k + 1) = (d + 1) \div 2
    BY <1>1, <1>2, <1>4, <2>1 DEF Answers
  <2>5. IF Odd(d) THEN (d + 1) \div 2 = d \div 2 + 1 ELSE (d + 1) \div 2 = d \div 2
    BY <2>1 DEF Odd
  <2>6. k <= 8 * (n - 1)
    BY <1>2, <1>4
  <2>7. QED
    BY <2>2, <2>3, <2>4, <2>5, <2>6
<1>5. CASE k > 7 * c /\ k <= 8 * c
  <2>1. OpAt(n, k) = "recv"
    BY <1>1, <1>2, <1>5 DEF OpAt
  <2>2. Answers(n, k) = k - 4 * c - 1
    <3>1. CASE k = 7 * c + 1
      <4>1. ~(k <= n) /\ k <= 7 * (n - 1) + 1 /\ k - (n - 1) = 6 * c + 1
        BY <1>2, <1>5, <3>1
      <4>2. Answers(n, k) = (6 * c + 1) \div 2
        BY <4>1 DEF Answers
      <4>3. (6 * c + 1) \div 2 = 3 * c
        BY <1>1
      <4>4. QED
        BY <1>2, <3>1, <4>2, <4>3
    <3>2. CASE k > 7 * c + 1
      BY <1>2, <1>5, <3>2 DEF Answers
    <3>3. QED
      BY <1>2, <1>5, <3>1, <3>2
  <2>3. Answers(n, k + 1) = k - 4 * c
    BY <1>2, <1>5 DEF Answers
  <2>4. QED
    BY <1>2, <1>5, <2>1, <2>2, <2>3
<1>6. CASE k > 8 * c
  <2>1. OpAt(n, k) = "send"
    BY <1>1, <1>2, <1>6 DEF OpAt
  <2>2. Answers(n, k) = 4 * c
    BY <1>2, <1>6 DEF Answers
  <2>3. Answers(n, k + 1) = 4 * c
    BY <1>2, <1>6 DEF Answers
  <2>4. QED
    BY <2>1, <2>2, <2>3
<1>7. QED
  BY <1>2, <1>3, <1>4, <1>5, <1>6

\* All of them are the tasks.
LEMMA AnswersAll ==
    ASSUME NEW n \in Nat \ {0}
    PROVE  Answers(n, 1) = 0 /\ Answers(n, 9 * (n - 1) + 1) = NumTasks(n)
<1>1. PICK c \in Nat : c = n - 1
  OBVIOUS
<1>2. n = c + 1
  BY <1>1
<1>3. Answers(n, 1) = 0
  BY <1>2 DEF Answers
<1>4. CASE c = 0
  BY <1>2, <1>4 DEF Answers, NumTasks
<1>5. CASE c # 0
  BY <1>1, <1>2, <1>5 DEF Answers, NumTasks
<1>6. QED
  BY <1>3, <1>4, <1>5

\* The messages that carry a task, and those that tell a worker to stop.
Tasks == 1 .. NumTasks(job.np)
Given == { msg \in Message : msg.tag # DoneTag => \E t \in Tasks : msg.val = << t >> }
Result == { msg \in Message : \E t \in Tasks : msg.val = << t >> }

\* The master has told worker w to stop.
Told(w) == LastSent >= 8 * (job.np - 1) + w

\* Messages go between the master and the workers, and carry tasks; the one
\* that tells a worker to stop is the last it is sent; a worker that has it is
\* at its end, and nothing is on its way to it.
WorkerQueue(w) ==
  /\ pc[w] \in {1, 2, 3}
  /\ pc[w] = 3 \/ phase[w] = "send" => mem[w].tag # DoneTag
  /\ pc[w] = 2 /\ mem[w].tag # DoneTag => \E t \in Tasks : mem[w].part = << t >>
  /\ \A k \in DOMAIN chan[MASTER][w] :
       /\ chan[MASTER][w][k] \in Given
       /\ chan[MASTER][w][k].tag = DoneTag => Told(w) /\ k = Len(chan[MASTER][w])
  /\ \A k \in DOMAIN chan[w][MASTER] : chan[w][MASTER][k] \in Result
  /\ mem[w].tag = DoneTag => Told(w) /\ chan[MASTER][w] = <<>>

\* The master receives results only from workers and has collected one task for
\* each answer it has received.
MasterQueue ==
  /\ mem[MASTER].src # MASTER
  /\ phase[MASTER] = "send" => OpAt(job.np, pc[MASTER]) = "send"
  /\ mem[MASTER].out \in Seq(Tasks)
  /\ Len(mem[MASTER].out) = Answers(job.np, pc[MASTER])

\* Nothing goes from worker to worker, or from the master to itself.
Star == \A p, q \in Ranks : (p = MASTER <=> q = MASTER) => chan[p][q] = <<>>

\* What is under way in a task queue ...
Queues == (\A w \in Ranks \ {MASTER} : WorkerQueue(w)) /\ Star /\ MasterQueue

\* ... next to what the other invariant says of its tasks.
QueueInv == TaskInv /\ (TaskJob => Queues)

\* At the start nothing is under way.
LEMMA QueueStarts == Init => QueueInv
<1> SUFFICES ASSUME Init, TaskJob
             PROVE  Queues
  BY TaskStarts DEF QueueInv
<1>0. MASTER \in Ranks /\ job.np \in Nat \ {0}
  BY MasterRank DEF Init, TaskState
<1>1. Blank.tag = AnyTag /\ Blank.src = AnySource /\ Blank.out = <<>>
  BY DEF Blank
<1>2. AnyTag # DoneTag /\ AnySource # MASTER
  BY DEF AnyTag, AnySource, MASTER, DoneTag, DONE_TAG, DIETAG
<1>3. ASSUME NEW w \in Ranks \ {MASTER} PROVE WorkerQueue(w)
  <2>1. /\ pc[w] = 1 /\ phase[w] = "run" /\ mem[w].tag # DoneTag
        /\ DOMAIN chan[MASTER][w] = {} /\ DOMAIN chan[w][MASTER] = {}
    BY <1>0, <1>1, <1>2 DEF Init
  <2>2. QED
    BY <2>1 DEF WorkerQueue
<1>4. MasterQueue
  <2>1. /\ pc[MASTER] = 1 /\ phase[MASTER] = "run" /\ mem[MASTER].src # MASTER
        /\ mem[MASTER].out = <<>>
    BY <1>0, <1>1, <1>2 DEF Init
  <2>2. QED
    BY <1>0, <2>1, AnswersAll DEF MasterQueue
<1>5. \A p, q \in Ranks : chan[p][q] = <<>>
  BY DEF Init
<1>6. QED
  BY <1>3, <1>4, <1>5 DEF Queues, Star

\* What depends on the job only.
LEMMA QueueSame ==
    job' = job => /\ Ranks' = Ranks /\ (TaskJob' <=> TaskJob) /\ DoneTag' = DoneTag
                  /\ Tasks' = Tasks /\ Given' = Given /\ Result' = Result
  BY DEF Ranks, TaskJob, DoneTag, Tasks, Given, Result

\* A worker that is not concerned is where it was.
LEMMA WorkerUnchanged ==
    ASSUME job' = job, NEW w \in Ranks \ {MASTER}, WorkerQueue(w),
           pc'[w] = pc[w], phase'[w] = phase[w], mem'[w] = mem[w],
           chan'[MASTER][w] = chan[MASTER][w], chan'[w][MASTER] = chan[w][MASTER],
           Told(w) => Told(w)'
    PROVE  WorkerQueue(w)'
  BY QueueSame DEF WorkerQueue

\* The types the steps need.
LEMMA QueueTypes ==
    ASSUME TaskInv, TaskJob
    PROVE  /\ TaskState /\ TaskTyped /\ TaskControl /\ TaskNetwork /\ TaskPlaces
           /\ MASTER \in Ranks /\ job.np \in Nat \ {0} /\ Ranks \subseteq Nat
           /\ pc \in [Ranks -> Nat \ {0}] /\ phase \in [Ranks -> {"run", "send"}]
           /\ mem \in [Ranks -> Memory] /\ chan \in [Ranks -> [Ranks -> Seq(Message)]]
           /\ \A w \in Ranks \ {MASTER} : w \in Nat \ {0}
<1>1. TaskState /\ TaskTyped /\ TaskControl /\ TaskNetwork /\ TaskPlaces
  BY DEF TaskInv, TaskState
<1>2. MASTER \in Ranks /\ job.np \in Nat \ {0} /\ Ranks \subseteq Nat
  BY <1>1, MasterRank
<1>3. QED
  BY <1>1, <1>2 DEF TaskTyped, MASTER

\* What one more message makes of a channel.
LEMMA OneMore ==
    ASSUME NEW M, NEW s \in Seq(M), NEW x \in M
    PROVE  /\ Len(Append(s, x)) = Len(s) + 1
           /\ DOMAIN Append(s, x) = 1 .. Len(s) + 1
           /\ \A k \in 1 .. Len(s) : Append(s, x)[k] = s[k]
           /\ Append(s, x)[Len(s) + 1] = x
  OBVIOUS

\* The master gives a task, or tells a worker to stop that it has told nothing
\* of the kind.
LEMMA MasterGives ==
    ASSUME TaskInv, TaskJob, Queues, SendMessage(MASTER)
    PROVE  Queues'
<1> DEFINE n == job.np
           at == pc[MASTER]
           v == TaskAt(n, at)
<1>0. /\ TaskState /\ MASTER \in Ranks /\ n \in Nat \ {0} /\ Ranks \subseteq Nat
      /\ pc \in [Ranks -> Nat \ {0}] /\ phase \in [Ranks -> {"run", "send"}]
      /\ chan \in [Ranks -> [Ranks -> Seq(Message)]]
      /\ \A w \in Ranks \ {MASTER} : w \in Nat \ {0}
  BY QueueTypes
<1>1. PICK i \in Current(MASTER), sync \in BOOLEAN :
        /\ i.op = "send" /\ ~InvalidRank(i)
        /\ chan' = [chan EXCEPT ![MASTER][i.to] =
                      Append(@, [tag |-> i.tag, val |-> i.val, sync |-> sync])]
        /\ IF sync THEN phase' = [phase EXCEPT ![MASTER] = "send"] /\ pc' = pc
                   ELSE pc' = [pc EXCEPT ![MASTER] = @ + 1] /\ phase' = phase
  BY DEF SendMessage, Step
<1>2. job' = job /\ mem' = mem
  BY DEF SendMessage
<1>3. /\ phase[MASTER] = "run" /\ at \in 1 .. 9 * (n - 1)
      /\ OpAt(n, at) = "send"
      /\ i.val = << v >> /\ i.tag = (IF v # 0 THEN WorkTag ELSE DoneTag)
      /\ i.to = ToAt(n, at, mem[MASTER].src)
  BY <1>0, <1>1, MasterStep DEF TaskState
<1>4. WorkTag \in Int /\ DoneTag \in Int /\ WorkTag # DoneTag
  BY DEF WorkTag, DoneTag, WORK_TAG, DONE_TAG, WORKTAG, DIETAG
<1>5. /\ i.to \in Ranks \ {MASTER}
      /\ IF at <= 7 * (n - 1) THEN v \in Tasks ELSE at = 8 * (n - 1) + i.to /\ v = 0
  <2>1. i.to \in Ranks
    BY <1>1 DEF InvalidRank
  <2>2. CASE at <= n - 1
    BY <1>0, <1>3, <2>1, <2>2, SMTT(30) DEF ToAt, TaskAt, MASTER, Tasks, NumTasks
  <2>3. CASE at > n - 1 /\ at <= 7 * (n - 1)
    <3>1. i.to = mem[MASTER].src /\ mem[MASTER].src # MASTER
      BY <1>0, <1>3, <2>3 DEF ToAt, Queues, MasterQueue
    <3>2. PICK c \in Nat, d \in Nat : c = n - 1 /\ d = at - (n - 1)
      BY <1>0, <1>3, <2>3
    <3>3. v = d \div 2 + c /\ d <= 6 * c /\ d >= 1
      <4>1. v = (at - (n - 1)) \div 2 + n - 1
        BY <1>0, <1>3, <2>3 DEF TaskAt
      <4> HIDE DEF at, v
      <4>2. v = d \div 2 + n - 1 /\ d \div 2 \in Int
        BY <3>2, <4>1
      <4>3. at \in Int /\ n \in Int
        BY <1>0, <1>3
      <4>4. d <= 6 * c /\ d >= 1
        BY <2>3, <3>2, <4>3
      <4>5. v = d \div 2 + c
        BY <3>2, <4>2, <4>3
      <4>6. QED
        BY <4>4, <4>5
    <3>4. d \div 2 \in Nat /\ d \div 2 <= 3 * c
      BY <3>2, <3>3
    <3>5. v \in 1 .. 4 * c
      BY <2>3, <3>2, <3>3, <3>4
    <3>6. QED
      BY <2>1, <2>3, <3>1, <3>2, <3>5 DEF Tasks, NumTasks
  <2>4. CASE at > 7 * (n - 1)
    <3>1. at > 8 * (n - 1)
      BY <1>0, <1>3, <2>4 DEF OpAt
    <3>2. i.to = at - 8 * (n - 1) /\ v = 0
      BY <1>0, <1>3, <3>1 DEF ToAt, TaskAt
    <3> HIDE DEF at, v
    <3>3. i.to # 0 /\ ~(at <= 7 * (n - 1)) /\ at = 8 * (n - 1) + i.to
      <4>1. PICK a, c, x : a \in Int /\ c \in Nat /\ a = at /\ c = n - 1 /\ x = i.to
        BY <1>0, <1>3
      <4>2. a > 8 * c /\ x = a - 8 * c
        BY <3>1, <3>2, <4>1
      <4>3. x # 0 /\ ~(a <= 7 * c) /\ a = 8 * c + x
        BY <4>1, <4>2
      <4>4. QED
        BY <4>1, <4>3
    <3>4. i.to # MASTER
      BY <3>3 DEF MASTER
    <3>5. QED
      BY <2>1, <3>2, <3>3, <3>4
  <2>5. QED
    BY <1>0, <1>3, <2>2, <2>3, <2>4
<1> DEFINE msg == [tag |-> i.tag, val |-> i.val, sync |-> sync]
           r == i.to
           c == chan[MASTER][r]
<1>6. msg \in Message /\ msg.tag = i.tag /\ msg.val = i.val
  <2>1. v \in Nat
    BY <1>5 DEF Tasks
  <2>2. << v >> \in Payload
    BY <2>1 DEF Payload
  <2>3. QED
    BY <1>3, <1>4, <2>2 DEF Message
<1>7. msg \in Given
  BY <1>3, <1>4, <1>5, <1>6 DEF Given
<1>8. LastSent = at - 1 /\ LastSent' = at
  BY <1>0, <1>1, <1>3 DEF LastSent
<1> HIDE DEF at, v, msg
<1>9. /\ chan'[MASTER][r] = Append(c, msg)
      /\ \A p, q \in Ranks : ~(p = MASTER /\ q = r) => chan'[p][q] = chan[p][q]
  BY <1>0, <1>1, <1>5 DEF msg
<1>10. \A w \in Ranks \ {MASTER} : pc'[w] = pc[w] /\ phase'[w] = phase[w]
  BY <1>0, <1>1
<1>11. \A w \in Ranks \ {MASTER} : Told(w) => Told(w)'
  <2>1. at \in Int /\ n \in Int /\ job'.np = n
    BY <1>0, <1>2, <1>3
  <2>2. ASSUME NEW w \in Ranks \ {MASTER}, at - 1 >= 8 * (n - 1) + w
        PROVE  at >= 8 * (n - 1) + w
    <3>1. w \in Int
      BY <1>0
    <3>2. QED
      BY <2>1, <2>2, <3>1
  <2>3. QED
    BY <1>8, <2>1, <2>2 DEF Told
<1>12. ~Told(r) /\ (msg.tag = DoneTag => Told(r)')
  <2>1. at \in Int /\ r \in Nat \ {0} /\ n \in Nat \ {0}
    <3>1. r \in Nat \ {0}
      BY <1>0, <1>5
    <3>2. at \in Int /\ n \in Nat \ {0}
      BY <1>0, <1>3
    <3>3. QED
      BY <3>1, <3>2
  <2>2. CASE at <= 7 * (n - 1)
    <3>1. v # 0
      BY <1>5, <2>2 DEF Tasks
    <3>2. msg.tag # DoneTag
      BY <1>3, <1>4, <1>6, <3>1
    <3>3. ~(at - 1 >= 8 * (n - 1) + r)
      BY <2>1, <2>2
    <3>4. QED
      BY <1>8, <3>2, <3>3 DEF Told
  <2>3. CASE ~(at <= 7 * (n - 1))
    <3>1. at = 8 * (n - 1) + r
      BY <1>5, <2>3
    <3>2. QED
      BY <1>2, <1>8, <2>1, <3>1 DEF Told
  <2>4. QED
    BY <2>2, <2>3
<1>13. ASSUME NEW w \in Ranks \ {MASTER} PROVE WorkerQueue(w)'
  <2>1. WorkerQueue(w)
    BY DEF Queues
  <2>2. CASE w # r
    <3>1. chan'[MASTER][w] = chan[MASTER][w] /\ chan'[w][MASTER] = chan[w][MASTER]
      BY <1>0, <1>9, <2>2
    <3>2. QED
      BY <1>2, <1>10, <1>11, <2>1, <3>1, WorkerUnchanged
  <2>3. CASE w = r
    <3>1. chan'[r][MASTER] = chan[r][MASTER]
      BY <1>0, <1>5, <1>9
    <3>2. c \in Seq(Message)
      BY <1>0, <1>5, ZenonT(40)
    <3>3. /\ Len(Append(c, msg)) = Len(c) + 1
          /\ DOMAIN Append(c, msg) = 1 .. Len(c) + 1
          /\ \A k \in 1 .. Len(c) : Append(c, msg)[k] = c[k]
          /\ Append(c, msg)[Len(c) + 1] = msg
      BY <1>6, <3>2, OneMore
    <3>4. DOMAIN c = 1 .. Len(c) /\ Len(c) \in Nat
      BY <3>2
    <3>5. \A k \in DOMAIN c : c[k] \in Given /\ c[k].tag # DoneTag
      BY <1>12, <2>1, <2>3 DEF WorkerQueue
    <3>6. mem[r].tag # DoneTag
      BY <1>12, <2>1, <2>3 DEF WorkerQueue
    <3>7. ASSUME NEW k \in DOMAIN chan'[MASTER][r]
          PROVE  /\ chan'[MASTER][r][k] \in Given
                 /\ chan'[MASTER][r][k].tag = DoneTag => Told(r)' /\ k = Len(chan'[MASTER][r])
      <4>1. k \in 1 .. Len(c) \/ k = Len(c) + 1
        BY <1>9, <3>3, <3>4
      <4>2. CASE k \in 1 .. Len(c)
        BY <1>9, <3>3, <3>4, <3>5, <4>2
      <4>3. CASE k = Len(c) + 1
        BY <1>7, <1>9, <1>12, <3>3, <4>3
      <4>4. QED
        BY <4>1, <4>2, <4>3
    <3>8. /\ Ranks' = Ranks /\ DoneTag' = DoneTag
          /\ Tasks' = Tasks /\ Given' = Given /\ Result' = Result
      BY <1>2, QueueSame
    <3>9. pc'[r] = pc[r] /\ phase'[r] = phase[r]
      BY <1>5, <1>10
    <3>10. QED
      BY <1>2, <2>1, <2>3, <3>1, <3>6, <3>7, <3>8, <3>9 DEF WorkerQueue
  <2>4. QED
    BY <2>2, <2>3
<1>14. Star'
  BY <1>2, <1>5, <1>9, QueueSame DEF Star, Queues
<1>15. MasterQueue'
  <2>1. \/ pc'[MASTER] = at /\ phase'[MASTER] = "send"
        \/ pc'[MASTER] = at + 1 /\ phase'[MASTER] = "run"
    BY <1>0, <1>1, <1>3 DEF at
  <2>2. Answers(n, at + 1) = Answers(n, at)
    BY <1>0, <1>3, AnswersCount
  <2>3. Tasks' = Tasks
    BY <1>2, QueueSame
  <2>4. QED
    BY <1>2, <1>3, <2>1, <2>2, <2>3 DEF MasterQueue, Queues, at
<1>16. Ranks' = Ranks
  BY <1>2, QueueSame
<1>17. QED
  BY <1>13, <1>14, <1>15, <1>16 DEF Queues

\* A worker answers with the task it was given.
LEMMA WorkerAnswers ==
    ASSUME TaskInv, TaskJob, Queues, NEW w \in Ranks \ {MASTER}, SendMessage(w)
    PROVE  Queues'
<1>0. /\ TaskState /\ TaskControl /\ MASTER \in Ranks /\ Ranks \subseteq Nat
      /\ pc \in [Ranks -> Nat \ {0}] /\ phase \in [Ranks -> {"run", "send"}]
      /\ mem \in [Ranks -> Memory] /\ chan \in [Ranks -> [Ranks -> Seq(Message)]]
  BY QueueTypes
<1>1. PICK i \in Current(w), sync \in BOOLEAN :
        /\ i.op = "send" /\ ~InvalidRank(i)
        /\ chan' = [chan EXCEPT ![w][i.to] =
                      Append(@, [tag |-> i.tag, val |-> i.val, sync |-> sync])]
        /\ IF sync THEN phase' = [phase EXCEPT ![w] = "send"] /\ pc' = pc
                   ELSE pc' = [pc EXCEPT ![w] = @ + 1] /\ phase' = phase
  BY DEF SendMessage, Step
<1>2. job' = job /\ mem' = mem
  BY DEF SendMessage
<1>3. /\ phase[w] = "run" /\ pc[w] = 2 /\ mem[w].tag # DoneTag
      /\ i.val = mem[w].part /\ i.to = MASTER /\ i.tag \in Int
  BY <1>0, <1>1, WorkerStep DEF TaskState
<1>4. WorkerQueue(w)
  BY DEF Queues
<1> DEFINE msg == [tag |-> i.tag, val |-> i.val, sync |-> sync]
           c == chan[w][MASTER]
<1>5. msg \in Message /\ msg \in Result
  <2>1. PICK t \in Tasks : i.val = << t >>
    BY <1>3, <1>4 DEF WorkerQueue
  <2>2. i.val \in Payload
    BY <1>0, <1>3 DEF TaskControl
  <2>3. msg \in Message
    BY <1>3, <2>2 DEF Message
  <2>4. QED
    BY <2>1, <2>3 DEF Result
<1> HIDE DEF msg
<1>6. /\ chan'[w][MASTER] = Append(c, msg)
      /\ \A p, q \in Ranks : ~(p = w /\ q = MASTER) => chan'[p][q] = chan[p][q]
  BY <1>0, <1>1, <1>3 DEF msg
<1>7. /\ \A x \in Ranks \ {w} : pc'[x] = pc[x] /\ phase'[x] = phase[x]
      /\ \/ pc'[w] = 2 /\ phase'[w] = "send"
         \/ pc'[w] = 3 /\ phase'[w] = "run"
  BY <1>0, <1>1, <1>3
<1>8. LastSent' = LastSent /\ \A x : Told(x)' = Told(x)
  <2>1. LastSent' = LastSent
    BY <1>0, <1>7 DEF LastSent
  <2>2. QED
    BY <1>2, <2>1 DEF Told
<1>9. /\ Ranks' = Ranks /\ DoneTag' = DoneTag
      /\ Tasks' = Tasks /\ Given' = Given /\ Result' = Result
  BY <1>2, QueueSame
<1>10. ASSUME NEW x \in Ranks \ {MASTER} PROVE WorkerQueue(x)'
  <2>1. CASE x # w
    <3>1. chan'[MASTER][x] = chan[MASTER][x] /\ chan'[x][MASTER] = chan[x][MASTER]
      BY <1>0, <1>6, <2>1
    <3>2. WorkerQueue(x)
      BY DEF Queues
    <3>3. QED
      BY <1>2, <1>7, <1>8, <2>1, <3>1, <3>2, WorkerUnchanged
  <2>2. CASE x = w
    <3>1. chan'[MASTER][w] = chan[MASTER][w]
      BY <1>0, <1>6
    <3>2. c \in Seq(Message)
      BY <1>0
    <3>3. DOMAIN Append(c, msg) = 1 .. Len(c) + 1 /\ Append(c, msg)[Len(c) + 1] = msg
          /\ \A k \in 1 .. Len(c) : Append(c, msg)[k] = c[k]
      BY <1>5, <3>2, OneMore
    <3>4. DOMAIN c = 1 .. Len(c) /\ Len(c) \in Nat
      BY <3>2
    <3>5. ASSUME NEW k \in DOMAIN chan'[w][MASTER] PROVE chan'[w][MASTER][k] \in Result
      <4>1. k \in 1 .. Len(c) \/ k = Len(c) + 1
        BY <1>6, <3>3, <3>4
      <4>2. CASE k \in 1 .. Len(c)
        BY <1>4, <1>6, <3>3, <3>4, <4>2 DEF WorkerQueue
      <4>3. CASE k = Len(c) + 1
        BY <1>5, <1>6, <3>3, <4>3
      <4>4. QED
        BY <4>1, <4>2, <4>3
    <3>6. mem'[w] = mem[w] /\ mem[w].tag # DoneTag
      BY <1>2, <1>3
    <3>7. pc'[w] \in {1, 2, 3} /\ \E t \in Tasks : mem[w].part = << t >>
      BY <1>3, <1>4, <1>7 DEF WorkerQueue
    <3>8. \A k \in DOMAIN chan[MASTER][w] :
            /\ chan[MASTER][w][k] \in Given
            /\ chan[MASTER][w][k].tag = DoneTag => Told(w) /\ k = Len(chan[MASTER][w])
      BY <1>4 DEF WorkerQueue
    <3>9. QED
      BY <1>8, <1>9, <2>2, <3>1, <3>5, <3>6, <3>7, <3>8 DEF WorkerQueue
  <2>3. QED
    BY <2>1, <2>2
<1>11. Star'
  BY <1>6, <1>9 DEF Star, Queues
<1>12. MasterQueue'
  <2>1. pc'[MASTER] = pc[MASTER] /\ phase'[MASTER] = phase[MASTER]
    BY <1>0, <1>7
  <2>2. QED
    BY <1>2, <1>9, <2>1 DEF MasterQueue, Queues
<1>13. QED
  BY <1>9, <1>10, <1>11, <1>12 DEF Queues

\* A worker that has answered starts again.
LEMMA WorkerReturns ==
    ASSUME TaskInv, TaskJob, Queues, NEW w \in Ranks, Local(w)
    PROVE  Queues'
<1>0. /\ TaskState /\ MASTER \in Ranks
      /\ pc \in [Ranks -> Nat \ {0}] /\ phase \in [Ranks -> {"run", "send"}]
  BY QueueTypes
<1>1. PICK i \in Current(w) :
        \/ i.op = "compute" \/ i.op = "print"
        \/ i.op = "goto" /\ pc' = [pc EXCEPT ![w] = i.to] /\ mem' = mem
  BY DEF Local
<1>2. job' = job /\ phase' = phase /\ chan' = chan
  BY DEF Local
<1>3. w # MASTER
  <2>1. SUFFICES ASSUME w = MASTER PROVE FALSE
    OBVIOUS
  <2>2. i.op = OpAt(job.np, pc[MASTER])
    BY <1>0, <1>1, <2>1, MasterStep DEF TaskState
  <2>3. QED
    BY <1>1, <2>2 DEF OpAt
<1>4. phase[w] = "run" /\ pc[w] = 3 /\ i.op = "goto" /\ i.to = 1
  BY <1>0, <1>1, <1>3, WorkerStep DEF TaskState
<1>5. mem' = mem /\ pc'[w] = 1 /\ \A x \in Ranks \ {w} : pc'[x] = pc[x]
  BY <1>0, <1>1, <1>4
<1>6. LastSent' = LastSent /\ \A x : Told(x)' = Told(x)
  <2>1. LastSent' = LastSent
    BY <1>0, <1>2, <1>3, <1>5 DEF LastSent
  <2>2. QED
    BY <1>2, <2>1 DEF Told
<1>7. /\ Ranks' = Ranks /\ DoneTag' = DoneTag
      /\ Tasks' = Tasks /\ Given' = Given /\ Result' = Result
  BY <1>2, QueueSame
<1>8. ASSUME NEW x \in Ranks \ {MASTER} PROVE WorkerQueue(x)'
  <2>1. WorkerQueue(x)
    BY DEF Queues
  <2>2. CASE x # w
    BY <1>2, <1>5, <1>6, <2>1, <2>2, WorkerUnchanged
  <2>3. CASE x = w
    BY <1>2, <1>4, <1>5, <1>6, <1>7, <2>1, <2>3 DEF WorkerQueue
  <2>4. QED
    BY <2>2, <2>3
<1>9. Star'
  BY <1>2, <1>7 DEF Star, Queues
<1>10. MasterQueue'
  BY <1>0, <1>2, <1>3, <1>5, <1>7 DEF MasterQueue, Queues
<1>11. QED
  BY <1>7, <1>8, <1>9, <1>10 DEF Queues

\* A worker takes the first message of the master: a task, or the last one.
LEMMA WorkerTakes ==
    ASSUME TaskInv, TaskJob, Queues, NEW w \in Ranks \ {MASTER}, Receive(w)
    PROVE  Queues'
<1>0. /\ TaskState /\ TaskTyped /\ TaskNetwork /\ MASTER \in Ranks
      /\ job.np \in Nat \ {0} /\ Ranks \subseteq Nat
      /\ pc \in [Ranks -> Nat \ {0}] /\ phase \in [Ranks -> {"run", "send"}]
      /\ mem \in [Ranks -> Memory] /\ chan \in [Ranks -> [Ranks -> Seq(Message)]]
  BY QueueTypes
<1>i. PICK i \in Current(w), q \in Ranks :
        /\ i.op = "recv" /\ i.from \in {q, AnySource}
        /\ \E k \in Earliest(i, q, w) : Takes(w, q, k) /\ Keeps(w, i.var, q, chan[q][w][k])
  BY ReceiveIs
<1>1. PICK k \in Earliest(i, q, w) : Takes(w, q, k) /\ Keeps(w, i.var, q, chan[q][w][k])
  BY <1>i
<1>2. job' = job
  BY DEF Receive
<1>3. /\ phase[w] = "run" /\ pc[w] = 1 /\ i.var = "part" /\ q = MASTER /\ i.tag = AnyTag
  <2>1. /\ phase[w] = "run" /\ pc[w] = 1 /\ i.var = "part" /\ i.from = MASTER
        /\ i.tag = AnyTag
    BY <1>0, <1>i, WorkerStep DEF TaskState
  <2>2. i.from = q \/ i.from = AnySource
    BY <1>i
  <2>3. MASTER # AnySource
    BY DEF MASTER, AnySource
  <2>4. QED
    BY <2>1, <2>2, <2>3
<1> DEFINE c == chan[MASTER][w]
           msg == c[k]
<1>4. c \in Seq(Message) /\ Len(c) \in Nat /\ DOMAIN c = 1 .. Len(c)
  BY <1>0, SMTT(30)
<1>5. k = 1 /\ k \in 1 .. Len(c)
  <2>1. k \in DOMAIN c /\ \A j \in 1 .. k - 1 : ~Matches(i, c[j])
    BY <1>3 DEF Earliest
  <2>2. \A m : Matches(i, m)
    BY <1>3 DEF Matches
  <2>3. k \in 1 .. Len(c)
    BY <1>4, <2>1
  <2>4. ~(1 \in 1 .. k - 1)
    BY <2>1, <2>2
  <2>5. QED
    BY <1>4, <2>3, <2>4
<1>6. WorkerQueue(w)
  BY DEF Queues
<1>7. msg \in Message /\ msg \in Given /\ (msg.tag = DoneTag => Told(w) /\ k = Len(c))
  <2>1. k \in DOMAIN c
    BY <1>4, <1>5
  <2>2. \A j \in DOMAIN c : c[j] \in Given /\ (c[j].tag = DoneTag => Told(w) /\ j = Len(c))
    BY <1>6 DEF WorkerQueue
  <2>3. c[k] \in Message
    BY <1>4, <1>5
  <2> HIDE DEF c
  <2>4. QED
    BY <2>1, <2>2, <2>3
<1>8. mem[w].tag # DoneTag
  BY <1>4, <1>5, <1>6 DEF WorkerQueue
<1>9. /\ mem' \in [Ranks -> Memory]
      /\ mem'[w].part = msg.val /\ mem'[w].tag = msg.tag
      /\ \A x \in Ranks \ {w} : mem'[x] = mem[x]
  <2>1. mem' = [mem EXCEPT ![w] = [@ EXCEPT !.part = msg.val, !.src = q, !.tag = msg.tag]]
    BY <1>0, <1>1, <1>3 DEF Keeps
  <2>2. msg.val \in Seq(Nat) /\ msg.tag \in Int /\ q \in Int
    BY <1>0, <1>7 DEF Message, Payload
  <2>3. [mem[w] EXCEPT !.part = msg.val, !.src = q, !.tag = msg.tag] \in Memory
    BY <1>0, <2>2, ZenonT(60) DEF Memory
  <2>4. QED
    BY <1>0, <2>1, <2>3 DEF Memory
<1>10. msg.sync => phase[MASTER] = "send"
  <2>1. Takes(w, MASTER, k) /\ mem' \in [Ranks -> Memory]
    BY <1>1, <1>3, <1>9
  <2>2. chan[MASTER][w][k].sync => phase[MASTER] = "send"
    BY <1>0, <1>2, <1>3, <2>1, Receiving
  <2>3. QED
    BY <2>2
<1>11. /\ chan'[MASTER][w] = RemoveAt(c, k)
       /\ \A p, r \in Ranks : ~(p = MASTER /\ r = w) => chan'[p][r] = chan[p][r]
  BY <1>0, <1>1, <1>3 DEF Takes
<1>12. /\ pc'[w] = 2 /\ phase'[w] = "run"
       /\ \A x \in Ranks \ {w, MASTER} : pc'[x] = pc[x] /\ phase'[x] = phase[x]
       /\ \/ /\ phase[MASTER] = "send"
             /\ pc'[MASTER] = pc[MASTER] + 1 /\ phase'[MASTER] = "run"
          \/ pc'[MASTER] = pc[MASTER] /\ phase'[MASTER] = phase[MASTER]
  <2>1. CASE msg.sync
    <3>1. /\ pc' = [pc EXCEPT ![w] = @ + 1, ![MASTER] = @ + 1]
          /\ phase' = [phase EXCEPT ![MASTER] = "run"]
      BY <1>1, <1>3, <2>1 DEF Takes
    <3>2. QED
      BY <1>0, <1>3, <1>10, <2>1, <3>1
  <2>2. CASE ~msg.sync
    <3>1. pc' = [pc EXCEPT ![w] = @ + 1] /\ phase' = phase
      BY <1>1, <1>3, <2>2 DEF Takes
    <3>2. QED
      BY <1>0, <1>3, <3>1
  <2>3. QED
    BY <2>1, <2>2
<1> HIDE DEF msg
<1>13. LastSent' = LastSent /\ \A x : Told(x)' = Told(x)
  <2>1. pc[MASTER] \in Nat
    BY <1>0
  <2>2. LastSent' = LastSent
    BY <1>12, <2>1 DEF LastSent
  <2>3. QED
    BY <1>2, <2>2 DEF Told
<1>14. /\ Ranks' = Ranks /\ DoneTag' = DoneTag
       /\ Tasks' = Tasks /\ Given' = Given /\ Result' = Result
  BY <1>2, QueueSame
<1>15. ASSUME NEW x \in Ranks \ {MASTER} PROVE WorkerQueue(x)'
  <2>1. CASE x # w
    <3>1. chan'[MASTER][x] = chan[MASTER][x] /\ chan'[x][MASTER] = chan[x][MASTER]
      BY <1>0, <1>11, <2>1
    <3>2. WorkerQueue(x)
      BY DEF Queues
    <3>3. QED
      BY <1>2, <1>9, <1>12, <1>13, <2>1, <3>1, <3>2, WorkerUnchanged
  <2>2. CASE x = w
    <3>1. chan'[w][MASTER] = chan[w][MASTER]
      BY <1>0, <1>11
    <3>2. /\ RemoveAt(c, k) \in Seq(Message)
          /\ DOMAIN RemoveAt(c, k) = 1 .. Len(c) - 1
          /\ \A j \in 1 .. Len(c) - 1 : RemoveAt(c, k)[j] = c[Prior(j, k)]
      BY <1>4, <1>5, Removal
    <3>3. Len(RemoveAt(c, k)) = Len(c) - 1
      BY <1>4, <1>5, <3>2
    <3>4. ASSUME NEW j \in DOMAIN chan'[MASTER][w]
          PROVE  /\ chan'[MASTER][w][j] \in Given
                 /\ chan'[MASTER][w][j].tag = DoneTag => Told(w) /\ j = Len(chan'[MASTER][w])
      <4>1. j \in 1 .. Len(c) - 1 /\ j + 1 \in DOMAIN c
        BY <1>4, <1>11, <3>2
      <4>2. chan'[MASTER][w][j] = c[j + 1]
        BY <1>5, <1>11, <3>2, <4>1, SMTT(30) DEF Prior
      <4>3. c[j + 1] \in Given /\ (c[j + 1].tag = DoneTag => Told(w) /\ j + 1 = Len(c))
        BY <1>6, <4>1 DEF WorkerQueue
      <4>4. j + 1 = Len(c) => j = Len(chan'[MASTER][w])
        BY <1>4, <1>11, <3>3, <4>1
      <4>5. QED
        BY <4>2, <4>3, <4>4
    <3>5. msg.tag = DoneTag => Told(w) /\ chan'[MASTER][w] = <<>>
      <4>1. SUFFICES ASSUME msg.tag = DoneTag PROVE chan'[MASTER][w] = <<>>
        BY <1>7
      <4>2. Len(c) = 1
        BY <1>5, <1>7, <4>1
      <4>3. QED
        BY <1>11, <3>2, <3>3, <4>2
    <3>6. msg.tag # DoneTag => \E t \in Tasks : msg.val = << t >>
      BY <1>7 DEF Given
    <3>7. \A j \in DOMAIN chan[w][MASTER] : chan[w][MASTER][j] \in Result
      BY <1>6 DEF WorkerQueue
    <3>8. QED
      BY <1>9, <1>12, <1>13, <1>14, <2>2, <3>1, <3>4, <3>5, <3>6, <3>7 DEF WorkerQueue
  <2>3. QED
    BY <2>1, <2>2
<1>16. Star'
  BY <1>11, <1>14 DEF Star, Queues
<1>17. MasterQueue'
  <2>1. mem'[MASTER] = mem[MASTER]
    BY <1>0, <1>9
  <2>2. CASE pc'[MASTER] = pc[MASTER] /\ phase'[MASTER] = phase[MASTER]
    BY <1>2, <1>14, <2>1, <2>2 DEF MasterQueue, Queues
  <2>3. CASE /\ phase[MASTER] = "send"
             /\ pc'[MASTER] = pc[MASTER] + 1 /\ phase'[MASTER] = "run"
    <3>1. OpAt(job.np, pc[MASTER]) = "send" /\ pc[MASTER] \in 1 .. 9 * (job.np - 1)
      <4>1. pc[MASTER] \in Nat \ {0} /\ pc[MASTER] <= 9 * (job.np - 1)
        BY <1>0, <2>3, QueueTypes DEF TaskControl
      <4>2. QED
        BY <1>0, <2>3, <4>1 DEF MasterQueue, Queues
    <3>2. Answers(job.np, pc[MASTER] + 1) = Answers(job.np, pc[MASTER])
      BY <1>0, <3>1, AnswersCount
    <3>3. QED
      BY <1>2, <1>14, <2>1, <2>3, <3>2 DEF MasterQueue, Queues
  <2>4. QED
    BY <1>12, <2>2, <2>3
<1>18. QED
  BY <1>14, <1>15, <1>16, <1>17 DEF Queues

\* The master takes an answer, from whichever worker.
LEMMA MasterTakes ==
    ASSUME TaskInv, TaskJob, Queues, Receive(MASTER)
    PROVE  Queues'
<1> DEFINE n == job.np
           at == pc[MASTER]
           out == mem[MASTER].out
<1>0. /\ TaskState /\ TaskTyped /\ TaskNetwork /\ MASTER \in Ranks
      /\ n \in Nat \ {0} /\ Ranks \subseteq Nat
      /\ pc \in [Ranks -> Nat \ {0}] /\ phase \in [Ranks -> {"run", "send"}]
      /\ mem \in [Ranks -> Memory] /\ chan \in [Ranks -> [Ranks -> Seq(Message)]]
      /\ \A w \in Ranks \ {MASTER} : w \in Nat \ {0}
  BY QueueTypes
<1>i. PICK i \in Current(MASTER), q \in Ranks :
        /\ i.op = "recv" /\ i.from \in {q, AnySource}
        /\ \E k \in Earliest(i, q, MASTER) :
             Takes(MASTER, q, k) /\ Keeps(MASTER, i.var, q, chan[q][MASTER][k])
  BY <1>0, ReceiveIs
<1>1. PICK k : Takes(MASTER, q, k) /\ Keeps(MASTER, i.var, q, chan[q][MASTER][k])
  BY <1>i
<1>2. job' = job
  BY DEF Receive
<1>3. /\ phase[MASTER] = "run" /\ at \in 1 .. 9 * (n - 1)
      /\ OpAt(n, at) = "recv" /\ i.var = "out"
  BY <1>0, <1>i, MasterStep DEF TaskState
<1> DEFINE c == chan[q][MASTER]
           msg == c[k]
<1>4. c \in Seq(Message) /\ Len(c) \in Nat /\ DOMAIN c = 1 .. Len(c) /\ k \in DOMAIN c
  <2>1. k \in DOMAIN c
    BY <1>1 DEF Takes
  <2>2. QED
    BY <1>0, <2>1
<1>5. q # MASTER
  BY <1>0, <1>4 DEF Queues, Star
<1>6. WorkerQueue(q)
  BY <1>5 DEF Queues
<1>7. msg \in Message /\ \E t \in Tasks : msg.val = << t >>
  <2>1. \A j \in DOMAIN c : c[j] \in Result
    BY <1>6 DEF WorkerQueue
  <2>2. msg \in Result
    BY <1>4, <2>1
  <2>3. QED
    BY <2>2 DEF Result
<1>8. PICK t \in Tasks : msg.val = << t >>
  BY <1>7
<1>9. out \in Seq(Tasks) /\ Len(out) = Answers(n, at)
  BY DEF Queues, MasterQueue
<1>10. Tasks \subseteq Nat
  BY DEF Tasks
<1>11. /\ mem' \in [Ranks -> Memory]
       /\ mem'[MASTER].out = out \o << t >> /\ mem'[MASTER].src = q
       /\ \A x \in Ranks \ {MASTER} : mem'[x] = mem[x]
  <2>1. mem' = [mem EXCEPT ![MASTER] = [@ EXCEPT !.out = out \o << t >>, !.src = q, !.tag = msg.tag]]
    BY <1>0, <1>1, <1>3, <1>8 DEF Keeps
  <2>2. out \o << t >> \in Seq(Nat)
    <3>1. out \in Seq(Nat) /\ t \in Nat
      BY <1>0, <1>10 DEF Memory
    <3>2. \A s \in Seq(Nat), x \in Nat : s \o << x >> \in Seq(Nat)
      OBVIOUS
    <3> HIDE DEF out
    <3>3. QED
      BY <3>1, <3>2
  <2>3. msg.tag \in Int /\ q \in Int
    BY <1>0, <1>7 DEF Message
  <2> HIDE DEF out, msg
  <2>4. /\ [mem[MASTER] EXCEPT !.out = out \o << t >>, !.src = q, !.tag = msg.tag] \in Memory
        /\ [mem[MASTER] EXCEPT !.out = out \o << t >>, !.src = q, !.tag = msg.tag].out = out \o << t >>
        /\ [mem[MASTER] EXCEPT !.out = out \o << t >>, !.src = q, !.tag = msg.tag].src = q
    BY <1>0, <2>2, <2>3 DEF Memory
  <2>5. QED
    BY <1>0, <2>1, <2>4
<1>12. msg.sync => phase[q] = "send"
  <2>1. chan[q][MASTER][k].sync => phase[q] = "send"
    BY <1>0, <1>1, <1>2, <1>3, <1>11, Receiving
  <2>2. QED
    BY <2>1
<1>13. /\ chan'[q][MASTER] = RemoveAt(c, k)
       /\ \A p, r \in Ranks : ~(p = q /\ r = MASTER) => chan'[p][r] = chan[p][r]
  BY <1>0, <1>1 DEF Takes
<1>14. /\ pc'[MASTER] = at + 1 /\ phase'[MASTER] = "run"
       /\ \A x \in Ranks \ {q, MASTER} : pc'[x] = pc[x] /\ phase'[x] = phase[x]
       /\ \/ phase[q] = "send" /\ pc'[q] = pc[q] + 1 /\ phase'[q] = "run"
          \/ pc'[q] = pc[q] /\ phase'[q] = phase[q]
  <2>1. CASE msg.sync
    <3>1. /\ pc' = [pc EXCEPT ![MASTER] = @ + 1, ![q] = @ + 1]
          /\ phase' = [phase EXCEPT ![q] = "run"]
      BY <1>1, <2>1 DEF Takes
    <3>2. QED
      BY <1>0, <1>3, <1>5, <1>12, <2>1, <3>1
  <2>2. CASE ~msg.sync
    <3>1. pc' = [pc EXCEPT ![MASTER] = @ + 1] /\ phase' = phase
      BY <1>1, <2>2 DEF Takes
    <3>2. QED
      BY <1>0, <1>3, <1>5, <3>1
  <2>3. QED
    BY <2>1, <2>2
<1> HIDE DEF msg, at, out
<1>15. at <= 8 * (n - 1) /\ Answers(n, at + 1) = Answers(n, at) + 1
  BY <1>0, <1>3, AnswersCount
<1>16. \A w \in Ranks \ {MASTER} : ~Told(w)
  <2>1. LastSent = at - 1 /\ at \in Int
    BY <1>3 DEF LastSent, at
  <2>2. ASSUME NEW w \in Ranks \ {MASTER} PROVE ~(at - 1 >= 8 * (n - 1) + w)
    <3>1. w \in Nat \ {0}
      BY <1>0
    <3>2. PICK a, b : a \in Int /\ b \in Nat /\ a = at /\ b = n - 1
      BY <1>0, <2>1, SMTT(40)
    <3>3. a <= 8 * b
      BY <1>15, <3>2
    <3>4. ~(a - 1 >= 8 * b + w)
      BY <3>1, <3>2, <3>3
    <3>5. QED
      BY <3>2, <3>4
  <2>3. QED
    BY <2>1, <2>2 DEF Told
<1>17. /\ Ranks' = Ranks /\ DoneTag' = DoneTag
       /\ Tasks' = Tasks /\ Given' = Given /\ Result' = Result
  BY <1>2, QueueSame
<1>18. ASSUME NEW x \in Ranks \ {MASTER} PROVE WorkerQueue(x)'
  <2>1. WorkerQueue(x) /\ ~Told(x)
    BY <1>16 DEF Queues
  <2>2. chan'[MASTER][x] = chan[MASTER][x] /\ mem'[x] = mem[x]
    BY <1>0, <1>5, <1>11, <1>13
  <2>3. CASE x # q
    <3>1. chan'[x][MASTER] = chan[x][MASTER]
      BY <1>0, <1>13, <2>3
    <3>2. QED
      BY <1>2, <1>14, <2>1, <2>2, <2>3, <3>1, WorkerUnchanged
  <2>4. CASE x = q
    <3>1. /\ DOMAIN RemoveAt(c, k) = 1 .. Len(c) - 1
          /\ \A j \in 1 .. Len(c) - 1 : RemoveAt(c, k)[j] = c[Prior(j, k)] /\ Prior(j, k) \in DOMAIN c
      BY <1>4, Removal, RemovalIndices
    <3>2. \A j \in DOMAIN c : c[j] \in Result
      BY <1>6 DEF WorkerQueue
    <3>3. \A j \in DOMAIN chan'[q][MASTER] : chan'[q][MASTER][j] \in Result
      BY <1>13, <3>1, <3>2
    <3>4. mem[q].tag # DoneTag
      BY <1>6, <2>1, <2>4 DEF WorkerQueue
    <3>5. pc'[q] \in {1, 2, 3} /\ (pc'[q] = 2 => pc[q] = 2)
      <4>1. CASE phase[q] = "send" /\ pc'[q] = pc[q] + 1
        <5>1. pc[q] = 2
          BY <1>5, <4>1, QueueTypes DEF TaskControl
        <5>2. QED
          BY <4>1, <5>1
      <4>2. CASE pc'[q] = pc[q]
        BY <1>6, <4>2 DEF WorkerQueue
      <4>3. QED
        BY <1>14, <4>1, <4>2
    <3>6. \A j \in DOMAIN chan[MASTER][q] :
            chan[MASTER][q][j] \in Given /\ chan[MASTER][q][j].tag # DoneTag
      BY <1>6, <2>1, <2>4 DEF WorkerQueue
    <3>7. pc'[q] = 2 => \E u \in Tasks : mem[q].part = << u >>
      BY <1>6, <3>4, <3>5 DEF WorkerQueue
    <3>8. QED
      BY <1>17, <2>2, <2>4, <3>3, <3>4, <3>5, <3>6, <3>7 DEF WorkerQueue
  <2>5. QED
    BY <2>3, <2>4
<1>19. Star'
  BY <1>5, <1>13, <1>17 DEF Star, Queues
<1>20. MasterQueue'
  <2>1. out \o << t >> \in Seq(Tasks) /\ Len(out \o << t >>) = Len(out) + 1
    BY <1>9
  <2>2. Len(out \o << t >>) = Answers(n, at + 1)
    BY <1>9, <1>15, <2>1
  <2>3. QED
    BY <1>2, <1>5, <1>11, <1>14, <1>17, <2>1, <2>2 DEF MasterQueue
<1>21. QED
  BY <1>17, <1>18, <1>19, <1>20 DEF Queues

\* The job that runs does not change.
LEMMA JobFixed == [Next]_vars => job' = job
<1>1. ASSUME NEW p \in Ranks,
             Local(p) \/ AbortJob(p) \/ SendMessage(p) \/ Receive(p)
             \/ EnterCollective(p) \/ LeaveCollective(p)
      PROVE  job' = job
  <2>1. Local(p) => job' = job
    BY DEF Local
  <2>2. AbortJob(p) => job' = job
    BY DEF AbortJob
  <2>3. SendMessage(p) => job' = job
    BY DEF SendMessage
  <2>4. Receive(p) => job' = job
    BY DEF Receive
  <2>5. EnterCollective(p) => job' = job
    BY DEF EnterCollective
  <2>6. LeaveCollective(p) => job' = job
    BY DEF LeaveCollective
  <2>7. QED
    BY <1>1, <2>1, <2>2, <2>3, <2>4, <2>5, <2>6
<1>2. QED
  BY <1>1 DEF Next, vars

\* So every step keeps the channels.
LEMMA QueueSteps == QueueInv /\ [Next]_vars => QueueInv'
<1> SUFFICES ASSUME QueueInv, [Next]_vars PROVE QueueInv'
  OBVIOUS
<1>1. TaskInv /\ TaskInv' /\ job' = job /\ (TaskJob' <=> TaskJob)
  <2>1. job' = job
    BY JobFixed
  <2>2. QED
    BY <2>1, TaskSteps, QueueSame DEF QueueInv
<1>2. SUFFICES ASSUME TaskJob PROVE Queues'
  BY <1>1 DEF QueueInv
<1>3. Queues
  BY <1>2 DEF QueueInv
<1>4. ASSUME UNCHANGED << pc, phase, mem, chan >> PROVE Queues'
  <2>1. LastSent' = LastSent /\ \A w : Told(w)' = Told(w)
    BY <1>1, <1>4 DEF LastSent, Told
  <2>2. QED
    BY <1>1, <1>3, <1>4, <2>1, QueueSame DEF Queues, Star, MasterQueue, WorkerQueue
<1>5. ASSUME NEW p \in Ranks,
             \/ Local(p)           \/ AbortJob(p)
             \/ SendMessage(p)     \/ Receive(p)
             \/ EnterCollective(p) \/ LeaveCollective(p)
      PROVE  Queues'
  <2>1. CASE Local(p)
    BY <1>1, <1>2, <1>3, <2>1, WorkerReturns
  <2>2. CASE AbortJob(p)
    BY <1>4, <2>2 DEF AbortJob
  <2>3. CASE SendMessage(p)
    BY <1>1, <1>2, <1>3, <2>3, MasterGives, WorkerAnswers
  <2>4. CASE Receive(p)
    BY <1>1, <1>2, <1>3, <2>4, MasterTakes, WorkerTakes
  <2>5. ~EnterCollective(p) /\ ~LeaveCollective(p)
    BY <1>1, <1>2, QueueTypes, NoCollectives DEF TaskState
  <2>6. QED
    BY <1>5, <2>1, <2>2, <2>3, <2>4, <2>5
<1>6. QED
  BY <1>4, <1>5 DEF Next, vars

\* At the end the master has as many answers as there are tasks, no task twice:
\* it has them all, so none is left in a message.
LEMMA AllCollected ==
    ASSUME QueueInv, TaskJob, AllDone
    PROVE  TasksGoal /\ \A t \in Tasks : Carrying(t) = {}
<1> DEFINE n == job.np
           N == NumTasks(n)
           out == mem[MASTER].out
<1>0. /\ TaskState /\ TaskControl /\ TaskPlaces /\ MASTER \in Ranks /\ n \in Nat \ {0}
      /\ pc \in [Ranks -> Nat \ {0}] /\ N \in Nat
  BY QueueTypes DEF QueueInv, NumTasks
<1>1. pc[MASTER] = 9 * (n - 1) + 1
  <2>1. Len(Code(MASTER)) = 9 * (n - 1)
    BY <1>0, TaskCode, HandOutShape DEF TaskState
  <2>2. pc[MASTER] > Len(Code(MASTER)) /\ pc[MASTER] <= 9 * (n - 1) + 1
    BY <1>0 DEF AllDone, Done, TaskControl
  <2>3. QED
    BY <1>0, <2>1, <2>2
<1>2. out \in [1 .. N -> Tasks] /\ Len(out) = N
  <2>1. out \in Seq(Tasks) /\ Len(out) = N
    BY <1>0, <1>1, AnswersAll DEF QueueInv, Queues, MasterQueue
  <2>2. QED
    BY <2>1
<1>3. \A t \in Tasks : Collected(t) = {} \/ (Singleton(Collected(t)) /\ Carrying(t) = {})
  BY <1>0 DEF TaskPlaces, OnePlace, NoPlace, Tasks
<1>4. ASSUME NEW j \in 1 .. N, NEW k \in 1 .. N, out[j] = out[k] PROVE j = k
  <2>1. out[j] \in Tasks /\ j \in Collected(out[j]) /\ k \in Collected(out[j])
    BY <1>2, <1>4 DEF Collected
  <2>2. Singleton(Collected(out[j]))
    BY <1>3, <2>1
  <2>3. QED
    BY <2>1, <2>2 DEF Singleton
<1> HIDE DEF out
<1>5. out \in Surjection(1 .. N, Tasks)
  <2>1. out \in Injection(1 .. N, Tasks)
    BY <1>2, <1>4, Zenon DEF Injection, IsInjective
  <2>2. Tasks = 1 .. N /\ IsFiniteSet(1 .. N) /\ Cardinality(1 .. N) = N
    BY <1>0, FS_Interval DEF Tasks
  <2>3. QED
    BY <2>1, <2>2, FS_Injection
<1>6. \A t \in Tasks : \E k \in 1 .. N : out[k] = t
  BY <1>5 DEF Surjection
<1>7. ASSUME NEW t \in Tasks PROVE Carrying(t) = {}
  <2>1. Collected(t) # {}
    BY <1>2, <1>6 DEF Collected, out
  <2>2. QED
    BY <1>3, <2>1
<1>8. TasksGoal
  <2>1. DOMAIN out = 1 .. N
    BY <1>2
  <2>2. { out[k] : k \in DOMAIN out } = Tasks
    BY <1>2, <1>6, <2>1
  <2>3. QED
    BY <1>2, <2>2 DEF TasksGoal, Tasks, out
<1>9. QED
  BY <1>7, <1>8

\* And nothing else is.
LEMMA NothingLeft ==
    ASSUME QueueInv, TaskJob, AllDone
    PROVE  \A p, q \in Ranks : chan[p][q] = <<>>
<1>0. /\ TaskState /\ TaskTyped /\ Queues /\ MASTER \in Ranks
      /\ chan \in [Ranks -> [Ranks -> Seq(Message)]]
      /\ pc \in [Ranks -> Nat \ {0}]
  BY QueueTypes DEF QueueInv
<1>1. ASSUME NEW w \in Ranks \ {MASTER} PROVE chan[MASTER][w] = <<>>
  <2>1. WorkerQueue(w)
    BY <1>0 DEF Queues
  <2>2. pc[w] > Len(Code(w))
    BY DEF AllDone, Done
  <2>3. mem[w].tag = DoneTag
    <3>1. SUFFICES ASSUME mem[w].tag # DoneTag PROVE FALSE
      OBVIOUS
    <3>2. Len(Code(w)) = 3
      BY <1>0, <3>1, WorkerLength DEF TaskState
    <3>3. pc[w] \in {1, 2, 3}
      BY <2>1 DEF WorkerQueue
    <3>4. QED
      BY <2>2, <3>2, <3>3
  <2>4. QED
    BY <2>1, <2>3 DEF WorkerQueue
<1>2. ASSUME NEW w \in Ranks \ {MASTER} PROVE chan[w][MASTER] = <<>>
  <2>1. chan[w][MASTER] \in Seq(Message)
    BY <1>0
  <2>2. ASSUME NEW k \in DOMAIN chan[w][MASTER] PROVE FALSE
    <3>1. chan[w][MASTER][k] \in Result
      BY <1>0 DEF Queues, WorkerQueue
    <3>2. PICK t \in Tasks : chan[w][MASTER][k].val = << t >>
      BY <3>1 DEF Result
    <3>3. chan[w][MASTER][k] \in With(t)[w]
      BY <3>1, <3>2 DEF With, Result
    <3>4. Chosen(chan, Ranks, With(t)) # {}
      <4>1. << w, MASTER, k >> \in Chosen(chan, Ranks, With(t))
              <=> k \in DOMAIN chan[w][MASTER] /\ chan[w][MASTER][k] \in With(t)[w]
        BY <1>0, ChosenAre
      <4>2. QED
        BY <3>3, <4>1
    <3>5. Carrying(t) # {}
      BY <1>0, <3>4, CarryingKnown DEF CarryingChosen
    <3>6. QED
      BY <3>5, AllCollected
  <2>3. 1 \notin DOMAIN chan[w][MASTER]
    BY <2>2
  <2>4. Len(chan[w][MASTER]) = 0
    BY <2>1, <2>3
  <2>5. QED
    BY <2>1, <2>4
<1>3. QED
  BY <1>0, <1>1, <1>2 DEF Queues, Star

\* When the processes of the task queue are done, in every language and with any
\* number of processes, the master has collected the result of every task, none
\* of them twice, and no message is left behind: every worker has taken the one
\* that told it to stop (handOutTasks and performWork in
\* MPI/25.taskQueue/taskQueue.c, and the Java and Python versions).
THEOREM TaskQueueOutcome == Spec => [](Is({"taskQueue"}) => Outcome)
<1>1. QueueInv => (Is({"taskQueue"}) => Outcome)
  <2>1. SUFFICES ASSUME QueueInv, TaskJob, AllDone PROVE Outcome
    BY DEF Outcome, Is, TaskJob
  <2>2. TasksGoal /\ \A p, q \in Ranks : chan[p][q] = <<>>
    BY <2>1, AllCollected, NothingLeft
  <2>3. QED
    BY <2>1, <2>2 DEF Outcome, Is, TaskJob
<1>2. QED
  BY <1>1, QueueStarts, QueueSteps, PTL DEF Spec
-----------------------------------------------------------------------------
(* What the loops compute.                                                 *)

\* Ascending gives every element of a finite set of numbers once.
LEMMA AscendingOnce ==
    ASSUME NEW S \in SUBSET Nat, IsFiniteSet(S)
    PROVE  /\ Cardinality(S) \in Nat
           /\ Ascending(S) \in [1 .. Cardinality(S) -> S]
           /\ \A i \in S : \E k \in 1 .. Cardinality(S) :
                 /\ Ascending(S)[k] = i
                 /\ \A l \in 1 .. Cardinality(S) : Ascending(S)[l] = i => l = k
<1> DEFINE Before(i) == { j \in S : j < i }
           n == Cardinality(S)
           r == [i \in S |-> Cardinality(Before(i)) + 1]
<1>1. n \in Nat
  BY FS_CardinalityType
<1>2. ASSUME NEW i \in S
      PROVE  IsFiniteSet(Before(i)) /\ Cardinality(Before(i)) \in Nat /\ Cardinality(Before(i)) + 1 <= n
  <2>1. Before(i) \in SUBSET (S \ {i}) /\ Before(i) \in SUBSET S
    OBVIOUS
  <2>2. IsFiniteSet(S \ {i}) /\ Cardinality(S \ {i}) = n - 1
    BY FS_RemoveElement
  <2>3. IsFiniteSet(Before(i)) /\ Cardinality(Before(i)) <= n - 1
    BY <2>1, <2>2, FS_Subset
  <2>4. Cardinality(Before(i)) \in Nat
    BY <2>3, FS_CardinalityType
  <2>5. QED
    BY <1>1, <2>3, <2>4
<1>3. ASSUME NEW i \in S, NEW j \in S, i < j
      PROVE  Cardinality(Before(i)) < Cardinality(Before(j))
  <2>1. Before(i) \in SUBSET (Before(j) \ {i}) /\ i \in Before(j)
    <3>1. i \in Nat /\ j \in Nat
      OBVIOUS
    <3>2. \A x \in Before(i) : x \in S /\ x < j /\ x # i
      BY <1>3, <3>1
    <3>3. QED
      BY <1>3, <3>2
  <2>2. /\ IsFiniteSet(Before(j) \ {i})
        /\ Cardinality(Before(j) \ {i}) = Cardinality(Before(j)) - 1
    BY <1>2, <2>1, FS_RemoveElement
  <2>3. Cardinality(Before(i)) <= Cardinality(Before(j)) - 1
    BY <2>1, <2>2, FS_Subset
  <2>4. QED
    BY <1>2, <2>3
<1>4. ASSUME NEW i \in S, NEW j \in S, Cardinality(Before(i)) = Cardinality(Before(j))
      PROVE  i = j
  <2>1. Cardinality(Before(i)) \in Nat /\ Cardinality(Before(j)) \in Nat
    BY <1>2
  <2>2. ~(i < j) /\ ~(j < i)
    <3> HIDE DEF Before
    <3>1. QED
      BY <1>3, <1>4, <2>1
  <2>3. QED
    BY <2>2
<1>5. r \in Surjection(S, 1 .. n)
  <2>1. \A i \in S : Cardinality(Before(i)) + 1 \in 1 .. n
    BY <1>1, <1>2
  <2>2. r \in [S -> 1 .. n] /\ \A i \in S : r[i] = Cardinality(Before(i)) + 1
    BY <2>1
  <2>3. \A i, j \in S : r[i] = r[j] => i = j
    <3> HIDE DEF r, Before
    <3>1. QED
      BY <1>2, <1>4, <2>2
  <2>4. r \in Injection(S, 1 .. n)
    BY <2>2, <2>3, Zenon DEF Injection, IsInjective
  <2>5. IsFiniteSet(1 .. n) /\ Cardinality(1 .. n) = n
    BY <1>1, FS_Interval
  <2>6. QED
    BY <2>4, <2>5, FS_Injection
<1>6. ASSUME NEW k \in 1 .. n
      PROVE  /\ Ascending(S)[k] \in S /\ Cardinality(Before(Ascending(S)[k])) = k - 1
  <2>1. PICK i \in S : r[i] = k
    BY <1>5 DEF Surjection
  <2>2. Cardinality(Before(i)) = k - 1
    <3>1. k = Cardinality(Before(i)) + 1 /\ Cardinality(Before(i)) \in Nat
      BY <1>2, <2>1
    <3> HIDE DEF Before
    <3>2. QED
      BY <3>1
  <2>3. Ascending(S)[k] = CHOOSE j \in S : Cardinality(Before(j)) = k - 1
    BY DEF Ascending
  <2>4. QED
    <3> HIDE DEF Before
    <3>1. QED
      BY <2>2, <2>3
<1>7. Ascending(S) \in [1 .. n -> S]
  <2> DEFINE least(k) == CHOOSE j \in S : Cardinality(Before(j)) = k - 1
  <2>1. Ascending(S) = [k \in 1 .. n |-> least(k)]
    BY DEF Ascending
  <2>2. \A k \in 1 .. n : Ascending(S)[k] = least(k)
    BY <2>1
  <2>3. \A k \in 1 .. n : least(k) \in S
    BY <1>6, <2>2
  <2> HIDE DEF least, n
  <2>4. QED
    BY <2>1, <2>3
<1>8. ASSUME NEW i \in S
      PROVE  \E k \in 1 .. n : /\ Ascending(S)[k] = i
                               /\ \A l \in 1 .. n : Ascending(S)[l] = i => l = k
  <2>1. PICK k \in 1 .. n : k = Cardinality(Before(i)) + 1
    BY <1>1, <1>2
  <2>2. Cardinality(Before(i)) = k - 1
    BY <1>2, <2>1
  <2>3. Ascending(S)[k] = i
    <3>1. Ascending(S)[k] \in S /\ Cardinality(Before(Ascending(S)[k])) = Cardinality(Before(i))
      BY <1>6, <2>2
    <3>2. QED
      BY <1>4, <3>1
  <2>4. ASSUME NEW l \in 1 .. n, Ascending(S)[l] = i PROVE l = k
    <3>1. l - 1 = k - 1
      BY <1>6, <2>2, <2>4
    <3>2. QED
      BY <3>1
  <2>5. QED
    BY <2>3, <2>4
<1>9. QED
  BY <1>1, <1>7, <1>8

\* The programs that divide the iterations of a loop.
LoopProgs == {"equalChunks", "slices", "chunks", "chunks2"}
LoopJob == job \in Jobs /\ job.prog \in LoopProgs

\* What a job's process is to do of the loop, and whether the program refuses
\* the number of processes.
Share(j, p) == CASE j.prog = "equalChunks" -> EqualChunk(p, j.np, REPS)
                 [] j.prog = "slices" -> Slice(p, j.np, REPS)
                 [] OTHER -> Chunk(p, j.np, REPS)
Refuses(j) == IF j.prog = "equalChunks" THEN ~Divides(j.np, REPS) ELSE j.np > REPS

\* The shares are a partition of the iterations, or there are none.
LEMMA SharesPartition ==
    ASSUME NEW j \in Jobs, j.prog \in LoopProgs, ~Refuses(j)
    PROVE  /\ \A p \in 0 .. j.np - 1 : Share(j, p) \subseteq 0 .. REPS - 1
           /\ \A i \in 0 .. REPS - 1 : \E p \in 0 .. j.np - 1 : i \in Share(j, p)
           /\ \A p, q \in 0 .. j.np - 1 : p # q => Share(j, p) \cap Share(j, q) = {}
<1>1. j.np \in Nat \ {0} /\ REPS \in Nat
  BY JobsAssumption DEF REPS
<1>2. CASE j.prog = "slices"
  <2>1. \A p : Share(j, p) = Slice(p, j.np, REPS)
    BY <1>2 DEF Share
  <2>2. \A p : Slice(p, j.np, REPS) \subseteq 0 .. REPS - 1
    BY DEF Slice
  <2>3. /\ \A i \in 0 .. REPS - 1 : \E p \in 0 .. j.np - 1 : i \in Slice(p, j.np, REPS)
        /\ \A p, q \in 0 .. j.np - 1 :
              p # q => Slice(p, j.np, REPS) \cap Slice(q, j.np, REPS) = {}
    BY <1>1, SlicesPartition
  <2>4. QED
    <3>1. /\ \A p \in 0 .. j.np - 1 : Share(j, p) \subseteq 0 .. REPS - 1
          /\ \A i \in 0 .. REPS - 1 : \E p \in 0 .. j.np - 1 : i \in Share(j, p)
      BY <2>1, <2>2, <2>3
    <3>2. ASSUME NEW p \in 0 .. j.np - 1, NEW q \in 0 .. j.np - 1, p # q
          PROVE  Share(j, p) \cap Share(j, q) = {}
      <4>1. Slice(p, j.np, REPS) \cap Slice(q, j.np, REPS) = {}
        BY <2>3, <3>2
      <4>2. QED
        BY <2>1, <4>1
    <3>3. QED
      BY <3>1, <3>2
<1>3. CASE j.prog # "slices"
  <2>1. ASSUME NEW p PROVE Share(j, p) = Chunk(p, j.np, REPS)
    <3>1. CASE j.prog = "equalChunks"
      <4>1. REPS % j.np = 0
        BY <3>1 DEF Refuses, Divides
      <4>2. EqualChunk(p, j.np, REPS) = Chunk(p, j.np, REPS)
        BY <4>1 DEF EqualChunk, Chunk, ChunkStart, ChunkSize, CeilDiv
      <4>3. QED
        BY <3>1, <4>2 DEF Share
    <3>2. CASE j.prog # "equalChunks"
      BY <1>3, <3>2 DEF Share
    <3>3. QED
      BY <3>1, <3>2
  <2>2. /\ \A p \in 0 .. j.np - 1 : Chunk(p, j.np, REPS) \subseteq 0 .. REPS - 1
        /\ \A i \in 0 .. REPS - 1 : \E p \in 0 .. j.np - 1 : i \in Chunk(p, j.np, REPS)
        /\ \A p, q \in 0 .. j.np - 1 :
              p # q => Chunk(p, j.np, REPS) \cap Chunk(q, j.np, REPS) = {}
    BY <1>1, ChunksPartition
  <2>3. QED
    <3>1. /\ \A p \in 0 .. j.np - 1 : Share(j, p) \subseteq 0 .. REPS - 1
          /\ \A i \in 0 .. REPS - 1 : \E p \in 0 .. j.np - 1 : i \in Share(j, p)
      BY <2>1, <2>2
    <3>2. ASSUME NEW p \in 0 .. j.np - 1, NEW q \in 0 .. j.np - 1, p # q
          PROVE  Share(j, p) \cap Share(j, q) = {}
      <4>1. Chunk(p, j.np, REPS) \cap Chunk(q, j.np, REPS) = {}
        BY <2>2, <3>2
      <4>2. QED
        BY <2>1, <4>1
    <3>3. QED
      BY <3>1, <3>2
<1>4. QED
  BY <1>2, <1>3

\* A process does its share in one instruction, or exits at once.
LEMMA LoopCode ==
    ASSUME LoopJob, NEW p
    PROVE  Code(p) = IF Refuses(job) THEN <<>> ELSE << Compute("out", Ascending(Share(job, p))) >>
<1>1. /\ job.lang \in {"C", "Java", "Array", "Python"} /\ job.prog \in Programs[job.lang]
      /\ job.prog \in LoopProgs
  BY JobsAssumption DEF LoopJob
<1> DEFINE n == job.np
<1>2. CASE job.prog = "equalChunks"
  <2>1. Code(p) = parallelLoopEqualChunks(p, n)
    BY <1>1, <1>2 DEF Code, CCode, JavaCode, PyCode, JavaParallelLoopEqualChunks,
                      PyParallelLoopEqualChunks, Programs
  <2>2. QED
    BY <1>2, <2>1 DEF parallelLoopEqualChunks, Iterations, Refuses, Share
<1>3. CASE job.prog = "slices"
  <2>1. Code(p) = parallelLoopSlices(p, n)
    BY <1>1, <1>3 DEF Code, CCode, JavaCode, PyCode, JavaParallelLoopChunksOf1,
                      PyParallelLoopChunksOf1, Programs
  <2>2. QED
    BY <1>3, <2>1 DEF parallelLoopSlices, Iterations, Refuses, Share
<1>4. CASE job.prog \in {"chunks", "chunks2"}
  <2>1. Code(p) = IF n > REPS THEN <<>> ELSE Iterations(Chunk(p, n, REPS))
    BY <1>1, <1>4 DEF Code, CCode, JavaCode, PyCode, JavaParallelLoopAdvanced, Programs,
                      parallelLoopChunks, parallelLoopChunks2
  <2>2. QED
    BY <1>4, <2>1 DEF Iterations, Refuses, Share
<1>5. QED
  BY <1>1, <1>2, <1>3, <1>4 DEF LoopProgs

\* Nobody sends anything; whoever is past its instruction has its share.
LoopInv ==
  LoopJob =>
    /\ pc \in [Ranks -> {1, 2}]
    /\ phase = [p \in Ranks |-> "run"]
    /\ chan = [p \in Ranks |-> [q \in Ranks |-> <<>>]]
    /\ mem = [p \in Ranks |-> mem[p]]
    /\ \A p \in Ranks : "out" \in DOMAIN mem[p]
    /\ Refuses(job) => \A p \in Ranks : pc[p] = 1
    /\ \A p \in Ranks :
         mem[p].out = IF pc[p] = 1 THEN <<>> ELSE Ascending(Share(job, p))

\* Every step keeps the invariant.
LEMMA LoopSteps == LoopInv /\ [Next]_vars => LoopInv'
<1> SUFFICES ASSUME LoopInv, [Next]_vars, LoopJob PROVE LoopInv'
  <2>1. [Next]_vars /\ ~LoopJob => ~LoopJob'
    BY JobFixed DEF LoopJob
  <2>2. QED
    BY <2>1 DEF LoopInv
<1>0. /\ pc \in [Ranks -> {1, 2}] /\ phase = [p \in Ranks |-> "run"]
      /\ (Refuses(job) => \A p \in Ranks : pc[p] = 1)
      /\ chan = [p \in Ranks |-> [q \in Ranks |-> <<>>]]
      /\ mem = [p \in Ranks |-> mem[p]] /\ \A p \in Ranks : "out" \in DOMAIN mem[p]
      /\ \A p \in Ranks : mem[p].out = IF pc[p] = 1 THEN <<>> ELSE Ascending(Share(job, p))
  BY DEF LoopInv
<1>1. job' = job /\ Ranks' = Ranks
  BY JobFixed DEF Ranks
<1>same. (Refuses(job)' <=> Refuses(job)) /\ \A p : Share(job, p)' = Share(job, p)
  BY <1>1 DEF Share, Refuses
<1>2. CASE UNCHANGED vars
  <2>1. pc' = pc /\ phase' = phase /\ chan' = chan /\ mem' = mem
    BY <1>2 DEF vars
  <2>2. QED
    BY <1>0, <1>1, <1>same, <2>1 DEF LoopInv
<1>3. ASSUME NEW p \in Ranks, NEW i \in Current(p)
      PROVE  /\ ~Refuses(job) /\ pc[p] = 1
             /\ i = Compute("out", Ascending(Share(job, p)))
             /\ Ascending(Share(job, p)) \in Seq(Nat)
  <2>1. i = Code(p)[pc[p]] /\ pc[p] \in DOMAIN Code(p) /\ pc[p] \in {1, 2}
    BY <1>0, <1>3 DEF Current
  <2>2. ~Refuses(job)
    BY <2>1, LoopCode
  <2>3. pc[p] = 1 /\ i = Compute("out", Ascending(Share(job, p)))
    BY <2>1, <2>2, LoopCode
  <2>4. Share(job, p) \subseteq 0 .. REPS - 1 /\ REPS \in Nat
    BY <2>2, SharesPartition DEF LoopJob, Ranks, REPS
  <2>5. Share(job, p) \in SUBSET Nat /\ IsFiniteSet(Share(job, p))
    <3>1. IsFiniteSet(0 .. REPS - 1)
      BY <2>4, FS_Interval
    <3>2. QED
      BY <2>4, <3>1, FS_Subset
  <2>6. Ascending(Share(job, p)) \in Seq(Nat)
    <3>1. PICK m, x : /\ m = Cardinality(Share(job, p)) /\ x = Ascending(Share(job, p))
                      /\ m \in Nat /\ x \in [1 .. m -> Share(job, p)]
      BY <2>5, AscendingOnce
    <3>2. m \in Nat /\ x \in [1 .. m -> Nat]
      BY <2>5, <3>1
    <3>3. QED
      BY <3>1, <3>2
  <2>7. QED
    BY <2>2, <2>3, <2>6
<1>4. ASSUME NEW p \in Ranks, Local(p) PROVE LoopInv'
  <2>1. PICK i \in Current(p) :
          \/ i.op = "compute" /\ mem' = [mem EXCEPT ![p][i.var] = i.val] /\ Step(p)
          \/ i.op = "print" /\ Step(p) /\ UNCHANGED mem
          \/ i.op = "goto" /\ pc' = [pc EXCEPT ![p] = i.to] /\ UNCHANGED mem
    BY <1>4 DEF Local
  <2>2. PICK x \in Seq(Nat) : x = Ascending(Share(job, p))
    BY <1>3
  <2>3. /\ pc[p] = 1 /\ mem' = [mem EXCEPT ![p] = [mem[p] EXCEPT !.out = x]]
        /\ pc' = [pc EXCEPT ![p] = pc[p] + 1]
    BY <1>3, <2>1, <2>2 DEF Compute, Step
  <2>4. phase' = phase /\ chan' = chan
    BY <1>4 DEF Local
  <2>5. pc' \in [Ranks -> {1, 2}] /\ pc'[p] = 2 /\ \A q \in Ranks \ {p} : pc'[q] = pc[q]
    BY <1>0, <2>3
  <2>6. /\ mem' = [q \in Ranks |-> mem'[q]] /\ mem'[p] = [mem[p] EXCEPT !.out = x]
        /\ \A q \in Ranks \ {p} : mem'[q] = mem[q]
    BY <1>0, <2>3
  <2>7. "out" \in DOMAIN mem[p]
    BY <1>0
  <2>8. mem'[p].out = x /\ DOMAIN mem'[p] = DOMAIN mem[p]
    BY <2>6, <2>7
  <2>9. \A q \in Ranks : mem'[q].out = IF pc'[q] = 1 THEN <<>> ELSE Ascending(Share(job, q))
    <3>1. ASSUME NEW q \in Ranks
          PROVE  mem'[q].out = IF pc'[q] = 1 THEN <<>> ELSE Ascending(Share(job, q))
      <4>1. CASE q = p
        BY <2>2, <2>5, <2>8, <4>1
      <4>2. CASE q # p
        BY <1>0, <2>5, <2>6, <4>2
      <4>3. QED
        BY <4>1, <4>2
    <3>2. QED
      BY <3>1
  <2>10. QED
    <3>1. \A q \in Ranks : "out" \in DOMAIN mem'[q]
      BY <1>0, <2>6, <2>8
    <3>2. ~Refuses(job)'
      BY <1>1, <1>3, <1>same, <2>1
    <3>3. QED
      BY <1>0, <1>1, <1>same, <2>4, <2>5, <2>6, <2>9, <3>1, <3>2 DEF LoopInv
<1>5. ASSUME NEW p \in Ranks, AbortJob(p) \/ SendMessage(p) \/ Receive(p)
                                \/ EnterCollective(p) \/ LeaveCollective(p)
      PROVE  FALSE
  <2>1. \A i \in Current(p) : i.op = "compute"
    BY <1>3 DEF Compute
  <2>2. ~AbortJob(p)
    BY <2>1 DEF AbortJob, InvalidRank
  <2>4. ~SendMessage(p)
    BY <2>1 DEF SendMessage
  <2>5. ~Receive(p)
    BY <2>1 DEF Receive
  <2>6. ~EnterCollective(p)
    BY <2>1 DEF EnterCollective, Collectives
  <2>3. ~LeaveCollective(p)
    BY <1>0 DEF LeaveCollective
  <2>7. QED
    BY <1>5, <2>2, <2>3, <2>4, <2>5, <2>6
<1>6. QED
  BY <1>2, <1>4, <1>5 DEF Next

\* At the start nothing is done.
LEMMA LoopStarts == Init => LoopInv
<1> SUFFICES ASSUME Init, LoopJob PROVE LoopInv
  BY DEF LoopInv
<1>1. Blank.out = <<>> /\ "out" \in DOMAIN Blank
  BY DEF Blank
<1>2. QED
  BY <1>1 DEF Init, LoopInv

\* An iteration has one place among the outputs of the processes.
LEMMA DoneOnce ==
    ASSUME LoopInv, LoopJob, AllDone, ~Refuses(job), NEW i \in 0 .. REPS - 1
    PROVE  Singleton({ pk \in Ranks \X (1 .. REPS) :
                         pk[2] \in DOMAIN mem[pk[1]].out /\ mem[pk[1]].out[pk[2]] = i })
<1>1. \A p \in Ranks : mem[p].out = Ascending(Share(job, p))
  <2>1. ASSUME NEW p \in Ranks PROVE pc[p] = 2
    <3>1. Len(Code(p)) = 1
      BY LoopCode
    <3>2. pc[p] \in {1, 2} /\ pc[p] > Len(Code(p))
      BY DEF LoopInv, AllDone, Done
    <3>3. QED
      BY <3>1, <3>2
  <2>2. QED
    BY <2>1 DEF LoopInv
<1>2. /\ \A p \in Ranks : Share(job, p) \subseteq 0 .. REPS - 1
      /\ \A j \in 0 .. REPS - 1 : \E p \in Ranks : j \in Share(job, p)
      /\ \A p, q \in Ranks : p # q => Share(job, p) \cap Share(job, q) = {}
  BY SharesPartition DEF LoopJob, Ranks
<1>3. ASSUME NEW p \in Ranks
      PROVE  \E m \in 0 .. REPS :
               /\ mem[p].out \in [1 .. m -> Share(job, p)]
               /\ \A j \in Share(job, p) : \E k \in 1 .. m :
                     mem[p].out[k] = j /\ \A l \in 1 .. m : mem[p].out[l] = j => l = k
  <2>1. Share(job, p) \subseteq 0 .. REPS - 1 /\ 0 .. REPS - 1 \subseteq Nat
    BY <1>2
  <2>2. IsFiniteSet(0 .. REPS - 1) /\ Cardinality(0 .. REPS - 1) = REPS
    <3>1. PICK n \in Int : n = REPS - 1 /\ n = 7
      BY DEF REPS
    <3>2. IsFiniteSet(0 .. n) /\ Cardinality(0 .. n) = IF 0 > n THEN 0 ELSE n - 0 + 1
      BY FS_Interval
    <3>3. Cardinality(0 .. n) = n + 1 /\ n + 1 = REPS
      BY <3>1, <3>2 DEF REPS
    <3>4. QED
      BY <3>1, <3>2, <3>3
  <2>3. /\ Share(job, p) \in SUBSET Nat /\ IsFiniteSet(Share(job, p))
        /\ Cardinality(Share(job, p)) <= REPS
    BY <2>1, <2>2, FS_Subset, ZenonT(60)
  <2>4. PICK m, x : /\ m = Cardinality(Share(job, p)) /\ x = Ascending(Share(job, p))
                    /\ m \in Nat /\ x \in [1 .. m -> Share(job, p)]
                    /\ \A j \in Share(job, p) : \E k \in 1 .. m :
                          x[k] = j /\ \A l \in 1 .. m : x[l] = j => l = k
    BY <2>3, AscendingOnce, SMTT(30)
  <2>5. mem[p].out = x
    BY <1>1, <2>4
  <2>6. m \in 0 .. REPS
    BY <2>3, <2>4 DEF REPS
  <2>7. QED
    BY <2>4, <2>5, <2>6
<1>4. PICK p \in Ranks : i \in Share(job, p)
  BY <1>2
<1>5. PICK m \in 0 .. REPS :
        /\ mem[p].out \in [1 .. m -> Share(job, p)]
        /\ \A j \in Share(job, p) : \E k \in 1 .. m :
              mem[p].out[k] = j /\ \A l \in 1 .. m : mem[p].out[l] = j => l = k
  BY <1>3
<1>6. PICK k \in 1 .. m : mem[p].out[k] = i /\ \A l \in 1 .. m : mem[p].out[l] = i => l = k
  BY <1>4, <1>5
<1> DEFINE places == { pk \in Ranks \X (1 .. REPS) :
                         pk[2] \in DOMAIN mem[pk[1]].out /\ mem[pk[1]].out[pk[2]] = i }
<1>7. << p, k >> \in places
  <2>1. k \in 1 .. REPS /\ k \in DOMAIN mem[p].out
    <3>1. DOMAIN mem[p].out = 1 .. m
      BY <1>5
    <3>2. QED
      BY <3>1 DEF REPS
  <2>2. QED
    BY <1>6, <2>1
<1>8. ASSUME NEW q \in Ranks, NEW l \in 1 .. REPS, << q, l >> \in places
      PROVE  << q, l >> = << p, k >>
  <2>1. l \in DOMAIN mem[q].out /\ mem[q].out[l] = i
    BY <1>8
  <2>2. i \in Share(job, q)
    BY <1>3, <2>1
  <2>3. q = p
    BY <1>2, <1>4, <2>2
  <2>4. l \in 1 .. m
    BY <1>5, <2>1, <2>3
  <2>5. l = k
    BY <1>6, <2>1, <2>3, <2>4
  <2>6. QED
    BY <2>3, <2>5
<1>9. places = {<< p, k >>}
  <2>1. \A x \in places : \E q \in Ranks, l \in 1 .. REPS : x = << q, l >>
    OBVIOUS
  <2>2. \A x \in places : x = << p, k >>
    <3> HIDE DEF places
    <3>1. QED
      BY <1>8, <2>1
  <2> HIDE DEF places
  <2>3. QED
    BY <1>7, <2>2
<1>10. QED
  BY <1>7, <1>9 DEF Singleton

\* So the loop is done once, or nobody has done anything.
LEMMA LoopDone == LoopInv => (Is(LoopProgs) /\ job \in Jobs => Outcome)
<1> SUFFICES ASSUME LoopInv, LoopJob, AllDone, ~aborted PROVE Outcome
  BY DEF Outcome, LoopJob, Is
<1>1. \A p, q \in Ranks : chan[p][q] = <<>>
  BY DEF LoopInv
<1>2. LoopGoal
  <2>1. CASE Refuses(job)
    <3>1. ASSUME NEW p \in Ranks PROVE mem[p].out = <<>>
      <4>1. Len(Code(p)) = 0
        BY <2>1, LoopCode
      <4>2. QED
        BY <2>1 DEF LoopInv
    <3>2. QED
      BY <2>1, <3>1 DEF LoopGoal, Refuses
  <2>2. CASE ~Refuses(job)
    <3>1. \A i \in 0 .. REPS - 1 :
            Cardinality({ pk \in Ranks \X (1 .. REPS) :
                            pk[2] \in DOMAIN mem[pk[1]].out /\ mem[pk[1]].out[pk[2]] = i }) = 1
      BY <2>2, DoneOnce, OneElement
    <3>2. QED
      BY <2>2, <3>1 DEF LoopGoal, Refuses
  <2>3. QED
    BY <2>1, <2>2
<1>3. QED
  BY <1>1, <1>2 DEF Outcome, LoopJob, LoopProgs, Is

\* A job that runs one of the four loops, in any language and with any number
\* of processes, performs every iteration in exactly one process, once, or none
\* at all when the program refuses that number of processes; and it sends no
\* message (MPI/02, 03, 20 and 21, the parallelLoop programs, and their Java and
\* Python versions).
THEOREM LoopOutcome == Spec => [](Is(LoopProgs) => Outcome)
<1>1. Init => LoopInv /\ job \in Jobs
  BY LoopStarts DEF Init
<1>2. LoopInv /\ job \in Jobs /\ [Next]_vars => (LoopInv /\ job \in Jobs)'
  BY LoopSteps, JobFixed
<1>3. LoopInv /\ job \in Jobs => (Is(LoopProgs) => Outcome)
  BY LoopDone
<1>4. QED
  BY <1>1, <1>2, <1>3, PTL DEF Spec
-----------------------------------------------------------------------------
(* What folds compute.  A fold over a sequence is a recursive function on  *)
(* the sets of its indices, which takes the largest one away each time.    *)

\* A set of natural numbers has a smallest one.
LEMMA SmallestOf ==
    ASSUME NEW T, T \subseteq Nat, T # {}
    PROVE  \E n \in T : \A m \in T : n <= m
<1>1. PICK n \in T : \A m \in T : <<m, n>> \notin OpToRel(<, Nat)
  BY NatLessThanWellFounded, WFMin
<1>2. \A m \in T : ~(m < n)
  BY <1>1 DEF OpToRel
<1>3. QED
  BY <1>2

\* What holds of 0, and of each number up to m if it holds of the one before,
\* holds of all of them.
LEMMA Upwards ==
    ASSUME NEW m \in Nat, NEW T, 0 \in T, \A k \in 1 .. m : k - 1 \in T => k \in T
    PROVE  \A k \in 0 .. m : k \in T
<1> DEFINE Wrong == { k \in 0 .. m : k \notin T }
<1>1. Wrong = {}
  <2>1. SUFFICES ASSUME Wrong # {} PROVE FALSE
    OBVIOUS
  <2>2. Wrong \subseteq Nat
    OBVIOUS
  <2>3. PICK k \in Wrong : \A j \in Wrong : k <= j
    BY <2>1, <2>2, SmallestOf
  <2>4. k \in 0 .. m /\ k \notin T /\ k # 0
    BY <2>3
  <2>5. k \in 1 .. m /\ k - 1 \in 0 .. m
    BY <2>4
  <2>6. k - 1 \notin T
    BY <2>4, <2>5
  <2>7. k - 1 \in Wrong
    BY <2>5, <2>6
  <2>8. k <= k - 1
    BY <2>3, <2>7
  <2>9. QED
    BY <2>4, <2>8
<1>2. QED
  BY <1>1

\* A set of numbers up to m has a largest one.
LEMMA LargestIs ==
    ASSUME NEW m \in Nat, NEW s \in SUBSET (1 .. m), s # {}
    PROVE  Max(s) \in s /\ \A y \in s : y <= Max(s)
<1> DEFINE Below == { m - x : x \in s }
<1>1. Below \subseteq Nat /\ Below # {}
  <2>1. ASSUME NEW x \in s PROVE m - x \in Nat
    <3>1. x \in 1 .. m
      OBVIOUS
    <3>2. QED
      BY <3>1
  <2>2. PICK x \in s : TRUE
    OBVIOUS
  <2>3. m - x \in Below
    OBVIOUS
  <2>4. QED
    BY <2>1, <2>3
<1>2. PICK n \in Below : \A k \in Below : n <= k
  BY <1>1, SmallestOf
<1>3. PICK x \in s : n = m - x
  BY <1>2
<1>4. ASSUME NEW y \in s PROVE x >= y
  <2>1. m - x <= m - y
    BY <1>2, <1>3
  <2>2. x \in Int /\ y \in Int
    OBVIOUS
  <2>3. QED
    BY <2>1, <2>2
<1>5. \E z \in s : \A y \in s : z >= y
  BY <1>4
<1>6. Max(s) \in s /\ \A y \in s : Max(s) >= y
  BY <1>5 DEF Max
<1>7. QED
  BY <1>6

\* The largest of a set that has k in it and is otherwise below.
LEMMA LargestLast ==
    ASSUME NEW m \in Nat, NEW k \in 1 .. m, NEW s \in SUBSET (1 .. k), k \in s
    PROVE  Max(s) = k
<1>1. s \in SUBSET (1 .. m) /\ s # {}
  OBVIOUS
<1>2. PICK x : x = Max(s) /\ x \in s /\ k <= x
  BY <1>1, LargestIs
<1>3. x \in 1 .. k
  BY <1>2
<1>4. QED
  BY <1>2, <1>3

\* The numbers up to k are the ones up to k - 1, and k.
LEMMA PrefixNext ==
    ASSUME NEW m \in Nat, NEW k \in 1 .. m
    PROVE  /\ 1 .. k \in SUBSET (1 .. m) /\ 1 .. k # {} /\ Max(1 .. k) = k
           /\ (1 .. k) \ {k} = 1 .. k - 1
<1>1. 1 .. k \in SUBSET (1 .. k) /\ k \in 1 .. k
  OBVIOUS
<1>2. Max(1 .. k) = k
  BY <1>1, LargestLast
<1>3. QED
  BY <1>2

\* A fold is defined: by step T from base there is a function on the sets of
\* numbers up to m.
FoldsBy(f, k, base, T) ==
  /\ f[{}] = base
  /\ \A s \in SUBSET (1 .. k) : s # {} => f[s] = T[Max(s)][f[s \ {Max(s)}]]

\* A fold is such a function.
LEMMA FoldExists ==
    ASSUME NEW m \in Nat, NEW V, NEW base \in V, NEW T \in [1 .. m -> [V -> V]]
    PROVE  \E f \in [SUBSET (1 .. m) -> V] : FoldsBy(f, m, base, T)
<1> DEFINE Good == { k \in 0 .. m : \E f \in [SUBSET (1 .. k) -> V] : FoldsBy(f, k, base, T) }
<1>1. 0 \in Good
  <2>1. SUBSET (1 .. 0) = {{}}
    OBVIOUS
  <2>2. PICK f : f = [s \in {{}} |-> base]
    OBVIOUS
  <2>3. f \in [SUBSET (1 .. 0) -> V] /\ FoldsBy(f, 0, base, T)
    BY <2>1, <2>2 DEF FoldsBy
  <2>4. 0 \in 0 .. m
    OBVIOUS
  <2>5. QED
    BY <2>3, <2>4
<1>2. ASSUME NEW k \in 1 .. m, k - 1 \in Good PROVE k \in Good
  <2>1. PICK f \in [SUBSET (1 .. k - 1) -> V] : FoldsBy(f, k - 1, base, T)
    BY <1>2
  <2>2. PICK g : g = [s \in SUBSET (1 .. k) |-> IF k \in s THEN T[k][f[s \ {k}]] ELSE f[s]]
    OBVIOUS
  <2>3. ASSUME NEW s \in SUBSET (1 .. k) PROVE s \ {k} \in SUBSET (1 .. k - 1) /\ (k \notin s => s \ {k} = s)
    OBVIOUS
  <2>4. g \in [SUBSET (1 .. k) -> V]
    BY <2>1, <2>2, <2>3
  <2>5. ASSUME NEW s \in SUBSET (1 .. k), s # {} PROVE g[s] = T[Max(s)][g[s \ {Max(s)}]]
    <3>1. CASE k \in s
      <4>1. Max(s) = k
        BY <3>1, LargestLast
      <4>2. g[s] = T[k][f[s \ {k}]]
        BY <2>2, <3>1
      <4>3. s \ {k} \in SUBSET (1 .. k) /\ k \notin s \ {k}
        OBVIOUS
      <4>4. g[s \ {k}] = f[s \ {k}]
        BY <2>2, <4>3
      <4>5. QED
        BY <4>1, <4>2, <4>4
    <3>2. CASE k \notin s
      <4>1. PICK x : x = Max(s)
        OBVIOUS
      <4>2. s \in SUBSET (1 .. k - 1) /\ s \in SUBSET (1 .. m)
        BY <3>2
      <4>3. x \in s
        BY <2>5, <4>1, <4>2, LargestIs
      <4>4. s \ {x} \in SUBSET (1 .. k) /\ k \notin s \ {x}
        BY <3>2
      <4>5. g[s] = f[s] /\ g[s \ {x}] = f[s \ {x}]
        BY <2>2, <3>2, <4>4
      <4>6. f[s] = T[x][f[s \ {x}]]
        BY <2>1, <2>5, <4>1, <4>2 DEF FoldsBy
      <4>7. QED
        BY <4>1, <4>5, <4>6
    <3>3. QED
      BY <3>1, <3>2
  <2>6. g[{}] = base
    <3>1. {} \in SUBSET (1 .. k) /\ k \notin {}
      OBVIOUS
    <3>2. QED
      BY <2>1, <2>2, <3>1 DEF FoldsBy
  <2>7. FoldsBy(g, k, base, T)
    BY <2>5, <2>6 DEF FoldsBy
  <2>8. QED
    BY <2>4, <2>7
<1>3. \A k \in 0 .. m : k \in Good
  <2> HIDE DEF Good
  <2>1. QED
    BY <1>1, <1>2, Upwards
<1>4. m \in 0 .. m
  OBVIOUS
<1>5. QED
  BY <1>3, <1>4

\* h tracks R up to m: it starts like R, and at every k it goes on like R.
Tracks(h, R, m) ==
  /\ h[{}] = R[0]
  /\ \A k \in 1 .. m : h[1 .. k - 1] = R[k - 1] => h[1 .. k] = R[k]

\* What a recursion down the largest elements reaches at 1 .. m.
LEMMA FoldReaches ==
    ASSUME NEW m \in Nat, NEW h, NEW R, Tracks(h, R, m)
    PROVE  h[1 .. m] = R[m]
<1> DEFINE Right == { k \in 0 .. m : h[1 .. k] = R[k] }
<1>1. 0 \in Right
  <2>1. 1 .. 0 = {} /\ 0 \in 0 .. m
    OBVIOUS
  <2>2. h[{}] = R[0]
    BY DEF Tracks
  <2>3. QED
    BY <2>1, <2>2
<1>2. ASSUME NEW k \in 1 .. m, k - 1 \in Right PROVE k \in Right
  <2>1. h[1 .. k - 1] = R[k - 1] /\ k \in 0 .. m
    BY <1>2
  <2>2. h[1 .. k] = R[k]
    BY <2>1 DEF Tracks
  <2>3. QED
    BY <2>1, <2>2
<1>3. \A k \in 0 .. m : k \in Right
  <2> HIDE DEF Right
  <2>1. QED
    BY <1>1, <1>2, Upwards
<1>4. m \in 0 .. m
  OBVIOUS
<1>5. QED
  BY <1>3, <1>4

\* The folds of the collectives: from base, add the sequences in s, or keep the
\* larger elements; add the lengths of the pieces, or write them into base.
SumFrom(base, s) == FoldLeft(LAMBDA a, b : [k \in 1 .. Len(a) |-> a[k] + b[k]], base, s)
LargestFrom(base, s) ==
  FoldLeft(LAMBDA a, b : [k \in 1 .. Len(a) |-> IF a[k] >= b[k] THEN a[k] ELSE b[k]], base, s)
LengthOf(val, s) == FoldLeft(LAMBDA a, r : a + Len(val[r - 1]), 0, s)
WrittenTo(base, val, o, s) == FoldLeft(LAMBDA a, r : Overwrite(a, val[r - 1], o[r]), base, s)

\* What they go through: R[k] is the result after k of them.
Larger(a, b) == IF a >= b THEN a ELSE b
Adds(R, s, m, L) ==
  /\ m \in Nat /\ L \in Nat /\ s \in [1 .. m -> [1 .. L -> Int]] /\ R \in [0 .. m -> [1 .. L -> Int]]
  /\ \A k \in 1 .. m : \A i \in 1 .. L : R[k][i] = R[k - 1][i] + s[k][i]
Enlarges(R, s, m, L) ==
  /\ m \in Nat /\ L \in Nat /\ s \in [1 .. m -> [1 .. L -> Int]] /\ R \in [0 .. m -> [1 .. L -> Int]]
  /\ \A k \in 1 .. m : \A i \in 1 .. L : R[k][i] = Larger(R[k - 1][i], s[k][i])
Writes(R, val, o, m, L) ==
  /\ m \in Nat /\ L \in Nat /\ val \in [0 .. m - 1 -> Seq(Int)] /\ o \in [1 .. m -> Int]
  /\ R \in [0 .. m -> [1 .. L -> Int]]
  /\ \A k \in 1 .. m : R[k] = Overwrite(R[k - 1], val[k - 1], o[k])

\* The sum of sequences of the same length, element by element: R[k] is that of
\* the first k + 1.
LEMMA SumReaches ==
    ASSUME NEW m, NEW L, NEW s, NEW R, Adds(R, s, m, L)
    PROVE  SumFrom(R[0], s) = R[m]
<1> DEFINE V == [1 .. L -> Int]
           plus(a, b) == [k \in 1 .. Len(a) |-> a[k] + b[k]]
           T == [k \in 1 .. m |-> [a \in V |-> plus(a, s[k])]]
           G(h) == h = [S \in SUBSET (1 .. m) |->
                          IF S = {} THEN R[0] ELSE plus(h[S \ {Max(S)}], s[Max(S)])]
<1>0. /\ m \in Nat /\ L \in Nat /\ s \in [1 .. m -> [1 .. L -> Int]] /\ R \in [0 .. m -> [1 .. L -> Int]]
      /\ \A k \in 1 .. m : R[k] = [i \in 1 .. L |-> R[k - 1][i] + s[k][i]]
  <2>1. /\ m \in Nat /\ L \in Nat /\ s \in [1 .. m -> [1 .. L -> Int]] /\ R \in [0 .. m -> [1 .. L -> Int]]
    BY DEF Adds
  <2>2. ASSUME NEW k \in 1 .. m PROVE R[k] = [i \in 1 .. L |-> R[k - 1][i] + s[k][i]]
    <3>1. \A i \in 1 .. L : R[k][i] = R[k - 1][i] + s[k][i]
      BY DEF Adds
    <3>2. R[k] \in [1 .. L -> Int]
      BY <2>1
    <3>3. QED
      BY <3>1, <3>2
  <2>3. QED
    BY <2>1, <2>2
<1> USE <1>0
<1>1. SumFrom(R[0], s) = (CHOOSE h : G(h))[1 .. m]
  BY DEF FoldLeft, MapThenFoldSet, SumFrom, LargestFrom, LengthOf, WrittenTo
<1>2. \A a \in V : \A k \in 1 .. m : plus(a, s[k]) = [i \in 1 .. L |-> a[i] + s[k][i]] /\ plus(a, s[k]) \in V
  OBVIOUS
<1>3. T \in [1 .. m -> [V -> V]] /\ R[0] \in V /\ \A k \in 1 .. m : \A a \in V : T[k][a] = plus(a, s[k])
  <2>1. R[0] \in V
    OBVIOUS
  <2> HIDE DEF plus, V
  <2>2. \A k \in 1 .. m : [a \in V |-> plus(a, s[k])] \in [V -> V]
    BY <1>2
  <2>3. QED
    BY <2>1, <2>2
<1>4. PICK h \in [SUBSET (1 .. m) -> V] : FoldsBy(h, m, R[0], T)
  <2> HIDE DEF T, V
  <2>1. QED
    BY <1>3, FoldExists
<1>5. G(h)
  <2>1. ASSUME NEW S \in SUBSET (1 .. m), S # {}
        PROVE  h[S] = plus(h[S \ {Max(S)}], s[Max(S)])
    <3>1. PICK x : x = Max(S) /\ x \in 1 .. m
      BY <2>1, LargestIs
    <3>2. S \ {x} \in SUBSET (1 .. m) /\ h[S] = T[x][h[S \ {x}]]
      BY <1>4, <2>1, <3>1 DEF FoldsBy
    <3>3. h[S \ {x}] \in V
      BY <1>4, <3>2
    <3> HIDE DEF T, V, plus
    <3>4. QED
      BY <1>3, <3>1, <3>2, <3>3
  <2>2. h[{}] = R[0] /\ h = [S \in SUBSET (1 .. m) |-> h[S]]
    BY <1>4 DEF FoldsBy
  <2> HIDE DEF plus
  <2>3. \A S \in SUBSET (1 .. m) : h[S] = IF S = {} THEN R[0] ELSE plus(h[S \ {Max(S)}], s[Max(S)])
    BY <2>1, <2>2
  <2>4. QED
    BY <2>2, <2>3
<1>6. PICK g : g = (CHOOSE f : G(f))
  OBVIOUS
<1>7. G(g)
  <2> HIDE DEF G
  <2>1. QED
    BY <1>5, <1>6
<1>8. g[{}] = R[0] /\ \A S \in SUBSET (1 .. m) : S # {} => g[S] = plus(g[S \ {Max(S)}], s[Max(S)])
  <2> HIDE DEF plus
  <2>1. g = [S \in SUBSET (1 .. m) |-> IF S = {} THEN R[0] ELSE plus(g[S \ {Max(S)}], s[Max(S)])]
    BY <1>7
  <2>2. {} \in SUBSET (1 .. m)
    OBVIOUS
  <2>3. QED
    BY <2>1, <2>2
<1>9. ASSUME NEW k \in 1 .. m, g[1 .. k - 1] = R[k - 1] PROVE g[1 .. k] = R[k]
  <2>1. g[1 .. k] = plus(g[1 .. k - 1], s[k])
    <3>1. PICK S : S = 1 .. k
      OBVIOUS
    <3>2. S \in SUBSET (1 .. m) /\ S # {} /\ Max(S) = k /\ S \ {k} = 1 .. k - 1
      BY <3>1, PrefixNext
    <3> HIDE DEF plus
    <3>3. g[S] = plus(g[S \ {Max(S)}], s[Max(S)])
      BY <1>8, <3>2
    <3>4. QED
      BY <3>1, <3>2, <3>3
  <2>2. R[k - 1] \in V /\ k - 1 \in 0 .. m
    OBVIOUS
  <2> HIDE DEF plus
  <2>3. plus(R[k - 1], s[k]) = R[k]
    BY <1>2, <2>2
  <2>4. QED
    BY <1>9, <2>1, <2>3
<1>10. g[1 .. m] = R[m]
  <2> HIDE DEF plus
  <2>1. g[{}] = R[0]
    BY <1>8
  <2>2. Tracks(g, R, m)
    BY <1>9, <2>1 DEF Tracks
  <2>3. m \in Nat
    BY <1>0
  <2>4. QED
    BY <2>2, <2>3, FoldReaches
<1>11. QED
  BY <1>1, <1>6, <1>10
\* The same for the larger element at each place.
LEMMA LargerReaches ==
    ASSUME NEW m, NEW L, NEW s, NEW R, Enlarges(R, s, m, L)
    PROVE  LargestFrom(R[0], s) = R[m]
<1> DEFINE V == [1 .. L -> Int]
           max(a, b) == [k \in 1 .. Len(a) |-> IF a[k] >= b[k] THEN a[k] ELSE b[k]]
           T == [k \in 1 .. m |-> [a \in V |-> max(a, s[k])]]
           G(h) == h = [S \in SUBSET (1 .. m) |->
                          IF S = {} THEN R[0] ELSE max(h[S \ {Max(S)}], s[Max(S)])]
<1>0. /\ m \in Nat /\ L \in Nat /\ s \in [1 .. m -> [1 .. L -> Int]] /\ R \in [0 .. m -> [1 .. L -> Int]]
      /\ \A k \in 1 .. m : R[k] = [i \in 1 .. L |-> Larger(R[k - 1][i], s[k][i])]
  <2>1. /\ m \in Nat /\ L \in Nat /\ s \in [1 .. m -> [1 .. L -> Int]] /\ R \in [0 .. m -> [1 .. L -> Int]]
    BY DEF Enlarges
  <2>2. ASSUME NEW k \in 1 .. m PROVE R[k] = [i \in 1 .. L |-> Larger(R[k - 1][i], s[k][i])]
    <3>1. \A i \in 1 .. L : R[k][i] = Larger(R[k - 1][i], s[k][i])
      BY DEF Enlarges
    <3>2. R[k] \in [1 .. L -> Int]
      BY <2>1
    <3>3. QED
      BY <3>1, <3>2
  <2>3. QED
    BY <2>1, <2>2
<1> USE <1>0
<1>1. LargestFrom(R[0], s) = (CHOOSE h : G(h))[1 .. m]
  BY DEF FoldLeft, MapThenFoldSet, SumFrom, LargestFrom, LengthOf, WrittenTo
<1>2. \A a \in V : \A k \in 1 .. m : max(a, s[k]) = [i \in 1 .. L |-> Larger(a[i], s[k][i])] /\ max(a, s[k]) \in V
  BY DEF Larger
<1>3. T \in [1 .. m -> [V -> V]] /\ R[0] \in V /\ \A k \in 1 .. m : \A a \in V : T[k][a] = max(a, s[k])
  <2>1. R[0] \in V
    OBVIOUS
  <2> HIDE DEF max, V
  <2>2. \A k \in 1 .. m : [a \in V |-> max(a, s[k])] \in [V -> V]
    BY <1>2
  <2>3. QED
    BY <2>1, <2>2
<1>4. PICK h \in [SUBSET (1 .. m) -> V] : FoldsBy(h, m, R[0], T)
  <2> HIDE DEF T, V
  <2>1. QED
    BY <1>3, FoldExists
<1>5. G(h)
  <2>1. ASSUME NEW S \in SUBSET (1 .. m), S # {}
        PROVE  h[S] = max(h[S \ {Max(S)}], s[Max(S)])
    <3>1. PICK x : x = Max(S) /\ x \in 1 .. m
      BY <2>1, LargestIs
    <3>2. S \ {x} \in SUBSET (1 .. m) /\ h[S] = T[x][h[S \ {x}]]
      BY <1>4, <2>1, <3>1 DEF FoldsBy
    <3>3. h[S \ {x}] \in V
      BY <1>4, <3>2
    <3> HIDE DEF T, V, max
    <3>4. QED
      BY <1>3, <3>1, <3>2, <3>3
  <2>2. h[{}] = R[0] /\ h = [S \in SUBSET (1 .. m) |-> h[S]]
    BY <1>4 DEF FoldsBy
  <2> HIDE DEF max
  <2>3. \A S \in SUBSET (1 .. m) : h[S] = IF S = {} THEN R[0] ELSE max(h[S \ {Max(S)}], s[Max(S)])
    BY <2>1, <2>2
  <2>4. QED
    BY <2>2, <2>3
<1>6. PICK g : g = (CHOOSE f : G(f))
  OBVIOUS
<1>7. G(g)
  <2> HIDE DEF G
  <2>1. QED
    BY <1>5, <1>6
<1>8. g[{}] = R[0] /\ \A S \in SUBSET (1 .. m) : S # {} => g[S] = max(g[S \ {Max(S)}], s[Max(S)])
  <2> HIDE DEF max
  <2>1. g = [S \in SUBSET (1 .. m) |-> IF S = {} THEN R[0] ELSE max(g[S \ {Max(S)}], s[Max(S)])]
    BY <1>7
  <2>2. {} \in SUBSET (1 .. m)
    OBVIOUS
  <2>3. QED
    BY <2>1, <2>2
<1>9. ASSUME NEW k \in 1 .. m, g[1 .. k - 1] = R[k - 1] PROVE g[1 .. k] = R[k]
  <2>1. g[1 .. k] = max(g[1 .. k - 1], s[k])
    <3>1. PICK S : S = 1 .. k
      OBVIOUS
    <3>2. S \in SUBSET (1 .. m) /\ S # {} /\ Max(S) = k /\ S \ {k} = 1 .. k - 1
      BY <3>1, PrefixNext
    <3> HIDE DEF max
    <3>3. g[S] = max(g[S \ {Max(S)}], s[Max(S)])
      BY <1>8, <3>2
    <3>4. QED
      BY <3>1, <3>2, <3>3
  <2>2. R[k - 1] \in V /\ k - 1 \in 0 .. m
    OBVIOUS
  <2> HIDE DEF max
  <2>3. max(R[k - 1], s[k]) = R[k]
    BY <1>2, <2>2
  <2>4. QED
    BY <1>9, <2>1, <2>3
<1>10. g[1 .. m] = R[m]
  <2> HIDE DEF max
  <2>1. g[{}] = R[0]
    BY <1>8
  <2>2. Tracks(g, R, m)
    BY <1>9, <2>1 DEF Tracks
  <2>3. m \in Nat
    BY <1>0
  <2>4. QED
    BY <2>2, <2>3, FoldReaches
<1>11. QED
  BY <1>1, <1>6, <1>10
\* The sum of the lengths of pieces.
LEMMA LengthReaches ==
    ASSUME NEW m \in Nat, NEW val \in [0 .. m - 1 -> Seq(Int)], NEW R \in [0 .. m -> Int], R[0] = 0,
           \A k \in 1 .. m : R[k] = R[k - 1] + Len(val[k - 1]), NEW s, s = [k \in 1 .. m |-> k]
    PROVE  LengthOf(val, s) = R[m]
<1> DEFINE V == Int
           plus(a, b) == a + Len(val[b - 1])
           T == [k \in 1 .. m |-> [a \in V |-> plus(a, s[k])]]
           G(h) == h = [S \in SUBSET (1 .. m) |->
                          IF S = {} THEN 0 ELSE plus(h[S \ {Max(S)}], s[Max(S)])]
<1>1. LengthOf(val, s) = (CHOOSE h : G(h))[1 .. m]
  BY DEF FoldLeft, MapThenFoldSet, SumFrom, LargestFrom, LengthOf, WrittenTo
<1>2. \A a \in V : \A k \in 1 .. m : plus(a, s[k]) = a + Len(val[k - 1]) /\ plus(a, s[k]) \in V
  OBVIOUS
<1>3. T \in [1 .. m -> [V -> V]] /\ R[0] \in V /\ \A k \in 1 .. m : \A a \in V : T[k][a] = plus(a, s[k])
  <2>1. R[0] \in V
    OBVIOUS
  <2> HIDE DEF plus, V
  <2>2. \A k \in 1 .. m : [a \in V |-> plus(a, s[k])] \in [V -> V]
    BY <1>2
  <2>3. QED
    BY <2>1, <2>2
<1>4. PICK h \in [SUBSET (1 .. m) -> V] : FoldsBy(h, m, R[0], T)
  <2> HIDE DEF T, V
  <2>1. QED
    BY <1>3, FoldExists
<1>5. G(h)
  <2>1. ASSUME NEW S \in SUBSET (1 .. m), S # {}
        PROVE  h[S] = plus(h[S \ {Max(S)}], s[Max(S)])
    <3>1. PICK x : x = Max(S) /\ x \in 1 .. m
      BY <2>1, LargestIs
    <3>2. S \ {x} \in SUBSET (1 .. m) /\ h[S] = T[x][h[S \ {x}]]
      BY <1>4, <2>1, <3>1 DEF FoldsBy
    <3>3. h[S \ {x}] \in V
      BY <1>4, <3>2
    <3> HIDE DEF T, V, plus
    <3>4. QED
      BY <1>3, <3>1, <3>2, <3>3
  <2>2. h[{}] = R[0] /\ h = [S \in SUBSET (1 .. m) |-> h[S]]
    BY <1>4 DEF FoldsBy
  <2> HIDE DEF plus
  <2>3. \A S \in SUBSET (1 .. m) : h[S] = IF S = {} THEN 0 ELSE plus(h[S \ {Max(S)}], s[Max(S)])
    BY <2>1, <2>2
  <2>4. QED
    BY <2>2, <2>3
<1>6. PICK g : g = (CHOOSE f : G(f))
  OBVIOUS
<1>7. G(g)
  <2> HIDE DEF G
  <2>1. QED
    BY <1>5, <1>6
<1>8. g[{}] = R[0] /\ \A S \in SUBSET (1 .. m) : S # {} => g[S] = plus(g[S \ {Max(S)}], s[Max(S)])
  <2> HIDE DEF plus
  <2>1. g = [S \in SUBSET (1 .. m) |-> IF S = {} THEN 0 ELSE plus(g[S \ {Max(S)}], s[Max(S)])]
    BY <1>7
  <2>2. {} \in SUBSET (1 .. m)
    OBVIOUS
  <2>3. QED
    BY <2>1, <2>2
<1>9. ASSUME NEW k \in 1 .. m, g[1 .. k - 1] = R[k - 1] PROVE g[1 .. k] = R[k]
  <2>1. g[1 .. k] = plus(g[1 .. k - 1], s[k])
    <3>1. PICK S : S = 1 .. k
      OBVIOUS
    <3>2. S \in SUBSET (1 .. m) /\ S # {} /\ Max(S) = k /\ S \ {k} = 1 .. k - 1
      BY <3>1, PrefixNext
    <3> HIDE DEF plus
    <3>3. g[S] = plus(g[S \ {Max(S)}], s[Max(S)])
      BY <1>8, <3>2
    <3>4. QED
      BY <3>1, <3>2, <3>3
  <2>2. R[k - 1] \in V /\ k - 1 \in 0 .. m
    OBVIOUS
  <2> HIDE DEF plus
  <2>3. plus(R[k - 1], s[k]) = R[k]
    BY <1>2, <2>2
  <2>4. QED
    BY <1>9, <2>1, <2>3
<1>10. g[1 .. m] = R[m]
  <2> HIDE DEF plus
  <2>1. g[{}] = R[0]
    BY <1>8
  <2>2. Tracks(g, R, m)
    BY <1>9, <2>1 DEF Tracks
  <2>3. m \in Nat
    OBVIOUS
  <2>4. QED
    BY <2>2, <2>3, FoldReaches
<1>11. QED
  BY <1>1, <1>6, <1>10
\* An array that pieces are written into, one after the other.
LEMMA WritesReach ==
    ASSUME NEW m, NEW L, NEW val, NEW o, NEW R, Writes(R, val, o, m, L),
           NEW s, s = [k \in 1 .. m |-> k]
    PROVE  WrittenTo(R[0], val, o, s) = R[m]
<1> DEFINE V == [1 .. L -> Int]
           write(a, b) == Overwrite(a, val[b - 1], o[b])
           T == [k \in 1 .. m |-> [a \in V |-> write(a, s[k])]]
           G(h) == h = [S \in SUBSET (1 .. m) |->
                          IF S = {} THEN R[0] ELSE write(h[S \ {Max(S)}], s[Max(S)])]
<1>0. /\ m \in Nat /\ L \in Nat /\ val \in [0 .. m - 1 -> Seq(Int)] /\ o \in [1 .. m -> Int]
      /\ R \in [0 .. m -> [1 .. L -> Int]]
      /\ \A k \in 1 .. m : R[k] = Overwrite(R[k - 1], val[k - 1], o[k])
  BY DEF Writes
<1> USE <1>0
<1>1. WrittenTo(R[0], val, o, s) = (CHOOSE h : G(h))[1 .. m]
  BY DEF FoldLeft, MapThenFoldSet, SumFrom, LargestFrom, LengthOf, WrittenTo
<1>2. \A a \in V : \A k \in 1 .. m : write(a, s[k]) = Overwrite(a, val[k - 1], o[k]) /\ write(a, s[k]) \in V
  BY SMTT(30) DEF Overwrite
<1>3. T \in [1 .. m -> [V -> V]] /\ R[0] \in V /\ \A k \in 1 .. m : \A a \in V : T[k][a] = write(a, s[k])
  <2>1. R[0] \in V
    OBVIOUS
  <2> HIDE DEF write, V
  <2>2. \A k \in 1 .. m : [a \in V |-> write(a, s[k])] \in [V -> V]
    BY <1>2
  <2>3. QED
    BY <2>1, <2>2
<1>4. PICK h \in [SUBSET (1 .. m) -> V] : FoldsBy(h, m, R[0], T)
  <2> HIDE DEF T, V
  <2>1. QED
    BY <1>3, FoldExists
<1>5. G(h)
  <2>1. ASSUME NEW S \in SUBSET (1 .. m), S # {}
        PROVE  h[S] = write(h[S \ {Max(S)}], s[Max(S)])
    <3>1. PICK x : x = Max(S) /\ x \in 1 .. m
      BY <2>1, LargestIs
    <3>2. S \ {x} \in SUBSET (1 .. m) /\ h[S] = T[x][h[S \ {x}]]
      BY <1>4, <2>1, <3>1 DEF FoldsBy
    <3>3. h[S \ {x}] \in V
      BY <1>4, <3>2
    <3> HIDE DEF T, V, write
    <3>4. QED
      BY <1>3, <3>1, <3>2, <3>3
  <2>2. h[{}] = R[0] /\ h = [S \in SUBSET (1 .. m) |-> h[S]]
    BY <1>4 DEF FoldsBy
  <2> HIDE DEF write
  <2>3. \A S \in SUBSET (1 .. m) : h[S] = IF S = {} THEN R[0] ELSE write(h[S \ {Max(S)}], s[Max(S)])
    BY <2>1, <2>2
  <2>4. QED
    BY <2>2, <2>3
<1>6. PICK g : g = (CHOOSE f : G(f))
  OBVIOUS
<1>7. G(g)
  <2> HIDE DEF G
  <2>1. QED
    BY <1>5, <1>6
<1>8. g[{}] = R[0] /\ \A S \in SUBSET (1 .. m) : S # {} => g[S] = write(g[S \ {Max(S)}], s[Max(S)])
  <2> HIDE DEF write
  <2>1. g = [S \in SUBSET (1 .. m) |-> IF S = {} THEN R[0] ELSE write(g[S \ {Max(S)}], s[Max(S)])]
    BY <1>7
  <2>2. {} \in SUBSET (1 .. m)
    OBVIOUS
  <2>3. QED
    BY <2>1, <2>2
<1>9. ASSUME NEW k \in 1 .. m, g[1 .. k - 1] = R[k - 1] PROVE g[1 .. k] = R[k]
  <2>1. g[1 .. k] = write(g[1 .. k - 1], s[k])
    <3>1. PICK S : S = 1 .. k
      OBVIOUS
    <3>2. S \in SUBSET (1 .. m) /\ S # {} /\ Max(S) = k /\ S \ {k} = 1 .. k - 1
      BY <3>1, PrefixNext
    <3> HIDE DEF write
    <3>3. g[S] = write(g[S \ {Max(S)}], s[Max(S)])
      BY <1>8, <3>2
    <3>4. QED
      BY <3>1, <3>2, <3>3
  <2>2. R[k - 1] \in V /\ k - 1 \in 0 .. m
    OBVIOUS
  <2> HIDE DEF write
  <2>3. write(R[k - 1], s[k]) = R[k]
    BY <1>2, <2>2
  <2>4. QED
    BY <1>9, <2>1, <2>3
<1>10. g[1 .. m] = R[m]
  <2> HIDE DEF write
  <2>1. g[{}] = R[0]
    BY <1>8
  <2>2. Tracks(g, R, m)
    BY <1>9, <2>1 DEF Tracks
  <2>3. m \in Nat
    BY <1>0
  <2>4. QED
    BY <2>2, <2>3, FoldReaches
<1>11. QED
  BY <1>1, <1>6, <1>10

\* What the master receives from a sum: R[k] is the sum of the first k.
LEMMA PlusAllIs ==
    ASSUME NEW n \in Nat \ {0}, NEW L \in Nat, NEW vals \in [1 .. n -> [1 .. L -> Int]],
           NEW R \in [1 .. n -> [1 .. L -> Int]], R[1] = vals[1],
           \A k \in 2 .. n : \A i \in 1 .. L : R[k][i] = R[k - 1][i] + vals[k][i]
    PROVE  PlusAll(vals) = R[n]
<1>1. PICK m \in Nat : m = n - 1
  OBVIOUS
<1>2. PICK s, Q : s = Tail(vals) /\ Q = [k \in 0 .. m |-> R[k + 1]]
  OBVIOUS
<1>3. s = [k \in 1 .. m |-> vals[k + 1]] /\ s \in [1 .. m -> [1 .. L -> Int]]
  <2>1. Len(vals) = n /\ vals # <<>> /\ vals \in Seq([1 .. L -> Int])
    BY SMTT(30)
  <2>2. s = [k \in 1 .. m |-> vals[k + 1]]
    <3>1. /\ s \in Seq([1 .. L -> Int]) /\ Len(s) = m
          /\ \A k \in 1 .. Len(s) : s[k] = vals[k + 1]
      BY <1>1, <1>2, <2>1, HeadTailProperties
    <3>2. s = [k \in 1 .. m |-> s[k]]
      BY <3>1
    <3>3. QED
      BY <3>1, <3>2
  <2>3. \A k \in 1 .. m : vals[k + 1] \in [1 .. L -> Int]
    BY <1>1
  <2>4. QED
    BY <2>2, <2>3
<1>4. Q \in [0 .. m -> [1 .. L -> Int]] /\ Q[0] = R[1] /\ Q[m] = R[n]
  <2>1. \A k \in 0 .. m : R[k + 1] \in [1 .. L -> Int]
    BY <1>1
  <2>2. QED
    BY <1>1, <1>2, <2>1
<1>5. \A k \in 1 .. m : \A i \in 1 .. L : Q[k][i] = Q[k - 1][i] + s[k][i]
  <2>1. ASSUME NEW k \in 1 .. m, NEW i \in 1 .. L PROVE Q[k][i] = Q[k - 1][i] + s[k][i]
    <3>1. k + 1 \in 2 .. n /\ (k + 1) - 1 = k /\ k - 1 \in 0 .. m /\ (k - 1) + 1 = k /\ k \in 0 .. m
      BY <1>1
    <3>2. R[k + 1][i] = R[(k + 1) - 1][i] + vals[k + 1][i]
      BY <3>1
    <3>3. Q[k] = R[k + 1] /\ Q[k - 1] = R[k] /\ s[k] = vals[k + 1]
      BY <1>2, <1>3, <3>1
    <3>4. QED
      BY <3>1, <3>2, <3>3
  <2>2. QED
    BY <2>1
<1>6. SumFrom(Q[0], s) = Q[m]
  <2>1. Adds(Q, s, m, L)
    BY <1>3, <1>4, <1>5 DEF Adds
  <2>2. QED
    BY <2>1, SumReaches
<1>7. Head(vals) = vals[1]
  OBVIOUS
<1>8. QED
  BY <1>2, <1>4, <1>6, <1>7 DEF PlusAll, SumFrom

\* And from a maximum.
LEMMA MaxOfAllIs ==
    ASSUME NEW n \in Nat \ {0}, NEW L \in Nat, NEW vals \in [1 .. n -> [1 .. L -> Int]],
           NEW R \in [1 .. n -> [1 .. L -> Int]], R[1] = vals[1],
           \A k \in 2 .. n : \A i \in 1 .. L : R[k][i] = Larger(R[k - 1][i], vals[k][i])
    PROVE  MaxOfAll(vals) = R[n]
<1>1. PICK m \in Nat : m = n - 1
  OBVIOUS
<1>2. PICK s, Q : s = Tail(vals) /\ Q = [k \in 0 .. m |-> R[k + 1]]
  OBVIOUS
<1>3. s = [k \in 1 .. m |-> vals[k + 1]] /\ s \in [1 .. m -> [1 .. L -> Int]]
  <2>1. Len(vals) = n /\ vals # <<>> /\ vals \in Seq([1 .. L -> Int])
    BY SMTT(30)
  <2>2. s = [k \in 1 .. m |-> vals[k + 1]]
    <3>1. /\ s \in Seq([1 .. L -> Int]) /\ Len(s) = m
          /\ \A k \in 1 .. Len(s) : s[k] = vals[k + 1]
      BY <1>1, <1>2, <2>1, HeadTailProperties
    <3>2. s = [k \in 1 .. m |-> s[k]]
      BY <3>1
    <3>3. QED
      BY <3>1, <3>2
  <2>3. \A k \in 1 .. m : vals[k + 1] \in [1 .. L -> Int]
    BY <1>1
  <2>4. QED
    BY <2>2, <2>3
<1>4. Q \in [0 .. m -> [1 .. L -> Int]] /\ Q[0] = R[1] /\ Q[m] = R[n]
  <2>1. \A k \in 0 .. m : R[k + 1] \in [1 .. L -> Int]
    BY <1>1
  <2>2. QED
    BY <1>1, <1>2, <2>1
<1>5. \A k \in 1 .. m : \A i \in 1 .. L : Q[k][i] = Larger(Q[k - 1][i], s[k][i])
  <2>1. ASSUME NEW k \in 1 .. m, NEW i \in 1 .. L PROVE Q[k][i] = Larger(Q[k - 1][i], s[k][i])
    <3>1. k + 1 \in 2 .. n /\ (k + 1) - 1 = k /\ k - 1 \in 0 .. m /\ (k - 1) + 1 = k /\ k \in 0 .. m
      BY <1>1
    <3>2. R[k + 1][i] = Larger(R[(k + 1) - 1][i], vals[k + 1][i])
      BY <3>1
    <3>3. Q[k] = R[k + 1] /\ Q[k - 1] = R[k] /\ s[k] = vals[k + 1]
      BY <1>2, <1>3, <3>1
    <3>4. QED
      BY <3>1, <3>2, <3>3
  <2>2. QED
    BY <2>1
<1>6. LargestFrom(Q[0], s) = Q[m]
  <2>1. Enlarges(Q, s, m, L)
    BY <1>3, <1>4, <1>5 DEF Enlarges
  <2>2. QED
    BY <2>1, LargerReaches
<1>7. Head(vals) = vals[1]
  OBVIOUS
<1>8. QED
  BY <1>2, <1>4, <1>6, <1>7 DEF MaxOfAll, LargestFrom

\* Numbers in increasing order: the last is the first that is not exceeded.
LEMMA Grows ==
    ASSUME NEW n \in Nat, NEW o \in [0 .. n -> Nat], \A r \in 1 .. n : o[r - 1] <= o[r]
    PROVE  \A r \in 0 .. n : o[r] <= o[n]
<1> DEFINE Good == { k \in 0 .. n : \A r \in 0 .. k : o[r] <= o[k] }
<1>1. 0 \in Good
  <2>1. \A r \in 0 .. 0 : o[r] <= o[0]
    <3>1. 0 .. 0 = {0} /\ o[0] \in Nat
      OBVIOUS
    <3>2. QED
      BY <3>1
  <2>2. QED
    BY <2>1
<1>2. ASSUME NEW k \in 1 .. n, k - 1 \in Good PROVE k \in Good
  <2>1. \A r \in 0 .. k - 1 : o[r] <= o[k - 1]
    BY <1>2
  <2>2. ASSUME NEW r \in 0 .. k PROVE o[r] <= o[k]
    <3>1. o[r] \in Nat /\ o[k - 1] \in Nat /\ o[k] \in Nat /\ o[k - 1] <= o[k]
      OBVIOUS
    <3>2. r = k \/ o[r] <= o[k - 1]
      BY <2>1
    <3>3. QED
      BY <3>1, <3>2
  <2>3. QED
    BY <2>2
<1>3. \A k \in 0 .. n : k \in Good
  <2> HIDE DEF Good
  <2>1. QED
    BY <1>1, <1>2, Upwards
<1>4. n \in Good
  <2> HIDE DEF Good
  <2>1. QED
    BY <1>3
<1>5. QED
  BY <1>4

\* An array cut into n pieces, each with the offset of its first element.
Cut(A, val, o, n) ==
  /\ o \in [0 .. n -> Nat] /\ o[0] = 0 /\ A \in [1 .. o[n] -> Int]
  /\ val \in [0 .. n - 1 -> Seq(Int)]
  /\ \A r \in 1 .. n : o[r] = o[r - 1] + Len(val[r - 1])
  /\ \A r \in 1 .. n : \A k \in 1 .. Len(val[r - 1]) : val[r - 1][k] = A[o[r - 1] + k]

\* Gathering the pieces gives the array.
LEMMA GatherIs ==
    ASSUME NEW n \in Nat \ {0}, NEW A, NEW val, NEW o, Cut(A, val, o, n), NEW i, NEW m,
           i.op = "gather", \A r \in 1 .. n : i.offsets[r] = o[r - 1],
           i.offsets \in [1 .. n -> Int]
    PROVE  Received(i, MASTER, n, m, val) = [m EXCEPT ![i.var] = A]
<1>1. PICK s : s = [k \in 1 .. n |-> k]
  OBVIOUS
<1>2. PICK f : f = i.offsets
  OBVIOUS
<1>3. /\ o \in [0 .. n -> Nat] /\ o[0] = 0 /\ A \in [1 .. o[n] -> Int]
      /\ val \in [0 .. n - 1 -> Seq(Int)]
      /\ \A r \in 1 .. n : o[r] = o[r - 1] + Len(val[r - 1])
      /\ \A r \in 1 .. n : \A k \in 1 .. Len(val[r - 1]) : val[r - 1][k] = A[o[r - 1] + k]
  BY DEF Cut
<1>4. \A r \in 0 .. n : o[r] <= o[n]
  <2>1. ASSUME NEW r \in 1 .. n PROVE o[r - 1] <= o[r]
    <3>1. o[r - 1] \in Nat /\ Len(val[r - 1]) \in Nat
      BY <1>3
    <3>2. QED
      BY <1>3, <3>1
  <2>2. QED
    BY <1>3, <2>1, Grows
<1>5. LengthOf(val, s) = o[n]
  <2>1. o \in [0 .. n -> Int] /\ n \in Nat
    BY <1>3
  <2>2. QED
    BY <1>1, <1>3, <2>1, LengthReaches
<1>6. PICK L \in Nat : L = o[n]
  BY <1>3
<1>7. PICK R : R = [r \in 0 .. n |-> [k \in 1 .. L |-> IF k <= o[r] THEN A[k] ELSE 0]]
  OBVIOUS
<1>8. R \in [0 .. n -> [1 .. L -> Int]] /\ R[0] = Zeros(L) /\ R[n] = A
  <2>1. R[0] = Zeros(L)
    BY <1>3, <1>7 DEF Zeros
  <2>2. \A k \in 1 .. L : A[k] \in Int
    BY <1>3, <1>6
  <2>3. R[n] = A
    <3>1. R[n] = [k \in 1 .. L |-> IF k <= o[n] THEN A[k] ELSE 0]
      BY <1>7
    <3>2. \A k \in 1 .. L : k <= o[n]
      BY <1>6
    <3>3. R[n] = [k \in 1 .. L |-> A[k]]
      BY <3>1, <3>2
    <3>4. QED
      BY <1>3, <1>6, <3>3
  <2>4. QED
    BY <1>7, <2>1, <2>2, <2>3
<1>9. ASSUME NEW r \in 1 .. n PROVE R[r] = Overwrite(R[r - 1], val[r - 1], f[r])
  <2>1. PICK v \in Seq(Int), l \in Nat, a \in Nat, b \in Nat :
          /\ v = val[r - 1] /\ l = Len(v) /\ a = o[r - 1] /\ b = o[r] /\ b = a + l /\ b <= L
          /\ f[r] = a
    <3>1. /\ val[r - 1] \in Seq(Int) /\ o[r - 1] \in Nat /\ o[r] \in Nat /\ o[r] <= L
          /\ f[r] = o[r - 1] /\ o[r] = o[r - 1] + Len(val[r - 1])
      BY <1>2, <1>3, <1>4, <1>6
    <3>2. Len(val[r - 1]) \in Nat
      BY <3>1
    <3>3. QED
      BY <3>1, <3>2
  <2>2. \A k \in 1 .. l : v[k] = A[a + k]
    <3>1. r \in 1 .. n
      OBVIOUS
    <3>2. \A k \in 1 .. Len(val[r - 1]) : val[r - 1][k] = A[o[r - 1] + k]
      BY <1>3, <3>1
    <3>3. QED
      BY <2>1, <3>2
  <2>3. /\ R[r] = [k \in 1 .. L |-> IF k <= b THEN A[k] ELSE 0]
        /\ R[r - 1] = [k \in 1 .. L |-> IF k <= a THEN A[k] ELSE 0]
    <3>1. r \in 0 .. n /\ r - 1 \in 0 .. n
      OBVIOUS
    <3>2. QED
      BY <1>7, <2>1, <3>1
  <2>4. PICK P : P = R[r - 1] /\ Len(P) = L /\ P = [k \in 1 .. L |-> IF k <= a THEN A[k] ELSE 0]
    <3>1. R[r - 1] \in [1 .. L -> Int]
      <4>1. r - 1 \in 0 .. n
        OBVIOUS
      <4>2. QED
        BY <1>8, <4>1
    <3>2. Len(R[r - 1]) = L
      BY <3>1
    <3>3. QED
      BY <2>3, <3>2
  <2>5. Overwrite(P, v, a) = [k \in 1 .. L |-> IF k - a \in 1 .. l THEN v[k - a] ELSE P[k]]
    BY <2>1, <2>4 DEF Overwrite
  <2>6. ASSUME NEW k \in 1 .. L
        PROVE  (IF k - a \in 1 .. l THEN v[k - a] ELSE P[k]) = IF k <= b THEN A[k] ELSE 0
    <3>1. P[k] = IF k <= a THEN A[k] ELSE 0
      BY <2>4
    <3>2. CASE k - a \in 1 .. l
      <4>1. PICK j \in 1 .. l : j = k - a
        BY <3>2
      <4>2. a + j = k /\ k <= b /\ k \in Int
        BY <2>1, <4>1, SMTT(40)
      <4>3. v[j] = A[a + j]
        BY <2>2
      <4>4. QED
        BY <3>2, <4>1, <4>2, <4>3
    <3>3. CASE k - a \notin 1 .. l
      <4>1. k <= a \/ k > b
        BY <2>1, <3>3, SMTT(40)
      <4>2. k <= a => k <= b
        BY <2>1
      <4>3. QED
        BY <3>1, <3>3, <4>1, <4>2
    <3>4. QED
      BY <3>2, <3>3
  <2>7. Overwrite(P, v, a) = [k \in 1 .. L |-> IF k <= b THEN A[k] ELSE 0]
    BY <2>5, <2>6
  <2>8. QED
    BY <2>1, <2>3, <2>4, <2>7
<1>10. WrittenTo(R[0], val, f, s) = R[n]
  <2>1. n \in Nat /\ f \in [1 .. n -> Int]
    BY <1>2
  <2>2. Writes(R, val, f, n, L)
    BY <1>3, <1>8, <1>9, <2>1 DEF Writes
  <2>3. QED
    BY <1>1, <2>2, WritesReach
<1>11. Received(i, MASTER, n, m, val)
         = [m EXCEPT ![i.var] = WrittenTo(Zeros(LengthOf(val, s)), val, i.offsets, s)]
  BY <1>1 DEF Received, WrittenTo, LengthOf
<1>12. QED
  BY <1>2, <1>5, <1>6, <1>8, <1>10, <1>11

\* The first a elements of an array are x, and the next l are v.
Continues(A, x, a, v, l) ==
  /\ a \in Nat /\ x \in Seq(Int) /\ Len(x) = a /\ \A k \in 1 .. a : x[k] = A[k]
  /\ l \in Nat /\ v \in Seq(Int) /\ Len(v) = l /\ \A k \in 1 .. l : v[k] = A[a + k]

\* The first b are z.
Heads(A, z, b) == Len(z) = b /\ z \in Seq(Int) /\ \A k \in 1 .. b : z[k] = A[k]

\* Then the first a + l are x and v.
LEMMA Extends ==
    ASSUME NEW A, NEW x, NEW a, NEW v, NEW l, Continues(A, x, a, v, l), NEW b, b = a + l
    PROVE  Heads(A, x \o v, b)
<1>1. /\ a \in Nat /\ x \in Seq(Int) /\ Len(x) = a /\ \A k \in 1 .. a : x[k] = A[k]
      /\ l \in Nat /\ v \in Seq(Int) /\ Len(v) = l /\ \A k \in 1 .. l : v[k] = A[a + k]
      /\ b \in Nat
  BY DEF Continues
<1>4. PICK z : z = x \o v
  OBVIOUS
<1>5. /\ z \in Seq(Int) /\ Len(z) = Len(x) + Len(v)
      /\ \A k \in 1 .. Len(x) + Len(v) : z[k] = IF k <= Len(x) THEN x[k] ELSE v[k - Len(x)]
  BY <1>1, <1>4, ConcatProperties
<1>6. z \in Seq(Int) /\ Len(z) = b
  BY <1>1, <1>5
<1>7. \A k \in 1 .. b : z[k] = IF k <= a THEN x[k] ELSE v[k - a]
  <2>1. Len(x) + Len(v) = b
    BY <1>1
  <2>2. QED
    BY <1>1, <1>5, <2>1
<1>9. ASSUME NEW k \in 1 .. b PROVE z[k] = A[k]
  <2>1. CASE k <= a
    BY <1>1, <1>7, <2>1
  <2>2. CASE ~(k <= a)
    <3>1. PICK j \in 1 .. l : j = k - a /\ a + j = k
      BY <1>1, <2>2
    <3>2. z[k] = v[j]
      BY <1>7, <2>2, <3>1
    <3>3. QED
      BY <1>1, <3>1, <3>2
  <2>3. QED
    BY <2>1, <2>2
<1>11. QED
  BY <1>4, <1>6, <1>9 DEF Heads

\* So does flattening them.
LEMMA FlattenIs ==
    ASSUME NEW n \in Nat \ {0}, NEW A, NEW val, NEW o, Cut(A, val, o, n)
    PROVE  FlattenSeq([r \in 1 .. n |-> val[r - 1]]) = A
<1>1. PICK s : s = [r \in 1 .. n |-> val[r - 1]]
  OBVIOUS
<1>3. /\ o \in [0 .. n -> Nat] /\ o[0] = 0 /\ A \in [1 .. o[n] -> Int]
      /\ val \in [0 .. n - 1 -> Seq(Int)]
      /\ \A r \in 1 .. n : o[r] = o[r - 1] + Len(val[r - 1])
      /\ \A r \in 1 .. n : \A k \in 1 .. Len(val[r - 1]) : val[r - 1][k] = A[o[r - 1] + k]
  BY DEF Cut
<1>4. \A r \in 0 .. n : o[r] <= o[n]
  <2>1. ASSUME NEW r \in 1 .. n PROVE o[r - 1] <= o[r]
    <3>1. o[r - 1] \in Nat /\ Len(val[r - 1]) \in Nat
      BY <1>3
    <3>2. QED
      BY <1>3, <3>1
  <2>2. QED
    BY <1>3, <2>1, Grows
<1>5. PICK L \in Nat : L = o[n]
  BY <1>3
<1> DEFINE R == [r \in 1 .. n |-> [k \in 1 .. o[r] |-> A[k]]]
           G(h) == h = [r \in 1 .. n |-> IF r = 1 THEN s[r] ELSE h[r - 1] \o s[r]]
<1>6. R[1] = s[1] /\ R[n] = A
  <2>1. o[1] = Len(val[0]) /\ val[0] \in Seq(Int) /\ s[1] = val[0]
    <3>1. 1 \in 1 .. n /\ 1 - 1 = 0 /\ 0 \in 0 .. n - 1
      OBVIOUS
    <3>2. o[1] = o[0] + Len(val[0]) /\ val[0] \in Seq(Int)
      BY <1>3, <3>1
    <3>3. QED
      BY <1>1, <1>3, <3>1, <3>2
  <2>2. \A k \in 1 .. Len(val[0]) : val[0][k] = A[k]
    <3>1. 1 \in 1 .. n /\ 1 - 1 = 0
      OBVIOUS
    <3>2. \A k \in 1 .. Len(val[1 - 1]) : val[1 - 1][k] = A[o[1 - 1] + k]
      BY <1>3, <3>1
    <3>3. \A k \in 1 .. Len(val[0]) : val[0][k] = A[0 + k]
      BY <1>3, <3>1, <3>2
    <3>4. \A k \in 1 .. Len(val[0]) : 0 + k = k
      BY <2>1
    <3>5. QED
      BY <3>3, <3>4
  <2>3. R[1] = [k \in 1 .. Len(val[0]) |-> A[k]]
    <3>1. 1 \in 1 .. n
      OBVIOUS
    <3>2. R[1] = [k \in 1 .. o[1] |-> A[k]]
      BY <3>1
    <3>3. QED
      BY <2>1, <3>2
  <2>4. R[1] = s[1]
    <3>1. PICK v \in Seq(Int) : v = val[0]
      BY <2>1
    <3>2. v = [k \in 1 .. Len(v) |-> v[k]]
      OBVIOUS
    <3> HIDE DEF R
    <3>3. QED
      BY <2>1, <2>2, <2>3, <3>1, <3>2
  <2>5. R[n] = [k \in 1 .. o[n] |-> A[k]]
    OBVIOUS
  <2>6. QED
    BY <1>3, <2>4, <2>5
<1>7. ASSUME NEW r \in 2 .. n PROVE R[r] = R[r - 1] \o s[r]
  <2>1. PICK v \in Seq(Int), l \in Nat, a \in Nat, b \in Nat :
          /\ v = val[r - 1] /\ l = Len(v) /\ a = o[r - 1] /\ b = o[r] /\ b = a + l /\ b <= L
          /\ s[r] = v
    <3>1. /\ val[r - 1] \in Seq(Int) /\ o[r - 1] \in Nat /\ o[r] \in Nat /\ o[r] <= L
          /\ o[r] = o[r - 1] + Len(val[r - 1]) /\ s[r] = val[r - 1]
      BY <1>1, <1>3, <1>4, <1>5
    <3>2. Len(val[r - 1]) \in Nat
      BY <3>1
    <3>3. QED
      BY <3>1, <3>2
  <2>2. \A k \in 1 .. l : v[k] = A[a + k]
    <3>1. r \in 1 .. n
      OBVIOUS
    <3>2. \A k \in 1 .. Len(val[r - 1]) : val[r - 1][k] = A[o[r - 1] + k]
      BY <1>3, <3>1
    <3>3. QED
      BY <2>1, <3>2
  <2>3. PICK x, y : x = [k \in 1 .. a |-> A[k]] /\ y = [k \in 1 .. b |-> A[k]]
    OBVIOUS
  <2>4. R[r] = y /\ R[r - 1] = x
    <3>1. r \in 1 .. n /\ r - 1 \in 1 .. n
      OBVIOUS
    <3>2. R[r] = [k \in 1 .. o[r] |-> A[k]] /\ R[r - 1] = [k \in 1 .. o[r - 1] |-> A[k]]
      BY <3>1
    <3>3. QED
      BY <2>1, <2>3, <3>2
  <2>5. A \in [1 .. L -> Int]
    BY <1>3, <1>5
  <2>6. x \in Seq(Int) /\ Len(x) = a /\ \A k \in 1 .. a : x[k] = A[k]
    <3>1. \A k \in 1 .. a : A[k] \in Int
      <4>1. \A k \in 1 .. a : k \in 1 .. L
        BY <2>1
      <4>2. QED
        BY <2>5, <4>1
    <3>2. QED
      BY <2>3, <3>1
  <2>7. Heads(A, x \o v, b)
    <3>1. Continues(A, x, a, v, l)
      BY <2>1, <2>2, <2>6 DEF Continues
    <3>2. b = a + l
      BY <2>1
    <3>3. QED
      BY <3>1, <3>2, Extends, Zenon
  <2>8. x \o v = y
    <3>1. PICK z : z = x \o v
      OBVIOUS
    <3>2. z \in Seq(Int) /\ Len(z) = b /\ \A k \in 1 .. b : z[k] = A[k]
      BY <2>7, <3>1 DEF Heads
    <3>3. z = [k \in 1 .. b |-> z[k]]
      BY <3>2
    <3>4. QED
      BY <2>3, <3>1, <3>2, <3>3
  <2>9. QED
    BY <2>1, <2>4, <2>8
<1>8. G(R)
  <2>1. \A r \in 1 .. n : R[r] = IF r = 1 THEN s[r] ELSE R[r - 1] \o s[r]
    <3> HIDE DEF R
    <3>1. \A r \in 1 .. n : r = 1 \/ r \in 2 .. n
      OBVIOUS
    <3>2. QED
      BY <1>6, <1>7, <3>1
  <2>2. R = [r \in 1 .. n |-> R[r]]
    OBVIOUS
  <2> HIDE DEF R
  <2>3. QED
    BY <2>1, <2>2
<1>9. PICK g : g = (CHOOSE f : G(f))
  OBVIOUS
<1>10. G(g)
  <2> HIDE DEF G, R
  <2>1. QED
    BY <1>8, <1>9
<1>11. /\ g[1] = R[1]
       /\ \A r \in 2 .. n : g[r] = g[r - 1] \o s[r]
  <2>1. g = [r \in 1 .. n |-> IF r = 1 THEN s[r] ELSE g[r - 1] \o s[r]]
    BY <1>10
  <2> HIDE DEF R
  <2>2. 1 \in 1 .. n /\ \A r \in 2 .. n : r \in 1 .. n /\ r # 1
    OBVIOUS
  <2>3. QED
    BY <1>6, <2>1, <2>2
<1>12. g[n] = R[n]
  <2> DEFINE Right == { k \in 0 .. n - 1 : g[k + 1] = R[k + 1] }
  <2> HIDE DEF R
  <2>1. 0 \in Right
    BY <1>11
  <2>2. ASSUME NEW k \in 1 .. n - 1, k - 1 \in Right PROVE k \in Right
    <3>1. k + 1 \in 2 .. n /\ (k + 1) - 1 = k /\ (k - 1) + 1 = k /\ k \in 0 .. n - 1
      OBVIOUS
    <3>2. g[k] = R[k]
      BY <2>2, <3>1
    <3>3. g[k + 1] = g[k] \o s[k + 1] /\ R[k + 1] = R[k] \o s[k + 1]
      BY <1>7, <1>11, <3>1
    <3>4. QED
      BY <3>1, <3>2, <3>3
  <2>3. n - 1 \in Nat /\ n - 1 \in 0 .. n - 1 /\ (n - 1) + 1 = n
    OBVIOUS
  <2>4. \A k \in 0 .. n - 1 : k \in Right
    <3> HIDE DEF Right
    <3>1. QED
      BY <2>1, <2>2, <2>3, Upwards
  <2>5. n - 1 \in Right
    <3> HIDE DEF Right
    <3>1. QED
      BY <2>3, <2>4
  <2>6. QED
    BY <2>3, <2>5
<1>13. FlattenSeq(s) = (CHOOSE f : G(f))[n]
  <2>1. Len(s) = n
    BY <1>1
  <2>2. QED
    BY <2>1 DEF FlattenSeq
<1>14. QED
  BY <1>1, <1>6, <1>9, <1>12, <1>13
=============================================================================
