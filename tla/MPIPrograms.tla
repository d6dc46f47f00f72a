---------------------------- MODULE MPIPrograms ----------------------------
(***************************************************************************)
(* The MPI programs in C, one definition per program: the instructions of  *)
(* process id of n, whose memory is m.  given says whether the program was *)
(* started with the input it may take (data.txt, or an argument).          *)
(* Output lines appear only where the program separates its output into    *)
(* phases; elsewhere what is output is kept in "out".                      *)
(***************************************************************************)
EXTENDS MPI, Partition, FiniteSets

REPS   == 8
ANSWER == 42

Odd(k) == k % 2 = 1
Divides(n, k) == k % n = 0 /\ n <= k

(* Mutant of Fill: the loop runs while i <= size.                          *)
FillBeyond(size) == [k \in 1 .. size + 1 |-> k + 10]

Fill(size) == [k \in 1 .. size |-> k + 10]

(* x *= 2 for every x of a chunk.                                          *)
Doubled(chunk) == [k \in 1 .. Len(chunk) |-> 2 * chunk[k]]

Ascending(S) ==
  [k \in 1 .. Cardinality(S) |-> CHOOSE i \in S : Cardinality({ j \in S : j < i }) = k - 1]

(* The iterations a process performs, each printed as it is.               *)
Iterations(S) == << Compute("out", Ascending(S)) >>

(* Mutant of PrintSeparator: the first barrier is missing.                 *)
SeparatorNoBarrier(id, phase) ==
  (IF id = MASTER THEN << SeparatorLine(phase) >> ELSE <<>>) \o << Barrier >>

(* Mutant of PrintSeparator: the second barrier is inside the if.           *)
SeparatorBarrierInIf(id, phase) ==
  << Barrier >> \o (IF id = MASTER THEN << SeparatorLine(phase), Barrier >> ELSE <<>>)

PrintSeparator(id, phase) ==
  << Barrier >> \o (IF id = MASTER THEN << SeparatorLine(phase) >> ELSE <<>>) \o << Barrier >>

(* What rank r gets of an array scattered in n equal pieces, and where the *)
(* pieces go.                                                              *)
EqualPieces(array, size, n) == [r \in 1 .. n |-> Piece(array, size, (r - 1) * size)]
EqualOffsets(size, n)       == [r \in 1 .. n |-> (r - 1) * size]

(* The same for chunks that differ by at most one.                         *)
Chunks(array, n) ==
  [r \in 1 .. n |-> Piece(array, ChunkSize(r - 1, n, ARRAY_SIZE), ChunkStart(r - 1, n, ARRAY_SIZE))]
ChunkOffsets(n)  == [r \in 1 .. n |-> ChunkStart(r - 1, n, ARRAY_SIZE)]
-----------------------------------------------------------------------------
spmd(id, n) == << Compute("out", << id, n >>) >>

masterWorker(id, n) ==
  << Compute("out", IF id = 0 THEN << MASTER, id, n >> ELSE << 1, id, n >>) >>

parallelLoopEqualChunks(id, n) ==
  IF Divides(n, REPS) THEN Iterations(EqualChunk(id, n, REPS)) ELSE <<>>

parallelLoopSlices(id, n) == IF n > REPS THEN <<>> ELSE Iterations(Slice(id, n, REPS))

parallelLoopChunks(id, n) == IF n > REPS THEN <<>> ELSE Iterations(Chunk(id, n, REPS))

(* getChunkStartStopValues() finalizes and exits when n > REPS.            *)
parallelLoopChunks2(id, n) == IF n > REPS THEN <<>> ELSE Iterations(Chunk(id, n, REPS))

(* Neighbours exchange a value: the right one sends with tag 1, the left   *)
(* one with tag 2, and each receives what the other sends.                 *)
SendThenRecv(val, peer, sendTag, recvTag) ==
  << Send(val, peer, sendTag), Recv("part", peer, recvTag) >>
RecvThenSend(val, peer, sendTag, recvTag) ==
  << Recv("part", peer, recvTag), Send(val, peer, sendTag) >>

(* Mutant of messagePassingDeadlock: the right neighbour sends first.      *)
messagePassingOddFirst(id, n) ==
  IF n <= 1 THEN <<>>
  ELSE IF Odd(id) THEN SendThenRecv(<< id >>, id - 1, 1, 2)
                  ELSE RecvThenSend(<< id >>, id + 1, 2, 1)

(* Both receive first.  Nothing checks that n is even.                     *)
messagePassingDeadlock(id, n) ==
  IF n <= 1 THEN <<>>
  ELSE IF Odd(id) THEN RecvThenSend(<< id >>, id - 1, 1, 2)
                  ELSE RecvThenSend(<< id >>, id + 1, 2, 1)

(* Mutant of messagePassing: the tags of the right neighbour are swapped.  *)
messagePassingSwappedTags(id, n) ==
  IF n <= 1 THEN <<>>
  ELSE IF Odd(id) THEN SendThenRecv(<< id >>, id - 1, 2, 1)
                  ELSE RecvThenSend(<< id >>, id + 1, 2, 1)

messagePassing(id, n) ==
  IF n <= 1 THEN <<>>
  ELSE IF Odd(id) THEN SendThenRecv(<< id >>, id - 1, 1, 2)
                  ELSE RecvThenSend(<< id >>, id + 1, 2, 1)

messagePassing2(id, n) ==
  IF n <= 1 \/ Odd(n) THEN <<>>
  ELSE IF Odd(id) THEN SendThenRecv(<< id >>, id - 1, 1, 2)
                  ELSE RecvThenSend(<< id >>, id + 1, 2, 1)

(* The ring: workers receive from anyone, append their id and pass it on.  *)
messagePassing3(id, n, m) ==
  IF n <= 1 THEN <<>>
  ELSE IF id = MASTER THEN << Send(<< id >>, id + 1, 1), Recv("part", n - 1, 1) >>
       ELSE << Recv("part", AnySource, 1), Send(Append(m.part, id), (id + 1) % n, 1) >>
-----------------------------------------------------------------------------
(* The master asserts that data.txt could be opened.                       *)
broadcast(id, given) ==
  (IF id = MASTER /\ ~given THEN << Abort >> ELSE <<>>)
  \o << Bcast("buf", << IF id = MASTER THEN ANSWER ELSE 0 >>) >>

(* Without an argument the answer remains 0.                               *)
broadcastUserInput(id, given) ==
  << Bcast("buf", << IF id = MASTER /\ given THEN ANSWER ELSE 0 >>) >>

broadcastSendReceive(id, n) ==
  IF id = MASTER
    THEN << Compute("buf", Fill(ARRAY_SIZE)) >>
         \o [r \in 1 .. n - 1 |-> Send(Fill(ARRAY_SIZE), r, 1)]
    ELSE << Recv("buf", MASTER, 1) >>

broadcast2(id) == << Bcast("buf", IF id = MASTER THEN Fill(ARRAY_SIZE) ELSE Zeros(ARRAY_SIZE)) >>

reduction(id) ==
  LET square == << (id + 1) * (id + 1) >>
  IN  << ReduceSum(square, "buf"), ReduceMax(square, "all") >>

reduction2(id) ==
  LET srcArr == [i \in 1 .. 5 |-> id * (i - 1)]
  IN  (IF id = MASTER THEN << Line(0) >> ELSE <<>>)
      \o PrintSeparator(id, 1) \o << Line(1) >> \o PrintSeparator(id, 2)
      \o << ReduceSum(srcArr, "all") >>
      \o (IF id = MASTER THEN << Line(2) >> ELSE <<>>)

(* MAX / n values each: the rest is sent to nobody when n does not divide. *)
scatter(id, n) ==
  LET arrSend == [i \in 1 .. 8 |-> i * 11]
  IN  << Scatter(EqualPieces(arrSend, 8 \div n, n), "part") >>

gather(id, n) ==
  << Gather([i \in 1 .. 3 |-> id * 10 + (i - 1)], EqualOffsets(3, n), "all") >>

(* One round of messages: everyone to the master.                          *)
sendReceivePrint(id, n, round, sendTag, recvTag) ==
  IF id # MASTER THEN << Send(<< id, round >>, MASTER, sendTag) >>
                 ELSE [i \in 1 .. n - 1 |-> Recv("out", AnySource, recvTag)]

barrier(id, n) ==
  sendReceivePrint(id, n, 1, 0, AnyTag) \o sendReceivePrint(id, n, 2, 0, AnyTag)

sequenceNumbers(id, n) ==
  sendReceivePrint(id, n, 1, 1, 1) \o sendReceivePrint(id, n, 2, 1, 1)

(* sleep() takes whole seconds: only the last process sleeps at all.       *)
barrierTiming(id, n) == << Compute("buf", << (id + 1) \div n >>) >>

reduceTiming(id, n) ==
  << Barrier, ReduceMax(<< (id + 1) \div n >>, "all") >>
-----------------------------------------------------------------------------
broadcastLoopGather(id, n, m) ==
  LET size == ARRAY_SIZE \div n
  IN  IF ~Divides(n, ARRAY_SIZE) THEN <<>>
      ELSE << Bcast("buf", IF id = MASTER THEN Fill(ARRAY_SIZE) ELSE Zeros(ARRAY_SIZE)),
              Compute("part", Doubled(Piece(m.buf, size, id * size))),
              Barrier,
              Gather(m.part, EqualOffsets(size, n), "all") >>

scatterLoopGather(id, n, m) ==
  LET size == ARRAY_SIZE \div n
  IN  PrintSeparator(id, 1) \o
      (IF ~Divides(n, ARRAY_SIZE) THEN <<>>
       ELSE << Line(1),
               Scatter(EqualPieces(Fill(ARRAY_SIZE), size, n), "part"),
               Compute("part", Doubled(m.part)),
               Gather(m.part, EqualOffsets(size, n), "all"),
               Line(1) >> \o PrintSeparator(id, 2))

scatterVGatherV(id, n, m) ==
  PrintSeparator(id, 1) \o
  (IF n > ARRAY_SIZE THEN <<>>
   ELSE << Line(1),
           Scatter(Chunks(Fill(ARRAY_SIZE), n), "part"),
           Compute("part", Doubled(m.part)),
           Gather(m.part, ChunkOffsets(n), "all"),
           Line(1) >> \o PrintSeparator(id, 2))
-----------------------------------------------------------------------------
(* The task queue.  A message is a task, and the result of a task is the   *)
(* task; doneTag tells a worker to stop.                                   *)
WORK_TAG == 0
DONE_TAG == 1
NumTasks(n) == (n - 1) * 4

(* Mutant of HandOut: the next task is the one handed out last.            *)
HandOutStale(n, m, workTag, recvTag, doneTag) ==
  [w \in 1 .. n - 1 |-> Send(<< w >>, w, workTag)]
  \o [k \in 1 .. 2 * (NumTasks(n) - (n - 1)) |->
        IF Odd(k) THEN Recv("out", AnySource, recvTag)
                  ELSE Send(<< k \div 2 + n - 2 >>, m.src, workTag)]
  \o [w \in 1 .. n - 1 |-> Recv("out", AnySource, recvTag)]
  \o [w \in 1 .. n - 1 |-> Send(<< 0 >>, w, doneTag)]

(* An initial task for every worker; then a new one for whoever answers;   *)
(* then the outstanding answers; then everyone is told to stop.            *)
HandOut(n, m, workTag, recvTag, doneTag) ==
  [w \in 1 .. n - 1 |-> Send(<< w >>, w, workTag)]
  \o [k \in 1 .. 2 * (NumTasks(n) - (n - 1)) |->
        IF Odd(k) THEN Recv("out", AnySource, recvTag)
                  ELSE Send(<< k \div 2 + n - 1 >>, m.src, workTag)]
  \o [w \in 1 .. n - 1 |-> Recv("out", AnySource, recvTag)]
  \o [w \in 1 .. n - 1 |-> Send(<< 0 >>, w, doneTag)]

(* A worker answers tasks until it is told to stop.                        *)
Serve(m, replyTag, doneTag) ==
  << Recv("part", MASTER, AnyTag) >>
  \o (IF m.tag # doneTag THEN << Send(m.part, MASTER, replyTag), Goto(1) >> ELSE <<>>)

handOutTasks(n, m) == HandOut(n, m, WORK_TAG, WORK_TAG, DONE_TAG)

performWork(m) == Serve(m, WORK_TAG, DONE_TAG)

taskQueue(id, n, m) == IF id = MASTER THEN handOutTasks(n, m) ELSE performWork(m)
=============================================================================
