------------------------------ MODULE MPIJava ------------------------------
(***************************************************************************)
(* The MPI programs in Java (Open MPI's Java binding), one definition per  *)
(* program; the parameters are those of MPIPrograms.  Where a Java program *)
(* performs the instructions of the program in C, it is defined as that.   *)
(* They separate their output into phases more often than the programs in  *)
(* C, and most check the number of processes first and exit.               *)
(***************************************************************************)
EXTENDS MPIPrograms

OnlyMaster(id, i) == IF id = MASTER THEN << i >> ELSE <<>>
-----------------------------------------------------------------------------
JavaSpmd(id, n)         == spmd(id, n)
JavaMasterWorker(id, n) == masterWorker(id, n)
JavaParallelLoopEqualChunks(id, n)  == parallelLoopEqualChunks(id, n)
JavaParallelLoopChunksOf1(id, n)    == parallelLoopSlices(id, n)
JavaParallelLoopAdvanced(id, n)     == parallelLoopChunks(id, n)

JavaMessagePassingDeadlock(id, n) ==
  IF n <= 1 \/ Odd(n) THEN <<>>
  ELSE RecvThenSend(<< id >>, IF Odd(id) THEN id - 1 ELSE id + 1, 0, 0)

JavaMessagePassing(id, n) ==
  IF n <= 1 \/ Odd(n) THEN <<>>
  ELSE IF Odd(id) THEN SendThenRecv(<< id >>, id - 1, 0, 0)
                  ELSE RecvThenSend(<< id >>, id + 1, 0, 0)

JavaMessagePassing2(id, n) ==
  IF n <= 1 \/ Odd(n) THEN <<>>
  ELSE IF Odd(id) THEN SendThenRecv(<< id >>, id - 1, 0, 0)
                  ELSE RecvThenSend(<< id >>, id + 1, 0, 0)

(* The ring, each process receiving from its predecessor.                  *)
JavaMessagePassing3(id, n, m) ==
  IF n <= 1 THEN <<>>
  ELSE IF id = MASTER THEN << Send(<< id >>, id + 1, 0), Recv("part", n - 1, 0) >>
       ELSE << Recv("part", id - 1, 0), Send(Append(m.part, id), (id + 1) % n, 0) >>
-----------------------------------------------------------------------------
(* A master that cannot read data.txt finalizes and exits by itself.       *)
JavaBroadcast(id, given) ==
  IF id = MASTER /\ ~given THEN <<>>
  ELSE << Line(0) >> \o PrintSeparator(id, 1)
       \o << Bcast("buf", << IF id = MASTER THEN ANSWER ELSE 0 >>), Line(1) >>

JavaBroadcastUserInput(id, given) ==
  << Line(0), Bcast("buf", << IF id = MASTER /\ given THEN ANSWER ELSE 0 >>) >>
  \o PrintSeparator(id, 1) \o << Line(1) >>

JavaSendReceivePseudoBroadcast(id, n) ==
  (IF id = MASTER
     THEN << Compute("buf", Fill(ARRAY_SIZE)), Line(0) >>
          \o [r \in 1 .. n - 1 |-> Send(Fill(ARRAY_SIZE), r, 0)]
     ELSE << Line(0), Recv("buf", MASTER, 0) >>)
  \o PrintSeparator(id, 1) \o << Line(1) >>

JavaBroadcast2(id) ==
  << Line(0) >> \o PrintSeparator(id, 1)
  \o << Bcast("buf", IF id = MASTER THEN Fill(ARRAY_SIZE) ELSE Zeros(ARRAY_SIZE)), Line(1) >>

JavaReduction(id)  == reduction(id)
JavaReduction2(id) == reduction2(id)

JavaScatter(id, n) ==
  LET sendBuf == [i \in 1 .. 8 |-> i * 11]
  IN  IF n > 8 THEN <<>>
      ELSE OnlyMaster(id, Line(0)) \o << Barrier, Line(0) >> \o PrintSeparator(id, 1)
           \o << Scatter(EqualPieces(sendBuf, 8 \div n, n), "part") >>
           \o OnlyMaster(id, Line(1)) \o << Barrier, Line(1), Barrier >>
           \o OnlyMaster(id, Line(1))

JavaGather(id, n) ==
  OnlyMaster(id, Line(0)) \o << Barrier, Line(0), Barrier >> \o PrintSeparator(id, 1)
  \o << Gather([i \in 1 .. 3 |-> id * 10 + (i - 1)], EqualOffsets(3, n), "all") >>
  \o OnlyMaster(id, Line(1))

(* One round of messages: everyone to the master.                          *)
JavaBarrier(id, n)         == barrier(id, n)
JavaSequenceNumbers(id, n) == sequenceNumbers(id, n)

JavaBarrierPlusTiming(id, n) == << Compute("buf", << ((id + 1) * 1000) \div n >>) >>

(* Between the barriers everyone waits for the slowest, who sleeps 1000 ms. *)
JavaReducePlusTiming == << Barrier, Barrier, ReduceSum(<< 1000 >>, "all") >>
-----------------------------------------------------------------------------
JavaBroadcastLoopGather(id, n, m) ==
  LET size == ARRAY_SIZE \div n
  IN  IF ~Divides(n, ARRAY_SIZE) THEN <<>>
      ELSE << Line(0),
              Bcast("buf", IF id = MASTER THEN Fill(ARRAY_SIZE) ELSE Zeros(ARRAY_SIZE)) >>
           \o PrintSeparator(id, 1)
           \o << Line(1), Compute("part", Doubled(Piece(m.buf, size, id * size))) >>
           \o PrintSeparator(id, 2)
           \o << Line(2), Gather(m.part, EqualOffsets(size, n), "all") >>
           \o PrintSeparator(id, 3) \o << Line(3) >>

JavaScatterLoopGather(id, n, m) ==
  LET size == ARRAY_SIZE \div n
  IN  IF ~Divides(n, ARRAY_SIZE) THEN <<>>
      ELSE << Line(0), Scatter(EqualPieces(Fill(ARRAY_SIZE), size, n), "part") >>
           \o PrintSeparator(id, 1) \o << Line(1), Compute("part", Doubled(m.part)) >>
           \o PrintSeparator(id, 2)
           \o << Line(2), Gather(m.part, EqualOffsets(size, n), "all") >>
           \o PrintSeparator(id, 3) \o << Line(3) >>

JavaScatterVGatherV(id, n, m) ==
  IF n > ARRAY_SIZE THEN <<>>
  ELSE << Line(0), Scatter(Chunks(Fill(ARRAY_SIZE), n), "part") >>
       \o PrintSeparator(id, 1) \o << Line(1), Compute("part", Doubled(m.part)) >>
       \o PrintSeparator(id, 2)
       \o << Line(2), Gather(m.part, ChunkOffsets(n), "all") >>
       \o PrintSeparator(id, 3) \o << Line(3) >>

(* The task queue.                                                         *)
WORKTAG == 1
DIETAG  == 2
JavaHandOutWork(n, m) == HandOut(n, m, WORKTAG, WORKTAG, DIETAG)

JavaWorker(m) == Serve(m, WORKTAG, DIETAG)
JavaDynamicLoadBalance(id, n, m) == IF id = MASTER THEN JavaHandOutWork(n, m) ELSE JavaWorker(m)
-----------------------------------------------------------------------------
(* The versions with Java arrays in place of direct buffers.               *)
ArrayMessagePassingDeadlock(id, n) == JavaMessagePassingDeadlock(id, n)
ArrayMessagePassing(id, n)         == JavaMessagePassing(id, n)
ArrayMessagePassing2(id, n)        == JavaMessagePassing2(id, n)
ArrayMessagePassing3(id, n, m)     == JavaMessagePassing3(id, n, m)

(* The ring that allocates what it will receive: id values, or n.          *)
ArrayMessagePassing3alt(id, n, m) ==
  LET size == IF id = MASTER THEN n ELSE id
      got  == [k \in 1 .. size |-> IF k <= Len(m.part) THEN m.part[k] ELSE 0]
  IN  IF n <= 1 THEN <<>>
      ELSE IF id = MASTER THEN << Send(<< id >>, id + 1, 0), Recv("part", n - 1, 0) >>
           ELSE << Recv("part", id - 1, 0), Send(Append(got, id), (id + 1) % n, 0) >>

(* Here no barrier separates the lines before from the lines after.        *)
ArrayBroadcast(id, given) ==
  IF id = MASTER /\ ~given THEN <<>>
  ELSE << Line(0) >> \o OnlyMaster(id, SeparatorLine(1))
       \o << Bcast("buf", << IF id = MASTER THEN ANSWER ELSE 0 >>), Line(1) >>

ArrayBroadcast2(id) == JavaBroadcast2(id)
=============================================================================
