----------------------------- MODULE MPIPython -----------------------------
(***************************************************************************)
(* The mpi4py programs, one definition per program; the parameters are     *)
(* those of MPIPrograms.  Values are Python objects: a receive without a   *)
(* tag takes any, a send without one uses 0, and a reduction applies       *)
(* Python's own + and comparison.                                          *)
(***************************************************************************)
EXTENDS MPIPrograms

PySpmd(id, n)         == spmd(id, n)
PyMasterWorker(id, n) == masterWorker(id, n)
PyParallelLoopEqualChunks(id, n) == parallelLoopEqualChunks(id, n)
PyParallelLoopChunksOf1(id, n)   == parallelLoopSlices(id, n)

PyMessagePassingDeadlock(id, n) ==
  IF n <= 1 \/ Odd(n) THEN <<>>
  ELSE RecvThenSend(<< id >>, IF Odd(id) THEN id - 1 ELSE id + 1, 0, AnyTag)

PyMessagePassing(id, n) ==
  IF n <= 1 \/ Odd(n) THEN <<>>
  ELSE IF Odd(id) THEN SendThenRecv(<< id >>, id - 1, 0, AnyTag)
                  ELSE RecvThenSend(<< id >>, id + 1, 0, AnyTag)

PyMessagePassing2(id, n) ==
  LET sendList == [k \in 1 .. 8 |-> id + (k - 1)]
  IN  IF n <= 1 \/ Odd(n) THEN <<>>
      ELSE IF Odd(id) THEN SendThenRecv(sendList, id - 1, 0, AnyTag)
                      ELSE RecvThenSend(sendList, id + 1, 0, AnyTag)

PyMessagePassing3(id, n, m) ==
  IF n <= 1 THEN <<>>
  ELSE IF id = MASTER THEN << Send(<< id >>, id + 1, 0), Recv("part", n - 1, AnyTag) >>
       ELSE << Recv("part", id - 1, AnyTag), Send(Append(m.part, id), (id + 1) % n, 0) >>
-----------------------------------------------------------------------------
(* A dictionary with three entries, and an empty one.                      *)
PyBroadcast(id, n) ==
  IF n <= 1 THEN <<>> ELSE << Bcast("buf", IF id = MASTER THEN << 1, 2, 3 >> ELSE <<>>) >>

(* Without an argument every process exits.                                *)
PyBroadcastUserInput(id, n, given) ==
  IF n <= 1 \/ ~given THEN <<>>
  ELSE << Bcast("buf", << IF id = MASTER THEN ANSWER ELSE 0 >>) >>

PyBroadcastSendReceive(id, n) ==
  IF n <= 1 THEN <<>>
  ELSE IF id = MASTER THEN << Compute("buf", << 1, 2, 3 >>) >>
                           \o [r \in 1 .. n - 1 |-> Send(<< 1, 2, 3 >>, r, 0)]
                      ELSE << Recv("buf", MASTER, AnyTag) >>

PyBroadcastList(id, n) ==
  IF n <= 1 THEN <<>>
  ELSE << Bcast("buf", IF id = MASTER THEN [k \in 1 .. n |-> k - 1] ELSE <<>>) >>

PyReduction(id, n) ==
  LET square == << (id + 1) * (id + 1) >>
  IN  IF n > 1 THEN << ReduceSum(square, "buf"), ReduceMax(square, "all") >>
               ELSE << Compute("buf", square), Compute("all", square) >>

(* The larger of two lists is the lexicographically larger, which for      *)
(* these is also the larger in every element; the sum of two lists is      *)
(* their concatenation, in rank order.                                     *)
PyReductionList(id, n) ==
  LET srcList == [k \in 1 .. 5 |-> k * id]
  IN  << ReduceMax(srcList, "all"), Gather(srcList, EqualOffsets(5, n), "buf") >>

PyScatter(n) == << Scatter([r \in 1 .. n |-> [j \in 1 .. 3 |-> r * j]], "part") >>

PyGather(id, n) == << Gather([j \in 1 .. 3 |-> (id * 10) * j], EqualOffsets(3, n), "all") >>

PyScatterGather(n, m) ==
  LET data == [k \in 1 .. 3 * n |-> k]
  IN  << Scatter(EqualPieces(data, 3, n), "part"),
         Gather([k \in 1 .. Len(m.part) |-> 10 * m.part[k]], EqualOffsets(3, n), "all") >>

(* The task queue: the master takes an answer with any tag.                *)
PyWORKTAG == 1
PyDIETAG  == 2
PyHandOutWork(n, m) == HandOut(n, m, PyWORKTAG, AnyTag, PyDIETAG)
PyWorker(m)         == Serve(m, 0, PyDIETAG)
PyDynamicLoadBalance(id, n, m) == IF id = MASTER THEN PyHandOutWork(n, m) ELSE PyWorker(m)
=============================================================================
