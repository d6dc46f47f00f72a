-------------------------------- MODULE MPI --------------------------------
(***************************************************************************)
(* The instructions the message-passing programs of the repository are     *)
(* made of.  A program is an operator that gives, for a rank, the sequence *)
(* of its instructions; the values in them may depend on the memory of the *)
(* process, so the sequence is evaluated afresh before every step.  The    *)
(* library itself (Open MPI, its Java binding, mpi4py) is not part of the  *)
(* repository: these operators say what the programs rely on.              *)
(***************************************************************************)
EXTENDS Integers, Sequences, SequencesExt

AnySource == -1
AnyTag    == -1
MASTER    == 0

(* The memory of a process: the array it works on (int array[8] = {0}, or  *)
(* the value broadcast), the piece of it the process was given or the      *)
(* message it received, the array collected at the root, the results it    *)
(* has output so far, and the MPI_Status of its last receive.              *)
ARRAY_SIZE == 8
Zeros(size) == [k \in 1 .. size |-> 0]
Blank == [buf |-> Zeros(ARRAY_SIZE), part |-> <<>>, all |-> <<>>, out |-> <<>>,
          src |-> AnySource, tag |-> AnyTag]

(* Local instructions.  A separator is a line too, kept apart so that the  *)
(* order of a program's output phases can be stated.                       *)
Compute(var, val) == [op |-> "compute", var |-> var, val |-> val]
Line(phase)       == [op |-> "print", sep |-> FALSE, phase |-> phase]
SeparatorLine(phase) == [op |-> "print", sep |-> TRUE, phase |-> phase]
Goto(k)           == [op |-> "goto", to |-> k]
Abort             == [op |-> "abort"]

(* Point-to-point messages.  Receiving into "out" appends: the message is  *)
(* output or counted and its buffer reused.                                *)
Send(val, to, tag)   == [op |-> "send", val |-> val, to |-> to, tag |-> tag]
Recv(var, from, tag) == [op |-> "recv", var |-> var, from |-> from, tag |-> tag]

(* Collective operations, all rooted at the master as in every program.    *)
(* val is what the caller contributes, var where its result goes.          *)
Barrier           == [op |-> "barrier", val |-> <<>>, var |-> "none"]
Bcast(var, val)   == [op |-> "bcast", val |-> val, var |-> var]
ReduceSum(val, var) == [op |-> "sum", val |-> val, var |-> var]
ReduceMax(val, var) == [op |-> "max", val |-> val, var |-> var]
Scatter(parts, var) == [op |-> "scatter", val |-> parts, var |-> var]
Gather(val, offsets, var) ==
  [op |-> "gather", val |-> val, var |-> var, offsets |-> offsets]

Collectives == {"barrier", "bcast", "sum", "max", "scatter", "gather"}

(* Who must have entered a collective before rank p of n may leave it: the *)
(* root of a broadcast or scatter need not wait for anyone, the others     *)
(* wait for the root; a reduction or gather is the reverse.                *)
Awaited(i, p, n) ==
  CASE i.op = "barrier"             -> 0 .. n - 1
    [] i.op \in {"bcast", "scatter"} -> {MASTER}
    [] OTHER                        -> IF p = MASTER THEN 0 .. n - 1 ELSE {p}

(* count values of an array from an offset (0-based) on.                   *)
Piece(array, count, offset) == [k \in 1 .. count |-> array[offset + k]]

(* array with the values of piece written from offset on.                  *)
Overwrite(array, piece, offset) ==
  [k \in 1 .. Len(array) |->
     IF k - offset \in 1 .. Len(piece) THEN piece[k - offset] ELSE array[k]]

PlusAll(vals)  == FoldLeft(LAMBDA a, b : [k \in 1 .. Len(a) |-> a[k] + b[k]],
                           Head(vals), Tail(vals))
MaxOfAll(vals) == FoldLeft(LAMBDA a, b : [k \in 1 .. Len(a) |->
                                            IF a[k] >= b[k] THEN a[k] ELSE b[k]],
                           Head(vals), Tail(vals))

(* The memory m of rank p when it leaves collective i, given the           *)
(* contributions of the ranks it waited for.                               *)
Received(i, p, n, m, val) ==
  CASE i.op = "bcast"   -> [m EXCEPT ![i.var] = val[MASTER]]
    [] i.op = "scatter" -> [m EXCEPT ![i.var] = val[MASTER][p + 1]]
    [] i.op = "sum" /\ p = MASTER ->
         [m EXCEPT ![i.var] = PlusAll([k \in 1 .. n |-> val[k - 1]])]
    [] i.op = "max" /\ p = MASTER ->
         [m EXCEPT ![i.var] = MaxOfAll([k \in 1 .. n |-> val[k - 1]])]
    [] i.op = "gather" /\ p = MASTER ->
         [m EXCEPT ![i.var] =
            FoldLeft(LAMBDA a, r : Overwrite(a, val[r - 1], i.offsets[r]),
                     Zeros(FoldLeft(LAMBDA a, r : a + Len(val[r - 1]), 0, [k \in 1 .. n |-> k])),
                     [k \in 1 .. n |-> k])]
    [] OTHER -> m
=============================================================================
