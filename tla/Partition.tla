----------------------------- MODULE Partition -----------------------------
(***************************************************************************)
(* How the parallel loops of the repository divide the iterations 0..N-1   *)
(* among P threads or processes: equal chunks, slices (chunks of one), and *)
(* chunks that differ by at most one.  Ranges are half open, [start, stop).*)
(***************************************************************************)
EXTENDS Integers

Range0(start, stop) == start .. stop - 1

(* Equal chunks: the programs check beforehand that P divides N.           *)
EqualChunk(id, P, N) ==
  LET chunkSize == N \div P
      start     == id * chunkSize
  IN  Range0(start, start + chunkSize)

(* Slices: i = id; i < N; i += P.                                          *)
Slice(id, P, N) == { i \in 0 .. N - 1 : i >= id /\ (i - id) % P = 0 }

(* getChunkStartStopValues(): the first N % P get the larger chunk.        *)
CeilDiv(N, P) == IF N % P = 0 THEN N \div P ELSE (N \div P) + 1

ChunkSize(id, P, N) ==
  LET remainder == N % P
  IN  IF remainder > 0 /\ id >= remainder THEN CeilDiv(N, P) - 1 ELSE CeilDiv(N, P)

(* Mutant of ChunkStart: the offset forgets the larger chunks before it.   *)
MutChunkStart(id, P, N) == id * ChunkSize(id, P, N)

ChunkStart(id, P, N) ==
  LET remainder  == N % P
      chunkSize1 == CeilDiv(N, P)
      chunkSize2 == chunkSize1 - 1
  IN  IF remainder > 0 /\ id >= remainder
        THEN remainder * chunkSize1 + (id - remainder) * chunkSize2
        ELSE id * chunkSize1

Chunk(id, P, N) ==
  Range0(ChunkStart(id, P, N), ChunkStart(id, P, N) + ChunkSize(id, P, N))
=============================================================================
