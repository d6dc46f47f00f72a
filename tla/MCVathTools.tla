---------------------------- MODULE MCVathTools ----------------------------
(* TLC's instance of VathTools: two or three threads for each tool.        *)
EXTENDS VathTools

CONSTANTS t1, t2, t3, i1, i2

TwoThreads   == {t1, t2}
ThreeThreads == {t1, t2, t3}
TwoItems     == {i1, i2}
FourCells    == 1 .. 4
OneAndTen    == [t \in {t1, t2} |-> IF t = t1 THEN 1 ELSE 10]
=============================================================================
