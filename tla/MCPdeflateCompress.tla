--------------------------- MODULE MCPdeflateCompress ---------------------------
(* Instances of PdeflateCompress for TLC.                                      *)
EXTENDS PdeflateCompress, FiniteSetsExt

CONSTANTS w1, w2, g1

\* A chunk is two units long, the last one a single unit.
RawLength(c) == IF c = NumChunks - 1 THEN 1 ELSE 2
MCRawBytes == [S \in SUBSET Chunks |-> MapThenSumSet(RawLength, S)]

TwoWorkers == {w1, w2}
OneWorker  == {w1}
OneGpu     == {g1}
================================================================================
