--------------------------- MODULE MCDeflateCompress ---------------------------
(* Instances of DeflateCompress for TLC.  A chunk's lengths are given one by   *)
(* one, and summed to the measures the specification is written with.          *)
EXTENDS DeflateCompress, FiniteSetsExt

CONSTANTS w1, w2, g1

Sums(len(_)) == [S \in SUBSET Chunks |-> MapThenSumSet(len, S)]

\* A chunk is two units long, the last one a single unit.
RawLength(c) == IF c = NumChunks - 1 THEN 1 ELSE 2
MCRawBytes == Sums(RawLength)

\* Chunks that compress well: half the raw length, rounded up.
HalfLength(c) == 1
HalfBytes == Sums(HalfLength)

\* Chunks that do not compress at all: stored, each with a header.
StoredLength(c) == RawLength(c) + 1
MCStoredBytes == Sums(StoredLength)

TwoWorkers == {w1, w2}
OneWorker  == {w1}
OneGpu     == {g1}
================================================================================
