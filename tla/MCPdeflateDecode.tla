---------------------------- MODULE MCPdeflateDecode ----------------------------
(* Instances of PdeflateDecode for TLC.                                        *)
EXTENDS PdeflateDecode, FiniteSetsExt

CONSTANTS w1, w2, g1

\* A chunk decodes to two units, the second one to a single unit: too small for
\* the GPU where the minimum is two, which goes on to the chunks after it.
LengthOf(c) == IF c = 1 THEN 1 ELSE 2
MCDecodedBytes == [S \in SUBSET Chunks |-> MapThenSumSet(LengthOf, S)]

TwoWorkers == {w1, w2}
OneWorker  == {w1}
OneGpu     == {g1}

WellFormed == {c \in Chunks : c + 1 = NumChunks}

\* One queue and any stream, well-formed or not; a queue for each kind of worker
\* with a reader and decoders that fail; and everything that may fail at once.
AnyStream == [policy : {"GlobalQueue"}, final : SUBSET Chunks, faults : {{}}]
Failing   == [policy : {"GpuLedSplitQueue"}, final : {WellFormed},
              faults : {{"read", "decode", "gpu"}}]
Hopeless  == [policy : {"GlobalQueue"}, final : {WellFormed, {}},
              faults : {{"read", "decode", "gpu", "fallback", "write"}}]

AllCalls     == AnyStream \union Failing \union Hopeless
HandedBack   == [policy : {"GlobalQueue"}, final : {WellFormed}, faults : {{"fallback"}}]
================================================================================
