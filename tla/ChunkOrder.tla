-------------------------------- MODULE ChunkOrder --------------------------------
(* The order of chunks in what is asked of the device and in what it answers.  An *)
(* answer is a record that has the number of its chunk in the field chunk.        *)
EXTENDS Integers, Sequences, FiniteSets

\* The elements of a sequence at the positions in I, in their order: what a loop pushes
\* that looks at one element after the other.
Picked(seq, I) ==
    [k \in 1 .. Cardinality(I) |-> seq[CHOOSE i \in I : Cardinality({j \in I : j <= i}) = k]]

\* sort_by_key(|r| r.chunk_index), which is stable: where an answer goes, and the result.
PlaceOf(answers, i) ==
    Cardinality({j \in DOMAIN answers :
                    \/ answers[j].chunk < answers[i].chunk
                    \/ answers[j].chunk = answers[i].chunk /\ j <= i})
ByChunk(answers) ==
    [k \in DOMAIN answers |-> answers[CHOOSE i \in DOMAIN answers : PlaceOf(answers, i) = k]]

\* Jobs with the numbers of their chunks in increasing order, as they come from a queue.
Increasing(jobs) == \A i, k \in DOMAIN jobs : i < k => jobs[i].chunk < jobs[k].chunk
================================================================================
