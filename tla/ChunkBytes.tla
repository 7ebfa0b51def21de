------------------------------ MODULE ChunkBytes ------------------------------
(* Lengths in bytes.  What the program measures with len() of one chunk, and   *)
(* sums up in its counters, is a function on the sets of chunks here.          *)
EXTENDS Integers

\* A length is a sum over the chunks: what two disjoint sets of chunks weigh
\* together is the sum of what each weighs.
Additive(bytes, X) ==
    /\ bytes \in [SUBSET X -> Nat]
    /\ bytes[{}] = 0
    /\ \A S, T \in SUBSET X :
          S \intersect T = {} => bytes[S \union T] = bytes[S] + bytes[T]

\* usize::saturating_sub
Minus(a, b) == IF a >= b THEN a - b ELSE 0
===============================================================================
