--------------------------- MODULE ChunkBytes_proofs ---------------------------
(* Lemmas about lengths: what the proofs of the pipelines know of the sums,    *)
(* and of how many chunks a worker takes at once.                              *)
EXTENDS ChunkBytes, FiniteSetsExt, FiniteSetTheorems, TLAPS

\* Two disjoint sets of chunks weigh the sum of what each weighs.
LEMMA BytesOfUnion ==
    ASSUME NEW X, NEW bytes, Additive(bytes, X),
           NEW S \in SUBSET X, NEW T \in SUBSET X, S \intersect T = {}
    PROVE  bytes[S \union T] = bytes[S] + bytes[T]
BY DEF Additive

\* A length is a natural number.
LEMMA BytesType ==
    ASSUME NEW X, NEW bytes, Additive(bytes, X), NEW S \in SUBSET X
    PROVE  bytes[S] \in Nat
BY DEF Additive

\* Taking some chunks out of a set takes their length out of the set's length.
LEMMA BytesOfPart ==
    ASSUME NEW X, NEW bytes, Additive(bytes, X), NEW S \in SUBSET X, NEW T \in SUBSET S
    PROVE  /\ bytes[S \ T] = bytes[S] - bytes[T]
           /\ bytes[T] <= bytes[S]
<1>1. S = (S \ T) \union T /\ (S \ T) \intersect T = {}
  OBVIOUS
<1>2. T \in SUBSET X /\ S \ T \in SUBSET X
  OBVIOUS
<1>3. bytes[S] = bytes[S \ T] + bytes[T]
  BY <1>1, <1>2, BytesOfUnion
<1>4. bytes[S] \in Nat /\ bytes[S \ T] \in Nat /\ bytes[T] \in Nat
  BY <1>2, BytesType
<1> QED
  BY <1>3, <1>4

\* The same for a single chunk.
LEMMA BytesOfRest ==
    ASSUME NEW X, NEW bytes, Additive(bytes, X), NEW S \in SUBSET X, NEW c \in S
    PROVE  /\ bytes[S \ {c}] = bytes[S] - bytes[{c}]
           /\ bytes[{c}] <= bytes[S]
BY BytesOfPart, {c} \in SUBSET S

--------------------------------------------------------------------------------
(* Induction.  The library's induction theorems take the property as an        *)
(* operator; a family of sets, or a set of numbers, is an ordinary value, and  *)
(* its smallest member is where a property would fail first.                   *)

\* A family of subsets of a finite set has a member that contains no other one.
LEMMA SmallestSet ==
    ASSUME NEW X, IsFiniteSet(X), NEW F \in SUBSET (SUBSET X), F # {}
    PROVE  \E S \in F : \A T \in F : T \subseteq S => T = S
<1> DEFINE R == StrictSubsetOrdering(X)
<1>1. IsWellFoundedOn(R, FiniteSubsetsOf(X))
  BY FS_StrictSubsetOrderingWellFounded
<1>2. FiniteSubsetsOf(X) = SUBSET X
  BY FS_FiniteSubsetsOfFinite
<1>3. IsWellFoundedOn(R, SUBSET X)
  BY <1>1, <1>2
<1> HIDE DEF R
<1>4. \E S \in F : \A T \in F : ~(<<T, S>> \in R)
  BY <1>3, WFMin
<1>5. PICK S \in F : \A T \in F : ~(<<T, S>> \in R)
  BY <1>4
<1>6. ASSUME NEW T \in F, T \subseteq S
      PROVE  T = S
  BY <1>5, <1>6 DEF R, StrictSubsetOrdering
<1> QED BY <1>6

\* A set of natural numbers has a least one.
LEMMA LeastNat ==
    ASSUME NEW S \in SUBSET Nat, S # {}
    PROVE  \E n \in S : \A m \in S : n <= m
<1>1. PICK k \in S : TRUE
  OBVIOUS
<1> DEFINE D == 0 .. k
<1>2. IsFiniteSet(D)
  BY FS_Interval
<1> DEFINE F == {0 .. m : m \in {j \in S : j <= k}}
<1>3. F \in SUBSET (SUBSET D) /\ F # {}
  BY <1>1
<1> HIDE DEF F, D
<1>4. PICK I \in F : \A J \in F : J \subseteq I => J = I
  BY <1>2, <1>3, SmallestSet
<1>5. PICK n \in S : n <= k /\ I = 0 .. n
  BY DEF F
<1>6. ASSUME NEW m \in S, m < n
      PROVE  FALSE
  <2>1. 0 .. m \in F /\ 0 .. m \subseteq 0 .. n
    BY <1>5, <1>6 DEF F
  <2>2. 0 .. m = 0 .. n
    BY <2>1, <1>4, <1>5
  <2> QED BY <2>2, <1>6
<1> QED BY <1>6

\* A bounded set of natural numbers has a greatest one.
LEMMA GreatestNat ==
    ASSUME NEW S \in SUBSET Nat, S # {}, NEW k \in Nat, \A m \in S : m <= k
    PROVE  \E n \in S : \A m \in S : m <= n
<1> DEFINE U == {n \in Nat : \A m \in S : m <= n}
<1>1. U \in SUBSET Nat /\ U # {}
  OBVIOUS
<1>2. PICK u \in U : \A n \in U : u <= n
  BY <1>1, LeastNat
<1>3. CASE u \in S
  BY <1>3
<1>4. CASE u \notin S
  <2>1. \A m \in S : m <= u - 1
    BY <1>4
  <2>2. PICK m \in S : TRUE
    OBVIOUS
  <2>3. u - 1 \in Nat
    BY <2>1, <2>2
  <2> QED BY <1>2, <2>1, <2>3
<1> QED BY <1>3, <1>4

--------------------------------------------------------------------------------
(* Loads.                                                                      *)

\* A set of chunks weighs no more than so many of the heaviest chunk.
LEMMA BytesOfMany ==
    ASSUME NEW X, NEW bytes, Additive(bytes, X), NEW k \in Nat,
           \A c \in X : bytes[{c}] <= k,
           NEW S \in SUBSET X, IsFiniteSet(S)
    PROVE  bytes[S] <= Cardinality(S) * k
<1> DEFINE F == {T \in SUBSET S : ~(bytes[T] <= Cardinality(T) * k)}
<1> SUFFICES ASSUME F # {} PROVE FALSE
  OBVIOUS
<1> HIDE DEF F
<1>1. F \in SUBSET (SUBSET S)
  BY DEF F
<1>2. PICK T \in F : \A U \in F : U \subseteq T => U = T
  BY <1>1, SmallestSet
<1>3. T \in SUBSET S /\ IsFiniteSet(T) /\ ~(bytes[T] <= Cardinality(T) * k)
  BY FS_Subset DEF F
<1>4. T # {}
  BY <1>3, FS_EmptySet DEF Additive
<1>5. PICK c \in T : TRUE
  BY <1>4
<1>6. bytes[T \ {c}] <= Cardinality(T \ {c}) * k
  <2>1. T \ {c} \notin F
    BY <1>2, <1>5
  <2> QED BY <1>3, <2>1 DEF F
<1>7. Cardinality(T \ {c}) = Cardinality(T) - 1 /\ Cardinality(T) \in Nat
  BY <1>3, <1>5, FS_RemoveElement, FS_CardinalityType
<1>8. T \in SUBSET X /\ c \in X
  BY <1>3, <1>5
<1>9. bytes[T \ {c}] = bytes[T] - bytes[{c}]
  BY <1>5, <1>8, BytesOfRest
<1>10. bytes[{c}] <= k /\ bytes[T] \in Nat /\ bytes[{c}] \in Nat
  BY <1>3, <1>5, <1>8, BytesType, {c} \in SUBSET X
<1>11. (Cardinality(T) - 1) * k + k = Cardinality(T) * k
  BY <1>7
<1> QED BY <1>3, <1>6, <1>7, <1>9, <1>10, <1>11

\* What several threads hold, each of them at most k bytes and no two the same
\* chunk, weighs no more than k bytes for each thread.
LEMMA BytesOfHands ==
    ASSUME NEW X, NEW bytes, Additive(bytes, X), NEW k \in Nat,
           NEW W, IsFiniteSet(W), NEW hand, \A w \in W : hand[w] \in SUBSET X,
           \A w \in W : bytes[hand[w]] <= k,
           \A v, w \in W : v # w => hand[v] \intersect hand[w] = {}
    PROVE  bytes[UNION {hand[w] : w \in W}] <= Cardinality(W) * k
<1> DEFINE All(V) == UNION {hand[w] : w \in V}
           F == {V \in SUBSET W : ~(bytes[All(V)] <= Cardinality(V) * k)}
<1> SUFFICES ASSUME F # {} PROVE FALSE
  OBVIOUS
<1>0. \A V \in SUBSET W : All(V) \in SUBSET X
  OBVIOUS
<1>1. F \in SUBSET (SUBSET W)
  OBVIOUS
<1> HIDE DEF F
<1>2. PICK V \in F : \A U \in F : U \subseteq V => U = V
  BY <1>1, SmallestSet
<1>3. V \in SUBSET W /\ IsFiniteSet(V) /\ ~(bytes[All(V)] <= Cardinality(V) * k)
  BY FS_Subset DEF F
<1>4. V # {}
  <2>1. All({}) = {} /\ bytes[{}] = 0
    BY DEF Additive
  <2> HIDE DEF All
  <2>2. bytes[All({})] <= Cardinality({}) * k
    BY <2>1, FS_EmptySet
  <2> QED BY <1>3, <2>2
<1>5. PICK v \in V : TRUE
  BY <1>4
<1>6. bytes[All(V \ {v})] <= Cardinality(V \ {v}) * k
  <2>1. V \ {v} \notin F
    BY <1>2, <1>5
  <2> QED BY <1>3, <2>1 DEF F
<1>7. Cardinality(V \ {v}) = Cardinality(V) - 1 /\ Cardinality(V) \in Nat
  BY <1>3, <1>5, FS_RemoveElement, FS_CardinalityType
<1>8. All(V) = All(V \ {v}) \union hand[v] /\ All(V \ {v}) \intersect hand[v] = {}
  BY <1>3, <1>5
<1>9. All(V \ {v}) \in SUBSET X /\ hand[v] \in SUBSET X /\ bytes[hand[v]] <= k
  BY <1>0, <1>3, <1>5
<1> DEFINE rest == All(V \ {v})
           mine == hand[v]
<1>10. All(V) = rest \union mine /\ rest \intersect mine = {}
       /\ rest \in SUBSET X /\ mine \in SUBSET X /\ bytes[mine] <= k
  BY <1>8, <1>9
<1>11. bytes[rest] <= (Cardinality(V) - 1) * k /\ ~(bytes[All(V)] <= Cardinality(V) * k)
  BY <1>3, <1>6, <1>7
<1> HIDE DEF All, rest, mine
<1>12. bytes[rest \union mine] = bytes[rest] + bytes[mine]
  BY <1>10, BytesOfUnion
<1>13. bytes[rest] \in Nat /\ bytes[mine] \in Nat
  BY <1>10, BytesType
<1>14. (Cardinality(V) - 1) * k + k = Cardinality(V) * k
  BY <1>7
<1>15. (Cardinality(V) - 1) * k \in Int /\ Cardinality(V) * k \in Int
  BY <1>7
<1> QED BY <1>10, <1>11, <1>12, <1>13, <1>14, <1>15

\* The first n of a set of indexes are no more than n.
LEMMA FirstFew ==
    ASSUME NEW k \in Nat, NEW S \in SUBSET (0 .. k - 1), NEW n \in Nat
    PROVE  LET B == {c \in S : Cardinality({d \in S : d < c}) < n}
           IN  IsFiniteSet(B) /\ Cardinality(B) <= n
<1> DEFINE B == {c \in S : Cardinality({d \in S : d < c}) < n}
<1> DEFINE D == 0 .. k - 1
<1>1. IsFiniteSet(D)
  BY FS_Interval
<1>1a. IsFiniteSet(S)
  BY <1>1, FS_Subset
<1>1b. B \in SUBSET S
  OBVIOUS
<1>2. IsFiniteSet(B) /\ Cardinality(B) \in Nat
  <2> HIDE DEF B
  <2> QED BY <1>1a, <1>1b, FS_Subset, FS_CardinalityType
<1>3. ASSUME B = {}
      PROVE  Cardinality(B) <= n
  <2>1. Cardinality(B) = 0
    <3> HIDE DEF B
    <3> QED BY <1>3, FS_EmptySet
  <2> QED BY <1>2, <2>1
<1>4. ASSUME B # {}
      PROVE  Cardinality(B) <= n
  <2>1. B \in SUBSET Nat /\ \A m \in B : m <= k
    <3>1. \A c \in S : c \in Nat /\ c <= k
      OBVIOUS
    <3> HIDE DEF B
    <3> QED BY <1>1b, <3>1
  <2>2. PICK b \in B : \A m \in B : m <= b
    <3> HIDE DEF B
    <3> QED BY <1>4, <2>1, GreatestNat
  <2> DEFINE before == {d \in S : d < b}
  <2>3. Cardinality(before) < n
    OBVIOUS
  <2>4. B \ {b} \in SUBSET before /\ before \in SUBSET S
    BY <2>1, <2>2
  <2> HIDE DEF B, before
  <2>5. IsFiniteSet(before) /\ Cardinality(before) \in Nat
    BY <1>1a, <2>4, FS_Subset, FS_CardinalityType
  <2>6. Cardinality(B \ {b}) <= Cardinality(before)
    BY <2>4, <2>5, FS_Subset
  <2>7. Cardinality(B \ {b}) = Cardinality(B) - 1
    BY <1>2, FS_RemoveElement
  <2> QED BY <1>2, <2>3, <2>5, <2>6, <2>7
<1>5. Cardinality(B) <= n
  BY <1>3, <1>4
<1> QED BY <1>2, <1>5

--------------------------------------------------------------------------------
(* Sums.  MapThenSumSet takes the members of a set one by one, in an order     *)
(* that CHOOSE fixes; what it returns does not depend on that order.           *)

\* The member that is taken first.
First(S) == CHOOSE x \in S : TRUE

\* h sums f over every subset of S, in that order.
Sums(h, f, S) ==
    h = [T \in SUBSET S |-> IF T = {} THEN 0 ELSE f[First(T)] + h[T \ {First(T)}]]

\* What such a function returns, set by set.
LEMMA SumsAt ==
    ASSUME NEW S, NEW f, NEW h, Sums(h, f, S), NEW T \in SUBSET S
    PROVE  /\ T = {} => h[T] = 0
           /\ T # {} => /\ First(T) \in T /\ T \ {First(T)} \in SUBSET S
                        /\ h[T] = f[First(T)] + h[T \ {First(T)}]
<1>1. T # {} => First(T) \in T
  BY DEF First
<1> QED BY <1>1 DEF Sums

\* Two of them agree where both are defined.
LEMMA SumsAgree ==
    ASSUME NEW X, IsFiniteSet(X), NEW f, NEW S \in SUBSET X, NEW U \in SUBSET X,
           NEW g, Sums(g, f, S), NEW h, Sums(h, f, U), NEW T \in SUBSET (S \intersect U)
    PROVE  g[T] = h[T]
<1> DEFINE F == {V \in SUBSET (S \intersect U) : g[V] # h[V]}
<1> SUFFICES ASSUME F # {} PROVE FALSE
  OBVIOUS
<1>1. F \in SUBSET (SUBSET X)
  OBVIOUS
<1> HIDE DEF F
<1>2. PICK V \in F : \A W \in F : W \subseteq V => W = V
  BY <1>1, SmallestSet
<1>3. V \in SUBSET S /\ V \in SUBSET U /\ g[V] # h[V]
  BY DEF F
<1>4. V # {}
  <2>1. V = {} => g[V] = 0
    BY <1>3 DEF Sums
  <2>2. V = {} => h[V] = 0
    BY <1>3 DEF Sums
  <2> QED BY <1>3, <2>1, <2>2
<1> DEFINE c == First(V)
<1>5. c \in V /\ g[V] = f[c] + g[V \ {c}] /\ h[V] = f[c] + h[V \ {c}]
  <2>1. c \in V
    BY <1>4 DEF First
  <2>2. g[V] = f[c] + g[V \ {c}]
    BY <1>3, <1>4 DEF Sums
  <2>3. h[V] = f[c] + h[V \ {c}]
    BY <1>3, <1>4 DEF Sums
  <2> QED BY <2>1, <2>2, <2>3
<1> HIDE DEF c
<1>6. V \ {c} \notin F
  BY <1>2, <1>5
<1>7. g[V \ {c}] = h[V \ {c}]
  BY <1>3, <1>6 DEF F
<1> QED BY <1>3, <1>5, <1>7

\* There is one for every finite set.
LEMMA SumsExist ==
    ASSUME NEW X, IsFiniteSet(X), NEW f
    PROVE  \E h : Sums(h, f, X)
<1> DEFINE F == {S \in SUBSET X : ~\E h : Sums(h, f, S)}
<1> SUFFICES ASSUME F # {} PROVE FALSE
  OBVIOUS
<1>1. F \in SUBSET (SUBSET X)
  OBVIOUS
<1> HIDE DEF F
<1>2. PICK S \in F : \A T \in F : T \subseteq S => T = S
  BY <1>1, SmallestSet
<1>3. S \in SUBSET X /\ ~\E h : Sums(h, f, S)
  BY DEF F
<1> DEFINE sum(T) == CHOOSE h : Sums(h, f, T)
<1>4. \A T \in SUBSET S : T # S => Sums(sum(T), f, T)
  <2> TAKE T \in SUBSET S
  <2> HAVE T # S
  <2>1. T \notin F /\ T \in SUBSET X
    BY <1>2, <1>3
  <2>2. \E h : Sums(h, f, T)
    BY <2>1 DEF F
  <2> QED BY <2>2
<1> HIDE DEF sum
<1> DEFINE part(T) == IF T = {} THEN 0
                      ELSE f[First(T)] + (sum(T \ {First(T)}))[T \ {First(T)}]
           g == [T \in SUBSET S |-> part(T)]
<1>5. ASSUME NEW T \in SUBSET S, T # S
      PROVE  g[T] = (sum(T))[T]
  <2>1. Sums(sum(T), f, T) /\ T \in SUBSET T /\ g[T] = part(T)
    BY <1>4, <1>5
  <2>2. CASE T = {}
    BY <2>1, <2>2, SumsAt
  <2>3. CASE T # {}
    <3> DEFINE c == First(T)
    <3>1. c \in T /\ (sum(T))[T] = f[c] + (sum(T))[T \ {c}]
      BY <2>1, <2>3, SumsAt
    <3>2. T \ {c} \in SUBSET S /\ T \ {c} # S /\ T \ {c} \in SUBSET X /\ T \in SUBSET X
      BY <1>3, <1>5, <3>1
    <3>3. Sums(sum(T \ {c}), f, T \ {c})
      BY <1>4, <3>2
    <3>3a. T \ {c} \in SUBSET (T \intersect (T \ {c}))
      OBVIOUS
    <3>4. (sum(T \ {c}))[T \ {c}] = (sum(T))[T \ {c}]
      <4> HIDE DEF c
      <4> QED BY <2>1, <3>2, <3>3, <3>3a, SumsAgree
    <3> QED BY <2>1, <2>3, <3>1, <3>4
  <2> QED BY <2>2, <2>3
<1>6. ASSUME NEW T \in SUBSET S
      PROVE  g[T] = IF T = {} THEN 0 ELSE f[First(T)] + g[T \ {First(T)}]
  <2>1. CASE T = {}
    BY <2>1
  <2>2. CASE T # {}
    <3> DEFINE c == First(T)
    <3>1. c \in T
      BY <2>2 DEF First
    <3>2. T \ {c} \in SUBSET S /\ T \ {c} # S
      BY <3>1
    <3>3. g[T \ {c}] = (sum(T \ {c}))[T \ {c}]
      <4> HIDE DEF c, g
      <4> QED BY <1>5, <3>2
    <3> QED BY <2>2, <3>3
  <2> QED BY <2>1, <2>2
<1>7. Sums(g, f, S)
  <2>1. g = [T \in SUBSET S |-> g[T]]
    OBVIOUS
  <2> HIDE DEF g
  <2> QED BY <1>6, <2>1 DEF Sums
<1> QED BY <1>3, <1>7

\* A sum of natural numbers is a length: it is additive, and of a single member it is
\* that member's number.
LEMMA SumsAdditive ==
    ASSUME NEW X, IsFiniteSet(X), NEW f \in [X -> Nat], NEW h, Sums(h, f, X)
    PROVE  /\ Additive(h, X)
           /\ \A x \in X : h[{x}] = f[x]
<1>1. \A T \in SUBSET X : h[T] \in Nat
  <2> DEFINE F == {T \in SUBSET X : h[T] \notin Nat}
  <2> SUFFICES ASSUME F # {} PROVE FALSE
    OBVIOUS
  <2>1. F \in SUBSET (SUBSET X)
    OBVIOUS
  <2> HIDE DEF F
  <2>2. PICK T \in F : \A U \in F : U \subseteq T => U = T
    BY <2>1, SmallestSet
  <2>3. T \in SUBSET X /\ h[T] \notin Nat
    BY DEF F
  <2>4. T # {}
    <3>1. T = {} => h[T] = 0
      BY <2>3, SumsAt
    <3> QED BY <2>3, <3>1
  <2> DEFINE c == First(T)
  <2>5. c \in T /\ T \ {c} \in SUBSET X /\ h[T] = f[c] + h[T \ {c}]
    BY <2>3, <2>4, SumsAt
  <2> HIDE DEF c
  <2>6. T \ {c} \notin F
    BY <2>2, <2>5
  <2>7. h[T \ {c}] \in Nat
    BY <2>5, <2>6 DEF F
  <2> QED BY <2>3, <2>5, <2>7
<1>2. \A T \in SUBSET X : \A x \in T : h[T] = f[x] + h[T \ {x}]
  <2> DEFINE F == {T \in SUBSET X : \E x \in T : h[T] # f[x] + h[T \ {x}]}
  <2> SUFFICES ASSUME F # {} PROVE FALSE
    OBVIOUS
  <2>1. F \in SUBSET (SUBSET X)
    OBVIOUS
  <2> HIDE DEF F
  <2>2. PICK T \in F : \A U \in F : U \subseteq T => U = T
    BY <2>1, SmallestSet
  <2>3. PICK x \in T : h[T] # f[x] + h[T \ {x}]
    BY DEF F
  <2>4. T \in SUBSET X
    BY DEF F
  <2> DEFINE c == First(T)
  <2>5. c \in T /\ h[T] = f[c] + h[T \ {c}]
    BY <2>3, <2>4, SumsAt
  <2> HIDE DEF c
  <2>6. c # x
    BY <2>3, <2>5
  <2>7. T \ {c} \notin F /\ T \ {x} \notin F /\ T \ {c} \in SUBSET X /\ T \ {x} \in SUBSET X
    BY <2>2, <2>3, <2>4, <2>5
  <2>8. h[T \ {c}] = f[x] + h[(T \ {c}) \ {x}] /\ h[T \ {x}] = f[c] + h[(T \ {x}) \ {c}]
    <3>1. x \in T \ {c} /\ c \in T \ {x}
      BY <2>3, <2>5, <2>6
    <3> QED BY <2>7, <3>1 DEF F
  <2>9. (T \ {c}) \ {x} = (T \ {x}) \ {c} /\ (T \ {x}) \ {c} \in SUBSET X
    BY <2>4
  <2>10. f[x] \in Nat /\ f[c] \in Nat /\ h[(T \ {x}) \ {c}] \in Nat
    BY <1>1, <2>3, <2>4, <2>5, <2>9
  <2> QED BY <2>3, <2>5, <2>8, <2>9, <2>10
<1>3. h[{}] = 0
  BY SumsAt
<1>4. ASSUME NEW x \in X
      PROVE  h[{x}] = f[x]
  <2>1. {x} \in SUBSET X /\ {x} \ {x} = {} /\ f[x] \in Nat
    OBVIOUS
  <2>2. h[{x}] = f[x] + h[{x} \ {x}]
    BY <1>2, <2>1
  <2> QED BY <1>3, <2>1, <2>2
<1>5. ASSUME NEW T \in SUBSET X
      PROVE  \A S \in SUBSET X : S \intersect T = {} => h[S \union T] = h[S] + h[T]
  <2> DEFINE F == {S \in SUBSET X : S \intersect T = {} /\ h[S \union T] # h[S] + h[T]}
  <2> SUFFICES ASSUME F # {} PROVE FALSE
    OBVIOUS
  <2>1. F \in SUBSET (SUBSET X)
    OBVIOUS
  <2> HIDE DEF F
  <2>2. PICK S \in F : \A U \in F : U \subseteq S => U = S
    BY <2>1, SmallestSet
  <2>3. S \in SUBSET X /\ S \intersect T = {} /\ h[S \union T] # h[S] + h[T]
    BY DEF F
  <2>4. S # {}
    <3>1. {} \union T = T /\ h[T] \in Nat
      BY <1>1
    <3> QED BY <1>3, <2>3, <3>1
  <2>5. PICK x \in S : TRUE
    BY <2>4
  <2>6. S \ {x} \notin F /\ S \ {x} \in SUBSET X /\ (S \ {x}) \intersect T = {}
    BY <2>2, <2>3, <2>5
  <2>7. h[(S \ {x}) \union T] = h[S \ {x}] + h[T]
    BY <2>6 DEF F
  <2>8. (S \union T) \ {x} = (S \ {x}) \union T /\ S \union T \in SUBSET X /\ x \in S \union T
    BY <2>3, <2>5
  <2>9. h[S \union T] = f[x] + h[(S \ {x}) \union T] /\ h[S] = f[x] + h[S \ {x}]
    BY <1>2, <2>3, <2>5, <2>8
  <2>10. f[x] \in Nat /\ h[S \ {x}] \in Nat /\ h[T] \in Nat
    BY <1>1, <2>3, <2>5, <2>6
  <2> QED BY <2>3, <2>7, <2>9, <2>10
<1>6. h \in [SUBSET X -> Nat]
  BY <1>1 DEF Sums
<1> QED BY <1>3, <1>4, <1>5, <1>6 DEF Additive

\* What the members of a set come to.
SumOf(f, S) == MapThenSumSet(LAMBDA x : f[x], S)

\* It does not depend on the order they are added up in.
LEMMA SumOfIs ==
    ASSUME NEW W, IsFiniteSet(W), NEW f \in [W -> Nat]
    PROVE  \E h : /\ Additive(h, W)
                  /\ \A r \in W : h[{r}] = f[r]
                  /\ \A S \in SUBSET W : SumOf(f, S) = h[S]
<1>1. PICK h : Sums(h, f, W)
  BY SumsExist
<1>2. Additive(h, W) /\ \A x \in W : h[{x}] = f[x]
  BY <1>1, SumsAdditive
<1>3. ASSUME NEW S \in SUBSET W
      PROVE  SumOf(f, S) = h[S]
  <2> DEFINE R(g) == g = [s \in SUBSET S |-> IF s = {} THEN 0
                            ELSE f[CHOOSE x \in s : TRUE] + g[s \ {CHOOSE x \in s : TRUE}]]
  <2>1. \E g : R(g)
    <3>1. IsFiniteSet(S)
      BY FS_Subset
    <3>2. PICK g : Sums(g, f, S)
      BY <3>1, SumsExist
    <3> QED BY <3>2 DEF Sums, First
  <2>2. R(CHOOSE g : R(g))
    BY <2>1
  <2>3. SumOf(f, S) = (CHOOSE g : R(g))[S]
    BY DEF SumOf, MapThenSumSet, MapThenFoldSet
  <2>4. PICK g : Sums(g, f, S) /\ SumOf(f, S) = g[S]
    BY <2>2, <2>3 DEF Sums, First
  <2>5. S \in SUBSET (S \intersect W) /\ W \in SUBSET W
    OBVIOUS
  <2>6. g[S] = h[S]
    <3>1. Sums(g, f, S) /\ Sums(h, f, W) /\ S \in SUBSET W
      BY <1>1, <2>4
    <3> QED BY <3>1, <2>5, SumsAgree
  <2> QED BY <2>4, <2>6
<1> QED BY <1>2, <1>3

LEMMA SumOfType ==
    ASSUME NEW W, IsFiniteSet(W), NEW f \in [W -> Nat], NEW S \in SUBSET W
    PROVE  SumOf(f, S) \in Nat /\ SumOf(f, {}) = 0
<1>1. PICK h : Additive(h, W) /\ \A T \in SUBSET W : SumOf(f, T) = h[T]
  BY SumOfIs
<1>2. h[S] \in Nat /\ h[{}] = 0 /\ {} \in SUBSET W
  BY <1>1, BytesType DEF Additive
<1> QED BY <1>1, <1>2

\* One more, and one less.
LEMMA SumOfMoves ==
    ASSUME NEW W, IsFiniteSet(W), NEW f \in [W -> Nat], NEW S \in SUBSET W, NEW r \in W
    PROVE  /\ r \notin S => SumOf(f, S \union {r}) = SumOf(f, S) + f[r]
           /\ r \in S => SumOf(f, S \ {r}) = SumOf(f, S) - f[r] /\ f[r] <= SumOf(f, S)
<1>1. PICK h : /\ Additive(h, W)
               /\ \A q \in W : h[{q}] = f[q]
               /\ \A T \in SUBSET W : SumOf(f, T) = h[T]
  BY SumOfIs
<1>2. {r} \in SUBSET W /\ {} \in SUBSET W /\ S \union {r} \in SUBSET W
      /\ S \ {r} \in SUBSET W
  OBVIOUS
<1>4. r \notin S => h[S \union {r}] = h[S] + h[{r}]
  <2> DEFINE T == {r}
  <2>1. r \notin S => S \intersect T = {} /\ S \in SUBSET W /\ T \in SUBSET W
    OBVIOUS
  <2> HIDE DEF T
  <2>2. r \notin S => h[S \union T] = h[S] + h[T]
    <3>1. Additive(h, W)
      BY <1>1
    <3> QED BY <2>1, <3>1, BytesOfUnion
  <2> QED BY <2>2 DEF T
<1>5. r \in S => h[S \ {r}] = h[S] - h[{r}] /\ h[{r}] <= h[S]
  BY <1>1, <1>2, BytesOfRest
<1> QED BY <1>1, <1>2, <1>4, <1>5

\* Of two functions, the smaller one has the smaller sum.
LEMMA SumOfLess ==
    ASSUME NEW W, IsFiniteSet(W), NEW f \in [W -> Nat], NEW g \in [W -> Nat],
           NEW S \in SUBSET W, \A x \in S : f[x] <= g[x]
    PROVE  SumOf(f, S) <= SumOf(g, S)
<1> DEFINE F == {T \in SUBSET S : ~(SumOf(f, T) <= SumOf(g, T))}
<1> SUFFICES ASSUME F # {} PROVE FALSE
  OBVIOUS
<1>1. F \in SUBSET (SUBSET S) /\ IsFiniteSet(S)
  BY FS_Subset
<1> HIDE DEF F
<1>2. PICK T \in F : \A U \in F : U \subseteq T => U = T
  BY <1>1, SmallestSet
<1>3. T \in SUBSET W /\ T \in SUBSET S /\ ~(SumOf(f, T) <= SumOf(g, T))
  BY DEF F
<1>4. T # {}
  <2>1. SumOf(f, {}) = 0 /\ SumOf(g, {}) = 0
    BY SumOfType
  <2> QED BY <1>3, <2>1
<1>5. PICK x \in T : TRUE
  BY <1>4
<1>6. T \ {x} \in SUBSET S /\ T \ {x} \in SUBSET W /\ x \in W
  BY <1>3
<1>7. SumOf(f, T \ {x}) <= SumOf(g, T \ {x})
  <2>1. T \ {x} \notin F
    BY <1>2
  <2> QED BY <1>6, <2>1 DEF F
<1>8. /\ SumOf(f, T \ {x}) = SumOf(f, T) - f[x]
      /\ SumOf(g, T \ {x}) = SumOf(g, T) - g[x]
  BY <1>3, <1>6, SumOfMoves
<1>9. SumOf(f, T) \in Nat /\ SumOf(g, T) \in Nat /\ f[x] \in Nat /\ g[x] \in Nat
  BY <1>3, <1>6, SumOfType
<1> QED BY <1>3, <1>7, <1>8, <1>9

\* A change at one place changes the sum by as much.
LEMMA SumOfChange ==
    ASSUME NEW W, IsFiniteSet(W), NEW f \in [W -> Nat], NEW g \in [W -> Nat], NEW x \in W,
           \A y \in W : y # x => g[y] = f[y]
    PROVE  SumOf(g, W) = SumOf(f, W) - f[x] + g[x]
<1> DEFINE S == W \ {x}
<1>1. S \in SUBSET W /\ W \in SUBSET W /\ \A y \in S : g[y] = f[y]
  OBVIOUS
<1>2. SumOf(f, S) = SumOf(f, W) - f[x] /\ SumOf(f, W) \in Nat /\ SumOf(f, S) \in Nat
  BY <1>1, SumOfMoves, SumOfType
<1>3. SumOf(g, S) = SumOf(g, W) - g[x] /\ SumOf(g, W) \in Nat /\ SumOf(g, S) \in Nat
  BY <1>1, SumOfMoves, SumOfType
<1> HIDE DEF S
<1>4. \A y \in S : f[y] \in Nat /\ g[y] \in Nat
  BY <1>1
<1>5. SumOf(f, S) <= SumOf(g, S)
  <2>1. \A y \in S : f[y] <= g[y]
    BY <1>1, <1>4
  <2> QED BY <1>1, <2>1, SumOfLess
<1>6. SumOf(g, S) <= SumOf(f, S)
  <2>1. \A y \in S : g[y] <= f[y]
    BY <1>1, <1>4
  <2> QED BY <1>1, <2>1, SumOfLess
<1>7. f[x] \in Nat /\ g[x] \in Nat
  OBVIOUS
<1> QED BY <1>2, <1>3, <1>5, <1>6, <1>7

\* Nothing adds up to nothing.
LEMMA SumOfZero ==
    ASSUME NEW W, IsFiniteSet(W)
    PROVE  SumOf([x \in W |-> 0], W) = 0
<1> DEFINE f == [x \in W |-> 0]
           F == {T \in SUBSET W : SumOf(f, T) # 0}
<1>1. F \in SUBSET (SUBSET W) /\ f \in [W -> Nat] /\ \A x \in W : f[x] = 0
  OBVIOUS
<1> HIDE DEF f
<1> SUFFICES ASSUME F # {} PROVE FALSE
  BY DEF f
<1> HIDE DEF F
<1>2. PICK T \in F : \A U \in F : U \subseteq T => U = T
  BY <1>1, SmallestSet
<1>3. T \in SUBSET W /\ SumOf(f, T) # 0
  BY DEF F
<1>4. T # {}
  <2>1. SumOf(f, {}) = 0
    BY <1>1, SumOfType
  <2> QED BY <1>3, <2>1
<1>5. PICK x \in T : TRUE
  BY <1>4
<1>6. T \ {x} \in SUBSET W /\ x \in W /\ T \ {x} \notin F
  BY <1>2, <1>3
<1>7. SumOf(f, T \ {x}) = 0
  BY <1>6 DEF F
<1>8. SumOf(f, T \ {x}) = SumOf(f, T) - f[x]
  BY <1>1, <1>3, <1>6, SumOfMoves
<1>9. SumOf(f, T) \in Nat
  BY <1>1, <1>3, SumOfType
<1> QED BY <1>1, <1>3, <1>6, <1>7, <1>8, <1>9
===============================================================================
