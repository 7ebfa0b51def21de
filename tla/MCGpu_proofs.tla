------------------------------ MODULE MCGpu_proofs ------------------------------
(* The scenarios of MCGpu: one takes its steps, and the others rest.  What         *)
(* Gpu_proofs shows of each way to decode with a device holds of them side by      *)
(* side; then come the batches that are compressed with it (PdeflateGpuBatch).     *)
EXTENDS MCGpu, Gpu_proofs

\* Whatever the device decodes, on slots or in true batches, with whatever calls, sizes,
\* bounds, timeouts and faults: a call that returns has every chunk answered once, in order
\* and as itself, and no buffer is given to a submission that another still works in.
THEOREM GpuDecodesSoundly == GpuSpec => []GpuDecodeSound
<1>1. GpuInit => DecodeInv /\ TrueBatchInv
  BY DecodeInitInv, TrueInitInv DEF GpuInit
<1>2. DecodeInv /\ TrueBatchInv /\ [GpuNext]_<<scenario, allVars>> => DecodeInv' /\ TrueBatchInv'
  <2> SUFFICES ASSUME DecodeInv, TrueBatchInv, [GpuNext]_<<scenario, allVars>>
               PROVE  DecodeInv' /\ TrueBatchInv'
    OBVIOUS
  <2>1. GpuDecodeNext \/ UNCHANGED slotVars
    BY DEF GpuNext, InSlots, InBatch, InPack, InMemory, InDeflate, InSetup, InDesktop,
           allVars, gpuVars
  <2>2. TrueBatchNext \/ UNCHANGED trueVars
    BY DEF GpuNext, InSlots, InBatch, InPack, InMemory, InDeflate, InSetup, InDesktop,
           allVars, gpuVars
  <2> QED BY <2>1, <2>2, DecodeKeepsInv, TrueBatchKeepsInv
<1>3. DecodeInv /\ TrueBatchInv => GpuDecodeSound
  BY DecodeInvSound, TrueBatchInvSound DEF GpuDecodeSound
<1> QED BY <1>1, <1>2, <1>3, PTL DEF GpuSpec

--------------------------------------------------------------------------------
(* The batches that are compressed with the device (PdeflateGpuBatch).          *)

\* The scratches nobody works with.
PackIdle(s) == ({s.hot} \ {0}) \cup ToSet(s.spare)

PackScratch == [cap : Nat, op : Nat, buffer : {"unmapped", "pending", "mapped"}]

\* A pool, when q are the submissions the device has: no more is kept than the limit and
\* the hot scratch, each once; the device works in none of it; and what went back mapped
\* went back with an error.
PackPool(s, e, q) ==
    /\ s \in [hot : Nat, spare : Seq(Nat), all : Seq(PackScratch)] /\ e \in Nat
    /\ Len(s.spare) <= SparsePoolLimit
    /\ \A i, k \in DOMAIN s.spare : s.spare[i] = s.spare[k] => i = k
    /\ s.hot \notin ToSet(s.spare)
    /\ PackIdle(s) \subseteq DOMAIN s.all
    /\ \A i \in PackIdle(s) : /\ s.all[i].op \notin q
                              /\ s.all[i].buffer = "unmapped" \/ e > 0

Submission == [group : Seq(Nat), op : Nat, scratch : Nat, map : {"waiting", "ok", "map"}]

PackCall ==
    [stage : {"prepare", "group", "room", "front", "submit", "after", "high", "match", "finalize",
              "returned", "failed", "panicked", "done"},
     batches : Seq(Seq(BatchChunk)), table : Seq({"device", "host"}), groups : Seq(Seq(Nat)),
     pending : Seq(Submission), fallback : SUBSET Nat, encoded : Seq(SUBSET Nat),
     matched : Seq({"none", "device", "host"}),
     out : Seq([position : Nat, payload : SUBSET Nat, matches : {"none", "device", "host"},
                table : {"device", "host"}])]

\* A group of chunks of a batch.
GroupOf(batch, group) == group # <<>> /\ \A k \in DOMAIN group : group[k] \in DOMAIN batch

\* A call knows the chunks of its batch one by one, also while it collects.
PackKnows(w) ==
    LET batch == Head(w.batches) IN
    /\ w.batches # <<>>
    /\ DOMAIN w.table = DOMAIN batch /\ DOMAIN w.encoded = DOMAIN batch
    /\ DOMAIN w.matched = DOMAIN batch
    /\ \A i \in DOMAIN batch : /\ w.encoded[i] \in {{}, {batch[i].id}}
                               /\ w.matched[i] \in {"none", w.table[i]}
    /\ \A k \in DOMAIN w.groups : GroupOf(batch, w.groups[k])
    /\ \A k \in DOMAIN w.pending : GroupOf(batch, w.pending[k].group)

PackCallSound(w) ==
    /\ w \in PackCall
    /\ w.stage # "done" => w.batches # <<>>
    /\ w.stage \notin {"prepare", "done"} => PackKnows(w)
    /\ w.stage \in {"prepare", "match", "finalize", "returned", "failed", "done"} => w.pending = <<>>
    /\ w.stage \in {"room", "front", "submit"} => w.groups # <<>>
    /\ w.stage = "front" => w.pending # <<>>
    /\ w.stage = "returned" =>
          /\ DOMAIN w.out = DOMAIN Head(w.batches)
          /\ \A i \in DOMAIN Head(w.batches) :
                /\ w.out[i].payload \in {{}, {Head(w.batches)[i].id}}
                /\ w.out[i].payload = {} => w.out[i].matches \in {"none", w.out[i].table}

PackCalls == gpuWorker \in [GpuWorkers -> PackCall] /\ \A t \in GpuWorkers : PackCallSound(gpuWorker[t])

PackQueue ==
    /\ sparseQueue \in Seq(Nat) /\ sparseOps \in Nat
    /\ \A k \in DOMAIN sparseQueue : sparseQueue[k] \in 1 .. sparseOps
    /\ \A k, m \in DOMAIN sparseQueue : sparseQueue[k] = sparseQueue[m] => k = m

\* A submission has its scratch to itself, until it was finished and collected.
PackHeld ==
    /\ PackPool(sparse, packErrors, ToSet(sparseQueue))
    /\ \A i \in DOMAIN sparse.all : sparse.all[i].op <= sparseOps
    /\ \A t \in GpuWorkers : \A k \in DOMAIN gpuWorker[t].pending :
          LET p == gpuWorker[t].pending[k] IN
          /\ p.scratch \in DOMAIN sparse.all /\ p.scratch \notin PackIdle(sparse)
          /\ sparse.all[p.scratch].op = p.op
          /\ p.map # "waiting" => p.op \notin ToSet(sparseQueue)
    /\ \A t, u \in GpuWorkers : \A k \in DOMAIN gpuWorker[t].pending :
          \A m \in DOMAIN gpuWorker[u].pending :
             gpuWorker[t].pending[k].scratch = gpuWorker[u].pending[m].scratch => t = u /\ k = m
    /\ \A t \in GpuWorkers : gpuWorker[t].stage = "panicked" => packErrors > 0

PackInv == PackCalls /\ PackQueue /\ PackHeld
(* Where the payloads of a group lie.                                           *)

\* A length for every number that is given.
Lengths(h, f, W) == Additive(h, W) /\ \A i \in W : h[{i}] = f[i]

LEMMA LengthsExist ==
    ASSUME NEW W, IsFiniteSet(W), NEW f \in [W -> Nat]
    PROVE  \E h : Lengths(h, f, W)
<1>1. PICK h : Sums(h, f, W)
  BY SumsExist
<1> QED BY <1>1, SumsAdditive DEF Lengths

\* Total adds up the room of the chunks.
LEMMA TotalIs ==
    ASSUME NEW g \in Seq(BatchChunk)
    PROVE  \E h : /\ Additive(h, DOMAIN g)
                  /\ \A i \in DOMAIN g : h[{i}] = g[i].cap
                  /\ \A S \in SUBSET DOMAIN g : Total(g, S) = h[S]
<1> DEFINE W == DOMAIN g
<1>1. W = 1 .. Len(g) /\ Len(g) \in Nat /\ IsFiniteSet(W)
  BY LenProperties, FirstNumbers
<1>2. \A i \in W : g[i].cap \in Nat
  <2>1. \A i \in W : g[i] \in BatchChunk
    BY <1>1, LenProperties
  <2> QED BY <2>1 DEF BatchChunk
<1>3. PICK f \in [W -> Nat] : \A i \in W : f[i] = g[i].cap
  <2>1. [i \in W |-> g[i].cap] \in [W -> Nat]
    BY <1>2
  <2> QED BY <2>1
<1>4. PICK h : Lengths(h, f, W)
  <2>1. IsFiniteSet(W) /\ f \in [W -> Nat]
    BY <1>1, <1>3
  <2> HIDE DEF W
  <2> QED BY <2>1, LengthsExist
<1>5. Additive(h, W)
  BY <1>4 DEF Lengths
<1>7. \A i \in W : h[{i}] = g[i].cap
  BY <1>3, <1>4 DEF Lengths
<1>6. ASSUME NEW S \in SUBSET W
      PROVE  Total(g, S) = h[S]
  <2> DEFINE R(r) == r = [s \in SUBSET S |-> IF s = {} THEN 0
                            ELSE r[s \ {CHOOSE x \in s : TRUE}] + g[CHOOSE x \in s : TRUE].cap]
             k == [s \in SUBSET S |-> h[s]]
  <2>1. \A s \in SUBSET S : s # {} => \A x \in s : /\ h[s] = h[s \ {x}] + g[x].cap
                                                   /\ s \ {x} \in SUBSET S
    <3> TAKE s \in SUBSET S
    <3> HAVE s # {}
    <3> TAKE x \in s
    <3>1. s \in SUBSET W /\ x \in W /\ s \ {x} \in SUBSET W /\ s \ {x} \in SUBSET S
      OBVIOUS
    <3>2. h[s \ {x}] = h[s] - h[{x}]
      <4> HIDE DEF W
      <4> QED BY <1>5, <3>1, BytesOfRest
    <3>3. h[s] \in Nat /\ h[s \ {x}] \in Nat /\ h[{x}] = g[x].cap /\ g[x].cap \in Nat
      BY <1>2, <1>5, <1>7, <3>1, BytesType
    <3> QED BY <3>1, <3>2, <3>3
  <2>2. h[{}] = 0
    BY <1>5 DEF Additive
  <2>3. R(k)
    <3>1. ASSUME NEW s \in SUBSET S
          PROVE  k[s] = IF s = {} THEN 0
                        ELSE k[s \ {CHOOSE x \in s : TRUE}] + g[CHOOSE x \in s : TRUE].cap
      <4>1. CASE s = {}
        BY <2>2, <4>1
      <4>2. CASE s # {}
        <5> DEFINE x == CHOOSE x \in s : TRUE
        <5>1. x \in s
          BY <4>2
        <5> HIDE DEF x
        <5>2. h[s] = h[s \ {x}] + g[x].cap /\ s \ {x} \in SUBSET S
          BY <2>1, <4>2, <5>1
        <5>3. k[s] = k[s \ {x}] + g[x].cap
          BY <5>2
        <5> QED BY <4>2, <5>3 DEF x
      <4> QED BY <4>1, <4>2
    <3>2. k = [s \in SUBSET S |-> k[s]]
      OBVIOUS
    <3> HIDE DEF k
    <3> QED BY <3>1, <3>2
  <2>4. R(CHOOSE r : R(r))
    BY <2>3
  <2>5. Total(g, S) = (CHOOSE r : R(r))[S]
    BY DEF Total, FoldSet, MapThenFoldSet
  <2>6. PICK r : R(r) /\ Total(g, S) = r[S]
    BY <2>4, <2>5
  <2>7. \A s \in SUBSET S : r[s] = h[s]
    <3> DEFINE F == {s \in SUBSET S : r[s] # h[s]}
    <3> SUFFICES ASSUME F # {} PROVE FALSE
      OBVIOUS
    <3>1. F \in SUBSET (SUBSET S) /\ IsFiniteSet(S)
      BY <1>1, FS_Subset
    <3> HIDE DEF F
    <3>2. PICK s \in F : \A u \in F : u \subseteq s => u = s
      BY <3>1, SmallestSet
    <3>3. s \in SUBSET S /\ r[s] # h[s]
      BY DEF F
    <3>4. s # {}
      BY <2>2, <2>6, <3>3
    <3> DEFINE x == CHOOSE x \in s : TRUE
    <3>5. x \in s
      BY <3>4
    <3>6. r[s] = r[s \ {x}] + g[x].cap
      BY <2>6, <3>3, <3>4
    <3> HIDE DEF x
    <3>7. s \ {x} \notin F
      BY <3>2, <3>5
    <3>8. h[s] = h[s \ {x}] + g[x].cap /\ s \ {x} \in SUBSET S
      BY <2>1, <3>3, <3>4, <3>5
    <3>9. r[s \ {x}] = h[s \ {x}]
      BY <3>7, <3>8 DEF F
    <3> QED BY <3>3, <3>6, <3>8, <3>9
  <2> QED BY <2>6, <2>7
<1> QED BY <1>5, <1>6, <1>7

\* What is left of a place, and the place itself, is within what is left of a later one.
LEMMA PlacesApart ==
    ASSUME NEW W, NEW h, Additive(h, W), NEW S \in SUBSET W, NEW T \in SUBSET W,
           NEW n \in W, n \notin S, S \union {n} \subseteq T
    PROVE  h[S] + h[{n}] <= h[T] /\ h[S] \in Nat /\ h[T] \in Nat /\ h[{n}] \in Nat
<1> DEFINE U == S \union {n}
<1>1. U \in SUBSET W /\ U \in SUBSET T /\ n \in U /\ U \ {n} = S /\ {n} \in SUBSET W
  OBVIOUS
<1> HIDE DEF U
<1>2. h[U] <= h[T]
  BY <1>1, BytesOfPart
<1>3. h[S] = h[U] - h[{n}]
  BY <1>1, BytesOfRest
<1>4. h[S] \in Nat /\ h[T] \in Nat /\ h[U] \in Nat /\ h[{n}] \in Nat
  BY <1>1, BytesType
<1> QED BY <1>2, <1>3, <1>4

\* A chunk that did not pack to more than its room is read back as it was packed: the
\* places that the submission and the collection compute belong to it alone.
LEMMA PayloadIs ==
    ASSUME NEW g \in Seq(BatchChunk), \A k \in DOMAIN g : g[k].len <= g[k].cap,
           NEW i \in DOMAIN g
    PROVE  Payload(g, i) = {g[i].id}
<1> DEFINE W == DOMAIN g
           out == [n \in W |-> OutBase(g, n)]
           read == [n \in W |-> ReadOffset(g, n)]
<1>1. /\ W = 1 .. Len(g) /\ Len(g) \in Nat
      /\ \A n \in W : /\ g[n].cap \in Nat /\ g[n].len \in Nat /\ g[n].len # 0
                      /\ g[n].class \in {1, 2}
  <2>1. W = 1 .. Len(g) /\ Len(g) \in Nat /\ \A n \in W : g[n] \in BatchChunk
    BY LenProperties
  <2> QED BY <2>1 DEF BatchChunk
<1>2. PICK h : /\ Additive(h, W)
               /\ \A n \in W : h[{n}] = g[n].cap
               /\ \A S \in SUBSET W : Total(g, S) = h[S]
  BY TotalIs
<1>3. \A n, m \in W : n # m => \/ read[n] + g[n].cap <= read[m]
                               \/ read[m] + g[m].cap <= read[n]
  <2> DEFINE Left(n) == {k \in DOMAIN g : k < n}
  <2>1. \A n \in W : read[n] = h[Left(n)]
    BY <1>2 DEF ReadOffset
  <2>2. ASSUME NEW n \in W, NEW m \in W, n < m
        PROVE  read[n] + g[n].cap <= read[m]
    <3>1. Left(n) \in SUBSET W /\ Left(m) \in SUBSET W /\ n \notin Left(n)
          /\ Left(n) \union {n} \subseteq Left(m)
      BY <1>1, <2>2
    <3> HIDE DEF Left
    <3>2. h[Left(n)] + h[{n}] <= h[Left(m)]
      BY <1>2, <3>1, PlacesApart
    <3> QED BY <1>2, <2>1, <3>2
  <2> TAKE n, m \in W
  <2>3. n # m => n < m \/ m < n
    BY <1>1
  <2> QED BY <2>2, <2>3
<1>4. \A n, m \in W : n # m => \/ out[n] + g[n].cap <= out[m]
                               \/ out[m] + g[m].cap <= out[n]
  <2> DEFINE Left(n) == {k \in DOMAIN g : g[k].class < g[n].class \/
                              (g[k].class = g[n].class /\ k < n)}
  <2>1. \A n \in W : out[n] = h[Left(n)]
    BY <1>2 DEF OutBase
  <2>2. ASSUME NEW n \in W, NEW m \in W, n \in Left(m)
        PROVE  out[n] + g[n].cap <= out[m]
    <3>1. \A k \in W : k \in Int /\ g[k].class \in Int
      BY <1>1
    <3>2. Left(n) \in SUBSET W /\ Left(m) \in SUBSET W /\ n \notin Left(n)
          /\ Left(n) \union {n} \subseteq Left(m)
      BY <2>2, <3>1
    <3> HIDE DEF Left
    <3>3. h[Left(n)] + h[{n}] <= h[Left(m)]
      BY <1>2, <3>2, PlacesApart
    <3> QED BY <1>2, <2>1, <3>3
  <2> TAKE n, m \in W
  <2>3. n # m => n \in Left(m) \/ m \in Left(n)
    BY <1>1
  <2> HIDE DEF Left
  <2> QED BY <2>2, <2>3
<1>5. \A n \in W : read[n] \in Nat /\ out[n] \in Nat
  <2> TAKE n \in W
  <2>1. \A S \in SUBSET W : h[S] \in Nat
    BY <1>2, BytesType
  <2>2. {k \in DOMAIN g : k < n} \in SUBSET W
        /\ {k \in DOMAIN g : g[k].class < g[n].class \/ (g[k].class = g[n].class /\ k < n)} \in SUBSET W
    OBVIOUS
  <2> QED BY <1>2, <2>1, <2>2 DEF ReadOffset, OutBase
<1>6. \A n \in W : read[n] = ReadOffset(g, n) /\ out[n] = OutBase(g, n)
  OBVIOUS
<1> HIDE DEF read, out
<1> DEFINE copied(cell) == {OutBase(g, n) + cell - ReadOffset(g, n) : n \in
                            {k \in DOMAIN g : cell - ReadOffset(g, k) \in 0 .. g[k].cap - 1}}
           packed(cell) == {g[n].id : n \in
                            {k \in DOMAIN g : cell - OutBase(g, k) \in 0 .. g[k].len - 1}}
<1>7. ASSUME NEW q \in 0 .. g[i].len - 1
      PROVE  /\ copied(ReadOffset(g, i) + q) = {OutBase(g, i) + q}
             /\ packed(OutBase(g, i) + q) = {g[i].id}
  <2>1. q \in Int /\ 0 <= q /\ q < g[i].len /\ q < g[i].cap /\ g[i].len <= g[i].cap
    BY <1>1
  <2>2. \A n \in W : (read[i] + q) - read[n] \in 0 .. g[n].cap - 1 <=> n = i
    <3> TAKE n \in W
    <3>1. read[i] \in Nat /\ read[n] \in Nat /\ g[n].cap \in Nat
      BY <1>1, <1>5
    <3>2. n # i => read[n] + g[n].cap <= read[i] \/ read[i] + g[i].cap <= read[n]
      BY <1>3
    <3>3. ASSUME NEW x \in Nat, NEW y \in Nat, NEW c \in Nat, NEW d \in Nat,
                 x + c <= y \/ y + d <= x, q < d
          PROVE  (y + q) - x \notin 0 .. c - 1
      BY <2>1, <3>3
    <3>4. n = i => (read[i] + q) - read[n] = q /\ q \in 0 .. g[n].cap - 1
      BY <2>1, <3>1
    <3>5. n # i => (read[i] + q) - read[n] \notin 0 .. g[n].cap - 1
      <4>1. g[i].cap \in Nat
        BY <1>1
      <4> QED BY <2>1, <3>1, <3>2, <3>3, <4>1
    <3> QED BY <3>4, <3>5
  <2>3. \A n \in W : (out[i] + q) - out[n] \in 0 .. g[n].len - 1 <=> n = i
    <3> TAKE n \in W
    <3>1. out[i] \in Nat /\ out[n] \in Nat /\ g[n].cap \in Nat /\ g[n].len \in Nat
          /\ g[n].len <= g[n].cap /\ g[i].cap \in Nat
      BY <1>1, <1>5
    <3>2. n # i => out[n] + g[n].cap <= out[i] \/ out[i] + g[i].cap <= out[n]
      BY <1>4
    <3>3. ASSUME NEW x \in Nat, NEW y \in Nat, NEW c \in Nat, NEW d \in Nat, NEW e \in Nat,
                 x + c <= y \/ y + d <= x, q < d, e <= c
          PROVE  (y + q) - x \notin 0 .. e - 1
      BY <2>1, <3>3
    <3>4. n = i => (out[i] + q) - out[n] = q /\ q \in 0 .. g[n].len - 1
      BY <2>1, <3>1
    <3>5. n # i => (out[i] + q) - out[n] \notin 0 .. g[n].len - 1
      BY <2>1, <3>1, <3>2, <3>3
    <3> QED BY <3>4, <3>5
  <2>4. {n \in W : (ReadOffset(g, i) + q) - ReadOffset(g, n) \in 0 .. g[n].cap - 1} = {i}
    BY <1>6, <2>2
  <2>5. {n \in W : (OutBase(g, i) + q) - OutBase(g, n) \in 0 .. g[n].len - 1} = {i}
    BY <1>6, <2>3
  <2>6. OutBase(g, i) + ((ReadOffset(g, i) + q) - ReadOffset(g, i)) = OutBase(g, i) + q
    <3>1. ReadOffset(g, i) \in Nat /\ OutBase(g, i) \in Nat
      BY <1>5, <1>6
    <3> QED BY <2>1, <3>1
  <2>7. /\ {n \in DOMAIN g : (ReadOffset(g, i) + q) - ReadOffset(g, n) \in 0 .. g[n].cap - 1} = {i}
        /\ {n \in DOMAIN g : (OutBase(g, i) + q) - OutBase(g, n) \in 0 .. g[n].len - 1} = {i}
    BY <2>4, <2>5
  <2> DEFINE cell == ReadOffset(g, i) + q
             place == OutBase(g, i) + q
  <2>8. copied(cell) = {OutBase(g, i) + cell - ReadOffset(g, i)}
    <3>1. {n \in DOMAIN g : cell - ReadOffset(g, n) \in 0 .. g[n].cap - 1} = {i}
      BY <2>7
    <3> HIDE DEF cell
    <3> QED BY <3>1, Zenon
  <2>9. packed(place) = {g[i].id}
    <3>1. {n \in DOMAIN g : place - OutBase(g, n) \in 0 .. g[n].len - 1} = {i}
      BY <2>7
    <3> HIDE DEF place
    <3> QED BY <3>1, Zenon
  <2> QED BY <2>6, <2>8, <2>9
<1>8. ASSUME NEW q \in 0 .. g[i].len - 1
      PROVE  UNION {packed(c) : c \in copied(ReadOffset(g, i) + q)} = {g[i].id}
  <2> HIDE DEF copied, packed
  <2> QED BY <1>7
<1>9. 0 \in 0 .. g[i].len - 1
  BY <1>1
<1>10. Payload(g, i) = UNION {UNION {packed(c) : c \in copied(ReadOffset(g, i) + k)} :
                                 k \in 0 .. g[i].len - 1}
  BY DEF Payload
<1> HIDE DEF copied, packed
<1> QED BY <1>8, <1>9, <1>10
--------------------------------------------------------------------------------
(* Scratches that are acquired and released.                                    *)

PackPools == [hot : Nat, spare : Seq(Nat), all : Seq(PackScratch)]

\* One more is kept, while there is room.
LEMMA SpareAdded ==
    ASSUME NEW s \in PackPools, NEW id \in Nat, Len(s.spare) <= SparsePoolLimit,
           \A i, k \in DOMAIN s.spare : s.spare[i] = s.spare[k] => i = k,
           id \notin ToSet(s.spare)
    PROVE  LET r == AddSpare(s, id) IN
           /\ r \in PackPools /\ r.hot = s.hot /\ r.all = s.all
           /\ Len(r.spare) <= SparsePoolLimit
           /\ \A i, k \in DOMAIN r.spare : r.spare[i] = r.spare[k] => i = k
           /\ ToSet(r.spare) \subseteq ToSet(s.spare) \cup {id}
<1>1. /\ s.spare \in Seq(Nat) /\ Len(s.spare) \in Nat /\ SparsePoolLimit \in Nat
      /\ DOMAIN s.spare = 1 .. Len(s.spare)
  BY LenProperties, GpuBatchAssumption DEF PackPools
<1>2. CASE Len(s.spare) < SparsePoolLimit
  <2> DEFINE more == Append(s.spare, id)
             r == [s EXCEPT !.spare = more]
  <2>1. AddSpare(s, id) = r
    BY <1>2 DEF AddSpare
  <2>2. /\ more \in Seq(Nat) /\ Len(more) = Len(s.spare) + 1
        /\ \A k \in DOMAIN more : \/ k \in DOMAIN s.spare /\ more[k] = s.spare[k]
                                  \/ k = Len(s.spare) + 1 /\ more[k] = id
    BY <1>1, Appended
  <2> HIDE DEF more
  <2>3. r \in PackPools /\ r.hot = s.hot /\ r.all = s.all /\ r.spare = more
    BY <2>2 DEF PackPools
  <2> HIDE DEF r
  <2>4. Len(more) <= SparsePoolLimit
    BY <1>1, <1>2, <2>2
  <2>5. \A i, k \in DOMAIN more : more[i] = more[k] => i = k
    BY <1>1, <2>2 DEF ToSet
  <2>6. ToSet(more) \subseteq ToSet(s.spare) \cup {id}
    BY <2>2 DEF ToSet
  <2> QED BY <2>1, <2>3, <2>4, <2>5, <2>6
<1>3. CASE ~(Len(s.spare) < SparsePoolLimit)
  BY <1>3 DEF AddSpare
<1> QED BY <1>2, <1>3

\* What is idle after a change was idle before, or is a scratch the device is done with.
LEMMA PoolChanged ==
    ASSUME NEW s, NEW e, NEW q, PackPool(s, e, q), NEW r \in PackPools, r.all = s.all,
           Len(r.spare) <= SparsePoolLimit,
           \A i, k \in DOMAIN r.spare : r.spare[i] = r.spare[k] => i = k,
           r.hot \notin ToSet(r.spare),
           \A i \in PackIdle(r) : \/ i \in PackIdle(s)
                                  \/ /\ i \in DOMAIN s.all /\ s.all[i].op \notin q
                                     /\ s.all[i].buffer = "unmapped" \/ e > 0
    PROVE  PackPool(r, e, q)
BY DEF PackPool, PackPools

LEMMA PackReleased ==
    ASSUME NEW s, NEW e, NEW q, PackPool(s, e, q), NEW id \in DOMAIN s.all,
           id \notin PackIdle(s), s.all[id].op \notin q,
           s.all[id].buffer = "unmapped" \/ e > 0
    PROVE  LET r == release_sparse_pack_scratch(s, id) IN
           /\ PackPool(r, e, q) /\ r.all = s.all
           /\ PackIdle(r) \subseteq PackIdle(s) \cup {id}
<1> DEFINE r == release_sparse_pack_scratch(s, id)
<1>1. /\ s \in PackPools /\ Len(s.spare) <= SparsePoolLimit
      /\ \A i, k \in DOMAIN s.spare : s.spare[i] = s.spare[k] => i = k
      /\ s.hot \notin ToSet(s.spare) /\ s.hot \in Nat
  BY DEF PackPool, PackPools
<1>2. id \in Nat /\ id # 0 /\ id # s.hot /\ id \notin ToSet(s.spare)
  <2>1. id \in 1 .. Len(s.all) /\ Len(s.all) \in Nat
    BY <1>1, LenProperties DEF PackPools
  <2>2. id \in Nat /\ id # 0
    BY <2>1
  <2> QED BY <2>2 DEF PackIdle
<1> DEFINE hotter == [s EXCEPT !.hot = id]
<1>3. /\ hotter \in PackPools /\ hotter.hot = id /\ hotter.spare = s.spare
      /\ hotter.all = s.all
  BY <1>1, <1>2 DEF PackPools
<1> HIDE DEF hotter
<1>4. /\ r \in PackPools /\ r.all = s.all /\ Len(r.spare) <= SparsePoolLimit
      /\ \A i, k \in DOMAIN r.spare : r.spare[i] = r.spare[k] => i = k
      /\ r.hot \notin ToSet(r.spare) /\ PackIdle(r) \subseteq PackIdle(s) \cup {id}
  <2>1. CASE s.hot = 0
    <3>1. r = hotter
      BY <2>1 DEF release_sparse_pack_scratch, hotter
    <3> HIDE DEF r
    <3> QED BY <1>1, <1>2, <1>3, <3>1 DEF PackIdle
  <2>2. CASE s.hot # 0 /\ Cap(s, s.hot) <= Cap(s, id)
    <3> DEFINE x == AddSpare(hotter, s.hot)
    <3>1. r = x
      BY <2>2 DEF release_sparse_pack_scratch, hotter
    <3>2. /\ x \in PackPools /\ x.hot = id /\ x.all = s.all
          /\ Len(x.spare) <= SparsePoolLimit
          /\ \A i, k \in DOMAIN x.spare : x.spare[i] = x.spare[k] => i = k
          /\ ToSet(x.spare) \subseteq ToSet(s.spare) \cup {s.hot}
      BY <1>1, <1>3, SpareAdded
    <3> HIDE DEF r, x
    <3> QED BY <1>2, <2>2, <3>1, <3>2 DEF PackIdle
  <2>3. CASE s.hot # 0 /\ ~(Cap(s, s.hot) <= Cap(s, id))
    <3> DEFINE x == AddSpare(s, id)
    <3>1. r = x
      BY <2>3 DEF release_sparse_pack_scratch
    <3>2. /\ x \in PackPools /\ x.hot = s.hot /\ x.all = s.all
          /\ Len(x.spare) <= SparsePoolLimit
          /\ \A i, k \in DOMAIN x.spare : x.spare[i] = x.spare[k] => i = k
          /\ ToSet(x.spare) \subseteq ToSet(s.spare) \cup {id}
      BY <1>1, <1>2, SpareAdded
    <3> HIDE DEF r, x
    <3> QED BY <1>1, <1>2, <2>3, <3>1, <3>2 DEF PackIdle
  <2> HIDE DEF r
  <2> QED BY <2>1, <2>2, <2>3
<1> HIDE DEF r
<1>5. PackPool(r, e, q)
  BY <1>4, PoolChanged
<1> QED BY <1>4, <1>5 DEF r

\* What is acquired is taken from the pool or new.
LEMMA PackAcquired ==
    ASSUME NEW s, NEW e, NEW q, PackPool(s, e, q), NEW cap \in Nat, 0 \notin q
    PROVE  LET got == acquire_sparse_pack_scratch(s, cap) IN
           /\ PackPool(got.s, e, q)
           /\ got.id \in DOMAIN got.s.all /\ got.id \notin PackIdle(got.s)
           /\ PackIdle(got.s) \subseteq PackIdle(s)
           /\ got.id \in PackIdle(s) \/ got.id \notin DOMAIN s.all
           /\ \A i \in DOMAIN s.all : i \in DOMAIN got.s.all /\ got.s.all[i] = s.all[i]
           /\ \A i \in DOMAIN got.s.all : i \in DOMAIN s.all \/ got.s.all[i].op = 0
           /\ got.s.all[got.id].op \notin q
           /\ got.s.all[got.id].buffer = "unmapped" \/ e > 0
<1> DEFINE got == acquire_sparse_pack_scratch(s, cap)
           cold == [s EXCEPT !.hot = 0]
           cooled == IF s.hot = 0 THEN s ELSE AddSpare(cold, s.hot)
           fit == {i \in DOMAIN cooled.spare : cap <= Cap(s, cooled.spare[i])}
<1>1. /\ s \in PackPools /\ Len(s.spare) <= SparsePoolLimit
      /\ \A i, k \in DOMAIN s.spare : s.spare[i] = s.spare[k] => i = k
      /\ s.hot \notin ToSet(s.spare) /\ s.hot \in Nat
      /\ s.all \in Seq(PackScratch) /\ DOMAIN s.all = 1 .. Len(s.all) /\ Len(s.all) \in Nat
      /\ PackIdle(s) \subseteq DOMAIN s.all
      /\ \A i \in PackIdle(s) : /\ s.all[i].op \notin q
                                /\ s.all[i].buffer = "unmapped" \/ e > 0
  BY LenProperties DEF PackPool, PackPools
<1>2. /\ cold \in PackPools /\ cold.hot = 0 /\ cold.spare = s.spare /\ cold.all = s.all
  BY <1>1 DEF PackPools
<1> HIDE DEF cold
<1>3. /\ cooled \in PackPools /\ cooled.hot = 0 /\ cooled.all = s.all
      /\ Len(cooled.spare) <= SparsePoolLimit
      /\ \A i, k \in DOMAIN cooled.spare : cooled.spare[i] = cooled.spare[k] => i = k
      /\ ToSet(cooled.spare) \subseteq PackIdle(s)
  <2>1. CASE s.hot = 0
    BY <1>1, <2>1 DEF PackIdle
  <2>2. CASE s.hot # 0
    <3> DEFINE x == AddSpare(cold, s.hot)
    <3>1. /\ x \in PackPools /\ x.hot = 0 /\ x.all = s.all
          /\ Len(x.spare) <= SparsePoolLimit
          /\ \A i, k \in DOMAIN x.spare : x.spare[i] = x.spare[k] => i = k
          /\ ToSet(x.spare) \subseteq ToSet(s.spare) \cup {s.hot}
      BY <1>1, <1>2, SpareAdded
    <3>2. cooled = x
      BY <2>2
    <3> HIDE DEF x, cooled
    <3> QED BY <2>2, <3>1, <3>2 DEF PackIdle
  <2> QED BY <2>1, <2>2
<1>4. cooled.spare \in Seq(Nat) /\ DOMAIN cooled.spare = 1 .. Len(cooled.spare)
      /\ Len(cooled.spare) \in Nat
  BY <1>3, LenProperties DEF PackPools
<1>5. 0 \notin ToSet(cooled.spare)
  BY <1>1, <1>3
<1>6. CASE s.hot # 0 /\ cap <= Cap(s, s.hot)
  <2>1. got = [id |-> s.hot, s |-> cold]
    BY <1>6 DEF acquire_sparse_pack_scratch, cold
  <2>2. got.id = s.hot /\ got.s = cold
    BY <2>1
  <2> HIDE DEF got
  <2>3. PackIdle(cold) = ToSet(s.spare) /\ s.hot \in PackIdle(s) /\ PackIdle(cold) \subseteq PackIdle(s)
    BY <1>2, <1>6 DEF PackIdle
  <2>4. 0 \notin ToSet(s.spare)
    BY <1>1, <2>3
  <2>5. PackPool(cold, e, q)
    BY <1>1, <1>2, <2>3, <2>4, PoolChanged
  <2> QED BY <1>1, <1>2, <2>2, <2>3, <2>5 DEF got
<1>7. CASE ~(s.hot # 0 /\ cap <= Cap(s, s.hot)) /\ fit # {}
  <2> DEFINE i == CHOOSE k \in fit : \A n \in fit : k <= n
             last == Len(cooled.spare)
             r == [cooled EXCEPT !.spare = WithoutAt(cooled.spare, i)]
  <2>1. got = [id |-> cooled.spare[i], s |-> r]
    BY <1>7 DEF acquire_sparse_pack_scratch, WithoutAt, cold
  <2>2. i \in fit
    <3>1. fit \in SUBSET Nat
      BY <1>4
    <3> HIDE DEF fit
    <3>2. \E k \in fit : \A n \in fit : k <= n
      BY <1>7, <3>1, LeastNat
    <3> QED BY <3>2
  <2>3. i \in DOMAIN cooled.spare
    BY <2>2
  <2> HIDE DEF i, got, cooled, fit
  <2> DEFINE less == WithoutAt(cooled.spare, i)
  <2>4. /\ less \in Seq(Nat) /\ Len(less) = Len(cooled.spare) - 1
        /\ \A k \in DOMAIN less : \E m \in DOMAIN cooled.spare : m # i /\ less[k] = cooled.spare[m]
        /\ \A k, m \in DOMAIN less : less[k] = less[m] => k = m
    BY <1>3, <1>4, <2>3, SwappedOut
  <2> HIDE DEF less
  <2>5. r \in PackPools /\ r.hot = 0 /\ r.all = s.all /\ r.spare = less
    BY <1>3, <2>4 DEF PackPools, less
  <2> HIDE DEF r
  <2>6. got.id = cooled.spare[i] /\ got.s = r
    BY <2>1
  <2>7. Len(less) <= SparsePoolLimit
    BY <1>3, <1>4, <2>4, GpuBatchAssumption
  <2>8. ToSet(less) \subseteq ToSet(cooled.spare) /\ cooled.spare[i] \notin ToSet(less)
        /\ cooled.spare[i] \in ToSet(cooled.spare)
    BY <1>3, <2>3, <2>4 DEF ToSet
  <2>9. PackIdle(r) = ToSet(less)
    BY <1>5, <2>5, <2>8 DEF PackIdle
  <2>10. PackPool(r, e, q)
    <3>1. PackIdle(r) \subseteq PackIdle(s) /\ 0 \notin ToSet(less)
      BY <1>3, <1>5, <2>8, <2>9
    <3> QED BY <2>4, <2>5, <2>7, <3>1, PoolChanged
  <2>11. cooled.spare[i] \in PackIdle(s) /\ cooled.spare[i] \notin PackIdle(r)
    BY <1>3, <2>8, <2>9
  <2> QED BY <1>1, <1>3, <2>5, <2>6, <2>8, <2>9, <2>10, <2>11 DEF got
<1>8. CASE ~(s.hot # 0 /\ cap <= Cap(s, s.hot)) /\ fit = {}
  <2> DEFINE new == [cap |-> cap, op |-> 0, buffer |-> "unmapped"]
             more == Append(s.all, new)
             r == [cooled EXCEPT !.all = Append(@, new)]
             id == Len(s.all) + 1
  <2>1. got = [id |-> id, s |-> r]
    BY <1>8 DEF acquire_sparse_pack_scratch, cold
  <2>2. new \in PackScratch /\ new.op = 0 /\ new.buffer = "unmapped"
    BY DEF PackScratch
  <2> HIDE DEF new, got, cooled, fit
  <2>3. /\ more \in Seq(PackScratch) /\ Len(more) = Len(s.all) + 1
        /\ \A k \in DOMAIN more : \/ k \in DOMAIN s.all /\ more[k] = s.all[k]
                                  \/ k = id /\ more[k] = new
        /\ \A k \in DOMAIN s.all : k \in DOMAIN more /\ more[k] = s.all[k]
        /\ id \in DOMAIN more /\ more[id] = new /\ id \notin DOMAIN s.all
    BY <1>1, <2>2, Appended
  <2> HIDE DEF more
  <2>4. r \in PackPools /\ r.hot = 0 /\ r.spare = cooled.spare /\ r.all = more
    BY <1>3, <2>3 DEF PackPools, more
  <2> HIDE DEF r
  <2>5. got.id = id /\ got.s = r
    BY <2>1
  <2> HIDE DEF id
  <2>6. PackIdle(r) = ToSet(cooled.spare)
    BY <1>5, <2>4 DEF PackIdle
  <2>7. PackPool(r, e, q)
    <3>1. PackIdle(r) \subseteq PackIdle(s) /\ PackIdle(r) \subseteq DOMAIN s.all
      BY <1>1, <1>3, <2>6
    <3>2. r \in [hot : Nat, spare : Seq(Nat), all : Seq(PackScratch)] /\ e \in Nat
      BY <2>4 DEF PackPools, PackPool
    <3>3. \A k \in PackIdle(r) : /\ k \in DOMAIN r.all /\ r.all[k].op \notin q
                                 /\ r.all[k].buffer = "unmapped" \/ e > 0
      BY <1>1, <2>3, <2>4, <3>1
    <3>4. /\ Len(r.spare) <= SparsePoolLimit
          /\ \A k, m \in DOMAIN r.spare : r.spare[k] = r.spare[m] => k = m
          /\ r.hot \notin ToSet(r.spare)
      BY <1>3, <1>5, <2>4
    <3> QED BY <3>2, <3>3, <3>4 DEF PackPool
  <2>8. id \notin PackIdle(r) /\ PackIdle(r) \subseteq PackIdle(s)
    BY <1>1, <1>3, <2>3, <2>6
  <2>9. r.all[id].op \notin q /\ r.all[id].buffer = "unmapped"
    BY <2>2, <2>3, <2>4
  <2>10. /\ \A k \in DOMAIN s.all : k \in DOMAIN r.all /\ r.all[k] = s.all[k]
         /\ \A k \in DOMAIN r.all : k \in DOMAIN s.all \/ r.all[k].op = 0
    BY <2>2, <2>3, <2>4
  <2> QED BY <2>3, <2>4, <2>5, <2>7, <2>8, <2>9, <2>10 DEF got
<1> QED BY <1>6, <1>7, <1>8
--------------------------------------------------------------------------------
(* Groups that are collected.                                                   *)

LEMMA PickedIs ==
    ASSUME NEW S, NEW s \in Seq(S), NEW I \in SUBSET DOMAIN s
    PROVE  /\ Picked(s, I) \in Seq(S) /\ Len(Picked(s, I)) = Cardinality(I)
           /\ \A k \in DOMAIN Picked(s, I) : /\ PickOrder(I)[k] \in I
                                             /\ Picked(s, I)[k] = s[PickOrder(I)[k]]
           /\ \A k, m \in DOMAIN Picked(s, I) : PickOrder(I)[k] = PickOrder(I)[m] => k = m
           /\ \A i \in I : \E k \in DOMAIN Picked(s, I) : PickOrder(I)[k] = i
<1>1. Len(s) \in Nat /\ DOMAIN s = 1 .. Len(s) /\ \A i \in DOMAIN s : s[i] \in S
  BY LenProperties
<1>2. /\ Cardinality(I) \in Nat
      /\ PickOrder(I) \in [1 .. Cardinality(I) -> I]
      /\ \A i \in I : \E k \in 1 .. Cardinality(I) : PickOrder(I)[k] = i
      /\ \A k, m \in 1 .. Cardinality(I) : PickOrder(I)[k] = PickOrder(I)[m] => k = m
  BY <1>1, PickedPositions
<1>3. Picked(s, I) = [k \in 1 .. Cardinality(I) |-> s[PickOrder(I)[k]]]
  BY DEF Picked, PickOrder
<1>4. Picked(s, I) \in [1 .. Cardinality(I) -> S]
  BY <1>1, <1>2, <1>3
<1>5. Picked(s, I) \in Seq(S) /\ Len(Picked(s, I)) = Cardinality(I)
      /\ DOMAIN Picked(s, I) = 1 .. Cardinality(I)
  BY <1>2, <1>4, FunctionIsSeq
<1> QED BY <1>2, <1>3, <1>5

\* What is left of the pending groups.
Remaining(t, taken) ==
    LET queue == gpuWorker[t].pending
    IN  Picked(queue, {k \in DOMAIN queue : queue[k] \notin ToSet(taken)})

CollectStart(t, taken) ==
    [s |-> sparse, errors |-> packErrors,
     w |-> [gpuWorker[t] EXCEPT !.pending = Remaining(t, taken)]]

\* One group after the other.
LEMMA CollectUnrolled ==
    ASSUME NEW t, NEW taken, Len(taken) \in Nat
    PROVE  \E r : /\ r[0] = CollectStart(t, taken)
                  /\ \A n \in 1 .. Len(taken) : r[n] = Collect(t, r[n - 1], taken[n])
                  /\ CollectAll(t, taken, gpuWorker[t]) = r[Len(taken)]
<1> DEFINE N == Len(taken)
           start == CollectStart(t, taken)
           R(r, m) == r = [n \in 0 .. m |-> IF n = 0 THEN start ELSE Collect(t, r[n - 1], taken[n])]
           F == {m \in 0 .. N : ~\E r : R(r, m)}
<1>1. F = {}
  <2> SUFFICES ASSUME F # {} PROVE FALSE
    OBVIOUS
  <2>1. F \in SUBSET Nat
    OBVIOUS
  <2> HIDE DEF F
  <2>2. PICK m \in F : \A k \in F : m <= k
    BY <2>1, LeastNat
  <2>3. m \in 0 .. N /\ ~\E r : R(r, m)
    BY <2>2 DEF F
  <2>4. CASE m = 0
    <3> DEFINE r == [n \in 0 .. 0 |-> start]
    <3>1. \A n \in 0 .. 0 : n = 0
      OBVIOUS
    <3>2. R(r, 0)
      <4>1. \A n \in 0 .. 0 : (IF n = 0 THEN start ELSE Collect(t, r[n - 1], taken[n])) = start
        BY <3>1
      <4> QED BY <4>1
    <3> QED BY <2>3, <2>4, <3>2
  <2>5. CASE m # 0
    <3>1. m - 1 \in 0 .. N /\ m - 1 \notin F /\ m \in Nat
      BY <2>2, <2>3, <2>5
    <3>2. PICK q : R(q, m - 1)
      BY <3>1 DEF F
    <3> DEFINE x == Collect(t, q[m - 1], taken[m])
               r == [n \in 0 .. m |-> IF n = m THEN x ELSE q[n]]
    <3>3. ASSUME NEW n \in 0 .. m
          PROVE  r[n] = IF n = 0 THEN start ELSE Collect(t, r[n - 1], taken[n])
      <4>1. CASE n = 0
        <5>1. 0 \in 0 .. m - 1 /\ 0 # m
          BY <2>5, <3>1
        <5>2. q[0] = start
          BY <3>2, <5>1
        <5> QED BY <4>1, <5>1, <5>2
      <4>2. CASE n # 0 /\ n = m
        <5>1. n - 1 \in 0 .. m /\ n - 1 # m
          BY <3>1, <4>2
        <5>2. r[n - 1] = q[m - 1] /\ r[n] = x
          BY <4>2, <5>1
        <5> HIDE DEF r
        <5> QED BY <4>2, <5>2
      <4>3. CASE n # 0 /\ n # m
        <5>1. n \in 0 .. m - 1 /\ n - 1 \in 0 .. m /\ n - 1 # m
          BY <3>1, <4>3
        <5>2. r[n - 1] = q[n - 1] /\ r[n] = q[n]
          BY <4>3, <5>1
        <5>3. q[n] = Collect(t, q[n - 1], taken[n])
          BY <3>2, <4>3, <5>1
        <5> HIDE DEF r
        <5> QED BY <4>3, <5>2, <5>3
      <4> QED BY <4>1, <4>2, <4>3
    <3>4. R(r, m)
      <4>1. r = [n \in 0 .. m |-> r[n]]
        OBVIOUS
      <4> HIDE DEF r
      <4> QED BY <3>3, <4>1
    <3> QED BY <2>3, <3>4
  <2> QED BY <2>4, <2>5
<1>2. N \in 0 .. N
  OBVIOUS
<1>3. \E r : R(r, N)
  BY <1>1, <1>2
<1>4. CollectAll(t, taken, gpuWorker[t]) = (CHOOSE r : R(r, N))[N]
  BY DEF CollectAll, CollectStart, Remaining
<1>5. PICK r : R(r, N) /\ CollectAll(t, taken, gpuWorker[t]) = r[N]
  <2>1. R(CHOOSE r : R(r, N), N)
    BY <1>3
  <2> QED BY <1>4, <2>1
<1>6. r[0] = start
  BY <1>2, <1>5
<1>7. \A n \in 1 .. N : r[n] = Collect(t, r[n - 1], taken[n])
  <2> TAKE n \in 1 .. N
  <2>1. n \in 0 .. N /\ n # 0
    OBVIOUS
  <2> QED BY <1>5, <2>1
<1> QED BY <1>5, <1>6, <1>7

\* What may be collected: pending groups that are not waited for, each once.
TakenBy(t, taken) ==
    /\ taken \in Seq(Submission)
    /\ \A k \in DOMAIN taken : \E m \in DOMAIN gpuWorker[t].pending :
          taken[k] = gpuWorker[t].pending[m] /\ taken[k].map # "waiting"
    /\ \A k, m \in DOMAIN taken : taken[k].scratch = taken[m].scratch => k = m

\* After n of them.
CollectedSoFar(t, taken, n, acc) ==
    /\ PackPool(acc.s, acc.errors, ToSet(sparseQueue)) /\ acc.errors >= packErrors
    /\ DOMAIN acc.s.all = DOMAIN sparse.all
    /\ \A i \in DOMAIN sparse.all : acc.s.all[i].op = sparse.all[i].op
    /\ PackIdle(acc.s) \subseteq PackIdle(sparse) \cup {taken[k].scratch : k \in 1 .. n}
    /\ acc.w \in PackCall
    /\ acc.w.pending = Remaining(t, taken)
    /\ acc.w.groups = gpuWorker[t].groups /\ acc.w.batches = gpuWorker[t].batches
    /\ acc.w.table = gpuWorker[t].table /\ acc.w.matched = gpuWorker[t].matched
    /\ DOMAIN acc.w.encoded = DOMAIN Batch(t)
    /\ \A i \in DOMAIN Batch(t) : acc.w.encoded[i] \in {{}, {Batch(t)[i].id}}

LEMMA BatchIsSeq ==
    ASSUME NEW w, w \in PackCall, w.batches # <<>>
    PROVE  /\ Head(w.batches) \in Seq(BatchChunk) /\ Len(Head(w.batches)) \in Nat
           /\ DOMAIN Head(w.batches) = 1 .. Len(Head(w.batches))
           /\ \A i \in DOMAIN Head(w.batches) : Head(w.batches)[i] \in BatchChunk
<1>1. w.batches \in Seq(Seq(BatchChunk))
  BY DEF PackCall
<1>2. Head(w.batches) \in Seq(BatchChunk)
  BY <1>1, HeadLeaves
<1> QED BY <1>2, LenProperties

\* The chunks of a group.
LEMMA ChunksOfGroup ==
    ASSUME NEW t, Batch(t) \in Seq(BatchChunk), NEW group \in Seq(Nat), GroupOf(Batch(t), group)
    PROVE  /\ ChunksOf(t, group) \in Seq(BatchChunk)
           /\ Len(ChunksOf(t, group)) = Len(group) /\ Len(group) \in Nat /\ Len(group) > 0
           /\ DOMAIN ChunksOf(t, group) = DOMAIN group
           /\ \A k \in DOMAIN group : /\ group[k] \in DOMAIN Batch(t)
                                      /\ ChunksOf(t, group)[k] = Batch(t)[group[k]]
<1>1. /\ DOMAIN group = 1 .. Len(group) /\ Len(group) \in Nat /\ Len(group) # 0
      /\ \A k \in DOMAIN group : group[k] \in DOMAIN Batch(t)
  BY LenProperties, EmptySeq DEF GroupOf
<1>2. \A i \in DOMAIN Batch(t) : Batch(t)[i] \in BatchChunk
  BY LenProperties
<1>3. ChunksOf(t, group) = [k \in 1 .. Len(group) |-> Batch(t)[group[k]]]
  BY <1>1 DEF ChunksOf
<1>4. ChunksOf(t, group) \in [1 .. Len(group) -> BatchChunk]
  BY <1>1, <1>2, <1>3
<1>5. /\ ChunksOf(t, group) \in Seq(BatchChunk) /\ Len(ChunksOf(t, group)) = Len(group)
      /\ DOMAIN ChunksOf(t, group) = 1 .. Len(group)
  BY <1>1, <1>4, FunctionIsSeq
<1> QED BY <1>1, <1>3, <1>5

\* What was packed of a group is stored with the chunks it is of.
LEMMA EncodedIs ==
    ASSUME NEW t, Batch(t) \in Seq(BatchChunk), NEW group \in Seq(Nat), GroupOf(Batch(t), group),
           \A k \in DOMAIN group : Batch(t)[group[k]].len <= Batch(t)[group[k]].cap,
           NEW i \in ToSet(group)
    PROVE  Payload(ChunksOf(t, group), CHOOSE k \in DOMAIN ChunksOf(t, group) : group[k] = i)
             = {Batch(t)[i].id}
<1> DEFINE g == ChunksOf(t, group)
           k == CHOOSE k \in DOMAIN g : group[k] = i
<1>1. /\ g \in Seq(BatchChunk) /\ DOMAIN g = DOMAIN group
      /\ \A m \in DOMAIN group : g[m] = Batch(t)[group[m]]
  BY ChunksOfGroup
<1> HIDE DEF g
<1>2. k \in DOMAIN g /\ group[k] = i
  BY <1>1 DEF ToSet
<1> HIDE DEF k
<1>3. \A m \in DOMAIN g : g[m].len <= g[m].cap
  BY <1>1
<1>4. Payload(g, k) = {g[k].id}
  BY <1>1, <1>2, <1>3, PayloadIs
<1> QED BY <1>1, <1>2, <1>4 DEF g, k

\* What is remembered of a call that collects.
LEMMA CallsPacked ==
    ASSUME PackInv, NEW t \in GpuWorkers, gpuWorker[t].stage \notin {"prepare", "done"}
    PROVE  /\ gpuWorker[t] \in PackCall /\ PackKnows(gpuWorker[t])
           /\ Batch(t) \in Seq(BatchChunk) /\ Len(Batch(t)) \in Nat
           /\ DOMAIN Batch(t) = 1 .. Len(Batch(t))
           /\ gpuWorker[t].pending \in Seq(Submission)
           /\ DOMAIN gpuWorker[t].pending = 1 .. Len(gpuWorker[t].pending)
           /\ Len(gpuWorker[t].pending) \in Nat
<1>1. gpuWorker[t] \in PackCall /\ PackKnows(gpuWorker[t])
  BY DEF PackInv, PackCalls, PackCallSound
<1>2. gpuWorker[t].batches # <<>>
  BY <1>1 DEF PackKnows
<1>3. gpuWorker[t].pending \in Seq(Submission)
  BY <1>1 DEF PackCall
<1> QED BY <1>1, <1>2, <1>3, BatchIsSeq, LenProperties DEF Batch

LEMMA CollectBegins ==
    ASSUME PackInv, NEW t \in GpuWorkers, gpuWorker[t].stage \notin {"prepare", "done"},
           NEW taken
    PROVE  CollectedSoFar(t, taken, 0, CollectStart(t, taken))
<1> DEFINE w == gpuWorker[t]
           v == [w EXCEPT !.pending = Remaining(t, taken)]
<1>1. w \in PackCall /\ PackKnows(w) /\ w.pending \in Seq(Submission)
  BY CallsPacked
<1>2. Remaining(t, taken) \in Seq(Submission)
  <2>1. {k \in DOMAIN w.pending : w.pending[k] \notin ToSet(taken)} \in SUBSET DOMAIN w.pending
    OBVIOUS
  <2> QED BY <1>1, <2>1, PickedIs DEF Remaining
<1>3. /\ v \in PackCall /\ v.pending = Remaining(t, taken) /\ v.groups = w.groups
      /\ v.batches = w.batches /\ v.table = w.table /\ v.matched = w.matched
      /\ v.encoded = w.encoded
  BY <1>1, <1>2 DEF PackCall
<1> HIDE DEF v
<1>4. /\ DOMAIN w.encoded = DOMAIN Batch(t)
      /\ \A i \in DOMAIN Batch(t) : w.encoded[i] \in {{}, {Batch(t)[i].id}}
  BY <1>1 DEF PackKnows, Batch
<1>5. PackPool(sparse, packErrors, ToSet(sparseQueue)) /\ packErrors >= packErrors
  <2>1. PackPool(sparse, packErrors, ToSet(sparseQueue))
    BY DEF PackInv, PackHeld
  <2>2. packErrors \in Nat
    BY <2>1 DEF PackPool
  <2> QED BY <2>1, <2>2
<1>6. CollectStart(t, taken) = [s |-> sparse, errors |-> packErrors, w |-> v]
  BY DEF CollectStart, v
<1> QED BY <1>3, <1>4, <1>5, <1>6 DEF CollectedSoFar

LEMMA CollectStep ==
    ASSUME PackInv, NEW t \in GpuWorkers, gpuWorker[t].stage \notin {"prepare", "done"},
           NEW taken, TakenBy(t, taken), NEW n \in 0 .. Len(taken) - 1,
           NEW acc, CollectedSoFar(t, taken, n, acc)
    PROVE  CollectedSoFar(t, taken, n + 1, Collect(t, acc, taken[n + 1]))
<1> DEFINE p == taken[n + 1]
           w == gpuWorker[t]
           q == ToSet(sparseQueue)
           g == ChunksOf(t, p.group)
           good == Collects(t, p)
           s == IF good THEN [acc.s EXCEPT !.all[p.scratch].buffer = "unmapped"] ELSE acc.s
           e == acc.errors + (IF good THEN 0 ELSE Len(g))
           r == release_sparse_pack_scratch(s, p.scratch)
           enc == [i \in DOMAIN acc.w.encoded |->
                      IF i \in ToSet(p.group)
                      THEN Payload(g, CHOOSE k \in DOMAIN g : p.group[k] = i)
                      ELSE acc.w.encoded[i]]
           v == IF good THEN [acc.w EXCEPT !.encoded = enc]
                ELSE [acc.w EXCEPT !.fallback = @ \cup ToSet(p.group)]
<1>1. /\ w \in PackCall /\ PackKnows(w) /\ Batch(t) \in Seq(BatchChunk)
      /\ Len(Batch(t)) \in Nat /\ DOMAIN Batch(t) = 1 .. Len(Batch(t))
      /\ w.pending \in Seq(Submission) /\ DOMAIN w.pending = 1 .. Len(w.pending)
  BY CallsPacked
<1>2. /\ Len(taken) \in Nat /\ DOMAIN taken = 1 .. Len(taken)
      /\ n + 1 \in DOMAIN taken /\ n \in Nat
  BY LenProperties DEF TakenBy
<1>3. PICK m \in DOMAIN w.pending : p = w.pending[m] /\ p.map # "waiting"
  BY <1>2 DEF TakenBy
<1>4. p \in Submission /\ p.group \in Seq(Nat) /\ p.scratch \in Nat
  <2>1. w.pending[m] \in Submission
    BY <1>1, <1>3, LenProperties
  <2>2. p \in Submission
    BY <1>3, <2>1
  <2> HIDE DEF p
  <2> QED BY <2>2 DEF Submission
<1>5. GroupOf(Batch(t), p.group)
  BY <1>1, <1>3 DEF PackKnows, Batch
<1>6. /\ g \in Seq(BatchChunk) /\ Len(g) = Len(p.group) /\ Len(g) \in Nat /\ Len(g) > 0
      /\ DOMAIN g = DOMAIN p.group
      /\ \A k \in DOMAIN p.group : p.group[k] \in DOMAIN Batch(t) /\ g[k] = Batch(t)[p.group[k]]
  BY <1>1, <1>4, <1>5, ChunksOfGroup
<1>7. /\ p.scratch \in DOMAIN sparse.all /\ p.scratch \notin PackIdle(sparse)
      /\ sparse.all[p.scratch].op = p.op /\ p.op \notin q
  BY <1>3 DEF PackInv, PackHeld
<1>8. /\ PackPool(acc.s, acc.errors, q) /\ acc.errors >= packErrors
      /\ DOMAIN acc.s.all = DOMAIN sparse.all
      /\ \A i \in DOMAIN sparse.all : acc.s.all[i].op = sparse.all[i].op
      /\ PackIdle(acc.s) \subseteq PackIdle(sparse) \cup {taken[k].scratch : k \in 1 .. n}
      /\ acc.errors \in Nat /\ acc.s \in PackPools /\ packErrors \in Nat
  BY DEF CollectedSoFar, PackPool, PackPools, PackInv, PackHeld
<1>9. p.scratch \notin PackIdle(acc.s)
  <2>1. \A k \in 1 .. n : k \in DOMAIN taken /\ k # n + 1
    BY <1>2
  <2>2. \A k \in 1 .. n : taken[k].scratch # p.scratch
    BY <1>2, <2>1 DEF TakenBy
  <2> QED BY <1>7, <1>8, <2>2
<1>10. /\ Collect(t, acc, p).s = r
       /\ Collect(t, acc, p).errors = e
       /\ Collect(t, acc, p).w = v
  BY DEF Collect
<1>11. e \in Nat /\ e >= acc.errors /\ (~good => e > 0)
  BY <1>6, <1>8
<1>12. /\ s \in PackPools /\ s.hot = acc.s.hot /\ s.spare = acc.s.spare
       /\ DOMAIN s.all = DOMAIN acc.s.all
       /\ \A i \in DOMAIN acc.s.all : /\ s.all[i].op = acc.s.all[i].op
                                      /\ i # p.scratch => s.all[i] = acc.s.all[i]
       /\ good => s.all[p.scratch].buffer = "unmapped"
  <2>1. CASE ~good
    BY <1>8, <2>1
  <2>2. CASE good
    <3> DEFINE all == [acc.s.all EXCEPT ![p.scratch].buffer = "unmapped"]
    <3>1. /\ acc.s.all \in Seq(PackScratch) /\ DOMAIN acc.s.all = 1 .. Len(acc.s.all)
          /\ Len(acc.s.all) \in Nat /\ \A i \in DOMAIN acc.s.all : acc.s.all[i] \in PackScratch
      BY <1>8, LenProperties DEF PackPools
    <3>2. DOMAIN all = 1 .. Len(acc.s.all)
      BY <3>1
    <3>3. \A i \in DOMAIN acc.s.all :
             /\ all[i] \in PackScratch /\ all[i].op = acc.s.all[i].op
             /\ i # p.scratch => all[i] = acc.s.all[i]
             /\ i = p.scratch => all[i].buffer = "unmapped"
      BY <3>1 DEF PackScratch
    <3>4. all \in Seq(PackScratch)
      <4>1. all \in [1 .. Len(acc.s.all) -> PackScratch]
        <5>1. all = [i \in 1 .. Len(acc.s.all) |-> all[i]]
          BY <3>1
        <5> HIDE DEF all
        <5> QED BY <3>1, <3>3, <5>1
      <4> HIDE DEF all
      <4> QED BY <3>1, <4>1, FunctionIsSeq
    <3>5. s = [acc.s EXCEPT !.all = all]
      BY <2>2
    <3> HIDE DEF all, s
    <3>6. s \in PackPools /\ s.hot = acc.s.hot /\ s.spare = acc.s.spare /\ s.all = all
      BY <1>8, <3>4, <3>5 DEF PackPools
    <3> QED BY <1>7, <1>8, <3>1, <3>2, <3>3, <3>6
  <2> HIDE DEF s
  <2> QED BY <2>1, <2>2
<1> HIDE DEF s
<1>13. PackIdle(s) = PackIdle(acc.s)
  BY <1>12 DEF PackIdle
<1>14. PackPool(s, e, q)
  <2>1. PackIdle(s) \subseteq DOMAIN s.all
    BY <1>8, <1>12, <1>13 DEF PackPool
  <2>2. \A i \in PackIdle(s) : s.all[i] = acc.s.all[i]
    BY <1>9, <1>12, <1>13, <2>1
  <2>3. \A i \in PackIdle(s) : s.all[i].op \notin q /\ (s.all[i].buffer = "unmapped" \/ e > 0)
    <3>1. acc.errors > 0 => e > 0
      BY <1>8, <1>11
    <3> HIDE DEF e, q
    <3> QED BY <1>8, <1>13, <2>2, <3>1 DEF PackPool
  <2>4. /\ Len(s.spare) <= SparsePoolLimit
        /\ \A i, k \in DOMAIN s.spare : s.spare[i] = s.spare[k] => i = k
        /\ s.hot \notin ToSet(s.spare)
    BY <1>8, <1>12 DEF PackPool
  <2> HIDE DEF e, q
  <2> QED BY <1>11, <1>12, <2>1, <2>3, <2>4 DEF PackPool, PackPools
<1>15. /\ PackPool(r, e, q) /\ r.all = s.all /\ PackIdle(r) \subseteq PackIdle(s) \cup {p.scratch}
  <2>1. p.scratch \in DOMAIN s.all /\ p.scratch \notin PackIdle(s)
    BY <1>7, <1>8, <1>9, <1>12, <1>13
  <2>2. s.all[p.scratch].op \notin q
    BY <1>7, <1>8, <1>12
  <2>3. s.all[p.scratch].buffer = "unmapped" \/ e > 0
    BY <1>11, <1>12
  <2> HIDE DEF e, q, p
  <2> QED BY <1>14, <2>1, <2>2, <2>3, PackReleased
<1>16. PackIdle(r) \subseteq PackIdle(sparse) \cup {taken[k].scratch : k \in 1 .. n + 1}
  <2>1. n + 1 \in 1 .. n + 1 /\ \A k \in 1 .. n : k \in 1 .. n + 1
    BY <1>2
  <2> HIDE DEF r
  <2> QED BY <1>8, <1>13, <1>15, <2>1
<1>17. /\ v \in PackCall
       /\ v.pending = Remaining(t, taken) /\ v.groups = w.groups /\ v.batches = w.batches
       /\ v.table = w.table /\ v.matched = w.matched
       /\ DOMAIN v.encoded = DOMAIN Batch(t)
       /\ \A i \in DOMAIN Batch(t) : v.encoded[i] \in {{}, {Batch(t)[i].id}}
  <2>1. /\ acc.w \in PackCall /\ acc.w.pending = Remaining(t, taken) /\ acc.w.groups = w.groups
        /\ acc.w.batches = w.batches /\ acc.w.table = w.table /\ acc.w.matched = w.matched
        /\ DOMAIN acc.w.encoded = DOMAIN Batch(t)
        /\ \A i \in DOMAIN Batch(t) : acc.w.encoded[i] \in {{}, {Batch(t)[i].id}}
    BY DEF CollectedSoFar
  <2>2. CASE good
    <3>1. \A i \in DOMAIN Batch(t) : enc[i] \in {{}, {Batch(t)[i].id}}
      <4>1. \A k \in DOMAIN p.group : Batch(t)[p.group[k]].len <= Batch(t)[p.group[k]].cap
        BY <2>2 DEF Collects
      <4>2. \A i \in ToSet(p.group) :
               Payload(g, CHOOSE k \in DOMAIN g : p.group[k] = i) = {Batch(t)[i].id}
        BY <1>1, <1>4, <1>5, <4>1, EncodedIs
      <4> TAKE i \in DOMAIN Batch(t)
      <4>3. CASE i \in ToSet(p.group)
        <5>1. enc[i] = Payload(g, CHOOSE k \in DOMAIN g : p.group[k] = i)
          BY <2>1, <4>3
        <5> HIDE DEF enc
        <5> QED BY <4>2, <4>3, <5>1
      <4>4. CASE i \notin ToSet(p.group)
        <5>1. enc[i] = acc.w.encoded[i]
          BY <2>1, <4>4
        <5> HIDE DEF enc
        <5> QED BY <2>1, <5>1
      <4> QED BY <4>3, <4>4
    <3>2. DOMAIN enc = 1 .. Len(Batch(t))
      BY <1>1, <2>1
    <3>3. \A i \in DOMAIN Batch(t) : Batch(t)[i].id \in Nat
      <4>1. \A i \in DOMAIN Batch(t) : Batch(t)[i] \in BatchChunk
        BY <1>1, LenProperties
      <4> QED BY <4>1 DEF BatchChunk
    <3>4. enc = [i \in 1 .. Len(Batch(t)) |-> enc[i]]
      BY <1>1, <2>1
    <3>5. v = [acc.w EXCEPT !.encoded = enc]
      BY <2>2
    <3> HIDE DEF enc, v
    <3>6. enc \in [1 .. Len(Batch(t)) -> SUBSET Nat]
      <4>1. \A i \in 1 .. Len(Batch(t)) : enc[i] \in SUBSET Nat
        BY <1>1, <3>1, <3>3
      <4> QED BY <3>4, <4>1
    <3>7. enc \in Seq(SUBSET Nat)
      BY <1>1, <3>6, FunctionIsSeq
    <3>8. /\ v \in PackCall /\ v.encoded = enc /\ v.pending = acc.w.pending
          /\ v.groups = acc.w.groups /\ v.batches = acc.w.batches /\ v.table = acc.w.table
          /\ v.matched = acc.w.matched
      BY <2>1, <3>5, <3>7 DEF PackCall
    <3> QED BY <1>1, <2>1, <3>1, <3>2, <3>8
  <2>3. CASE ~good
    <3>1. ToSet(p.group) \subseteq Nat
      BY <1>4, LenProperties DEF ToSet
    <3>2. v = [acc.w EXCEPT !.fallback = @ \cup ToSet(p.group)]
      BY <2>3
    <3> HIDE DEF v, p
    <3>3. /\ v \in PackCall /\ v.encoded = acc.w.encoded /\ v.pending = acc.w.pending
          /\ v.groups = acc.w.groups /\ v.batches = acc.w.batches /\ v.table = acc.w.table
          /\ v.matched = acc.w.matched
      BY <2>1, <3>1, <3>2 DEF PackCall
    <3> QED BY <2>1, <3>3
  <2> QED BY <2>2, <2>3
<1>18. DOMAIN r.all = DOMAIN sparse.all /\ \A i \in DOMAIN sparse.all : r.all[i].op = sparse.all[i].op
  BY <1>8, <1>12, <1>15
<1>19. e >= packErrors
  BY <1>8, <1>11
<1> HIDE DEF r, e, v, q, p
<1> QED BY <1>10, <1>15, <1>16, <1>17, <1>18, <1>19 DEF CollectedSoFar, q, p, w

LEMMA CollectEnds ==
    ASSUME PackInv, NEW t \in GpuWorkers, gpuWorker[t].stage \notin {"prepare", "done"},
           NEW taken, TakenBy(t, taken)
    PROVE  CollectedSoFar(t, taken, Len(taken), CollectAll(t, taken, gpuWorker[t]))
<1>1. Len(taken) \in Nat
  BY LenProperties DEF TakenBy
<1>2. PICK r : /\ r[0] = CollectStart(t, taken)
               /\ \A n \in 1 .. Len(taken) : r[n] = Collect(t, r[n - 1], taken[n])
               /\ CollectAll(t, taken, gpuWorker[t]) = r[Len(taken)]
  BY <1>1, CollectUnrolled
<1> DEFINE F == {n \in 0 .. Len(taken) : ~CollectedSoFar(t, taken, n, r[n])}
<1>3. F = {}
  <2> SUFFICES ASSUME F # {} PROVE FALSE
    OBVIOUS
  <2>1. F \in SUBSET Nat
    OBVIOUS
  <2> HIDE DEF F
  <2>2. PICK n \in F : \A k \in F : n <= k
    BY <2>1, LeastNat
  <2>3. n \in 0 .. Len(taken) /\ ~CollectedSoFar(t, taken, n, r[n])
    BY <2>2 DEF F
  <2>4. n # 0
    BY <1>2, <2>3, CollectBegins
  <2>5. n - 1 \in 0 .. Len(taken) - 1 /\ n - 1 \in 0 .. Len(taken) /\ n - 1 \notin F
        /\ n \in 1 .. Len(taken) /\ (n - 1) + 1 = n
    BY <1>1, <2>2, <2>3, <2>4
  <2>6. CollectedSoFar(t, taken, n - 1, r[n - 1])
    BY <2>5 DEF F
  <2>7. CollectedSoFar(t, taken, (n - 1) + 1, Collect(t, r[n - 1], taken[(n - 1) + 1]))
    BY <2>5, <2>6, CollectStep
  <2> QED BY <1>2, <2>3, <2>5, <2>7
<1>4. Len(taken) \in 0 .. Len(taken)
  BY <1>1
<1> QED BY <1>2, <1>3, <1>4

\* What remains keeps its order, and nothing of it was taken.
LEMMA RemainingIs ==
    ASSUME PackInv, NEW t \in GpuWorkers, gpuWorker[t].stage \notin {"prepare", "done"},
           NEW taken
    PROVE  /\ Remaining(t, taken) \in Seq(Submission)
           /\ Len(Remaining(t, taken)) \in Nat
           /\ DOMAIN Remaining(t, taken) = 1 .. Len(Remaining(t, taken))
           /\ \E o : /\ \A k \in DOMAIN Remaining(t, taken) :
                           /\ o[k] \in DOMAIN gpuWorker[t].pending
                           /\ Remaining(t, taken)[k] = gpuWorker[t].pending[o[k]]
                           /\ gpuWorker[t].pending[o[k]] \notin ToSet(taken)
                     /\ \A k, m \in DOMAIN Remaining(t, taken) : o[k] = o[m] => k = m
                     /\ \A i \in DOMAIN gpuWorker[t].pending :
                           gpuWorker[t].pending[i] \notin ToSet(taken) =>
                              \E k \in DOMAIN Remaining(t, taken) : o[k] = i
<1> DEFINE queue == gpuWorker[t].pending
           I == {k \in DOMAIN queue : queue[k] \notin ToSet(taken)}
<1>1. queue \in Seq(Submission)
  BY CallsPacked
<1>2. I \in SUBSET DOMAIN queue
  OBVIOUS
<1>3. Remaining(t, taken) = Picked(queue, I)
  BY DEF Remaining
<1>4. \A i \in I : i \in DOMAIN queue /\ queue[i] \notin ToSet(taken)
  OBVIOUS
<1>5. \A i \in DOMAIN queue : queue[i] \notin ToSet(taken) => i \in I
  OBVIOUS
<1> HIDE DEF I, queue
<1>6. /\ Picked(queue, I) \in Seq(Submission)
      /\ \A k \in DOMAIN Picked(queue, I) : /\ PickOrder(I)[k] \in I
                                            /\ Picked(queue, I)[k] = queue[PickOrder(I)[k]]
      /\ \A k, m \in DOMAIN Picked(queue, I) : PickOrder(I)[k] = PickOrder(I)[m] => k = m
      /\ \A i \in I : \E k \in DOMAIN Picked(queue, I) : PickOrder(I)[k] = i
  BY <1>1, <1>2, PickedIs
<1> DEFINE o == PickOrder(I)  rest == Remaining(t, taken)
<1>7. /\ \A k \in DOMAIN rest : /\ o[k] \in DOMAIN queue /\ rest[k] = queue[o[k]]
                                /\ queue[o[k]] \notin ToSet(taken)
      /\ \A k, m \in DOMAIN rest : o[k] = o[m] => k = m
      /\ \A i \in DOMAIN queue : queue[i] \notin ToSet(taken) => \E k \in DOMAIN rest : o[k] = i
  BY <1>3, <1>4, <1>5, <1>6
<1>8. rest \in Seq(Submission) /\ Len(rest) \in Nat /\ DOMAIN rest = 1 .. Len(rest)
  BY <1>3, <1>6, LenProperties
<1> HIDE DEF o, rest
<1> QED BY <1>7, <1>8 DEF rest, queue

\* The next state of a call that collected groups.
LEMMA PackBecomes ==
    ASSUME PackInv, NEW t \in GpuWorkers,
           gpuWorker[t].stage \in {"group", "room", "front", "after", "high"},
           NEW taken, TakenBy(t, taken),
           NEW stage \in {"group", "room", "front", "submit", "high", "match"},
           Becomes(t, CollectAll(t, taken, gpuWorker[t]), stage),
           stage \in {"room", "front", "submit"} => gpuWorker[t].groups # <<>>,
           stage = "front" => Remaining(t, taken) # <<>>,
           stage = "match" => Remaining(t, taken) = <<>>
    PROVE  PackInv'
<1> DEFINE acc == CollectAll(t, taken, gpuWorker[t])
           v == [acc.w EXCEPT !.stage = stage]
           w == gpuWorker[t]
           rest == Remaining(t, taken)
<1>0. gpuWorker[t].stage \notin {"prepare", "done"}
  OBVIOUS
<1>1. /\ w \in PackCall /\ PackKnows(w) /\ Batch(t) \in Seq(BatchChunk)
      /\ w.pending \in Seq(Submission)
  BY <1>0, CallsPacked
<1>2. CollectedSoFar(t, taken, Len(taken), acc)
  BY <1>0, CollectEnds
<1>3. /\ gpuWorker' = [gpuWorker EXCEPT ![t] = v]
      /\ sparse' = acc.s /\ packErrors' = acc.errors
      /\ sparseQueue' = sparseQueue /\ sparseOps' = sparseOps
  BY DEF Becomes
<1> HIDE DEF acc
<1>4. gpuWorker \in [GpuWorkers -> PackCall] /\ \A u \in GpuWorkers : PackCallSound(gpuWorker[u])
  BY DEF PackInv, PackCalls
<1>5. /\ v \in PackCall /\ v.stage = stage /\ v.pending = rest /\ v.groups = w.groups
      /\ v.batches = w.batches /\ v.table = w.table /\ v.matched = w.matched
      /\ v.encoded = acc.w.encoded
  BY <1>2 DEF CollectedSoFar, PackCall
<1> HIDE DEF v, rest
<1>6. /\ rest \in Seq(Submission) /\ Len(rest) \in Nat /\ DOMAIN rest = 1 .. Len(rest)
  BY <1>0, RemainingIs DEF rest
<1>7. PICK o : /\ \A k \in DOMAIN rest : /\ o[k] \in DOMAIN w.pending /\ rest[k] = w.pending[o[k]]
                                         /\ w.pending[o[k]] \notin ToSet(taken)
               /\ \A k, m \in DOMAIN rest : o[k] = o[m] => k = m
  BY <1>0, RemainingIs DEF rest
<1>8. PackKnows(v)
  <2>1. \A k \in DOMAIN v.pending : GroupOf(Head(v.batches), v.pending[k].group)
    BY <1>1, <1>5, <1>7 DEF PackKnows
  <2>2. /\ DOMAIN v.encoded = DOMAIN Head(v.batches)
        /\ \A i \in DOMAIN Head(v.batches) : v.encoded[i] \in {{}, {Head(v.batches)[i].id}}
    BY <1>2, <1>5 DEF CollectedSoFar, Batch
  <2> QED BY <1>1, <1>5, <2>1, <2>2 DEF PackKnows
<1>9. PackCallSound(v)
  BY <1>5, <1>8 DEF PackCallSound, PackKnows, rest
<1>10. PackCalls'
  BY <1>3, <1>4, <1>5, <1>9 DEF PackCalls
<1>11. PackQueue'
  BY <1>3 DEF PackInv, PackQueue
<1>12. \A k \in DOMAIN taken : \E m \in DOMAIN w.pending :
          taken[k] = w.pending[m] /\ taken[k] \in ToSet(taken)
  <2>1. DOMAIN taken = 1 .. Len(taken)
    BY LenProperties DEF TakenBy
  <2> QED BY <2>1 DEF TakenBy, ToSet
<1>13. PackIdle(sparse') \subseteq PackIdle(sparse) \cup {taken[k].scratch : k \in DOMAIN taken}
  <2>1. DOMAIN taken = 1 .. Len(taken)
    BY LenProperties DEF TakenBy
  <2> QED BY <1>2, <1>3, <2>1 DEF CollectedSoFar
<1>14. \A u, x \in GpuWorkers : \A k \in DOMAIN gpuWorker[u].pending :
          \A m \in DOMAIN gpuWorker[x].pending :
             gpuWorker[u].pending[k].scratch = gpuWorker[x].pending[m].scratch => u = x /\ k = m
  BY DEF PackInv, PackHeld
<1>15. \A u \in GpuWorkers : \A k \in DOMAIN gpuWorker'[u].pending :
          \E j \in DOMAIN gpuWorker[u].pending :
             /\ gpuWorker'[u].pending[k] = gpuWorker[u].pending[j]
             /\ u = t => j = o[k] /\ gpuWorker[u].pending[j] \notin ToSet(taken)
             /\ u # t => j = k
  <2> TAKE u \in GpuWorkers
  <2> TAKE k \in DOMAIN gpuWorker'[u].pending
  <2>1. CASE u = t
    <3>1. gpuWorker'[t].pending = rest
      BY <1>3, <1>4, <1>5
    <3> QED BY <1>7, <2>1, <3>1
  <2>2. CASE u # t
    BY <1>3, <1>4, <2>2
  <2> QED BY <2>1, <2>2
<1>16. \A u \in GpuWorkers : \A k \in DOMAIN gpuWorker'[u].pending :
          LET p == gpuWorker'[u].pending[k] IN
          /\ p.scratch \in DOMAIN sparse'.all /\ p.scratch \notin PackIdle(sparse')
          /\ sparse'.all[p.scratch].op = p.op
          /\ p.map # "waiting" => p.op \notin ToSet(sparseQueue')
  <2> TAKE u \in GpuWorkers
  <2> TAKE k \in DOMAIN gpuWorker'[u].pending
  <2>1. PICK j \in DOMAIN gpuWorker[u].pending :
             /\ gpuWorker'[u].pending[k] = gpuWorker[u].pending[j]
             /\ u = t => gpuWorker[u].pending[j] \notin ToSet(taken)
    BY <1>15
  <2> DEFINE p == gpuWorker[u].pending[j]
  <2>2. /\ p.scratch \in DOMAIN sparse.all /\ p.scratch \notin PackIdle(sparse)
        /\ sparse.all[p.scratch].op = p.op
        /\ p.map # "waiting" => p.op \notin ToSet(sparseQueue)
    BY DEF PackInv, PackHeld
  <2>3. \A n \in DOMAIN taken : taken[n].scratch # p.scratch
    BY <1>12, <1>14, <2>1
  <2> HIDE DEF p
  <2>4. p.scratch \notin PackIdle(sparse')
    BY <1>13, <2>2, <2>3
  <2>5. p.scratch \in DOMAIN sparse'.all /\ sparse'.all[p.scratch].op = p.op
    BY <1>2, <1>3, <2>2 DEF CollectedSoFar
  <2> QED BY <1>3, <2>1, <2>2, <2>4, <2>5 DEF p
<1>17. \A u, x \in GpuWorkers : \A k \in DOMAIN gpuWorker'[u].pending :
          \A m \in DOMAIN gpuWorker'[x].pending :
             gpuWorker'[u].pending[k].scratch = gpuWorker'[x].pending[m].scratch => u = x /\ k = m
  <2> SUFFICES ASSUME NEW u \in GpuWorkers, NEW x \in GpuWorkers,
                      NEW k \in DOMAIN gpuWorker'[u].pending,
                      NEW m \in DOMAIN gpuWorker'[x].pending,
                      gpuWorker'[u].pending[k].scratch = gpuWorker'[x].pending[m].scratch
               PROVE  u = x /\ k = m
    OBVIOUS
  <2>1. PICK i \in DOMAIN gpuWorker[u].pending :
             /\ gpuWorker'[u].pending[k] = gpuWorker[u].pending[i]
             /\ u = t => i = o[k]
             /\ u # t => i = k
    BY <1>15
  <2>2. PICK j \in DOMAIN gpuWorker[x].pending :
             /\ gpuWorker'[x].pending[m] = gpuWorker[x].pending[j]
             /\ x = t => j = o[m]
             /\ x # t => j = m
    BY <1>15
  <2>3. u = x /\ i = j
    BY <1>14, <2>1, <2>2
  <2>4. CASE u = t
    <3>1. gpuWorker'[t].pending = rest
      BY <1>3, <1>4, <1>5
    <3> QED BY <1>7, <2>1, <2>2, <2>3, <2>4, <3>1
  <2>5. CASE u # t
    BY <2>1, <2>2, <2>3, <2>5
  <2> QED BY <2>4, <2>5
<1>18. \A u \in GpuWorkers : gpuWorker'[u].stage = "panicked" => packErrors' > 0
  <2> TAKE u \in GpuWorkers
  <2> HAVE gpuWorker'[u].stage = "panicked"
  <2>1. gpuWorker'[t].stage = stage
    BY <1>3, <1>4, <1>5
  <2>2. u # t
    BY <2>1
  <2>3. gpuWorker[u].stage = "panicked"
    BY <1>3, <1>4, <2>2
  <2>4. packErrors > 0
    BY <2>3 DEF PackInv, PackHeld
  <2>5. packErrors \in Nat /\ acc.errors \in Nat /\ acc.errors >= packErrors
    BY <1>2 DEF CollectedSoFar, PackPool, PackInv, PackHeld
  <2> QED BY <1>3, <2>4, <2>5
<1>19. PackPool(sparse', packErrors', ToSet(sparseQueue'))
  BY <1>2, <1>3 DEF CollectedSoFar
<1>20. \A i \in DOMAIN sparse'.all : sparse'.all[i].op <= sparseOps'
  BY <1>2, <1>3 DEF CollectedSoFar, PackInv, PackHeld
<1>21. PackHeld'
  BY <1>16, <1>17, <1>18, <1>19, <1>20 DEF PackHeld
<1> QED BY <1>10, <1>11, <1>21 DEF PackInv

--------------------------------------------------------------------------------
(* What is collected when.                                                      *)

\* Nothing, what is ready, or the oldest, if that is ready.
LEMMA TakenGroups ==
    ASSUME PackInv, NEW t \in GpuWorkers, gpuWorker[t].stage \notin {"prepare", "done"}
    PROVE  /\ TakenBy(t, <<>>) /\ TakenBy(t, Ready(t))
           /\ gpuWorker[t].pending # <<>> /\ Head(gpuWorker[t].pending).map # "waiting"
                 => TakenBy(t, <<Head(gpuWorker[t].pending)>>)
<1> DEFINE queue == gpuWorker[t].pending
           I == {k \in DOMAIN queue : queue[k].map # "waiting"}
<1>1. queue \in Seq(Submission)
  BY CallsPacked
<1>2. \A k, m \in DOMAIN queue : queue[k].scratch = queue[m].scratch => k = m
  BY DEF PackInv, PackHeld
<1>3. TakenBy(t, <<>>)
  <2>1. <<>> \in Seq(Submission) /\ DOMAIN <<>> = {}
    BY EmptySeq
  <2> QED BY <2>1 DEF TakenBy
<1>4. TakenBy(t, Ready(t))
  <2>1. Ready(t) = Picked(queue, I)
    BY DEF Ready
  <2>2. I \in SUBSET DOMAIN queue /\ \A i \in I : i \in DOMAIN queue /\ queue[i].map # "waiting"
    OBVIOUS
  <2> HIDE DEF I, queue
  <2>3. /\ Picked(queue, I) \in Seq(Submission)
        /\ \A k \in DOMAIN Picked(queue, I) : /\ PickOrder(I)[k] \in I
                                              /\ Picked(queue, I)[k] = queue[PickOrder(I)[k]]
        /\ \A k, m \in DOMAIN Picked(queue, I) : PickOrder(I)[k] = PickOrder(I)[m] => k = m
    BY <1>1, <2>2, PickedIs
  <2>4. \A k \in DOMAIN Ready(t) : \E m \in DOMAIN queue :
           Ready(t)[k] = queue[m] /\ Ready(t)[k].map # "waiting"
    BY <2>1, <2>2, <2>3
  <2>5. \A k, m \in DOMAIN Ready(t) : Ready(t)[k].scratch = Ready(t)[m].scratch => k = m
    BY <1>2, <2>1, <2>2, <2>3
  <2> QED BY <2>1, <2>3, <2>4, <2>5 DEF TakenBy, queue
<1>5. ASSUME queue # <<>>, Head(queue).map # "waiting"
      PROVE  TakenBy(t, <<Head(queue)>>)
  <2>1. Head(queue) = queue[1] /\ 1 \in DOMAIN queue /\ Head(queue) \in Submission
    BY <1>1, <1>5, HeadLeaves
  <2> DEFINE head == Head(queue)
             one == <<head>>
  <2>2. DOMAIN one = {1} /\ one[1] = head
    OBVIOUS
  <2>3. one \in Seq(Submission)
    BY <2>1
  <2> HIDE DEF one
  <2> QED BY <1>5, <2>1, <2>2, <2>3 DEF TakenBy, one
<1> QED BY <1>3, <1>4, <1>5

LEMMA CollectingStep ==
    ASSUME PackInv, NEW t \in GpuWorkers,
           \/ BeforeGroup(t) \/ RoomForGroup(t) \/ OldestCollected(t)
           \/ AfterSubmit(t) \/ BelowHigh(t) \/ CollectRest(t)
    PROVE  PackInv'
<1> DEFINE w == gpuWorker[t]
<1>1. gpuWorker[t].stage \in {"group", "room", "front", "after", "high"}
  BY DEF BeforeGroup, RoomForGroup, OldestCollected, AfterSubmit, BelowHigh, CollectRest
<1>2. gpuWorker[t].stage \notin {"prepare", "done"}
  BY <1>1
<1>3. /\ TakenBy(t, <<>>) /\ TakenBy(t, Ready(t))
      /\ gpuWorker[t].pending # <<>> /\ Head(gpuWorker[t].pending).map # "waiting"
            => TakenBy(t, <<Head(gpuWorker[t].pending)>>)
  BY <1>2, TakenGroups
<1>4. /\ gpuWorker[t].pending \in Seq(Submission) /\ Len(gpuWorker[t].pending) \in Nat
      /\ DOMAIN gpuWorker[t].pending = 1 .. Len(gpuWorker[t].pending)
  BY <1>2, CallsPacked
<1>5. /\ gpuWorker[t].stage \in {"room", "front"} => gpuWorker[t].groups # <<>>
      /\ gpuWorker[t].stage = "front" => gpuWorker[t].pending # <<>>
  BY DEF PackInv, PackCalls, PackCallSound
<1>6. ASSUME NEW taken \in {<<>>, Ready(t)},
             NEW stage \in {"group", "room", "submit", "high"},
             Becomes(t, CollectAll(t, taken, gpuWorker[t]), stage),
             stage \in {"room", "submit"} => gpuWorker[t].groups # <<>>
      PROVE  PackInv'
  <2>1. TakenBy(t, taken)
    BY <1>3
  <2> QED BY <1>1, <1>6, <2>1, PackBecomes
<1>7. CASE BeforeGroup(t)
  <2>1. /\ gpuWorker[t].groups # <<>>
        /\ Becomes(t, CollectAll(t, Ready(t), gpuWorker[t]), "room")
    BY <1>7 DEF BeforeGroup
  <2> QED BY <1>6, <2>1
<1>8. CASE RoomForGroup(t)
  <2>1. gpuWorker[t].groups # <<>> /\ gpuWorker[t].stage = "room"
    BY <1>5, <1>8 DEF RoomForGroup
  <2> DEFINE acc == CollectAll(t, Ready(t), gpuWorker[t])
  <2>2. \/ Becomes(t, CollectAll(t, <<>>, gpuWorker[t]), "submit")
        \/ Becomes(t, acc, "submit")
        \/ Becomes(t, acc, "room")
        \/ /\ Becomes(t, acc, "front")
           /\ ~(Len(gpuWorker[t].pending) < SparseTarget)
           /\ Pending(acc) >= SparseWaitHigh \/ Ready(t) = <<>>
    BY <1>8 DEF RoomForGroup
  <2>3. ASSUME Becomes(t, acc, "front"), ~(Len(gpuWorker[t].pending) < SparseTarget),
               Pending(acc) >= SparseWaitHigh \/ Ready(t) = <<>>
        PROVE  PackInv'
    <3>1. Remaining(t, Ready(t)) # <<>>
      <4>1. SparseTarget \in Nat \ {0} /\ SparseWaitHigh \in Nat /\ SparseWaitHigh >= SparseTarget
        BY GpuBatchAssumption
      <4>2. CASE Pending(acc) >= SparseWaitHigh
        <5>1. acc.w.pending = Remaining(t, Ready(t))
          BY <1>2, <1>3, CollectEnds DEF CollectedSoFar
        <5>2. Len(Remaining(t, Ready(t))) >= SparseWaitHigh
          BY <4>2, <5>1 DEF Pending
        <5>3. Len(<<>>) = 0
          OBVIOUS
        <5> QED BY <4>1, <5>2, <5>3
      <4>3. CASE Ready(t) = <<>>
        <5>1. 1 \in DOMAIN gpuWorker[t].pending
          BY <1>4, <2>3, <4>1
        <5>2. gpuWorker[t].pending[1] \notin ToSet(Ready(t))
          <6>1. ToSet(<<>>) = {}
            BY DEF ToSet
          <6> QED BY <4>3, <6>1
        <5>3. \E k \in DOMAIN Remaining(t, Ready(t)) : TRUE
          BY <1>2, <5>1, <5>2, RemainingIs
        <5>4. DOMAIN <<>> = {}
          OBVIOUS
        <5> QED BY <5>3, <5>4
      <4> QED BY <2>3, <4>2, <4>3
    <3> QED BY <1>1, <1>3, <2>1, <2>3, <3>1, PackBecomes
  <2> HIDE DEF acc
  <2> QED BY <1>6, <2>1, <2>2, <2>3 DEF acc
<1>9. CASE OldestCollected(t)
  <2>1. /\ gpuWorker[t].stage = "front" /\ Head(gpuWorker[t].pending).map # "waiting"
        /\ Becomes(t, CollectAll(t, <<Head(gpuWorker[t].pending)>>, gpuWorker[t]), "room")
    BY <1>9 DEF OldestCollected
  <2>2. TakenBy(t, <<Head(gpuWorker[t].pending)>>) /\ gpuWorker[t].groups # <<>>
    BY <1>3, <1>5, <2>1
  <2> QED BY <1>1, <2>1, <2>2, PackBecomes
<1>10. CASE AfterSubmit(t)
  <2>1. Becomes(t, CollectAll(t, Ready(t), gpuWorker[t]), "high")
    BY <1>10 DEF AfterSubmit
  <2> QED BY <1>6, <2>1
<1>11. CASE BelowHigh(t)
  <2>1. \/ Becomes(t, CollectAll(t, <<>>, gpuWorker[t]), "group")
        \/ Becomes(t, CollectAll(t, Ready(t), gpuWorker[t]), "high")
    BY <1>11 DEF BelowHigh
  <2> QED BY <1>6, <2>1
<1>12. CASE CollectRest(t)
  <2>1. \/ /\ gpuWorker[t].pending = <<>>
           /\ Becomes(t, CollectAll(t, <<>>, gpuWorker[t]), "match")
        \/ Becomes(t, CollectAll(t, Ready(t), gpuWorker[t]), "group")
    BY <1>12 DEF CollectRest
  <2>2. ASSUME gpuWorker[t].pending = <<>>,
               Becomes(t, CollectAll(t, <<>>, gpuWorker[t]), "match")
        PROVE  PackInv'
    <3> DEFINE rest == Remaining(t, <<>>)
    <3>1. /\ rest \in Seq(Submission) /\ Len(rest) \in Nat /\ DOMAIN rest = 1 .. Len(rest)
          /\ \E o : \A k \in DOMAIN rest : o[k] \in DOMAIN gpuWorker[t].pending
      BY <1>2, RemainingIs
    <3>2. DOMAIN gpuWorker[t].pending = {}
      BY <2>2
    <3> HIDE DEF rest
    <3>3. Len(rest) = 0
      <4>1. 1 \notin DOMAIN rest
        BY <3>1, <3>2
      <4> QED BY <3>1, <4>1
    <3>4. rest = <<>>
      BY <3>1, <3>3, EmptySeq
    <3> QED BY <1>1, <1>3, <2>2, <3>4, PackBecomes DEF rest
  <2> QED BY <1>6, <2>1, <2>2
<1> QED BY <1>7, <1>8, <1>9, <1>10, <1>11, <1>12

--------------------------------------------------------------------------------
(* The other steps.                                                             *)

\* A step of one call that leaves the device and the pool alone.
LEMMA PackCallStep ==
    ASSUME PackInv, NEW t \in GpuWorkers, NEW v, PackCallSound(v),
           gpuWorker' = [gpuWorker EXCEPT ![t] = v], v.pending = gpuWorker[t].pending,
           v.stage # "panicked",
           UNCHANGED <<sparse, sparseQueue, sparseOps, packErrors>>
    PROVE  PackInv'
<1>1. gpuWorker \in [GpuWorkers -> PackCall] /\ \A u \in GpuWorkers : PackCallSound(gpuWorker[u])
  BY DEF PackInv, PackCalls
<1>2. \A u \in GpuWorkers : /\ gpuWorker'[u].pending = gpuWorker[u].pending
                            /\ gpuWorker'[u].stage = "panicked" => gpuWorker[u].stage = "panicked"
                            /\ PackCallSound(gpuWorker'[u])
  BY <1>1
<1>3. PackCalls'
  BY <1>1, <1>2 DEF PackCalls, PackCallSound
<1>4. PackQueue'
  BY DEF PackInv, PackQueue
<1>5. PackHeld'
  <2>1. PackHeld
    BY DEF PackInv
  <2>2. /\ PackPool(sparse', packErrors', ToSet(sparseQueue'))
        /\ \A i \in DOMAIN sparse'.all : sparse'.all[i].op <= sparseOps'
    BY <2>1 DEF PackHeld
  <2>3. \A u \in GpuWorkers : \A k \in DOMAIN gpuWorker'[u].pending :
          LET p == gpuWorker'[u].pending[k] IN
          /\ p.scratch \in DOMAIN sparse'.all /\ p.scratch \notin PackIdle(sparse')
          /\ sparse'.all[p.scratch].op = p.op
          /\ p.map # "waiting" => p.op \notin ToSet(sparseQueue')
    BY <1>2, <2>1 DEF PackHeld
  <2>4. \A u, x \in GpuWorkers : \A k \in DOMAIN gpuWorker'[u].pending :
          \A m \in DOMAIN gpuWorker'[x].pending :
             gpuWorker'[u].pending[k].scratch = gpuWorker'[x].pending[m].scratch => u = x /\ k = m
    BY <1>2, <2>1 DEF PackHeld
  <2>5. \A u \in GpuWorkers : gpuWorker'[u].stage = "panicked" => packErrors' > 0
    BY <1>2, <2>1 DEF PackHeld
  <2> QED BY <2>2, <2>3, <2>4, <2>5 DEF PackHeld
<1> QED BY <1>3, <1>4, <1>5 DEF PackInv

\* A new call knows nothing yet.
LEMMA NewCallSound ==
    ASSUME NEW batches \in Seq(Seq(BatchChunk))
    PROVE  PackCallSound(NewCall(batches)) /\ NewCall(batches).pending = <<>>
           /\ NewCall(batches).stage \in {"prepare", "done"}
<1> DEFINE v == NewCall(batches)
<1>1. v \in PackCall
  BY EmptySeq DEF PackCall, NewCall
<1>2. v.pending = <<>> /\ v.batches = batches
      /\ v.stage = IF batches = <<>> THEN "done" ELSE "prepare"
  BY DEF NewCall
<1> HIDE DEF v
<1> QED BY <1>1, <1>2 DEF PackCallSound, v

LEMMA NextBatchStep ==
    ASSUME PackInv, NEW t \in GpuWorkers, NextBatch(t)
    PROVE  PackInv'
<1> DEFINE w == gpuWorker[t]
           left == IF w.stage = "failed" THEN <<>> ELSE Tail(w.batches)
<1>1. w \in PackCall /\ PackCallSound(w) /\ w.stage \in {"returned", "failed"}
  BY DEF NextBatch, PackInv, PackCalls
<1>2. w.batches \in Seq(Seq(BatchChunk)) /\ w.batches # <<>> /\ w.pending = <<>>
  BY <1>1 DEF PackCallSound, PackCall
<1>3. left \in Seq(Seq(BatchChunk))
  BY <1>2, HeadLeaves, EmptySeq
<1>4. gpuWorker \in [GpuWorkers -> PackCall]
  BY DEF PackInv, PackCalls
<1>5. gpuWorker' = [gpuWorker EXCEPT ![t] = NewCall(left)]
  BY <1>4 DEF NextBatch
<1>6. UNCHANGED <<sparse, sparseQueue, sparseOps, packErrors>>
  BY DEF NextBatch
<1> HIDE DEF left
<1>7. PackCallSound(NewCall(left)) /\ NewCall(left).pending = <<>>
      /\ NewCall(left).stage \in {"prepare", "done"}
  BY <1>3, NewCallSound
<1> QED BY <1>2, <1>5, <1>6, <1>7, PackCallStep

LEMMA MatchStep ==
    ASSUME PackInv, NEW t \in GpuWorkers, MatchFallback(t)
    PROVE  PackInv'
<1> DEFINE w == gpuWorker[t]
<1>1. w \in PackCall /\ PackCallSound(w) /\ w.stage = "match"
  BY DEF MatchFallback, PackInv, PackCalls
<1>2. PackKnows(w) /\ w.pending = <<>> /\ w.batches # <<>>
  BY <1>1 DEF PackCallSound
<1>3. gpuWorker \in [GpuWorkers -> PackCall]
  BY DEF PackInv, PackCalls
<1>4. PICK missed \in SUBSET w.fallback :
         gpuWorker' = [gpuWorker EXCEPT ![t].stage = "finalize",
                ![t].matched = [i \in DOMAIN @ |->
                    IF i \in w.fallback \ missed THEN w.table[i] ELSE @[i]]]
  BY DEF MatchFallback
<1> DEFINE new == [i \in DOMAIN w.matched |->
                    IF i \in w.fallback \ missed THEN w.table[i] ELSE w.matched[i]]
           v == [w EXCEPT !.stage = "finalize", !.matched = new]
<1>5. gpuWorker' = [gpuWorker EXCEPT ![t] = v]
  BY <1>3, <1>4
<1>6. /\ Head(w.batches) \in Seq(BatchChunk) /\ Len(Head(w.batches)) \in Nat
      /\ DOMAIN Head(w.batches) = 1 .. Len(Head(w.batches))
  BY <1>1, <1>2, BatchIsSeq
<1> DEFINE N == Len(Head(w.batches))
<1>7. DOMAIN w.matched = 1 .. N /\ DOMAIN w.table = 1 .. N
  BY <1>2, <1>6 DEF PackKnows
<1>8. DOMAIN new = 1 .. N /\ \A i \in 1 .. N : new[i] \in {"none", w.table[i]}
  BY <1>2, <1>6, <1>7 DEF PackKnows
<1>9. \A i \in 1 .. N : w.table[i] \in {"device", "host"}
  BY <1>1, <1>7, LenProperties DEF PackCall
<1>10. new \in Seq({"none", "device", "host"})
  <2>1. new = [i \in 1 .. N |-> new[i]]
    BY <1>7
  <2> HIDE DEF new
  <2>2. new \in [1 .. N -> {"none", "device", "host"}]
    BY <1>8, <1>9, <2>1
  <2> QED BY <1>6, <2>2, FunctionIsSeq
<1> HIDE DEF new
<1>11. /\ v \in PackCall /\ v.stage = "finalize" /\ v.matched = new /\ v.pending = w.pending
       /\ v.batches = w.batches /\ v.table = w.table /\ v.encoded = w.encoded
       /\ v.groups = w.groups
  BY <1>1, <1>10 DEF PackCall
<1> HIDE DEF v
<1>12. PackKnows(v)
  BY <1>2, <1>6, <1>8, <1>11 DEF PackKnows
<1>13. PackCallSound(v)
  BY <1>2, <1>11, <1>12 DEF PackCallSound
<1>14. UNCHANGED <<sparse, sparseQueue, sparseOps, packErrors>>
  BY DEF MatchFallback
<1> QED BY <1>5, <1>11, <1>13, <1>14, PackCallStep

LEMMA FinalizeStep ==
    ASSUME PackInv, NEW t \in GpuWorkers, Finalize(t)
    PROVE  PackInv'
<1> DEFINE w == gpuWorker[t]
           chunk(i) == [position |-> i, payload |-> w.encoded[i],
                        matches |-> w.matched[i], table |-> WrittenTable(w, i)]
           out == [i \in DOMAIN w.table |-> chunk(i)]
           ended == [w EXCEPT !.stage = "returned", !.out = out]
           broken == [w EXCEPT !.stage = "failed"]
<1>1. w \in PackCall /\ PackCallSound(w) /\ w.stage = "finalize"
  BY DEF Finalize, PackInv, PackCalls
<1>2. PackKnows(w) /\ w.pending = <<>> /\ w.batches # <<>>
  BY <1>1 DEF PackCallSound
<1>3. gpuWorker \in [GpuWorkers -> PackCall]
  BY DEF PackInv, PackCalls
<1>4. \/ gpuWorker' = [gpuWorker EXCEPT ![t] = ended]
      \/ gpuWorker' = [gpuWorker EXCEPT ![t] = broken]
  <2>1. \/ gpuWorker' = [gpuWorker EXCEPT ![t].stage = "returned", ![t].out = out]
        \/ gpuWorker' = [gpuWorker EXCEPT ![t].stage = "failed"]
    BY DEF Finalize
  <2> HIDE DEF out
  <2> QED BY <1>3, <2>1
<1>5. /\ Head(w.batches) \in Seq(BatchChunk) /\ Len(Head(w.batches)) \in Nat
      /\ DOMAIN Head(w.batches) = 1 .. Len(Head(w.batches))
      /\ \A i \in DOMAIN Head(w.batches) : Head(w.batches)[i] \in BatchChunk
  BY <1>1, <1>2, BatchIsSeq
<1> DEFINE N == Len(Head(w.batches))
<1>6. /\ DOMAIN w.table = 1 .. N
      /\ \A i \in 1 .. N : /\ w.table[i] \in {"device", "host"}
                           /\ w.matched[i] \in {"none", w.table[i]}
                           /\ w.encoded[i] \in {{}, {Head(w.batches)[i].id}}
                           /\ Head(w.batches)[i].id \in Nat
  <2>1. \A i \in 1 .. N : Head(w.batches)[i].id \in Nat
    BY <1>5 DEF BatchChunk
  <2>2. DOMAIN w.table = 1 .. N
    BY <1>2, <1>5 DEF PackKnows
  <2>3. \A i \in 1 .. N : w.table[i] \in {"device", "host"}
    BY <1>1, <2>2, LenProperties DEF PackCall
  <2> QED BY <1>2, <1>5, <2>1, <2>2, <2>3 DEF PackKnows
<1>7. \A i \in 1 .. N :
         /\ WrittenTable(w, i) \in {"device", "host"}
         /\ w.matched[i] \in {"none", WrittenTable(w, i)}
  BY <1>6 DEF WrittenTable
<1>8. ASSUME NEW i \in 1 .. N
      PROVE  /\ out[i].payload = w.encoded[i] /\ out[i].matches = w.matched[i]
             /\ out[i].table = WrittenTable(w, i)
             /\ out[i] \in [position : Nat, payload : SUBSET Nat,
                            matches : {"none", "device", "host"}, table : {"device", "host"}]
  <2> DEFINE made == chunk(i)
  <2>1. i \in DOMAIN w.table
    <3> HIDE DEF w, out, made, N
    <3> QED BY <1>6, <1>8
  <2>4. out[i] = made
    BY <2>1
  <2>5. /\ made.payload = w.encoded[i] /\ made.matches = w.matched[i]
        /\ made.table = WrittenTable(w, i) /\ made.position = i
        /\ made = [position |-> i, payload |-> w.encoded[i],
                   matches |-> w.matched[i], table |-> WrittenTable(w, i)]
    OBVIOUS
  <2>2. i \in Nat /\ w.encoded[i] \in SUBSET Nat /\ w.matched[i] \in {"none", "device", "host"}
    <3>1. N \in Nat /\ i \in 1 .. N
      BY <1>5, <1>8
    <3>2. w.encoded[i] \in {{}, {Head(w.batches)[i].id}} /\ Head(w.batches)[i].id \in Nat
      BY <1>6
    <3>3. w.matched[i] \in {"none", "device", "host"}
      BY <1>6
    <3> HIDE DEF N
    <3> QED BY <3>1, <3>2, <3>3
  <2> HIDE DEF out, made
  <2> QED BY <1>7, <2>2, <2>4, <2>5
<1>9. DOMAIN out = 1 .. N /\ out = [i \in 1 .. N |-> out[i]]
  BY <1>6
<1> HIDE DEF out
<1>10. out \in Seq([position : Nat, payload : SUBSET Nat,
                    matches : {"none", "device", "host"}, table : {"device", "host"}])
  <2>1. out \in [1 .. N -> [position : Nat, payload : SUBSET Nat,
                    matches : {"none", "device", "host"}, table : {"device", "host"}]]
    BY <1>8, <1>9
  <2> QED BY <1>5, <2>1, FunctionIsSeq
<1>11. /\ ended \in PackCall /\ ended.stage = "returned" /\ ended.out = out
       /\ ended.pending = w.pending /\ ended.batches = w.batches /\ ended.table = w.table
       /\ ended.encoded = w.encoded /\ ended.matched = w.matched /\ ended.groups = w.groups
  BY <1>1, <1>10 DEF PackCall
<1>12. /\ broken \in PackCall /\ broken.stage = "failed" /\ broken.out = w.out
       /\ broken.pending = w.pending /\ broken.batches = w.batches /\ broken.table = w.table
       /\ broken.encoded = w.encoded /\ broken.matched = w.matched /\ broken.groups = w.groups
  BY <1>1 DEF PackCall
<1> HIDE DEF ended, broken
<1>13. PackKnows(ended) /\ PackKnows(broken)
  BY <1>2, <1>11, <1>12 DEF PackKnows
<1>14. PackCallSound(broken)
  BY <1>2, <1>12, <1>13 DEF PackCallSound
<1>15. PackCallSound(ended)
  <2>1. \A i \in 1 .. N :
           /\ ended.out[i].payload \in {{}, {Head(w.batches)[i].id}}
           /\ ended.out[i].matches \in {"none", ended.out[i].table}
    BY <1>6, <1>7, <1>8, <1>11
  <2> QED BY <1>2, <1>5, <1>9, <1>11, <1>13, <2>1 DEF PackCallSound
<1>16. UNCHANGED <<sparse, sparseQueue, sparseOps, packErrors>>
  BY DEF Finalize
<1> QED BY <1>4, <1>11, <1>12, <1>14, <1>15, <1>16, PackCallStep

\* The positions in groups: of each there is at least one in a group.
LEMMA GroupsAre ==
    ASSUME NEW S, NEW positions \in Seq(S)
    PROVE  /\ Groups(positions) \in Seq(Seq(S))
           /\ \A k \in DOMAIN Groups(positions) :
                 /\ Groups(positions)[k] \in Seq(S) /\ Groups(positions)[k] # <<>>
                 /\ \A m \in DOMAIN Groups(positions)[k] : Groups(positions)[k][m] \in S
<1> DEFINE L == Len(positions)
           n == (L + SubmitGroup - 1) \div SubmitGroup
           to(k) == IF k * SubmitGroup < L THEN k * SubmitGroup ELSE L
           group(k) == SubSeq(positions, (k - 1) * SubmitGroup + 1, to(k))
           groups == [k \in 1 .. n |-> group(k)]
<1>1. L \in Nat /\ DOMAIN positions = 1 .. L /\ \A i \in 1 .. L : positions[i] \in S
  BY LenProperties
<1>2. SubmitGroup \in Nat \ {0}
  BY GpuBatchAssumption
<1>3. n \in Nat /\ \A k \in 1 .. n : (k - 1) * SubmitGroup < L
  <2> HIDE DEF L
  <2> QED BY <1>1, <1>2, DivideUp
<1>4. Groups(positions) = groups
  BY DEF Groups
<1> HIDE DEF n, L
<1>5. ASSUME NEW k \in 1 .. n
      PROVE  group(k) \in Seq(S) /\ group(k) # <<>>
  <2> DEFINE from == (k - 1) * SubmitGroup
  <2>1. k \in Nat /\ k >= 1
    BY <1>3
  <2>2. k * SubmitGroup = from + SubmitGroup
    BY <1>2, <2>1, TimesLess
  <2>3. from \in Nat /\ k * SubmitGroup \in Nat
    <3>1. k - 1 \in Nat /\ k - 1 <= k /\ SubmitGroup \in Nat
      BY <1>2, <2>1
    <3> QED BY <2>1, <3>1, TimesGrows
  <2>4. from < L
    BY <1>3
  <2> DEFINE kn == k * SubmitGroup
             last == IF kn < L THEN kn ELSE L
  <2>5. last \in Nat /\ from + 1 <= last /\ last <= L
    <3> HIDE DEF from, kn
    <3> QED BY <1>1, <1>2, <2>2, <2>3, <2>4 DEF kn
  <2>6. group(k) = SubSeq(positions, from + 1, last)
    OBVIOUS
  <2> HIDE DEF from, last, kn
  <2>7. from + 1 \in Int /\ last \in Int /\ \A i \in (from + 1) .. last : positions[i] \in S
    BY <1>1, <2>3, <2>5
  <2> DEFINE made == SubSeq(positions, from + 1, last)
  <2>8. /\ made \in Seq(S)
        /\ Len(made) = IF from + 1 <= last THEN last - (from + 1) + 1 ELSE 0
    <3> DEFINE start == from + 1
    <3>1. start \in Int /\ last \in Int /\ \A i \in start .. last : positions[i] \in S
      BY <2>7
    <3> HIDE DEF start
    <3>2. SubSeq(positions, start, last) \in Seq(S)
          /\ Len(SubSeq(positions, start, last)) = IF start <= last THEN last - start + 1 ELSE 0
      BY <3>1, SubSeqProperties
    <3> QED BY <3>2 DEF start
  <2> HIDE DEF made
  <2>9. Len(made) # 0
    BY <2>3, <2>5, <2>8
  <2>10. made # <<>>
    BY <2>9
  <2>11. group(k) = made
    BY <2>6 DEF made
  <2> HIDE DEF group
  <2> QED BY <2>8, <2>10, <2>11
<1> HIDE DEF group
<1>6. groups \in [1 .. n -> Seq(S)]
  BY <1>5
<1>7. groups \in Seq(Seq(S)) /\ DOMAIN groups = 1 .. n
  BY <1>3, <1>6, FunctionIsSeq
<1>8. ASSUME NEW k \in 1 .. n
      PROVE  /\ groups[k] \in Seq(S) /\ groups[k] # <<>>
             /\ \A m \in DOMAIN groups[k] : groups[k][m] \in S
  <2>1. groups[k] \in Seq(S) /\ groups[k] # <<>>
    BY <1>5
  <2> HIDE DEF groups
  <2> QED BY <2>1, LenProperties
<1> QED BY <1>4, <1>7, <1>8

LEMMA PackPrepareStep ==
    ASSUME PackInv, NEW t \in GpuWorkers, Prepare(t)
    PROVE  PackInv'
<1> DEFINE w == gpuWorker[t]
           batch == Head(w.batches)
           D == DOMAIN batch
           all == [i \in D |-> i]
<1>1. w \in PackCall /\ PackCallSound(w) /\ w.stage = "prepare"
  BY DEF Prepare, PackInv, PackCalls
<1>2. w.pending = <<>> /\ w.batches # <<>>
  BY <1>1 DEF PackCallSound
<1>3. gpuWorker \in [GpuWorkers -> PackCall]
  BY DEF PackInv, PackCalls
<1>4. /\ batch \in Seq(BatchChunk) /\ Len(batch) \in Nat /\ D = 1 .. Len(batch)
  BY <1>1, <1>2, BatchIsSeq
<1>5. Batch(t) = batch
  BY DEF Batch
<1> DEFINE I(table) == {i \in D : table[i] = "device" \/ batch[i].entries}
           V(table) == [w EXCEPT !.stage = "group", !.table = table,
                           !.groups = Groups(Picked(all, I(table))),
                           !.encoded = [i \in D |-> {}], !.matched = [i \in D |-> "none"]]
<1>6. PICK table \in [D -> {"device", "host"}] : gpuWorker' = [gpuWorker EXCEPT ![t] = V(table)]
  <2>1. PICK table \in [DOMAIN Batch(t) -> {"device", "host"}] :
           LET eligible == Picked([i \in DOMAIN Batch(t) |-> i],
                              {i \in DOMAIN Batch(t) : table[i] = "device" \/ Batch(t)[i].entries})
           IN  gpuWorker' = [gpuWorker EXCEPT ![t] =
                    [@ EXCEPT !.stage = "group", !.table = table, !.groups = Groups(eligible),
                       !.encoded = [i \in DOMAIN Batch(t) |-> {}],
                       !.matched = [i \in DOMAIN Batch(t) |-> "none"]]]
    BY DEF Prepare
  <2> HIDE DEF batch
  <2>2. table \in [D -> {"device", "host"}]
    BY <1>5, <2>1
  <2>3. gpuWorker' = [gpuWorker EXCEPT ![t] = V(table)]
    BY <1>3, <1>5, <2>1
  <2> QED BY <2>2, <2>3
<1> DEFINE eligible == Picked(all, I(table))
           groups == Groups(eligible)
           none == [i \in D |-> {}]
           unmatched == [i \in D |-> "none"]
           v == V(table)
<1>7. all \in Seq(D)
  <2>1. all \in [1 .. Len(batch) -> D]
    BY <1>4
  <2> HIDE DEF all, batch, D
  <2> QED BY <1>4, <2>1, FunctionIsSeq
<1>8. I(table) \in SUBSET DOMAIN all
  OBVIOUS
<1>9. eligible \in Seq(D)
  <2> DEFINE J == I(table)
  <2> HIDE DEF all, J, D
  <2> QED BY <1>7, <1>8, PickedIs DEF J
<1> HIDE DEF eligible
<1>10. /\ groups \in Seq(Seq(D))
       /\ \A k \in DOMAIN groups : /\ groups[k] \in Seq(D) /\ groups[k] # <<>>
                                   /\ \A m \in DOMAIN groups[k] : groups[k][m] \in D
  <2> HIDE DEF D
  <2> QED BY <1>9, GroupsAre
<1>11. groups \in Seq(Seq(Nat))
  <2>1. Len(groups) \in Nat /\ DOMAIN groups = 1 .. Len(groups)
    BY <1>10, LenProperties
  <2>2. ASSUME NEW k \in DOMAIN groups
        PROVE  groups[k] \in Seq(Nat)
    <3> DEFINE h == groups[k]
    <3>1. h \in Seq(D) /\ \A m \in DOMAIN h : h[m] \in D
      BY <1>10, <2>2
    <3>2. D \subseteq Nat
      BY <1>4
    <3> HIDE DEF h, D, groups
    <3>3. Len(h) \in Nat /\ DOMAIN h = 1 .. Len(h) /\ h = [m \in 1 .. Len(h) |-> h[m]]
      BY <3>1, LenProperties, SeqDef
    <3>4. h \in [1 .. Len(h) -> Nat]
      BY <3>1, <3>2, <3>3
    <3>5. h \in Seq(Nat)
      BY <3>3, <3>4, FunctionIsSeq
    <3> QED BY <3>5 DEF h
  <2>3. groups = [k \in 1 .. Len(groups) |-> groups[k]]
    BY <1>10, <2>1, SeqDef
  <2> HIDE DEF groups
  <2>4. groups \in [1 .. Len(groups) -> Seq(Nat)]
    BY <2>1, <2>2, <2>3
  <2> QED BY <2>1, <2>4, FunctionIsSeq
<1>12. /\ table \in Seq({"device", "host"}) /\ none \in Seq(SUBSET Nat)
       /\ unmatched \in Seq({"none", "device", "host"})
  <2>1. /\ table \in [1 .. Len(batch) -> {"device", "host"}]
        /\ none \in [1 .. Len(batch) -> SUBSET Nat]
        /\ unmatched \in [1 .. Len(batch) -> {"none", "device", "host"}]
    BY <1>4, <1>6
  <2> HIDE DEF none, unmatched, batch
  <2> QED BY <1>4, <2>1, FunctionIsSeq
<1>13. /\ DOMAIN table = D /\ DOMAIN none = D /\ DOMAIN unmatched = D
       /\ \A i \in D : none[i] = {} /\ unmatched[i] = "none"
  BY <1>6
<1>14. v = [w EXCEPT !.stage = "group", !.table = table, !.groups = groups,
                     !.encoded = none, !.matched = unmatched]
  BY DEF eligible
<1> HIDE DEF v, groups, none, unmatched
<1>15. /\ v \in PackCall /\ v.stage = "group" /\ v.pending = <<>> /\ v.batches = w.batches
       /\ v.table = table /\ v.groups = groups /\ v.encoded = none /\ v.matched = unmatched
  BY <1>1, <1>2, <1>11, <1>12, <1>14 DEF PackCall
<1>16. PackKnows(v)
  <2>1. \A k \in DOMAIN v.groups : GroupOf(batch, v.groups[k])
    BY <1>10, <1>15 DEF GroupOf
  <2>2. \A k \in DOMAIN v.pending : GroupOf(batch, v.pending[k].group)
    <3>1. DOMAIN <<>> = {}
      OBVIOUS
    <3> QED BY <1>15, <3>1
  <2> HIDE DEF w
  <2> QED BY <1>2, <1>13, <1>15, <2>1, <2>2 DEF PackKnows
<1>17. PackCallSound(v)
  BY <1>2, <1>15, <1>16 DEF PackCallSound
<1>18. UNCHANGED <<sparse, sparseQueue, sparseOps, packErrors>>
  BY DEF Prepare
<1>19. gpuWorker' = [gpuWorker EXCEPT ![t] = v]
  BY <1>6 DEF v
<1> QED BY <1>2, <1>15, <1>17, <1>18, <1>19, PackCallStep

\* A step of one call that changes the pool and keeps its submissions.
LEMMA PackPoolStep ==
    ASSUME PackInv, NEW t \in GpuWorkers, NEW v, PackCallSound(v),
           gpuWorker' = [gpuWorker EXCEPT ![t] = v], v.pending = gpuWorker[t].pending,
           UNCHANGED <<sparseQueue, sparseOps>>,
           PackPool(sparse', packErrors', ToSet(sparseQueue)), packErrors' >= packErrors,
           v.stage = "panicked" => packErrors' > 0,
           \A i \in DOMAIN sparse.all : i \in DOMAIN sparse'.all /\ sparse'.all[i] = sparse.all[i],
           \A i \in DOMAIN sparse'.all : i \in DOMAIN sparse.all \/ sparse'.all[i].op = 0,
           \A i \in DOMAIN sparse.all \ PackIdle(sparse) : i \notin PackIdle(sparse')
    PROVE  PackInv'
<1>1. gpuWorker \in [GpuWorkers -> PackCall] /\ \A u \in GpuWorkers : PackCallSound(gpuWorker[u])
  BY DEF PackInv, PackCalls
<1>2. \A u \in GpuWorkers : /\ gpuWorker'[u].pending = gpuWorker[u].pending
                            /\ PackCallSound(gpuWorker'[u])
  BY <1>1
<1>3. PackCalls'
  BY <1>1, <1>2 DEF PackCalls, PackCallSound
<1>4. PackQueue /\ PackHeld /\ sparseOps \in Nat /\ packErrors \in Nat /\ packErrors' \in Nat
  BY DEF PackInv, PackQueue, PackHeld, PackPool
<1>5. PackQueue'
  BY <1>4 DEF PackQueue
<1>6. PackHeld'
  <2>1. \A i \in DOMAIN sparse'.all : sparse'.all[i].op <= sparseOps'
    <3>1. \A i \in DOMAIN sparse.all : sparse.all[i].op <= sparseOps
      BY <1>4 DEF PackHeld
    <3> QED BY <1>4, <3>1
  <2>2. \A u \in GpuWorkers : \A k \in DOMAIN gpuWorker'[u].pending :
          LET p == gpuWorker'[u].pending[k] IN
          /\ p.scratch \in DOMAIN sparse'.all /\ p.scratch \notin PackIdle(sparse')
          /\ sparse'.all[p.scratch].op = p.op
          /\ p.map # "waiting" => p.op \notin ToSet(sparseQueue')
    BY <1>2, <1>4 DEF PackHeld
  <2>3. \A u, x \in GpuWorkers : \A k \in DOMAIN gpuWorker'[u].pending :
          \A m \in DOMAIN gpuWorker'[x].pending :
             gpuWorker'[u].pending[k].scratch = gpuWorker'[x].pending[m].scratch => u = x /\ k = m
    BY <1>2, <1>4 DEF PackHeld
  <2>4. \A u \in GpuWorkers : gpuWorker'[u].stage = "panicked" => packErrors' > 0
    <3>1. \A u \in GpuWorkers : gpuWorker[u].stage = "panicked" => packErrors > 0
      BY <1>4 DEF PackHeld
    <3>2. \A u \in GpuWorkers : gpuWorker'[u] = v \/ gpuWorker'[u] = gpuWorker[u]
      BY <1>1
    <3> QED BY <1>4, <3>1, <3>2
  <2> QED BY <2>1, <2>2, <2>3, <2>4 DEF PackHeld
<1> QED BY <1>3, <1>5, <1>6 DEF PackInv

\* The group that is next, and the scratch it gets.
SubmitsInto(t, group, got) ==
    /\ group \in Seq(Nat) /\ GroupOf(Batch(t), group) /\ Len(group) \in Nat /\ Len(group) > 0
    /\ Tail(gpuWorker[t].groups) \in Seq(Seq(Nat))
    /\ \A k \in DOMAIN Tail(gpuWorker[t].groups) : GroupOf(Batch(t), Tail(gpuWorker[t].groups)[k])
    /\ PackPool(got.s, packErrors, ToSet(sparseQueue))
    /\ got.id \in DOMAIN got.s.all /\ got.id \notin PackIdle(got.s)
    /\ PackIdle(got.s) \subseteq PackIdle(sparse)
    /\ got.id \in PackIdle(sparse) \/ got.id \notin DOMAIN sparse.all
    /\ \A i \in DOMAIN sparse.all : i \in DOMAIN got.s.all /\ got.s.all[i] = sparse.all[i]
    /\ \A i \in DOMAIN got.s.all : i \in DOMAIN sparse.all \/ got.s.all[i].op = 0
    /\ got.s.all[got.id].op \notin ToSet(sparseQueue)
    /\ got.s.all[got.id].buffer = "unmapped" \/ packErrors > 0

LEMMA PackSubmitBegins ==
    ASSUME PackInv, NEW t \in GpuWorkers, gpuWorker[t].stage = "submit"
    PROVE  LET group == Head(gpuWorker[t].groups)
               g     == ChunksOf(t, group)
           IN  SubmitsInto(t, group, acquire_sparse_pack_scratch(sparse, Total(g, DOMAIN g)))
<1> DEFINE w == gpuWorker[t]
           group == Head(w.groups)
           g == ChunksOf(t, group)
           cap == Total(g, DOMAIN g)
           got == acquire_sparse_pack_scratch(sparse, cap)
<1>1. /\ w \in PackCall /\ PackKnows(w) /\ Batch(t) \in Seq(BatchChunk) /\ w.groups # <<>>
  <2>1. w.groups # <<>>
    BY DEF PackInv, PackCalls, PackCallSound
  <2> QED BY <2>1, CallsPacked
<1>2. w.groups \in Seq(Seq(Nat)) /\ \A k \in DOMAIN w.groups : GroupOf(Batch(t), w.groups[k])
  BY <1>1 DEF PackCall, PackKnows, Batch
<1> DEFINE groups == w.groups
<1>3. /\ group = groups[1] /\ 1 \in DOMAIN groups /\ group \in Seq(Nat)
      /\ Tail(groups) \in Seq(Seq(Nat))
      /\ \A k \in DOMAIN Tail(groups) : k + 1 \in DOMAIN groups /\ Tail(groups)[k] = groups[k + 1]
  <2>1. groups \in Seq(Seq(Nat)) /\ groups # <<>>
    BY <1>1, <1>2
  <2> HIDE DEF groups
  <2>2. /\ Head(groups) = groups[1] /\ 1 \in DOMAIN groups /\ Head(groups) \in Seq(Nat)
        /\ Tail(groups) \in Seq(Seq(Nat))
        /\ \A k \in DOMAIN Tail(groups) : k + 1 \in DOMAIN groups /\ Tail(groups)[k] = groups[k + 1]
    BY <2>1, HeadLeaves
  <2>3. group = Head(groups)
    BY DEF groups
  <2> HIDE DEF group
  <2> QED BY <2>2, <2>3
<1>4. /\ GroupOf(Batch(t), group)
      /\ \A k \in DOMAIN Tail(groups) : GroupOf(Batch(t), Tail(groups)[k])
  <2> HIDE DEF group
  <2> QED BY <1>2, <1>3
<1> HIDE DEF group
<1>5. /\ g \in Seq(BatchChunk) /\ Len(group) \in Nat /\ Len(group) > 0
  BY <1>1, <1>3, <1>4, ChunksOfGroup
<1> HIDE DEF g
<1>6. cap \in Nat
  <2>1. PICK h : /\ Additive(h, DOMAIN g)
                 /\ \A S \in SUBSET DOMAIN g : Total(g, S) = h[S]
    BY <1>5, TotalIs
  <2>2. h[DOMAIN g] \in Nat
    BY <2>1, BytesType
  <2> QED BY <2>1, <2>2
<1> HIDE DEF cap
<1>7. PackPool(sparse, packErrors, ToSet(sparseQueue)) /\ 0 \notin ToSet(sparseQueue)
  <2>1. PackPool(sparse, packErrors, ToSet(sparseQueue))
    BY DEF PackInv, PackHeld
  <2>2. \A k \in DOMAIN sparseQueue : sparseQueue[k] \in 1 .. sparseOps
    BY DEF PackInv, PackQueue
  <2> QED BY <2>1, <2>2 DEF ToSet
<1>8. /\ PackPool(got.s, packErrors, ToSet(sparseQueue))
      /\ got.id \in DOMAIN got.s.all /\ got.id \notin PackIdle(got.s)
      /\ PackIdle(got.s) \subseteq PackIdle(sparse)
      /\ got.id \in PackIdle(sparse) \/ got.id \notin DOMAIN sparse.all
      /\ \A i \in DOMAIN sparse.all : i \in DOMAIN got.s.all /\ got.s.all[i] = sparse.all[i]
      /\ \A i \in DOMAIN got.s.all : i \in DOMAIN sparse.all \/ got.s.all[i].op = 0
      /\ got.s.all[got.id].op \notin ToSet(sparseQueue)
      /\ got.s.all[got.id].buffer = "unmapped" \/ packErrors > 0
  BY <1>6, <1>7, PackAcquired
<1> HIDE DEF got
<1>9. SubmitsInto(t, group, got)
  BY <1>3, <1>4, <1>5, <1>8 DEF SubmitsInto
<1> QED BY <1>9 DEF group, g, got, cap

\* The submission of a group that fails, or panics.
LEMMA PackSubmitFails ==
    ASSUME PackInv, NEW t \in GpuWorkers, gpuWorker[t].stage = "submit",
           NEW group, NEW got, SubmitsInto(t, group, got),
           sparse' = release_sparse_pack_scratch(got.s, got.id),
           gpuWorker' = [gpuWorker EXCEPT ![t] =
              [gpuWorker[t] EXCEPT !.groups = Tail(@), !.stage = "after",
                                   !.fallback = @ \cup ToSet(group)]],
           packErrors' = packErrors + Len(group), UNCHANGED <<sparseQueue, sparseOps>>
    PROVE  PackInv'
<1> DEFINE w == gpuWorker[t]
           v == [w EXCEPT !.groups = Tail(w.groups), !.stage = "after",
                          !.fallback = w.fallback \cup ToSet(group)]
           q == ToSet(sparseQueue)
           e == packErrors + Len(group)
           r == release_sparse_pack_scratch(got.s, got.id)
<1>1. /\ w \in PackCall /\ PackKnows(w) /\ PackCallSound(w)
  <2>1. PackCallSound(w)
    BY DEF PackInv, PackCalls
  <2> QED BY <2>1, CallsPacked
<1>2. /\ PackPool(got.s, packErrors, q) /\ Len(group) \in Nat /\ Len(group) > 0
      /\ packErrors \in Nat
  BY DEF SubmitsInto, PackPool
<1>3. e \in Nat /\ e > 0 /\ e >= packErrors
  BY <1>2
<1> HIDE DEF e
<1>4. PackPool(got.s, e, q)
  BY <1>2, <1>3 DEF PackPool
<1>5. PackPool(r, e, q) /\ r.all = got.s.all /\ PackIdle(r) \subseteq PackIdle(got.s) \cup {got.id}
  <2>1. /\ got.id \in DOMAIN got.s.all /\ got.id \notin PackIdle(got.s)
        /\ got.s.all[got.id].op \notin q
    BY DEF SubmitsInto
  <2> HIDE DEF q
  <2> QED BY <1>3, <1>4, <2>1, PackReleased
<1> HIDE DEF r
<1>6. ToSet(group) \in SUBSET Nat
  <2>1. group \in Seq(Nat)
    BY DEF SubmitsInto
  <2>2. \A k \in DOMAIN group : group[k] \in Nat
    BY <2>1, LenProperties
  <2> QED BY <2>2 DEF ToSet
<1>7. /\ v \in PackCall /\ v.stage = "after" /\ v.groups = Tail(w.groups) /\ v.batches = w.batches
      /\ v.table = w.table /\ v.encoded = w.encoded /\ v.matched = w.matched
      /\ v.pending = w.pending
  <2>1. Tail(w.groups) \in Seq(Seq(Nat))
    BY DEF SubmitsInto
  <2> QED BY <1>1, <1>6, <2>1 DEF PackCall
<1> HIDE DEF v
<1>8. PackKnows(v)
  <2>1. \A k \in DOMAIN v.groups : GroupOf(Head(v.batches), v.groups[k])
    BY <1>7 DEF SubmitsInto, Batch
  <2> HIDE DEF w
  <2> QED BY <1>1, <1>7, <2>1 DEF PackKnows
<1>9. PackCallSound(v)
  BY <1>7, <1>8 DEF PackCallSound, PackKnows
<1>10. /\ sparse' = r /\ packErrors' = e /\ gpuWorker' = [gpuWorker EXCEPT ![t] = v]
  BY DEF r, e, v
<1>11. /\ \A i \in DOMAIN sparse.all : i \in DOMAIN r.all /\ r.all[i] = sparse.all[i]
       /\ \A i \in DOMAIN r.all : i \in DOMAIN sparse.all \/ r.all[i].op = 0
       /\ \A i \in DOMAIN sparse.all \ PackIdle(sparse) : i \notin PackIdle(r)
  BY <1>5 DEF SubmitsInto
<1>12. /\ PackPool(sparse', packErrors', ToSet(sparseQueue)) /\ packErrors' >= packErrors
       /\ v.pending = gpuWorker[t].pending /\ v.stage # "panicked"
       /\ UNCHANGED <<sparseQueue, sparseOps>>
  BY <1>3, <1>5, <1>7, <1>10
<1>13. /\ \A i \in DOMAIN sparse.all : i \in DOMAIN sparse'.all /\ sparse'.all[i] = sparse.all[i]
       /\ \A i \in DOMAIN sparse'.all : i \in DOMAIN sparse.all \/ sparse'.all[i].op = 0
       /\ \A i \in DOMAIN sparse.all \ PackIdle(sparse) : i \notin PackIdle(sparse')
  BY <1>10, <1>11
<1> QED BY <1>9, <1>10, <1>12, <1>13, PackPoolStep

LEMMA PackSubmitPanics ==
    ASSUME PackInv, NEW t \in GpuWorkers, gpuWorker[t].stage = "submit",
           NEW group, NEW got, SubmitsInto(t, group, got),
           got.s.all[got.id].buffer # "unmapped", sparse' = got.s,
           gpuWorker' = [gpuWorker EXCEPT ![t].stage = "panicked"],
           UNCHANGED <<sparseQueue, sparseOps, packErrors>>
    PROVE  PackInv'
<1> DEFINE w == gpuWorker[t]
           v == [w EXCEPT !.stage = "panicked"]
<1>1. /\ w \in PackCall /\ PackKnows(w) /\ gpuWorker \in [GpuWorkers -> PackCall]
  <2>1. gpuWorker \in [GpuWorkers -> PackCall]
    BY DEF PackInv, PackCalls
  <2> QED BY <2>1, CallsPacked
<1>2. gpuWorker' = [gpuWorker EXCEPT ![t] = v]
  BY <1>1
<1>3. /\ v \in PackCall /\ v.stage = "panicked" /\ v.groups = w.groups /\ v.batches = w.batches
      /\ v.table = w.table /\ v.encoded = w.encoded /\ v.matched = w.matched
      /\ v.pending = w.pending
  BY <1>1 DEF PackCall
<1> HIDE DEF v
<1>4. PackKnows(v)
  <2> HIDE DEF w
  <2> QED BY <1>1, <1>3 DEF PackKnows
<1>5. PackCallSound(v)
  BY <1>3, <1>4 DEF PackCallSound, PackKnows
<1>6. /\ PackPool(sparse', packErrors', ToSet(sparseQueue)) /\ packErrors' > 0
      /\ packErrors' >= packErrors
  BY DEF SubmitsInto, PackPool
<1>7. /\ \A i \in DOMAIN sparse.all : i \in DOMAIN sparse'.all /\ sparse'.all[i] = sparse.all[i]
      /\ \A i \in DOMAIN sparse'.all : i \in DOMAIN sparse.all \/ sparse'.all[i].op = 0
      /\ \A i \in DOMAIN sparse.all \ PackIdle(sparse) : i \notin PackIdle(sparse')
  BY DEF SubmitsInto
<1> HIDE DEF w
<1> QED BY <1>2, <1>3, <1>5, <1>6, <1>7, PackPoolStep DEF w

\* The submission that gets to the device.
LEMMA PackSubmissionGoes ==
    ASSUME PackInv, NEW t \in GpuWorkers, gpuWorker[t].stage = "submit",
           NEW group, NEW got, SubmitsInto(t, group, got),
           got.s.all[got.id].buffer = "unmapped",
           sparseOps' = sparseOps + 1, sparseQueue' = Append(sparseQueue, sparseOps + 1),
           sparse' = [got.s EXCEPT !.all[got.id] =
                        [@ EXCEPT !.op = sparseOps + 1, !.buffer = "pending"]],
           gpuWorker' = [gpuWorker EXCEPT ![t] =
              [gpuWorker[t] EXCEPT !.groups = Tail(@), !.stage = "after",
                 !.pending = Append(@, [group |-> group, op |-> sparseOps + 1,
                                        scratch |-> got.id, map |-> "waiting"])]],
           UNCHANGED packErrors
    PROVE  PackInv'
<1> DEFINE w == gpuWorker[t]
           n == sparseOps + 1
           new == [group |-> group, op |-> n, scratch |-> got.id, map |-> "waiting"]
           pending == Append(w.pending, new)
           v == [w EXCEPT !.groups = Tail(w.groups), !.stage = "after", !.pending = pending]
           q == ToSet(sparseQueue)
           before == got.s.all[got.id]
           all == [got.s.all EXCEPT ![got.id] = [before EXCEPT !.op = n, !.buffer = "pending"]]
           s == [got.s EXCEPT !.all = all]
<1>1. /\ w \in PackCall /\ PackKnows(w) /\ w.pending \in Seq(Submission)
      /\ Len(w.pending) \in Nat /\ DOMAIN w.pending = 1 .. Len(w.pending)
      /\ gpuWorker \in [GpuWorkers -> PackCall] /\ PackCallSound(w)
  <2>1. gpuWorker \in [GpuWorkers -> PackCall] /\ PackCallSound(w)
    BY DEF PackInv, PackCalls
  <2> QED BY <2>1, CallsPacked
<1>2. /\ sparseQueue \in Seq(Nat) /\ sparseOps \in Nat /\ n \in Nat /\ n \notin q
      /\ \A k \in DOMAIN sparseQueue : sparseQueue[k] \in 1 .. sparseOps
      /\ \A k, m \in DOMAIN sparseQueue : sparseQueue[k] = sparseQueue[m] => k = m
  BY DEF PackInv, PackQueue, ToSet
<1>3. /\ got.s \in PackPools /\ got.s.all \in Seq(PackScratch)
      /\ Len(got.s.all) \in Nat /\ DOMAIN got.s.all = 1 .. Len(got.s.all)
      /\ PackPool(got.s, packErrors, q) /\ got.id \in DOMAIN got.s.all
      /\ got.id \notin PackIdle(got.s)
  <2>1. /\ PackPool(got.s, packErrors, q) /\ got.id \in DOMAIN got.s.all
        /\ got.id \notin PackIdle(got.s)
    BY DEF SubmitsInto
  <2>2. got.s \in PackPools
    BY <2>1 DEF PackPool, PackPools
  <2> QED BY <2>1, <2>2, LenProperties DEF PackPools
<1>4. before \in PackScratch
  BY <1>3, LenProperties
<1> HIDE DEF n, before
<1>5. /\ all \in Seq(PackScratch) /\ DOMAIN all = DOMAIN got.s.all
      /\ \A i \in DOMAIN got.s.all : i # got.id => all[i] = got.s.all[i]
      /\ all[got.id].op = n /\ all[got.id].buffer = "pending"
  <2> DEFINE after == [before EXCEPT !.op = n, !.buffer = "pending"]
             old == got.s.all
  <2>1. after \in PackScratch /\ after.op = n /\ after.buffer = "pending"
    BY <1>2, <1>4 DEF PackScratch
  <2> HIDE DEF after
  <2>2. old \in Seq(PackScratch) /\ Len(old) \in Nat /\ DOMAIN old = 1 .. Len(old)
        /\ got.id \in DOMAIN old
    BY <1>3
  <2>7. all = [old EXCEPT ![got.id] = after]
    BY DEF after
  <2> HIDE DEF old, all
  <2>3. old \in [1 .. Len(old) -> PackScratch]
    <3>1. old = [i \in 1 .. Len(old) |-> old[i]] /\ \A i \in 1 .. Len(old) : old[i] \in PackScratch
      BY <2>2, SeqDef, LenProperties
    <3> QED BY <3>1
  <2>4. all \in [1 .. Len(old) -> PackScratch]
    BY <2>1, <2>3, <2>7
  <2>5. all[got.id] = after /\ \A i \in DOMAIN old : i # got.id => all[i] = old[i]
    BY <2>2, <2>7
  <2>6. all \in Seq(PackScratch) /\ DOMAIN all = 1 .. Len(old)
    BY <2>2, <2>4, FunctionIsSeq
  <2> QED BY <2>1, <2>2, <2>5, <2>6 DEF old
<1>6. sparse' = s
  BY <1>3 DEF PackPools, n, before
<1> HIDE DEF all
<1>7. s \in PackPools /\ s.hot = got.s.hot /\ s.spare = got.s.spare /\ s.all = all
  BY <1>3, <1>5 DEF PackPools
<1> HIDE DEF s
<1>8. PackIdle(s) = PackIdle(got.s)
  BY <1>7 DEF PackIdle
<1> DEFINE q1 == ToSet(sparseQueue')
<1>9. /\ sparseQueue' \in Seq(Nat) /\ q1 = q \cup {n}
      /\ \A k \in DOMAIN sparseQueue' : sparseQueue'[k] \in 1 .. n
      /\ \A k, m \in DOMAIN sparseQueue' : sparseQueue'[k] = sparseQueue'[m] => k = m
  <2> DEFINE longer == Append(sparseQueue, n)
  <2>1. sparseQueue' = longer
    BY DEF n
  <2>2. /\ longer \in Seq(Nat)
        /\ \A k \in DOMAIN longer : \/ k \in DOMAIN sparseQueue /\ longer[k] = sparseQueue[k]
                                    \/ k = Len(sparseQueue) + 1 /\ longer[k] = n
        /\ \A k \in DOMAIN sparseQueue : k \in DOMAIN longer /\ longer[k] = sparseQueue[k]
        /\ Len(sparseQueue) + 1 \in DOMAIN longer /\ longer[Len(sparseQueue) + 1] = n
    BY <1>2, Appended
  <2> HIDE DEF longer
  <2>3. ToSet(longer) = q \cup {n}
    BY <2>2 DEF ToSet
  <2>4. \A k \in DOMAIN longer : longer[k] \in 1 .. n
    BY <1>2, <2>2 DEF n
  <2>5. \A k, m \in DOMAIN longer : longer[k] = longer[m] => k = m
    <3>1. \A k \in DOMAIN sparseQueue : sparseQueue[k] # n
      BY <1>2 DEF ToSet
    <3> HIDE DEF q, q1
    <3> QED BY <1>2, <2>2, <3>1
  <2> QED BY <2>5, <2>1, <2>2, <2>3, <2>4
<1>10. PackQueue'
  <2>1. sparseOps' = n
    BY DEF n
  <2> QED BY <1>2, <1>9, <2>1 DEF PackQueue
<1>11. \A i \in DOMAIN got.s.all : got.s.all[i].op <= sparseOps
  <2>1. \A i \in DOMAIN sparse.all : sparse.all[i].op <= sparseOps
    BY DEF PackInv, PackHeld
  <2>2. /\ \A i \in DOMAIN sparse.all : got.s.all[i] = sparse.all[i]
        /\ \A i \in DOMAIN got.s.all : i \in DOMAIN sparse.all \/ got.s.all[i].op = 0
    BY DEF SubmitsInto
  <2>3. 0 <= sparseOps
    BY <1>2
  <2> QED BY <2>1, <2>2, <2>3
<1>12. PackPool(s, packErrors', q1)
  <2>1. PackPool(got.s, packErrors, q)
    BY <1>3
  <2>2. /\ packErrors' \in Nat /\ packErrors' = packErrors
        /\ Len(s.spare) <= SparsePoolLimit
        /\ \A i, k \in DOMAIN s.spare : s.spare[i] = s.spare[k] => i = k
        /\ s.hot \notin ToSet(s.spare)
        /\ PackIdle(s) \subseteq DOMAIN s.all
    BY <1>5, <1>7, <1>8, <2>1 DEF PackPool
  <2>3. ASSUME NEW i \in PackIdle(s)
        PROVE  s.all[i].op \notin q1 /\ (s.all[i].buffer = "unmapped" \/ packErrors' > 0)
    <3>1. /\ i \in DOMAIN got.s.all /\ i # got.id
          /\ got.s.all[i].op \notin q /\ (got.s.all[i].buffer = "unmapped" \/ packErrors > 0)
      BY <1>3, <1>8, <2>1 DEF PackPool
    <3>2. s.all[i] = got.s.all[i]
      BY <1>5, <1>7, <3>1
    <3>3. got.s.all[i].op # n
      <4>1. got.s.all[i].op <= sparseOps
        BY <1>11, <3>1
      <4> QED BY <1>2, <4>1 DEF n
    <3> QED BY <1>9, <2>2, <3>1, <3>2, <3>3
  <2> QED BY <1>7, <2>2, <2>3 DEF PackPool, PackPools
<1>13. /\ new \in Submission /\ new.group = group /\ new.op = n /\ new.scratch = got.id
       /\ new.map = "waiting" /\ GroupOf(Batch(t), group)
  <2>1. group \in Seq(Nat) /\ GroupOf(Batch(t), group)
    BY DEF SubmitsInto
  <2>2. got.id \in Nat
    BY <1>3
  <2> QED BY <1>2, <2>1, <2>2 DEF Submission
<1> HIDE DEF new
<1>14. /\ pending \in Seq(Submission)
       /\ \A k \in DOMAIN pending : \/ k \in DOMAIN w.pending /\ pending[k] = w.pending[k]
                                    \/ k = Len(w.pending) + 1 /\ pending[k] = new
       /\ Len(w.pending) + 1 \notin DOMAIN w.pending
  BY <1>1, <1>13, Appended
<1> HIDE DEF pending
<1>15. gpuWorker' = [gpuWorker EXCEPT ![t] = v]
  BY <1>1 DEF pending, new, n
<1>16. /\ v \in PackCall /\ v.stage = "after" /\ v.groups = Tail(w.groups)
       /\ v.batches = w.batches /\ v.table = w.table /\ v.encoded = w.encoded
       /\ v.matched = w.matched /\ v.pending = pending
  <2>1. Tail(w.groups) \in Seq(Seq(Nat))
    BY DEF SubmitsInto
  <2> QED BY <1>1, <1>14, <2>1 DEF PackCall
<1> HIDE DEF v
<1>17. PackCallSound(v)
  <2>1. \A k \in DOMAIN v.groups : GroupOf(Head(v.batches), v.groups[k])
    BY <1>16 DEF SubmitsInto, Batch
  <2>2. \A k \in DOMAIN v.pending : GroupOf(Head(v.batches), v.pending[k].group)
    BY <1>1, <1>13, <1>14, <1>16 DEF PackKnows, Batch
  <2>3. PackKnows(v)
    <3> HIDE DEF w
    <3> QED BY <1>1, <1>16, <2>1, <2>2 DEF PackKnows
  <2> QED BY <1>16, <2>3 DEF PackCallSound, PackKnows
<1>18. PackCalls'
  <2>1. \A u \in GpuWorkers : PackCallSound(gpuWorker'[u])
    BY <1>1, <1>15, <1>17 DEF PackInv, PackCalls
  <2>2. gpuWorker' \in [GpuWorkers -> PackCall]
    BY <1>1, <1>15, <1>16
  <2> QED BY <2>1, <2>2 DEF PackCalls, PackCallSound
\* Every submission was there, or is the new one.
<1>19. \A u \in GpuWorkers : \A k \in DOMAIN gpuWorker'[u].pending :
          \/ k \in DOMAIN gpuWorker[u].pending /\ gpuWorker'[u].pending[k] = gpuWorker[u].pending[k]
          \/ u = t /\ k = Len(w.pending) + 1 /\ gpuWorker'[u].pending[k] = new
  BY <1>1, <1>14, <1>15, <1>16
<1>20. \A u \in GpuWorkers : \A k \in DOMAIN gpuWorker[u].pending :
          LET p == gpuWorker[u].pending[k] IN
          /\ p.scratch \in DOMAIN got.s.all /\ p.scratch \notin PackIdle(got.s)
          /\ p.scratch # got.id /\ got.s.all[p.scratch].op = p.op
          /\ p.op # n
          /\ p.map # "waiting" => p.op \notin q1
  <2> SUFFICES ASSUME NEW u \in GpuWorkers, NEW k \in DOMAIN gpuWorker[u].pending
               PROVE  LET p == gpuWorker[u].pending[k] IN
                      /\ p.scratch \in DOMAIN got.s.all /\ p.scratch \notin PackIdle(got.s)
                      /\ p.scratch # got.id /\ got.s.all[p.scratch].op = p.op
                      /\ p.op # n
                      /\ p.map # "waiting" => p.op \notin q1
    OBVIOUS
  <2> DEFINE p == gpuWorker[u].pending[k]
  <2>1. /\ p.scratch \in DOMAIN sparse.all /\ p.scratch \notin PackIdle(sparse)
        /\ sparse.all[p.scratch].op = p.op
        /\ p.map # "waiting" => p.op \notin q
    BY DEF PackInv, PackHeld
  <2> HIDE DEF p
  <2>2. /\ p.scratch \in DOMAIN got.s.all /\ p.scratch \notin PackIdle(got.s)
        /\ p.scratch # got.id /\ got.s.all[p.scratch] = sparse.all[p.scratch]
    BY <2>1 DEF SubmitsInto
  <2>3. p.op <= sparseOps
    BY <1>11, <2>1, <2>2
  <2>4. p.op # n
    BY <1>2, <2>3 DEF n
  <2>5. p.map # "waiting" => p.op \notin q1
    BY <1>9, <2>1, <2>4
  <2> QED BY <2>1, <2>2, <2>4, <2>5 DEF p
<1>21. PackHeld'
  <2>1. \A i \in DOMAIN s.all : s.all[i].op <= n
    <3>1. \A i \in DOMAIN got.s.all : got.s.all[i].op \in Nat
      <4>1. \A i \in DOMAIN got.s.all : got.s.all[i] \in PackScratch
        BY <1>3, LenProperties
      <4> QED BY <4>1 DEF PackScratch
    <3>2. \A i \in DOMAIN got.s.all : i = got.id \/ s.all[i] = got.s.all[i]
      BY <1>5, <1>7
    <3>3. \A i \in DOMAIN got.s.all : got.s.all[i].op <= n
      BY <1>2, <1>11, <3>1 DEF n
    <3> QED BY <1>2, <1>5, <1>7, <3>2, <3>3
  <2>2. \A u \in GpuWorkers : \A k \in DOMAIN gpuWorker'[u].pending :
          LET p == gpuWorker'[u].pending[k] IN
          /\ p.scratch \in DOMAIN s.all /\ p.scratch \notin PackIdle(s)
          /\ s.all[p.scratch].op = p.op
          /\ p.map # "waiting" => p.op \notin q1
    <3> SUFFICES ASSUME NEW u \in GpuWorkers, NEW k \in DOMAIN gpuWorker'[u].pending
                 PROVE  LET p == gpuWorker'[u].pending[k] IN
                        /\ p.scratch \in DOMAIN s.all /\ p.scratch \notin PackIdle(s)
                        /\ s.all[p.scratch].op = p.op
                        /\ p.map # "waiting" => p.op \notin q1
      OBVIOUS
    <3> DEFINE p == gpuWorker'[u].pending[k]
    <3>1. CASE k \in DOMAIN gpuWorker[u].pending /\ p = gpuWorker[u].pending[k]
      <4>1. /\ p.scratch \in DOMAIN got.s.all /\ p.scratch \notin PackIdle(got.s)
            /\ p.scratch # got.id /\ got.s.all[p.scratch].op = p.op
            /\ p.map # "waiting" => p.op \notin q1
        <5> DEFINE o == gpuWorker[u].pending[k]
        <5>1. /\ o.scratch \in DOMAIN got.s.all /\ o.scratch \notin PackIdle(got.s)
              /\ o.scratch # got.id /\ got.s.all[o.scratch].op = o.op
              /\ o.map # "waiting" => o.op \notin q1
          BY <1>20, <3>1
        <5>2. p = o
          BY <3>1
        <5> HIDE DEF o, p
        <5> QED BY <5>1, <5>2
      <4> HIDE DEF p
      <4>2. s.all[p.scratch] = got.s.all[p.scratch] /\ p.scratch \in DOMAIN s.all
        BY <1>5, <1>7, <4>1
      <4> QED BY <1>8, <4>1, <4>2 DEF p
    <3>2. CASE p = new
      <4> HIDE DEF p
      <4> QED BY <1>3, <1>5, <1>7, <1>8, <1>13, <3>2 DEF p
    <3> QED BY <1>19, <3>1, <3>2
  <2>3. \A u, x \in GpuWorkers : \A k \in DOMAIN gpuWorker'[u].pending :
          \A m \in DOMAIN gpuWorker'[x].pending :
             gpuWorker'[u].pending[k].scratch = gpuWorker'[x].pending[m].scratch => u = x /\ k = m
    <3>1. \A u, x \in GpuWorkers : \A k \in DOMAIN gpuWorker[u].pending :
            \A m \in DOMAIN gpuWorker[x].pending :
               gpuWorker[u].pending[k].scratch = gpuWorker[x].pending[m].scratch => u = x /\ k = m
      BY DEF PackInv, PackHeld
    <3>2. \A u \in GpuWorkers : \A k \in DOMAIN gpuWorker[u].pending :
            gpuWorker[u].pending[k].scratch # got.id
      BY <1>20
    <3> QED BY <1>13, <1>19, <3>1, <3>2
  <2>4. \A u \in GpuWorkers : gpuWorker'[u].stage = "panicked" => packErrors' > 0
    <3>1. \A u \in GpuWorkers : gpuWorker[u].stage = "panicked" => packErrors > 0
      BY DEF PackInv, PackHeld
    <3> QED BY <1>1, <1>15, <1>16, <3>1
  <2>5. sparseOps' = n
    BY DEF n
  <2>6. /\ PackPool(sparse', packErrors', ToSet(sparseQueue'))
        /\ \A i \in DOMAIN sparse'.all : sparse'.all[i].op <= sparseOps'
    BY <1>6, <1>12, <2>1, <2>5
  <2>7. \A u \in GpuWorkers : \A k \in DOMAIN gpuWorker'[u].pending :
          LET p == gpuWorker'[u].pending[k] IN
          /\ p.scratch \in DOMAIN sparse'.all /\ p.scratch \notin PackIdle(sparse')
          /\ sparse'.all[p.scratch].op = p.op
          /\ p.map # "waiting" => p.op \notin ToSet(sparseQueue')
    <3> SUFFICES ASSUME NEW u \in GpuWorkers, NEW k \in DOMAIN gpuWorker'[u].pending
                 PROVE  LET p == gpuWorker'[u].pending[k] IN
                        /\ p.scratch \in DOMAIN sparse'.all /\ p.scratch \notin PackIdle(sparse')
                        /\ sparse'.all[p.scratch].op = p.op
                        /\ p.map # "waiting" => p.op \notin ToSet(sparseQueue')
      OBVIOUS
    <3> DEFINE p == gpuWorker'[u].pending[k]
    <3>1. /\ p.scratch \in DOMAIN s.all /\ p.scratch \notin PackIdle(s)
          /\ s.all[p.scratch].op = p.op
          /\ p.map # "waiting" => p.op \notin q1
      BY <2>2
    <3> HIDE DEF p
    <3>2. /\ p.scratch \in DOMAIN sparse'.all /\ p.scratch \notin PackIdle(sparse')
          /\ sparse'.all[p.scratch].op = p.op
          /\ p.map # "waiting" => p.op \notin ToSet(sparseQueue')
      BY <1>6, <3>1
    <3> QED BY <3>2 DEF p
  <2> QED BY <2>3, <2>4, <2>6, <2>7 DEF PackHeld
<1> QED BY <1>10, <1>18, <1>21 DEF PackInv

LEMMA PackSubmitStep ==
    ASSUME PackInv, NEW t \in GpuWorkers, SubmitSparse(t)
    PROVE  PackInv'
<1> DEFINE w == gpuWorker[t]
           group == Head(w.groups)
           g == ChunksOf(t, group)
           got == acquire_sparse_pack_scratch(sparse, Total(g, DOMAIN g))
           after == [w EXCEPT !.groups = Tail(@), !.stage = "after"]
<1>1. w.stage = "submit"
  BY DEF SubmitSparse
<1>2. SubmitsInto(t, group, got)
  BY <1>1, PackSubmitBegins
<1>3. w \in PackCall
  BY DEF PackInv, PackCalls
<1>4. \/ /\ sparse' = release_sparse_pack_scratch(got.s, got.id)
         /\ gpuWorker' = [gpuWorker EXCEPT ![t] = [after EXCEPT !.fallback = @ \cup ToSet(group)]]
         /\ packErrors' = packErrors + Len(group)
         /\ UNCHANGED <<sparseQueue, sparseOps>>
      \/ /\ got.s.all[got.id].buffer # "unmapped"
         /\ sparse' = got.s
         /\ gpuWorker' = [gpuWorker EXCEPT ![t].stage = "panicked"]
         /\ UNCHANGED <<sparseQueue, sparseOps, packErrors>>
      \/ /\ got.s.all[got.id].buffer = "unmapped"
         /\ sparseOps' = sparseOps + 1
         /\ sparseQueue' = Append(sparseQueue, sparseOps + 1)
         /\ sparse' = [got.s EXCEPT !.all[got.id] =
                          [@ EXCEPT !.op = sparseOps + 1, !.buffer = "pending"]]
         /\ gpuWorker' = [gpuWorker EXCEPT ![t] = [after EXCEPT !.pending =
               Append(@, [group |-> group, op |-> sparseOps + 1, scratch |-> got.id,
                          map |-> "waiting"])]]
         /\ UNCHANGED packErrors
  BY DEF SubmitSparse
<1> HIDE DEF group, got
<1>5. [after EXCEPT !.fallback = @ \cup ToSet(group)]
      = [w EXCEPT !.groups = Tail(@), !.stage = "after", !.fallback = @ \cup ToSet(group)]
  BY <1>3 DEF PackCall
<1> DEFINE new == [group |-> group, op |-> sparseOps + 1, scratch |-> got.id, map |-> "waiting"]
<1>6. [after EXCEPT !.pending = Append(@, new)]
      = [w EXCEPT !.groups = Tail(@), !.stage = "after", !.pending = Append(@, new)]
  <2> HIDE DEF new
  <2> QED BY <1>3 DEF PackCall
<1> HIDE DEF after
<1>7. CASE /\ sparse' = release_sparse_pack_scratch(got.s, got.id)
           /\ gpuWorker' = [gpuWorker EXCEPT ![t] = [after EXCEPT !.fallback = @ \cup ToSet(group)]]
           /\ packErrors' = packErrors + Len(group)
           /\ UNCHANGED <<sparseQueue, sparseOps>>
  BY <1>1, <1>2, <1>5, <1>7, PackSubmitFails
<1>8. CASE /\ got.s.all[got.id].buffer # "unmapped"
           /\ sparse' = got.s
           /\ gpuWorker' = [gpuWorker EXCEPT ![t].stage = "panicked"]
           /\ UNCHANGED <<sparseQueue, sparseOps, packErrors>>
  BY <1>1, <1>2, <1>8, PackSubmitPanics
<1>9. CASE /\ got.s.all[got.id].buffer = "unmapped"
           /\ sparseOps' = sparseOps + 1
           /\ sparseQueue' = Append(sparseQueue, sparseOps + 1)
           /\ sparse' = [got.s EXCEPT !.all[got.id] =
                            [@ EXCEPT !.op = sparseOps + 1, !.buffer = "pending"]]
           /\ gpuWorker' = [gpuWorker EXCEPT ![t] = [after EXCEPT !.pending = Append(@, new)]]
           /\ UNCHANGED packErrors
  BY <1>1, <1>2, <1>6, <1>9, PackSubmissionGoes
<1> QED BY <1>4, <1>7, <1>8, <1>9

\* The device finishes a submission: that it did is known to it, and its scratch is mapped.
LEMMA PackFinishesStep ==
    ASSUME PackInv, SparseFinishes
    PROVE  PackInv'
<1> DEFINE head == Head(sparseQueue)
           q == ToSet(sparseQueue)
           informed(p, map) == IF p.op = head THEN [p EXCEPT !.map = map] ELSE p
           done(e) == IF e.op = head THEN [e EXCEPT !.buffer = "mapped"] ELSE e
           all == [i \in DOMAIN sparse.all |-> done(sparse.all[i])]
           s == [sparse EXCEPT !.all = all]
<1>1. PackQueue /\ PackHeld /\ PackCalls /\ sparseQueue # <<>>
  BY DEF PackInv, SparseFinishes
<1>2. gpuWorker \in [GpuWorkers -> PackCall] /\ \A u \in GpuWorkers : PackCallSound(gpuWorker[u])
  BY <1>1 DEF PackCalls
<1>3. PICK map \in {"ok", "map"} :
         gpuWorker' = [t \in GpuWorkers |-> [gpuWorker[t] EXCEPT !.pending =
              [i \in DOMAIN @ |-> IF @[i].op = head THEN [@[i] EXCEPT !.map = map] ELSE @[i]]]]
  BY DEF SparseFinishes
<1>4. sparse' = s
  BY DEF SparseFinishes
<1>5. /\ sparseQueue' = Tail(sparseQueue) /\ sparseOps' = sparseOps /\ packErrors' = packErrors
  BY DEF SparseFinishes
<1> HIDE DEF head
<1>6. /\ sparseQueue' \in Seq(Nat) /\ head \in q
      /\ \A k \in DOMAIN sparseQueue' :
            k + 1 \in DOMAIN sparseQueue /\ k + 1 # 1 /\ sparseQueue'[k] = sparseQueue[k + 1]
      /\ 1 \in DOMAIN sparseQueue /\ head = sparseQueue[1]
  <2>1. sparseQueue \in Seq(Nat)
    BY <1>1 DEF PackQueue
  <2>2. /\ Head(sparseQueue) = sparseQueue[1] /\ 1 \in DOMAIN sparseQueue
        /\ Tail(sparseQueue) \in Seq(Nat)
        /\ \A k \in DOMAIN Tail(sparseQueue) :
              k + 1 \in DOMAIN sparseQueue /\ k + 1 # 1 /\ Tail(sparseQueue)[k] = sparseQueue[k + 1]
    BY <1>1, <2>1, HeadLeaves
  <2> QED BY <1>5, <2>2 DEF head, ToSet
<1>7. DOMAIN sparseQueue' \subseteq Int
  BY <1>6, LenProperties
<1>8. /\ ToSet(sparseQueue') \subseteq q /\ head \notin ToSet(sparseQueue')
      /\ \A k, m \in DOMAIN sparseQueue' : sparseQueue'[k] = sparseQueue'[m] => k = m
      /\ \A k \in DOMAIN sparseQueue' : sparseQueue'[k] \in 1 .. sparseOps
  <2>1. /\ \A k \in DOMAIN sparseQueue : sparseQueue[k] \in 1 .. sparseOps
        /\ \A k, m \in DOMAIN sparseQueue : sparseQueue[k] = sparseQueue[m] => k = m
    BY <1>1 DEF PackQueue
  <2>2. \A k, m \in DOMAIN sparseQueue' : sparseQueue'[k] = sparseQueue'[m] => k = m
    <3>1. \A k, m \in DOMAIN sparseQueue' : sparseQueue'[k] = sparseQueue'[m] => k + 1 = m + 1
      BY <1>6, <2>1
    <3> QED BY <1>7, <3>1
  <2>3. ToSet(sparseQueue') \subseteq q
    BY <1>6 DEF ToSet
  <2>4. head \notin ToSet(sparseQueue')
    BY <1>6, <2>1 DEF ToSet
  <2> QED BY <1>6, <2>1, <2>2, <2>3, <2>4
<1>9. PackQueue'
  BY <1>1, <1>5, <1>6, <1>8 DEF PackQueue
<1>10. /\ sparse \in PackPools /\ sparse.all \in Seq(PackScratch) /\ Len(sparse.all) \in Nat
       /\ DOMAIN sparse.all = 1 .. Len(sparse.all)
       /\ \A i \in DOMAIN sparse.all : sparse.all[i] \in PackScratch
       /\ PackPool(sparse, packErrors, q)
  <2>1. PackPool(sparse, packErrors, q)
    BY <1>1 DEF PackHeld
  <2>2. sparse \in PackPools
    BY <2>1 DEF PackPool, PackPools
  <2> QED BY <2>1, <2>2, LenProperties DEF PackPools
<1>11. ASSUME NEW i \in DOMAIN sparse.all
       PROVE  /\ all[i] \in PackScratch /\ all[i].op = sparse.all[i].op
              /\ sparse.all[i].op # head => all[i] = sparse.all[i]
  <2> DEFINE e == sparse.all[i]
  <2>1. e \in PackScratch
    BY <1>10, <1>11
  <2>2. all[i] = done(e)
    OBVIOUS
  <2> HIDE DEF e, all
  <2>3. done(e) \in PackScratch /\ done(e).op = e.op /\ (e.op # head => done(e) = e)
    BY <2>1 DEF PackScratch
  <2> HIDE DEF done
  <2> QED BY <2>2, <2>3 DEF e
<1>12. DOMAIN all = DOMAIN sparse.all
  OBVIOUS
<1>13. all \in Seq(PackScratch)
  <2>1. all = [i \in 1 .. Len(sparse.all) |-> all[i]]
    BY <1>10
  <2> HIDE DEF all
  <2>2. all \in [1 .. Len(sparse.all) -> PackScratch]
    BY <1>10, <1>11, <2>1
  <2> QED BY <1>10, <2>2, FunctionIsSeq
<1> HIDE DEF all
<1>14. s \in PackPools /\ s.hot = sparse.hot /\ s.spare = sparse.spare /\ s.all = all
  BY <1>10, <1>13 DEF PackPools
<1> HIDE DEF s
<1>15. PackIdle(s) = PackIdle(sparse)
  BY <1>14 DEF PackIdle
<1>16. PackPool(s, packErrors', ToSet(sparseQueue'))
  <2>1. PackPool(sparse, packErrors, q)
    BY <1>10
  <2>2. /\ packErrors \in Nat /\ PackIdle(sparse) \subseteq DOMAIN sparse.all
        /\ Len(s.spare) <= SparsePoolLimit
        /\ \A i, k \in DOMAIN s.spare : s.spare[i] = s.spare[k] => i = k
        /\ s.hot \notin ToSet(s.spare)
    BY <1>14, <2>1 DEF PackPool
  <2>3. ASSUME NEW i \in PackIdle(sparse)
        PROVE  /\ s.all[i].op \notin ToSet(sparseQueue')
               /\ s.all[i].buffer = "unmapped" \/ packErrors > 0
    <3>1. /\ i \in DOMAIN sparse.all /\ sparse.all[i].op \notin q
          /\ sparse.all[i].buffer = "unmapped" \/ packErrors > 0
      BY <2>1 DEF PackPool
    <3>2. sparse.all[i].op # head
      BY <1>6, <3>1
    <3>3. s.all[i] = sparse.all[i]
      BY <1>11, <1>14, <3>1, <3>2
    <3> QED BY <1>8, <3>1, <3>3
  <2> QED BY <1>5, <1>12, <1>14, <1>15, <2>2, <2>3 DEF PackPool, PackPools
\* What the calls know.
<1> DEFINE after(u) == [i \in DOMAIN gpuWorker[u].pending |-> informed(gpuWorker[u].pending[i], map)]
           v(u) == [gpuWorker[u] EXCEPT !.pending = after(u)]
<1>17. gpuWorker' = [u \in GpuWorkers |-> v(u)]
  BY <1>3
<1>18. ASSUME NEW u \in GpuWorkers
       PROVE  /\ v(u) \in PackCall /\ PackCallSound(v(u)) /\ v(u).stage = gpuWorker[u].stage
              /\ DOMAIN v(u).pending = DOMAIN gpuWorker[u].pending
              /\ \A k \in DOMAIN gpuWorker[u].pending :
                    LET p == gpuWorker[u].pending[k]
                        r == v(u).pending[k]
                    IN  /\ r.scratch = p.scratch /\ r.op = p.op
                        /\ r.map # "waiting" => p.map # "waiting" \/ p.op = head
  <2> DEFINE w == gpuWorker[u]
             old == w.pending
             new == after(u)
             x == [w EXCEPT !.pending = new]
  <2>1. w \in PackCall /\ PackCallSound(w)
    BY <1>2
  <2>2. old \in Seq(Submission) /\ Len(old) \in Nat /\ DOMAIN old = 1 .. Len(old)
        /\ \A k \in DOMAIN old : old[k] \in Submission
    <3>1. old \in Seq(Submission)
      BY <2>1 DEF PackCall
    <3> HIDE DEF old
    <3> QED BY <3>1, LenProperties
  <2>3. ASSUME NEW k \in DOMAIN old
        PROVE  /\ new[k] \in Submission /\ new[k].group = old[k].group
               /\ new[k].scratch = old[k].scratch /\ new[k].op = old[k].op
               /\ new[k].map # "waiting" => old[k].map # "waiting" \/ old[k].op = head
    <3> DEFINE p == old[k]
    <3>1. p \in Submission
      BY <2>2, <2>3
    <3>2. new[k] = informed(p, map)
      OBVIOUS
    <3> HIDE DEF p, new
    <3>3. /\ informed(p, map) \in Submission /\ informed(p, map).group = p.group
          /\ informed(p, map).scratch = p.scratch /\ informed(p, map).op = p.op
          /\ informed(p, map).map # "waiting" => p.map # "waiting" \/ p.op = head
      BY <1>3, <3>1 DEF Submission
    <3> HIDE DEF informed
    <3> QED BY <3>2, <3>3 DEF p
  <2>4. DOMAIN new = DOMAIN old /\ new = [k \in DOMAIN old |-> new[k]]
    OBVIOUS
  <2>5. v(u) = x
    OBVIOUS
  <2> HIDE DEF new, old
  <2>6. new \in Seq(Submission)
    <3>1. new \in [1 .. Len(old) -> Submission]
      BY <2>2, <2>3, <2>4
    <3> QED BY <2>2, <3>1, FunctionIsSeq
  <2>7. new = <<>> <=> old = <<>>
    <3>1. DOMAIN <<>> = {} /\ \A z \in Seq(Submission) : DOMAIN z = {} => z = <<>>
      <4>1. ASSUME NEW z \in Seq(Submission), DOMAIN z = {}
            PROVE  z = <<>>
        <5>1. Len(z) \in Nat /\ DOMAIN z = 1 .. Len(z)
          BY LenProperties
        <5>2. Len(z) = 0
          <6>1. 1 \notin 1 .. Len(z)
            BY <4>1, <5>1
          <6> QED BY <5>1, <6>1
        <5> QED BY <5>2, EmptySeq
      <4> QED BY <4>1
    <3> QED BY <2>2, <2>4, <2>6, <3>1
  <2>8. /\ x \in PackCall /\ x.stage = w.stage /\ x.batches = w.batches /\ x.table = w.table
        /\ x.groups = w.groups /\ x.encoded = w.encoded /\ x.matched = w.matched
        /\ x.out = w.out /\ x.pending = new
    BY <2>1, <2>6 DEF PackCall
  <2> HIDE DEF x
  <2>9. PackKnows(w) => PackKnows(x)
    <3>1. \A k \in DOMAIN new : k \in DOMAIN old /\ new[k].group = old[k].group
      BY <2>3, <2>4
    <3>2. w.pending = old
      BY DEF old
    <3> HIDE DEF w
    <3> QED BY <2>8, <3>1, <3>2 DEF PackKnows
  <2>10. PackCallSound(x)
    <3>1. w.pending = old
      BY DEF old
    <3> HIDE DEF w
    <3> QED BY <2>1, <2>7, <2>8, <2>9, <3>1 DEF PackCallSound
  <2>11. /\ x.pending = new /\ DOMAIN new = DOMAIN gpuWorker[u].pending
    BY <2>4, <2>8 DEF old
  <2> QED BY <2>3, <2>5, <2>8, <2>10, <2>11 DEF old
<1>19. \A u \in GpuWorkers : gpuWorker'[u] = v(u)
  BY <1>17
<1> HIDE DEF v
<1>20. PackCalls'
  <2>1. gpuWorker' \in [GpuWorkers -> PackCall]
    BY <1>17, <1>18
  <2>2. \A u \in GpuWorkers : PackCallSound(gpuWorker'[u])
    BY <1>18, <1>19
  <2> QED BY <2>1, <2>2 DEF PackCalls, PackCallSound
<1>21. PackHeld'
  <2>1. \A i \in DOMAIN s.all : s.all[i].op <= sparseOps
    <3>1. \A i \in DOMAIN sparse.all : sparse.all[i].op <= sparseOps
      BY <1>1 DEF PackHeld
    <3> QED BY <1>11, <1>12, <1>14, <3>1
  <2>2. ASSUME NEW u \in GpuWorkers, NEW k \in DOMAIN gpuWorker'[u].pending
        PROVE  LET p == gpuWorker'[u].pending[k] IN
               /\ p.scratch \in DOMAIN s.all /\ p.scratch \notin PackIdle(s)
               /\ s.all[p.scratch].op = p.op
               /\ p.map # "waiting" => p.op \notin ToSet(sparseQueue')
    <3> DEFINE p == gpuWorker[u].pending[k]
               r == gpuWorker'[u].pending[k]
    <3>1. /\ k \in DOMAIN gpuWorker[u].pending
          /\ r.scratch = p.scratch /\ r.op = p.op
          /\ r.map # "waiting" => p.map # "waiting" \/ p.op = head
      BY <1>18, <1>19, <2>2
    <3>2. /\ p.scratch \in DOMAIN sparse.all /\ p.scratch \notin PackIdle(sparse)
          /\ sparse.all[p.scratch].op = p.op
          /\ p.map # "waiting" => p.op \notin q
      BY <1>1, <3>1 DEF PackHeld
    <3> HIDE DEF p, r
    <3>3. p.scratch \in DOMAIN s.all /\ s.all[p.scratch].op = p.op
      BY <1>11, <1>12, <1>14, <3>2
    <3>4. r.map # "waiting" => r.op \notin ToSet(sparseQueue')
      BY <1>8, <3>1, <3>2
    <3> QED BY <1>15, <3>1, <3>2, <3>3, <3>4 DEF r
  <2>3. \A u, x \in GpuWorkers : \A k \in DOMAIN gpuWorker'[u].pending :
          \A m \in DOMAIN gpuWorker'[x].pending :
             gpuWorker'[u].pending[k].scratch = gpuWorker'[x].pending[m].scratch => u = x /\ k = m
    <3>1. \A u, x \in GpuWorkers : \A k \in DOMAIN gpuWorker[u].pending :
            \A m \in DOMAIN gpuWorker[x].pending :
               gpuWorker[u].pending[k].scratch = gpuWorker[x].pending[m].scratch => u = x /\ k = m
      BY <1>1 DEF PackHeld
    <3>2. \A u \in GpuWorkers : \A k \in DOMAIN gpuWorker'[u].pending :
             /\ k \in DOMAIN gpuWorker[u].pending
             /\ gpuWorker'[u].pending[k].scratch = gpuWorker[u].pending[k].scratch
      BY <1>18, <1>19
    <3> QED BY <3>1, <3>2
  <2>4. \A u \in GpuWorkers : gpuWorker'[u].stage = "panicked" => packErrors' > 0
    BY <1>1, <1>5, <1>18, <1>19 DEF PackHeld
  <2> QED BY <1>4, <1>5, <1>16, <2>1, <2>2, <2>3, <2>4 DEF PackHeld
<1> QED BY <1>9, <1>20, <1>21 DEF PackInv

LEMMA PackKeepsInv ==
    ASSUME PackInv, GpuBatchNext \/ UNCHANGED batchVars
    PROVE  PackInv'
<1>1. CASE UNCHANGED batchVars
  <2>1. UNCHANGED <<gpuWorker, sparse, sparseQueue, sparseOps, packErrors>>
    BY <1>1 DEF batchVars
  <2>2. PackCalls' /\ PackQueue'
    BY <2>1 DEF PackInv, PackCalls, PackQueue, PackCallSound
  <2>3. PackHeld'
    BY <2>1 DEF PackInv, PackHeld
  <2> QED BY <2>2, <2>3 DEF PackInv
<1>2. CASE SparseFinishes
  BY <1>2, PackFinishesStep
<1>3. ASSUME NEW t \in GpuWorkers, GpuWorkerStep(t)
      PROVE  PackInv'
  <2>1. CASE Prepare(t)
    BY <2>1, PackPrepareStep
  <2>2. CASE \/ BeforeGroup(t) \/ RoomForGroup(t) \/ OldestCollected(t)
             \/ AfterSubmit(t) \/ BelowHigh(t) \/ CollectRest(t)
    BY <2>2, CollectingStep
  <2>3. CASE SubmitSparse(t)
    BY <2>3, PackSubmitStep
  <2>4. CASE MatchFallback(t)
    BY <2>4, MatchStep
  <2>5. CASE Finalize(t)
    BY <2>5, FinalizeStep
  <2>6. CASE NextBatch(t)
    BY <2>6, NextBatchStep
  <2> QED BY <1>3, <2>1, <2>2, <2>3, <2>4, <2>5, <2>6 DEF GpuWorkerStep
<1>4. GpuBatchEnded => UNCHANGED batchVars
  BY DEF GpuBatchEnded
<1> QED BY <1>1, <1>2, <1>3, <1>4 DEF GpuBatchNext

LEMMA PackInitInv == GpuBatchInit => PackInv
<1> SUFFICES ASSUME GpuBatchInit PROVE PackInv
  OBVIOUS
<1>1. /\ gpuWorker = [t \in GpuWorkers |-> NewCall(WorkerBatches[t])]
      /\ sparse = [hot |-> 0, spare |-> <<>>, all |-> <<>>]
      /\ sparseQueue = <<>> /\ sparseOps = 0 /\ packErrors = 0
  BY DEF GpuBatchInit
<1>2. ASSUME NEW t \in GpuWorkers
      PROVE  /\ PackCallSound(gpuWorker[t]) /\ gpuWorker[t].pending = <<>>
             /\ gpuWorker[t].stage \in {"prepare", "done"}
  <2>1. WorkerBatches[t] \in Seq(Seq(BatchChunk))
    BY GpuBatchAssumption
  <2>2. gpuWorker[t] = NewCall(WorkerBatches[t])
    BY <1>1
  <2> QED BY <2>1, <2>2, NewCallSound
<1>3. PackCalls
  <2>1. \A t \in GpuWorkers : gpuWorker[t] \in PackCall
    BY <1>2 DEF PackCallSound
  <2>2. gpuWorker \in [GpuWorkers -> PackCall]
    BY <1>1, <2>1
  <2> QED BY <1>2, <2>2 DEF PackCalls
<1>4. DOMAIN <<>> = {} /\ ToSet(<<>>) = {} /\ Len(<<>>) = 0
  BY DEF ToSet
<1>5. PackQueue
  BY <1>1, <1>4, EmptySeq DEF PackQueue
<1>6. PackHeld
  <2>1. /\ sparse.hot = 0 /\ sparse.spare = <<>> /\ sparse.all = <<>>
        /\ sparse \in [hot : Nat, spare : Seq(Nat), all : Seq(PackScratch)]
    BY <1>1, EmptySeq
  <2>2. PackIdle(sparse) = {}
    BY <1>4, <2>1 DEF PackIdle
  <2>3. SparsePoolLimit \in Nat
    BY GpuBatchAssumption
  <2>4. PackPool(sparse, packErrors, ToSet(sparseQueue))
    BY <1>1, <1>4, <2>1, <2>2, <2>3 DEF PackPool
  <2> QED BY <1>1, <1>2, <1>4, <2>1, <2>4 DEF PackHeld
<1> QED BY <1>3, <1>5, <1>6 DEF PackInv

LEMMA PackInvSound == PackInv => GpuBatchExact /\ SparseSound
<1> SUFFICES ASSUME PackInv PROVE GpuBatchExact /\ SparseSound
  OBVIOUS
<1>1. GpuBatchExact
  BY DEF PackInv, PackCalls, PackCallSound, GpuBatchExact, Batch
<1>2. SparseSound
  <2>1. PackHeld
    BY DEF PackInv
  <2>2. /\ Len(sparse.spare) <= SparsePoolLimit
        /\ \A i, k \in DOMAIN sparse.spare : sparse.spare[i] = sparse.spare[k] => i = k
        /\ sparse.hot \notin ToSet(sparse.spare)
        /\ \A t \in GpuWorkers : gpuWorker[t].stage = "panicked" => packErrors > 0
    BY <2>1 DEF PackHeld, PackPool
  <2>3. ASSUME NEW h \in Hands
        PROVE  /\ h[3] \notin {sparse.hot} \cup ToSet(sparse.spare)
               /\ sparse.all[h[3]].op = h[2]
    <3>4. PICK t \in GpuWorkers :
             h \in {<<t, p.op, p.scratch>> : p \in ToSet(gpuWorker[t].pending)}
      BY <2>3 DEF Hands
    <3>1. PICK p \in ToSet(gpuWorker[t].pending) : h = <<t, p.op, p.scratch>>
      BY <3>4
    <3>2. PICK k \in DOMAIN gpuWorker[t].pending : p = gpuWorker[t].pending[k]
      BY <3>1 DEF ToSet
    <3>3. /\ p.scratch \in DOMAIN sparse.all /\ p.scratch \notin PackIdle(sparse)
          /\ sparse.all[p.scratch].op = p.op
      BY <2>1, <3>2 DEF PackHeld
    <3>5. p.scratch # 0
      <4>1. sparse.all \in Seq(PackScratch)
        BY <2>1 DEF PackHeld, PackPool
      <4>2. 0 \notin DOMAIN sparse.all
        BY <4>1, LenProperties
      <4> QED BY <3>3, <4>2
    <3> QED BY <3>1, <3>3, <3>5 DEF PackIdle
  <2> QED BY <2>2, <2>3 DEF SparseSound
<1> QED BY <1>1, <1>2

\* Whatever batches are compressed with the device, by however many threads that share the
\* scratches, with whatever bounds and faults: a batch that is returned has each chunk packed
\* from its own bytes or with matches for the table that is written with them, and a scratch
\* serves one group at a time.
THEOREM GpuPacksSoundly == GpuSpec => [](GpuBatchExact /\ SparseSound)
<1>1. GpuInit => PackInv
  BY PackInitInv DEF GpuInit
<1>2. PackInv /\ [GpuNext]_<<scenario, allVars>> => PackInv'
  <2> SUFFICES ASSUME PackInv, [GpuNext]_<<scenario, allVars>> PROVE PackInv'
    OBVIOUS
  <2>1. GpuBatchNext \/ UNCHANGED batchVars
    BY DEF GpuNext, InSlots, InBatch, InPack, InMemory, InDeflate, InSetup, InDesktop,
           allVars, gpuVars
  <2> QED BY <2>1, PackKeepsInv
<1> QED BY <1>1, <1>2, PackInvSound, PTL DEF GpuSpec
================================================================================
