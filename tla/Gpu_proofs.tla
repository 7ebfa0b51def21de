------------------------------- MODULE Gpu_proofs -------------------------------
(* What PDeflate does with a device and with threads around it.  That whatever    *)
(* the device decodes, on slots or in true batches, every chunk of a call is       *)
(* answered once, in order and as itself, and that a buffer serves one submission  *)
(* at a time; and that a buffer that is compressed or decoded in memory has every  *)
(* chunk in its place.                                                             *)
(*                                                                                 *)
(* The three share nothing, so each has an inductive invariant of its own.  Both   *)
(* decoders answer from two sources, the device and the CPU, in no order, and sort *)
(* at the end: what is shown of them is that the chunks answered and those still   *)
(* to be answered are always, each once, those asked for, and that a sort by the   *)
(* number of the chunk then gives the order of the call.                           *)
EXTENDS PdeflateInMemory, PdeflateGpuDecode, PdeflateGpuTrueBatch, SequencesExt,
        ChunkBytes_proofs, SequenceTheorems, FunctionTheorems

--------------------------------------------------------------------------------
(* Buffers in memory (PdeflateInMemory): whatever the number of workers, the       *)
(* policy, the device and what fails, a buffer that is returned has every chunk in *)
(* its place.                                                                      *)

(* The inductive invariant.                                                    *)

Active == call.stage \in {"compress", "decode"}

StreamChunk == [id : Nat, final : BOOLEAN, parses : BOOLEAN, decodes : BOOLEAN]

WorkerState == [stage : {"top", "pop", "work", "left", "panicked"},
                held : Seq(Nat), done : Seq([chunk : Nat, ok : BOOLEAN])]

\* The options of the calls.
Options ==
    /\ setup \in [chunks : Nat, eligible : SUBSET Nat, policy : {"global", "split"},
                  gpu : BOOLEAN, force : BOOLEAN]
    /\ setup.gpu => GpuSide # {}

\* The type invariant, but for what the stages of the call make of the results.
MemoryTypes ==
    /\ Options
    /\ call.stage \in {"start", "compress", "written", "spawn", "decode", "returned"}
    /\ DOMAIN call = {"stage", "result", "stream"} /\ call.stream \in Seq(StreamChunk)
    /\ queues \in [all : Seq(Nat), cpu : Seq(Nat), gpu : Seq(Nat)]
    /\ workers \in [Threads -> WorkerState]
    /\ err \in {"none"} \union MemoryFaults

\* A chunk is in one place of a queue.
Distinct(q) == \A i, j \in DOMAIN q : q[i] = q[j] => i = j

Pool      == ToSet(queues.all) \union (ToSet(queues.cpu) \union ToSet(queues.gpu))
HeldBy(t) == ToSet(workers[t].held)

\* The chunks that have a result.
ReadyChunks == IF call.stage = "compress" THEN {i \in DOMAIN slots : slots[i] # {}}
         ELSE {i \in DOMAIN slices : slices[i] # <<>>}

\* Only the queues of the policy are used; a chunk is in one of them once.
Queued ==
    /\ setup.policy = "global" => queues.cpu = <<>> /\ queues.gpu = <<>>
    /\ setup.policy = "split" => queues.all = <<>>
    /\ Distinct(queues.all) /\ Distinct(queues.cpu) /\ Distinct(queues.gpu)
    /\ ToSet(queues.cpu) \intersect ToSet(queues.gpu) = {}

\* Each chunk is in a queue, or one worker has it, or it has its result.
Spread ==
    /\ \A t \in Threads : Distinct(workers[t].held) /\ HeldBy(t) \intersect Pool = {}
    /\ \A t, u \in Threads : t # u => HeldBy(t) \intersect HeldBy(u) = {}
    /\ \A t \in Threads : HeldBy(t) \intersect ReadyChunks = {}
    /\ Pool \intersect ReadyChunks = {}
    /\ \A t \in Threads : HeldBy(t) \subseteq 1 .. setup.chunks
    /\ \A i \in 1 .. setup.chunks :
          i \in Pool \/ i \in ReadyChunks \/ \E t \in Threads : i \in HeldBy(t)
    /\ Pool \subseteq 1 .. setup.chunks

\* What a worker has, by where it is; one that left with chunks has stored its error.
InHands ==
    \A t \in Threads :
        /\ workers[t].stage \in {"top", "pop"} => workers[t].held = <<>>
        /\ workers[t].stage = "work" => workers[t].held # <<>>
        /\ workers[t].stage = "left" /\ workers[t].held # <<>> => err # "none"
        /\ workers[t].stage = "panicked" => t \in GpuSide

\* A CPU worker, and the device when it is forced, only leave empty queues behind.
Quits ==
    \A t \in Spawned(call.stage = "decode") :
        workers[t].stage = "left" /\ (t \in CpuSide \/ (call.stage = "decode" /\ setup.force))
            => err # "none" \/ Pool = {}

\* Compressing: nothing was decoded, and a result is of its own chunk.
Compressing ==
    /\ call.stage \in {"start", "compress", "written"} => slices = <<>>
    /\ call.stage = "compress" =>
          /\ DOMAIN slots = 1 .. setup.chunks
          /\ \A i \in DOMAIN slots : slots[i] \in {{}, {i}}
    /\ call.stage = "written" =>
          [i \in DOMAIN call.stream |-> call.stream[i].id] = Numbers(setup.chunks)

\* Decoding: what is in a part of the output is what a worker has as its result.
Decoding ==
    /\ slices = <<>> \/ DOMAIN slices = DOMAIN call.stream
    /\ \A i \in DOMAIN slices : slices[i] = <<>> \/ slices[i] = <<slices[i][1]>>
    /\ call.stage \in {"spawn", "decode"} =>
          /\ setup.policy = "global" /\ setup.chunks = Len(call.stream)
          /\ DOMAIN slices = 1 .. setup.chunks
    /\ call.stage = "spawn" =>
          /\ queues.all = Numbers(setup.chunks) /\ queues.cpu = <<>> /\ queues.gpu = <<>>
          /\ \A i \in DOMAIN slices : slices[i] = <<>>
    /\ call.stage = "decode" =>
          /\ \A t \in Threads : \A r \in ToSet(workers[t].done) :
                /\ r.chunk \in DOMAIN slices
                /\ slices[r.chunk] = <<IF r.ok THEN call.stream[r.chunk].id ELSE 0>>
          /\ \A i \in DOMAIN slices : slices[i] # <<>> => \E r \in Results : r.chunk = i

\* What a call says when it returns.
Returned ==
    /\ call.result = "missing" => call.stage = "returned" /\ slices # <<>>
    /\ call.stage = "returned" /\ call.result = "ok" =>
          \A i \in DOMAIN slices : slices[i] = <<call.stream[i].id>>
    /\ call.stage = "returned" /\ call.result = "missing" => setup.force /\ ~setup.gpu

IInv ==
    /\ MemoryTypes /\ Compressing /\ Decoding /\ Returned
    /\ Active => Queued /\ Spread /\ InHands /\ Quits
    /\ ~Active => Joined
    /\ call.stage = "compress" => \A t \in Threads : workers[t].done = <<>>
    /\ call.stage = "written" => Pool = {}

--------------------------------------------------------------------------------
(* Queues.                                                                     *)

LEMMA MemoryConstants ==
    /\ CpuSide # {} /\ CpuSide \intersect GpuSide = {} /\ Threads = CpuSide \union GpuSide
    /\ GpuBatchLimit \in Nat /\ GpuBatchLimit > 0
BY MemoryAssumption DEF Threads

\* The function by which Kept is defined.
KeptBy(f, q, S, m) ==
    f = [n \in 0 .. m |-> IF n = 0 THEN <<>>
                          ELSE IF q[n] \in S THEN Append(f[n - 1], q[n])
                          ELSE f[n - 1]]

LEMMA KeptExists ==
    ASSUME NEW q, NEW S, NEW m \in Nat
    PROVE  \E f : KeptBy(f, q, S, m)
<1> DEFINE F == {k \in Nat : ~\E f : KeptBy(f, q, S, k)}
<1> SUFFICES ASSUME F # {} PROVE FALSE
  OBVIOUS
<1>1. F \in SUBSET Nat
  OBVIOUS
<1> HIDE DEF F
<1>2. PICK k \in F : \A j \in F : k <= j
  BY <1>1, LeastNat
<1>3. k \in Nat /\ ~\E f : KeptBy(f, q, S, k)
  BY DEF F
<1>4. k # 0
  <2> DEFINE f == [n \in 0 .. 0 |-> <<>>]
  <2>1. f = [n \in 0 .. 0 |-> IF n = 0 THEN <<>>
                              ELSE IF q[n] \in S THEN Append(f[n - 1], q[n])
                              ELSE f[n - 1]]
    OBVIOUS
  <2> HIDE DEF f
  <2>2. KeptBy(f, q, S, 0)
    BY <2>1 DEF KeptBy
  <2> QED BY <1>3, <2>2
<1>5. k - 1 \in Nat /\ k - 1 \notin F
  BY <1>2, <1>3, <1>4
<1>6. PICK f : KeptBy(f, q, S, k - 1)
  BY <1>5 DEF F
<1> DEFINE last == IF q[k] \in S THEN Append(f[k - 1], q[k]) ELSE f[k - 1]
           g == [n \in 0 .. k |-> IF n = k THEN last ELSE f[n]]
<1>7. ASSUME NEW n \in 0 .. k
      PROVE  g[n] = IF n = 0 THEN <<>>
                    ELSE IF q[n] \in S THEN Append(g[n - 1], q[n])
                    ELSE g[n - 1]
  <2>1. CASE n = k
    <3>1. k - 1 \in 0 .. k /\ k - 1 # k
      BY <1>3, <1>5
    <3>2. g[n - 1] = f[k - 1] /\ g[n] = last
      BY <2>1, <3>1
    <3> QED BY <1>4, <2>1, <3>2
  <2>2. CASE n # k
    <3>1. n \in 0 .. (k - 1) /\ (n # 0 => n - 1 \in 0 .. k /\ n - 1 # k)
      BY <1>3, <1>5, <2>2
    <3>2. g[n] = f[n] /\ (n # 0 => g[n - 1] = f[n - 1])
      BY <2>2, <3>1
    <3>3. f[n] = IF n = 0 THEN <<>>
                 ELSE IF q[n] \in S THEN Append(f[n - 1], q[n])
                 ELSE f[n - 1]
      BY <1>6, <3>1 DEF KeptBy
    <3> HIDE DEF g
    <3> QED BY <3>2, <3>3
  <2> QED BY <2>1, <2>2
<1>8. KeptBy(g, q, S, k)
  <2>1. g = [n \in 0 .. k |-> g[n]]
    OBVIOUS
  <2> HIDE DEF g
  <2> QED BY <1>7, <2>1 DEF KeptBy
<1> QED BY <1>3, <1>8

\* Those that are kept are those in the set, and each is kept once.
LEMMA KeptIs ==
    ASSUME NEW q \in Seq(Nat), NEW S
    PROVE  /\ Kept(q, S) \in Seq(Nat)
           /\ ToSet(Kept(q, S)) = ToSet(q) \intersect S
           /\ Distinct(q) => Distinct(Kept(q, S))
<1>1. Len(q) \in Nat /\ DOMAIN q = 1 .. Len(q) /\ \A i \in 1 .. Len(q) : q[i] \in Nat
  OBVIOUS
<1> DEFINE R(f) == f = [n \in 0 .. Len(q) |-> IF n = 0 THEN <<>>
                                              ELSE IF q[n] \in S THEN Append(f[n - 1], q[n])
                                              ELSE f[n - 1]]
<1>2. R(CHOOSE f : R(f))
  <2>0. PICK f : KeptBy(f, q, S, Len(q))
    BY <1>1, KeptExists
  <2>1. R(f)
    BY <2>0 DEF KeptBy
  <2> HIDE DEF R
  <2> QED BY <2>1
<1>3. Kept(q, S) = (CHOOSE f : R(f))[Len(q)]
  BY DEF Kept
<1>4. PICK f : KeptBy(f, q, S, Len(q)) /\ Kept(q, S) = f[Len(q)]
  BY <1>2, <1>3 DEF KeptBy
<1> HIDE DEF R
<1> DEFINE Right(n) == /\ f[n] \in Seq(Nat)
                       /\ ToSet(f[n]) = {q[i] : i \in 1 .. n} \intersect S
                       /\ Distinct(q) => Distinct(f[n])
           F == {n \in 0 .. Len(q) : ~Right(n)}
<1>5. F = {}
  <2> SUFFICES ASSUME F # {} PROVE FALSE
    OBVIOUS
  <2>1. F \in SUBSET Nat
    BY <1>1
  <2> HIDE DEF F
  <2>2. PICK n \in F : \A j \in F : n <= j
    BY <2>1, LeastNat
  <2>3. n \in 0 .. Len(q) /\ ~Right(n) /\ n \in Nat
    BY <2>1 DEF F
  <2>4. n # 0
    <3> SUFFICES ASSUME n = 0 PROVE FALSE
      OBVIOUS
    <3>1. f[n] = <<>>
      BY <1>4, <2>3 DEF KeptBy
    <3>2. f[n] \in Seq(Nat) /\ ToSet(f[n]) = {} /\ Distinct(f[n]) /\ {q[i] : i \in 1 .. n} = {}
      BY <3>1 DEF ToSet, Distinct
    <3> QED BY <2>3, <3>2
  <2>5. n - 1 \in 0 .. Len(q) /\ n - 1 \notin F /\ n \in 1 .. Len(q)
    BY <1>1, <2>2, <2>3, <2>4
  <2>6. Right(n - 1)
    BY <2>5 DEF F
  <2>7. f[n] = IF q[n] \in S THEN Append(f[n - 1], q[n]) ELSE f[n - 1]
    BY <1>4, <2>3, <2>4 DEF KeptBy
  <2>8. {q[i] : i \in 1 .. n} = {q[i] : i \in 1 .. (n - 1)} \union {q[n]}
    <3>1. \A i : i \in 1 .. n <=> i \in 1 .. (n - 1) \/ i = n
      BY <2>5
    <3> QED BY <3>1
  <2>9. CASE q[n] \notin S
    BY <2>3, <2>6, <2>7, <2>8, <2>9
  <2>10. CASE q[n] \in S
    <3> DEFINE s == f[n - 1]
    <3>1. s \in Seq(Nat) /\ f[n] = Append(s, q[n]) /\ q[n] \in Nat
          /\ ToSet(s) = {q[i] : i \in 1 .. (n - 1)} \intersect S
      BY <1>1, <2>5, <2>6, <2>7, <2>10
    <3>1a. Distinct(q) => Distinct(s)
      BY <2>6
    <3> HIDE DEF s
    <3>2. /\ f[n] \in Seq(Nat) /\ Len(f[n]) = Len(s) + 1 /\ Len(s) \in Nat
          /\ \A i \in 1 .. Len(s) : f[n][i] = s[i]
          /\ f[n][Len(s) + 1] = q[n]
          /\ DOMAIN f[n] = 1 .. (Len(s) + 1) /\ DOMAIN s = 1 .. Len(s)
      BY <3>1, AppendProperties
    <3>3. ToSet(f[n]) = ToSet(s) \union {q[n]}
      <4>1. \A i : i \in 1 .. (Len(s) + 1) <=> i \in 1 .. Len(s) \/ i = Len(s) + 1
        BY <3>2
      <4> QED BY <3>2, <4>1 DEF ToSet
    <3>4. ASSUME Distinct(q) PROVE Distinct(f[n])
      <4>1. q[n] \notin ToSet(s)
        <5>1. \A i \in 1 .. (n - 1) : i \in DOMAIN q /\ n \in DOMAIN q /\ i # n
          BY <1>1, <2>5
        <5>2. \A i \in 1 .. (n - 1) : q[i] # q[n]
          BY <3>4, <5>1 DEF Distinct
        <5> QED BY <3>1, <5>2
      <4>2. \A i \in DOMAIN s : s[i] # q[n]
        BY <4>1 DEF ToSet
      <4>3. \A i, j \in DOMAIN s : s[i] = s[j] => i = j
        BY <3>1a, <3>4 DEF Distinct
      <4> SUFFICES ASSUME NEW i \in DOMAIN f[n], NEW j \in DOMAIN f[n], f[n][i] = f[n][j]
                   PROVE  i = j
        BY DEF Distinct
      <4>4. (i \in DOMAIN s \/ i = Len(s) + 1) /\ (j \in DOMAIN s \/ j = Len(s) + 1)
        BY <3>2
      <4>5. /\ i \in DOMAIN s => f[n][i] = s[i]
            /\ j \in DOMAIN s => f[n][j] = s[j]
        BY <3>2
      <4> QED BY <3>2, <4>2, <4>3, <4>4, <4>5
    <3>5. ToSet(f[n]) = {q[i] : i \in 1 .. n} \intersect S
      BY <2>8, <2>10, <3>1, <3>3
    <3> QED BY <2>3, <3>2, <3>4, <3>5
  <2> QED BY <2>9, <2>10
<1>6. Right(Len(q))
  <2>1. Len(q) \in 0 .. Len(q)
    BY <1>1
  <2> HIDE DEF Right
  <2> QED BY <1>5, <2>1
<1>7. ToSet(q) = {q[i] : i \in 1 .. Len(q)}
  BY <1>1 DEF ToSet
<1> QED BY <1>4, <1>6, <1>7

\* An empty sequence, and one with nothing in it.
LEMMA EmptyIs ==
    /\ ToSet(<<>>) = {} /\ Distinct(<<>>)
    /\ \A q \in Seq(Nat) : ToSet(q) = {} <=> q = <<>>
<1>1. ToSet(<<>>) = {} /\ Distinct(<<>>)
  BY DEF ToSet, Distinct
<1>2. ASSUME NEW q \in Seq(Nat), ToSet(q) = {}
      PROVE  q = <<>>
  <2>1. DOMAIN q = 1 .. Len(q) /\ Len(q) \in Nat
    OBVIOUS
  <2>2. Len(q) = 0
    <3>1. Len(q) # 0 => 1 \in DOMAIN q
      BY <2>1
    <3> QED BY <1>2, <3>1 DEF ToSet
  <2> QED BY <2>2
<1> QED BY <1>1, <1>2

\* The first of a sequence without repetitions.
LEMMA FrontIs ==
    ASSUME NEW q \in Seq(Nat), Distinct(q), q # <<>>
    PROVE  /\ Head(q) \in Nat /\ Head(q) \in ToSet(q)
           /\ Tail(q) \in Seq(Nat) /\ Distinct(Tail(q))
           /\ ToSet(Tail(q)) = ToSet(q) \ {Head(q)}
<1> DEFINE u == Tail(q)
<1>1. /\ Len(q) \in Nat /\ Len(q) > 0 /\ Head(q) = q[1] /\ u \in Seq(Nat)
      /\ Len(u) = Len(q) - 1 /\ \A i \in 1 .. Len(u) : u[i] = q[i + 1]
      /\ DOMAIN q = 1 .. Len(q) /\ DOMAIN u = 1 .. Len(u)
  OBVIOUS
<1> HIDE DEF u
<1>2. \A i \in DOMAIN u : i + 1 \in DOMAIN q /\ i + 1 # 1 /\ u[i] = q[i + 1]
  BY <1>1
<1>3. 1 \in DOMAIN q
  BY <1>1
<1>4. \A i \in DOMAIN q : i = 1 \/ (i - 1 \in DOMAIN u /\ u[i - 1] = q[(i - 1) + 1] /\ (i - 1) + 1 = i)
  BY <1>1, SMTT(30)
<1>5. \A i \in DOMAIN u : u[i] # q[1]
  BY <1>2, <1>3 DEF Distinct
<1>6. ToSet(u) = ToSet(q) \ {q[1]}
  <2>1. \A x : x \in ToSet(u) => x \in ToSet(q) /\ x # q[1]
    BY <1>2, <1>5 DEF ToSet
  <2>2. ASSUME NEW x \in ToSet(q), x # q[1]
        PROVE  x \in ToSet(u)
    <3>1. PICK i \in DOMAIN q : x = q[i]
      BY DEF ToSet
    <3>2. i - 1 \in DOMAIN u /\ u[i - 1] = q[(i - 1) + 1] /\ (i - 1) + 1 = i
      BY <1>4, <2>2, <3>1
    <3>3. u[i - 1] = x
      BY <3>1, <3>2
    <3> QED BY <3>2, <3>3 DEF ToSet
  <2> QED BY <2>1, <2>2
<1>7. Distinct(u)
  <2> SUFFICES ASSUME NEW i \in DOMAIN u, NEW j \in DOMAIN u, u[i] = u[j]
               PROVE  i = j
    BY DEF Distinct
  <2>1. i + 1 = j + 1
    BY <1>2 DEF Distinct
  <2> QED BY <1>1, <2>1
<1>8. q[1] \in ToSet(q) /\ q[1] \in Nat
  BY <1>1, <1>3 DEF ToSet
<1> QED BY <1>1, <1>6, <1>7, <1>8 DEF u

\* A batch is the front of what it is taken from, and not empty when that is not.
LEMMA BatchIs ==
    ASSUME NEW q \in Seq(Nat), Distinct(q)
    PROVE  /\ BatchFrom(q) \in Seq(Nat) /\ Distinct(BatchFrom(q))
           /\ ToSet(BatchFrom(q)) \subseteq ToSet(q)
           /\ q # <<>> => BatchFrom(q) # <<>>
<1> DEFINE m == IF Len(q) < GpuBatchLimit THEN Len(q) ELSE GpuBatchLimit
           b == SubSeq(q, 1, m)
<1>1. Len(q) \in Nat /\ DOMAIN q = 1 .. Len(q) /\ (q # <<>> => Len(q) > 0)
  OBVIOUS
<1>2. m \in Nat /\ m <= Len(q) /\ (q # <<>> => m > 0)
  BY <1>1, MemoryConstants
<1> HIDE DEF m
<1>3. /\ b \in Seq(Nat) /\ Len(b) = m
      /\ \A i \in 1 .. m : b[i] = q[i]
  <2>1. 1 \in 1 .. Len(q) + 1 /\ m \in (1 - 1) .. Len(q)
    BY <1>1, <1>2
  <2>2. \A i \in 1 .. m : 1 + i - 1 = i
    BY <1>2
  <2>3. m - 1 + 1 = m
    BY <1>2
  <2> QED BY <1>2, <2>1, <2>2, <2>3, SubSeqProperties
<1> HIDE DEF b
<1>4. DOMAIN b = 1 .. m /\ \A i \in DOMAIN b : i \in DOMAIN q /\ b[i] = q[i]
  BY <1>1, <1>2, <1>3
<1>5. Distinct(b) /\ ToSet(b) \subseteq ToSet(q)
  BY <1>4 DEF Distinct, ToSet
<1>6. q # <<>> => b # <<>>
  BY <1>2, <1>3
<1> QED BY <1>3, <1>5, <1>6 DEF b, m, BatchFrom

LEMMA NumbersAre ==
    ASSUME NEW n \in Nat
    PROVE  Numbers(n) \in Seq(Nat) /\ Distinct(Numbers(n)) /\ ToSet(Numbers(n)) = 1 .. n
<1>1. Numbers(n) = [i \in 1 .. n |-> i]
  BY DEF Numbers
<1>2. Numbers(n) \in Seq(Nat)
  BY <1>1
<1>3. DOMAIN Numbers(n) = 1 .. n /\ \A i \in 1 .. n : Numbers(n)[i] = i
  BY <1>1
<1> QED BY <1>2, <1>3 DEF Distinct, ToSet

--------------------------------------------------------------------------------
(* The workers.                                                                *)

\* Workers only take steps while a call waits for them.
LEMMA WorkerFrame ==
    ASSUME IInv, NEW t \in Threads, MemoryWorker(t)
    PROVE  /\ Active /\ Active' /\ call' = call /\ setup' = setup
           /\ Queued /\ Spread /\ InHands /\ Quits /\ MemoryTypes
           /\ workers \in [Threads -> WorkerState]
           /\ \A u \in Threads : /\ workers[u].held \in Seq(Nat)
                                 /\ workers[u].stage \in {"top", "pop", "work", "left", "panicked"}
           /\ Spawned(call.stage = "decode")' = Spawned(call.stage = "decode")
<1>1. workers[t].stage \in {"top", "pop", "work"}
  BY DEF MemoryWorker, LooksAtError, CpuPops, GpuPops, Stores, Fails, DecoderPops, Decodes,
         Mismatched
<1>2. Active
  BY <1>1 DEF IInv, Joined
<1>3. call' = call /\ setup' = setup
  BY DEF MemoryWorker, LooksAtError, CpuPops, GpuPops, Stores, Fails, DecoderPops, Decodes,
         Mismatched
<1>4. Spawned(call.stage = "decode")' = Spawned(call.stage = "decode") /\ Active'
  BY <1>2, <1>3 DEF Spawned, Active
<1>5. workers \in [Threads -> WorkerState]
  BY DEF IInv, MemoryTypes
<1>6. \A u \in Threads : /\ workers[u].held \in Seq(Nat)
                         /\ workers[u].stage \in {"top", "pop", "work", "left", "panicked"}
  BY <1>5 DEF WorkerState
<1> QED BY <1>2, <1>3, <1>4, <1>5, <1>6 DEF IInv

\* A worker goes from one place to another, with what it has.
LEMMA GoesOn ==
    ASSUME IInv, NEW t \in Threads, MemoryWorker(t), NEW to, Goes(t, to), Pool' = Pool,
           UNCHANGED <<slots, slices>>,
           err # "none" => err' = err,
           to \in {"top", "pop"} => workers[t].held = <<>>,
           to # "work",
           to = "left" /\ workers[t].held # <<>> => err' # "none",
           to = "left" /\ (t \in CpuSide \/ (call.stage = "decode" /\ setup.force))
              => err' # "none" \/ Pool = {},
           to = "panicked" => t \in GpuSide
    PROVE  Spread' /\ InHands' /\ Quits'
<1>0. /\ call' = call /\ setup' = setup /\ Spread /\ InHands /\ Quits
      /\ workers \in [Threads -> WorkerState]
      /\ Spawned(call.stage = "decode")' = Spawned(call.stage = "decode")
  BY WorkerFrame
<1>1. /\ workers'[t].stage = to /\ workers'[t].held = workers[t].held
      /\ \A u \in Threads : u # t => workers'[u] = workers[u]
  BY <1>0 DEF Goes, WorkerState
<1>2. /\ ReadyChunks' = ReadyChunks /\ \A u \in Threads : HeldBy(u)' = HeldBy(u)
      /\ \A u \in Threads : workers'[u].held = workers[u].held
  BY <1>0, <1>1 DEF ReadyChunks, HeldBy
<1>4. Spread'
  <2>1. /\ \A u \in Threads : Distinct(workers[u].held) /\ HeldBy(u) \intersect Pool = {}
        /\ \A u, v \in Threads : u # v => HeldBy(u) \intersect HeldBy(v) = {}
        /\ \A u \in Threads : HeldBy(u) \intersect ReadyChunks = {}
        /\ Pool \intersect ReadyChunks = {}
        /\ \A u \in Threads : HeldBy(u) \subseteq 1 .. setup.chunks
        /\ \A i \in 1 .. setup.chunks :
              i \in Pool \/ i \in ReadyChunks \/ \E u \in Threads : i \in HeldBy(u)
        /\ Pool \subseteq 1 .. setup.chunks
    BY <1>0, Zenon DEF Spread
  <2>2. /\ \A u \in Threads : Distinct(workers'[u].held)
        /\ \A u \in Threads : HeldBy(u)' \intersect Pool' = {}
        /\ \A u, v \in Threads : u # v => HeldBy(u)' \intersect HeldBy(v)' = {}
        /\ \A u \in Threads : HeldBy(u)' \intersect ReadyChunks' = {}
        /\ Pool' \intersect ReadyChunks' = {} /\ Pool' \subseteq 1 .. setup.chunks
        /\ \A u \in Threads : HeldBy(u)' \subseteq 1 .. setup.chunks
    BY <1>2, <2>1
  <2>3. \A i \in 1 .. setup.chunks :
           i \in Pool' \/ i \in ReadyChunks' \/ \E u \in Threads : i \in HeldBy(u)'
    BY <1>2, <2>1
  <2> QED BY <1>0, <2>2, <2>3, Zenon DEF Spread
<1>5. InHands'
  BY <1>0, <1>1 DEF InHands
<1>6. Quits'
  <2> SUFFICES ASSUME NEW u \in Spawned(call.stage = "decode"), workers'[u].stage = "left",
                      u \in CpuSide \/ (call.stage = "decode" /\ setup.force)
               PROVE  err' # "none" \/ Pool = {}
    BY <1>0, <1>2 DEF Quits
  <2>1. CASE u = t
    BY <1>1, <2>1
  <2>2. CASE u # t
    <3>1. u \in Threads => workers[u].stage = "left"
      BY <1>1, <2>2
    <3>2. u \in Threads
      BY MemoryConstants, <1>0 DEF Spawned, IInv, MemoryTypes, Options
    <3>3. err # "none" \/ Pool = {}
      BY <1>0, <3>1, <3>2 DEF Quits
    <3> QED BY <3>3
  <2> QED BY <2>1, <2>2
<1> QED BY <1>4, <1>5, <1>6

\* The same, when the queues stay as they are.
LEMMA GoesStep ==
    ASSUME IInv, NEW t \in Threads, MemoryWorker(t), NEW to, Goes(t, to), UNCHANGED <<queues, slots, slices>>,
           err # "none" => err' = err,
           to \in {"top", "pop"} => workers[t].held = <<>>,
           to # "work",
           to = "left" /\ workers[t].held # <<>> => err' # "none",
           to = "left" /\ (t \in CpuSide \/ (call.stage = "decode" /\ setup.force))
              => err' # "none" \/ Pool = {},
           to = "panicked" => t \in GpuSide
    PROVE  Queued' /\ Spread' /\ InHands' /\ Quits'
<1>1. setup' = setup /\ Queued
  BY WorkerFrame
<1>2. Queued' /\ Pool' = Pool
  BY <1>1 DEF Queued, Pool
<1>3. Spread' /\ InHands' /\ Quits'
  BY <1>2, GoesOn
<1> QED BY <1>2, <1>3

\* A worker takes chunks out of the queues.
LEMMA TakesStep ==
    ASSUME IInv, NEW t \in Threads, MemoryWorker(t), workers[t].stage = "pop", NEW b \in Seq(Nat), b # <<>>,
           Distinct(b), ToSet(b) \subseteq Pool, Pool' = Pool \ ToSet(b),
           workers' = [workers EXCEPT ![t] = [@ EXCEPT !.stage = "work", !.held = b]],
           UNCHANGED <<slots, slices, err>>
    PROVE  Spread' /\ InHands' /\ Quits'
<1>0. /\ call' = call /\ setup' = setup /\ Spread /\ InHands /\ Quits
      /\ workers \in [Threads -> WorkerState]
      /\ Spawned(call.stage = "decode")' = Spawned(call.stage = "decode")
  BY WorkerFrame
<1>1. /\ workers'[t].stage = "work" /\ workers'[t].held = b
      /\ \A u \in Threads : u # t => workers'[u] = workers[u]
  BY <1>0 DEF WorkerState
<1>2. /\ ReadyChunks' = ReadyChunks /\ HeldBy(t)' = ToSet(b) /\ HeldBy(t) = {}
      /\ \A u \in Threads : u # t => HeldBy(u)' = HeldBy(u)
  <2>1. workers[t].held = <<>>
    BY <1>0 DEF InHands
  <2> QED BY <1>0, <1>1, <2>1, EmptyIs DEF ReadyChunks, HeldBy
<1>3. Spread'
  <2>1. /\ \A u \in Threads : Distinct(workers[u].held) /\ HeldBy(u) \intersect Pool = {}
        /\ \A u, v \in Threads : u # v => HeldBy(u) \intersect HeldBy(v) = {}
        /\ \A u \in Threads : HeldBy(u) \intersect ReadyChunks = {}
        /\ Pool \intersect ReadyChunks = {}
        /\ \A u \in Threads : HeldBy(u) \subseteq 1 .. setup.chunks
        /\ \A i \in 1 .. setup.chunks :
              i \in Pool \/ i \in ReadyChunks \/ \E u \in Threads : i \in HeldBy(u)
        /\ Pool \subseteq 1 .. setup.chunks
    BY <1>0, Zenon DEF Spread
  <2>2. \A u \in Threads : Distinct(workers'[u].held)
    BY <1>1, <2>1
  <2>3. \A u \in Threads : HeldBy(u)' \intersect Pool' = {}
    BY <1>2, <2>1
  <2>4. \A u, v \in Threads : u # v => HeldBy(u)' \intersect HeldBy(v)' = {}
    BY <1>2, <2>1
  <2>5. \A u \in Threads : HeldBy(u)' \intersect ReadyChunks = {}
    BY <1>2, <2>1
  <2>6. Pool' \intersect ReadyChunks = {} /\ Pool' \subseteq 1 .. setup.chunks
    BY <2>1
  <2>7. \A u \in Threads : HeldBy(u)' \subseteq 1 .. setup.chunks
    BY <1>2, <2>1
  <2>8. \A i \in 1 .. setup.chunks :
           i \in Pool' \/ i \in ReadyChunks \/ \E u \in Threads : i \in HeldBy(u)'
    BY <1>2, <2>1
  <2> QED BY <1>0, <1>2, <2>2, <2>3, <2>4, <2>5, <2>6, <2>7, <2>8, Zenon DEF Spread
<1>4. InHands'
  BY <1>0, <1>1 DEF InHands
<1>5. Quits'
  <2> SUFFICES ASSUME NEW u \in Spawned(call.stage = "decode"), workers'[u].stage = "left",
                      u \in CpuSide \/ (call.stage = "decode" /\ setup.force)
               PROVE  err # "none" \/ Pool' = {}
    BY <1>0 DEF Quits
  <2>1. u \in Threads /\ u # t
    BY MemoryConstants, <1>0, <1>1 DEF Spawned, IInv, MemoryTypes, Options
  <2>2. workers[u].stage = "left"
    BY <1>1, <2>1
  <2>3. err # "none" \/ Pool = {}
    BY <1>0, <2>2 DEF Quits
  <2> QED BY <2>3
<1> QED BY <1>3, <1>4, <1>5

\* What a GPU worker takes leaves the queues.
LEMMA QueuesStep ==
    ASSUME MemoryTypes, Queued, NEW b \in Seq(Nat), setup' = setup,
           ToSet(b) \intersect ToSet(queues.cpu) = {},
           queues' = [queues EXCEPT !.all = Without(@, b), !.gpu = Without(@, b)]
    PROVE  /\ queues' \in [all : Seq(Nat), cpu : Seq(Nat), gpu : Seq(Nat)]
           /\ Queued' /\ Pool' = Pool \ ToSet(b)
<1>1. queues.all \in Seq(Nat) /\ queues.cpu \in Seq(Nat) /\ queues.gpu \in Seq(Nat)
  BY DEF MemoryTypes
<1>2. /\ queues'.all = Without(queues.all, b) /\ queues'.gpu = Without(queues.gpu, b)
      /\ queues'.cpu = queues.cpu
      /\ queues' = [all |-> queues'.all, cpu |-> queues'.cpu, gpu |-> queues'.gpu]
  BY DEF MemoryTypes
<1>3. ASSUME NEW q \in Seq(Nat), Distinct(q)
      PROVE  /\ Without(q, b) \in Seq(Nat) /\ Distinct(Without(q, b))
             /\ ToSet(Without(q, b)) = ToSet(q) \ ToSet(b)
             /\ q = <<>> => Without(q, b) = <<>>
  <2>1. /\ Without(q, b) \in Seq(Nat) /\ Distinct(Without(q, b))
        /\ ToSet(Without(q, b)) = ToSet(q) \intersect (ToSet(q) \ ToSet(b))
    BY <1>3, KeptIs DEF Without
  <2>2. q = <<>> => ToSet(Without(q, b)) = {}
    BY <2>1, EmptyIs
  <2> QED BY <2>1, <2>2, EmptyIs
<1>4. /\ setup.policy = "global" => queues.cpu = <<>> /\ queues.gpu = <<>>
      /\ setup.policy = "split" => queues.all = <<>>
      /\ Distinct(queues.all) /\ Distinct(queues.cpu) /\ Distinct(queues.gpu)
      /\ ToSet(queues.cpu) \intersect ToSet(queues.gpu) = {}
  BY Zenon DEF Queued
<1>5. /\ queues'.all \in Seq(Nat) /\ Distinct(queues'.all)
      /\ ToSet(queues'.all) = ToSet(queues.all) \ ToSet(b)
      /\ queues.all = <<>> => queues'.all = <<>>
  BY <1>1, <1>2, <1>3, <1>4
<1>6. /\ queues'.gpu \in Seq(Nat) /\ Distinct(queues'.gpu)
      /\ ToSet(queues'.gpu) = ToSet(queues.gpu) \ ToSet(b)
      /\ queues.gpu = <<>> => queues'.gpu = <<>>
  BY <1>1, <1>2, <1>3, <1>4
<1>7. Pool' = Pool \ ToSet(b)
  BY <1>2, <1>5, <1>6 DEF Pool
<1>8. ToSet(queues'.cpu) \intersect ToSet(queues'.gpu) = {}
  BY <1>2, <1>4, <1>6
<1>9. Queued'
  BY <1>2, <1>4, <1>5, <1>6, <1>8 DEF Queued
<1>10. queues' \in [all : Seq(Nat), cpu : Seq(Nat), gpu : Seq(Nat)]
  BY <1>1, <1>2, <1>5, <1>6
<1> QED BY <1>7, <1>9, <1>10

\* What a step of a worker has to preserve while a call waits for it.
WorkersInv == MemoryTypes /\ Queued /\ Spread /\ InHands /\ Quits

\* The types, when one worker changes.
LEMMA TypesStep ==
    ASSUME MemoryTypes, NEW t \in Threads, NEW w \in WorkerState, call' = call, setup' = setup,
           workers' = [workers EXCEPT ![t] = w],
           queues' \in [all : Seq(Nat), cpu : Seq(Nat), gpu : Seq(Nat)],
           err' \in {"none"} \union MemoryFaults
    PROVE  MemoryTypes'
<1>1. workers' \in [Threads -> WorkerState]
  BY DEF MemoryTypes
<1>2. Options'
  BY DEF MemoryTypes, Options
<1> QED BY <1>1, <1>2 DEF MemoryTypes

\* The types, when one worker goes somewhere.
LEMMA GoesTypes ==
    ASSUME MemoryTypes, NEW t \in Threads, NEW to \in {"top", "pop", "work", "left", "panicked"},
           Goes(t, to), call' = call, setup' = setup,
           queues' \in [all : Seq(Nat), cpu : Seq(Nat), gpu : Seq(Nat)],
           err' \in {"none"} \union MemoryFaults
    PROVE  MemoryTypes'
<1> DEFINE w == [workers[t] EXCEPT !.stage = to]
<1>1. workers \in [Threads -> WorkerState]
  BY DEF MemoryTypes
<1>2. w \in WorkerState
  BY <1>1 DEF WorkerState
<1>3. workers' = [workers EXCEPT ![t] = w]
  BY <1>1 DEF Goes
<1> HIDE DEF w
<1> QED BY <1>1, <1>2, <1>3, TypesStep

\* The types, when one worker takes chunks.
LEMMA TakesTypes ==
    ASSUME MemoryTypes, NEW t \in Threads, NEW b \in Seq(Nat),
           workers' = [workers EXCEPT ![t] = [@ EXCEPT !.stage = "work", !.held = b]],
           call' = call, setup' = setup, err' = err,
           queues' \in [all : Seq(Nat), cpu : Seq(Nat), gpu : Seq(Nat)]
    PROVE  MemoryTypes'
<1> DEFINE w == [workers[t] EXCEPT !.stage = "work", !.held = b]
<1>1. workers \in [Threads -> WorkerState] /\ err \in {"none"} \union MemoryFaults
  BY DEF MemoryTypes
<1>2. w \in WorkerState
  BY <1>1 DEF WorkerState
<1>3. workers' = [workers EXCEPT ![t] = w]
  BY <1>1
<1> HIDE DEF w
<1> QED BY <1>1, <1>2, <1>3, TypesStep

\* The error flag is looked at: an error sends the worker away with nothing.
LEMMA LooksStep ==
    ASSUME IInv, NEW t \in Threads, MemoryWorker(t), LooksAtError(t)
    PROVE  WorkersInv'
<1> DEFINE to == IF err = "none" THEN "pop" ELSE "left"
<1>0. /\ call' = call /\ setup' = setup /\ InHands /\ MemoryTypes
      /\ workers \in [Threads -> WorkerState]
  BY WorkerFrame
<1>1. /\ Goes(t, to) /\ workers[t].held = <<>> /\ UNCHANGED <<queues, slots, slices, err>>
      /\ to \in {"pop", "left"} /\ (to = "left" => err # "none")
  BY <1>0 DEF LooksAtError, InHands
<1> HIDE DEF to
<1>2. Queued' /\ Spread' /\ InHands' /\ Quits'
  BY <1>1, GoesStep
<1>3. /\ err' \in {"none"} \union MemoryFaults
      /\ queues' \in [all : Seq(Nat), cpu : Seq(Nat), gpu : Seq(Nat)]
  BY <1>0, <1>1 DEF MemoryTypes
<1>4. MemoryTypes'
  BY <1>0, <1>1, <1>3, GoesTypes
<1> QED BY <1>2, <1>4 DEF WorkersInv

\* What is popped from one queue is in no other.
LEMMA PopStep ==
    ASSUME MemoryTypes, Queued, setup' = setup,
           NEW src \in {"all", "cpu", "gpu"}, queues[src] # <<>>,
           queues' = [queues EXCEPT ![src] = Tail(@)]
    PROVE  /\ queues' \in [all : Seq(Nat), cpu : Seq(Nat), gpu : Seq(Nat)]
           /\ Queued' /\ Pool' = Pool \ {Head(queues[src])}
           /\ Head(queues[src]) \in Nat /\ Head(queues[src]) \in Pool
<1>1. /\ queues.all \in Seq(Nat) /\ queues.cpu \in Seq(Nat) /\ queues.gpu \in Seq(Nat)
      /\ queues \in [all : Seq(Nat), cpu : Seq(Nat), gpu : Seq(Nat)]
  BY DEF MemoryTypes
<1>2. /\ setup.policy = "global" => queues.cpu = <<>> /\ queues.gpu = <<>>
      /\ setup.policy = "split" => queues.all = <<>>
      /\ Distinct(queues.all) /\ Distinct(queues.cpu) /\ Distinct(queues.gpu)
      /\ ToSet(queues.cpu) \intersect ToSet(queues.gpu) = {}
      /\ setup.policy \in {"global", "split"}
  BY Zenon DEF Queued, MemoryTypes, Options
<1>3. CASE src = "all"
  <2>1. /\ queues'.all = Tail(queues.all) /\ queues'.cpu = queues.cpu /\ queues'.gpu = queues.gpu
        /\ queues' = [all |-> queues'.all, cpu |-> queues'.cpu, gpu |-> queues'.gpu]
    BY <1>1, <1>3
  <2>2. /\ Head(queues.all) \in Nat /\ Head(queues.all) \in ToSet(queues.all)
        /\ Tail(queues.all) \in Seq(Nat) /\ Distinct(Tail(queues.all))
        /\ ToSet(Tail(queues.all)) = ToSet(queues.all) \ {Head(queues.all)}
    BY <1>1, <1>2, <1>3, FrontIs
  <2>3. queues.cpu = <<>> /\ queues.gpu = <<>> /\ setup.policy = "global"
    BY <1>2, <1>3
  <2>4. Queued'
    BY <1>2, <2>1, <2>2, <2>3 DEF Queued
  <2>5. Pool' = Pool \ {Head(queues.all)} /\ Head(queues.all) \in Pool
    BY <2>1, <2>2, <2>3, EmptyIs DEF Pool
  <2>6. queues' \in [all : Seq(Nat), cpu : Seq(Nat), gpu : Seq(Nat)]
    BY <1>1, <2>1, <2>2
  <2> QED BY <1>3, <2>2, <2>4, <2>5, <2>6
<1>4. CASE src = "cpu"
  <2>1. /\ queues'.cpu = Tail(queues.cpu) /\ queues'.all = queues.all /\ queues'.gpu = queues.gpu
        /\ queues' = [all |-> queues'.all, cpu |-> queues'.cpu, gpu |-> queues'.gpu]
    BY <1>1, <1>4
  <2>2. /\ Head(queues.cpu) \in Nat /\ Head(queues.cpu) \in ToSet(queues.cpu)
        /\ Tail(queues.cpu) \in Seq(Nat) /\ Distinct(Tail(queues.cpu))
        /\ ToSet(Tail(queues.cpu)) = ToSet(queues.cpu) \ {Head(queues.cpu)}
    BY <1>1, <1>2, <1>4, FrontIs
  <2>3. queues.all = <<>> /\ setup.policy = "split"
    BY <1>2, <1>4
  <2>4. Queued'
    <3>1. ToSet(queues'.cpu) \intersect ToSet(queues'.gpu) = {}
      BY <1>2, <2>1, <2>2
    <3> QED BY <1>2, <2>1, <2>2, <2>3, <3>1 DEF Queued
  <2>5. Pool' = Pool \ {Head(queues.cpu)} /\ Head(queues.cpu) \in Pool
    BY <1>2, <2>1, <2>2, <2>3, EmptyIs DEF Pool
  <2>6. queues' \in [all : Seq(Nat), cpu : Seq(Nat), gpu : Seq(Nat)]
    BY <1>1, <2>1, <2>2
  <2> QED BY <1>4, <2>2, <2>4, <2>5, <2>6
<1>5. CASE src = "gpu"
  <2>1. /\ queues'.gpu = Tail(queues.gpu) /\ queues'.all = queues.all /\ queues'.cpu = queues.cpu
        /\ queues' = [all |-> queues'.all, cpu |-> queues'.cpu, gpu |-> queues'.gpu]
    BY <1>1, <1>5
  <2>2. /\ Head(queues.gpu) \in Nat /\ Head(queues.gpu) \in ToSet(queues.gpu)
        /\ Tail(queues.gpu) \in Seq(Nat) /\ Distinct(Tail(queues.gpu))
        /\ ToSet(Tail(queues.gpu)) = ToSet(queues.gpu) \ {Head(queues.gpu)}
    BY <1>1, <1>2, <1>5, FrontIs
  <2>3. queues.all = <<>> /\ setup.policy = "split"
    BY <1>2, <1>5
  <2>4. Queued'
    <3>1. ToSet(queues'.cpu) \intersect ToSet(queues'.gpu) = {}
      BY <1>2, <2>1, <2>2
    <3> QED BY <1>2, <2>1, <2>2, <2>3, <3>1 DEF Queued
  <2>5. Pool' = Pool \ {Head(queues.gpu)} /\ Head(queues.gpu) \in Pool
    BY <1>2, <2>1, <2>2, <2>3, EmptyIs DEF Pool
  <2>6. queues' \in [all : Seq(Nat), cpu : Seq(Nat), gpu : Seq(Nat)]
    BY <1>1, <2>1, <2>2
  <2> QED BY <1>5, <2>2, <2>4, <2>5, <2>6
<1> QED BY <1>3, <1>4, <1>5

\* A CPU worker takes one chunk, looks again, or leaves nothing behind.
LEMMA CpuStep ==
    ASSUME IInv, NEW t \in Threads, MemoryWorker(t), CpuPops(t)
    PROVE  WorkersInv'
<1>0. /\ call' = call /\ setup' = setup /\ Queued /\ InHands /\ MemoryTypes
      /\ workers \in [Threads -> WorkerState]
  BY WorkerFrame
<1>1. /\ workers[t].stage = "pop" /\ workers[t].held = <<>> /\ call.stage = "compress"
      /\ UNCHANGED <<slots, slices, err>> /\ t \in CpuSide
  BY <1>0 DEF CpuPops, InHands
<1>2. /\ err' \in {"none"} \union MemoryFaults
      /\ queues \in [all : Seq(Nat), cpu : Seq(Nat), gpu : Seq(Nat)]
  BY <1>0, <1>1 DEF MemoryTypes
<1>3. setup.policy \in {"global", "split"}
  BY <1>0 DEF MemoryTypes, Options
<1>4. CASE CpuSource = "none"
  <2>1. Goes(t, "left") /\ queues' = queues
    BY <1>4 DEF CpuPops
  <2>2. queues.all = <<>> /\ queues.cpu = <<>> /\ queues.gpu = <<>>
    BY <1>0, <1>3, <1>4 DEF CpuSource, Queued
  <2>3. Pool = {}
    BY <2>2, EmptyIs DEF Pool
  <2>4. Queued' /\ Spread' /\ InHands' /\ Quits'
    BY <1>1, <2>1, <2>3, GoesStep
  <2>5. MemoryTypes'
    BY <1>0, <1>2, <2>1, GoesTypes
  <2> QED BY <2>4, <2>5 DEF WorkersInv
<1>5. CASE CpuSource = "retry"
  <2>1. Goes(t, "top") /\ queues' = queues
    BY <1>5 DEF CpuPops
  <2>2. Queued' /\ Spread' /\ InHands' /\ Quits'
    BY <1>1, <2>1, GoesStep
  <2>3. MemoryTypes'
    BY <1>0, <1>2, <2>1, GoesTypes
  <2> QED BY <2>2, <2>3 DEF WorkersInv
<1>6. CASE CpuSource \notin {"none", "retry"}
  <2> DEFINE src == CpuSource
             b == <<Head(queues[src])>>
  <2>1. src \in {"all", "cpu", "gpu"} /\ queues[src] # <<>>
    BY <1>6 DEF CpuSource
  <2>2. /\ workers' = [workers EXCEPT ![t] = [@ EXCEPT !.stage = "work", !.held = b]]
        /\ queues' = [queues EXCEPT ![src] = Tail(@)]
    BY <1>6 DEF CpuPops
  <2> HIDE DEF src
  <2>3. /\ queues' \in [all : Seq(Nat), cpu : Seq(Nat), gpu : Seq(Nat)]
        /\ Queued' /\ Pool' = Pool \ {Head(queues[src])}
        /\ Head(queues[src]) \in Nat /\ Head(queues[src]) \in Pool
    BY <1>0, <2>1, <2>2, PopStep
  <2>4. b \in Seq(Nat) /\ b # <<>> /\ Distinct(b) /\ ToSet(b) = {Head(queues[src])}
    BY <2>3 DEF Distinct, ToSet
  <2> HIDE DEF b
  <2>5. Spread' /\ InHands' /\ Quits'
    BY <1>1, <2>2, <2>3, <2>4, TakesStep
  <2>6. MemoryTypes'
    BY <1>0, <1>1, <2>2, <2>3, <2>4, TakesTypes
  <2> QED BY <2>3, <2>5, <2>6 DEF WorkersInv
<1> QED BY <1>4, <1>5, <1>6

\* A batch is taken, or there is none and the worker leaves.
LEMMA TakenStep ==
    ASSUME IInv, NEW t \in Threads, MemoryWorker(t), workers[t].stage = "pop",
           NEW b \in Seq(Nat), Distinct(b), ToSet(b) \subseteq Pool,
           ToSet(b) \intersect ToSet(queues.cpu) = {},
           GpuTakes(t, b), UNCHANGED <<slots, slices, err>>,
           b = <<>> /\ (t \in CpuSide \/ (call.stage = "decode" /\ setup.force)) => Pool = {}
    PROVE  WorkersInv'
<1>0. /\ call' = call /\ setup' = setup /\ Queued /\ InHands /\ MemoryTypes
      /\ workers \in [Threads -> WorkerState]
  BY WorkerFrame
<1>1. /\ workers[t].held = <<>> /\ UNCHANGED <<slots, slices, err>>
      /\ err' \in {"none"} \union MemoryFaults
  BY <1>0 DEF InHands, MemoryTypes
<1>2. queues' = [queues EXCEPT !.all = Without(@, b), !.gpu = Without(@, b)]
  BY DEF GpuTakes
<1>3. /\ queues' \in [all : Seq(Nat), cpu : Seq(Nat), gpu : Seq(Nat)]
      /\ Queued' /\ Pool' = Pool \ ToSet(b)
  BY <1>0, <1>2, QueuesStep
<1>4. CASE b = <<>>
  <2>1. Goes(t, "left") /\ Pool' = Pool
    BY <1>3, <1>4, EmptyIs DEF GpuTakes
  <2>2. Spread' /\ InHands' /\ Quits'
    BY <1>1, <1>4, <2>1, GoesOn
  <2>3. MemoryTypes'
    BY <1>0, <1>1, <1>3, <2>1, GoesTypes
  <2> QED BY <1>3, <2>2, <2>3 DEF WorkersInv
<1>5. CASE b # <<>>
  <2>1. workers' = [workers EXCEPT ![t] = [@ EXCEPT !.stage = "work", !.held = b]]
    BY <1>5 DEF GpuTakes
  <2>2. Spread' /\ InHands' /\ Quits'
    BY <1>1, <1>3, <1>5, <2>1, TakesStep
  <2>3. MemoryTypes'
    BY <1>0, <1>1, <1>3, <2>1, TakesTypes
  <2> QED BY <1>3, <2>2, <2>3 DEF WorkersInv
<1> QED BY <1>4, <1>5

\* The queues, as they are used here.
LEMMA QueuesAre ==
    ASSUME MemoryTypes, Queued
    PROVE  /\ queues.all \in Seq(Nat) /\ queues.cpu \in Seq(Nat) /\ queues.gpu \in Seq(Nat)
           /\ Distinct(queues.all) /\ Distinct(queues.cpu) /\ Distinct(queues.gpu)
           /\ ToSet(queues.all) \subseteq Pool /\ ToSet(queues.gpu) \subseteq Pool
           /\ setup.policy = "global" =>
                 ToSet(queues.cpu) = {} /\ ToSet(queues.gpu) = {} /\ Pool = ToSet(queues.all)
           /\ setup.policy = "split" => ToSet(queues.all) = {}
           /\ setup.policy \in {"global", "split"}
           /\ ToSet(queues.cpu) \intersect ToSet(queues.gpu) = {}
<1>1. /\ queues.all \in Seq(Nat) /\ queues.cpu \in Seq(Nat) /\ queues.gpu \in Seq(Nat)
      /\ setup.policy \in {"global", "split"}
  BY DEF MemoryTypes, Options
<1>2. /\ Distinct(queues.all) /\ Distinct(queues.cpu) /\ Distinct(queues.gpu)
      /\ ToSet(queues.cpu) \intersect ToSet(queues.gpu) = {}
      /\ setup.policy = "global" => queues.cpu = <<>> /\ queues.gpu = <<>>
      /\ setup.policy = "split" => queues.all = <<>>
  BY Zenon DEF Queued
<1>3. setup.policy = "global" => ToSet(queues.cpu) = {} /\ ToSet(queues.gpu) = {}
  BY <1>2, EmptyIs
<1>4. setup.policy = "split" => ToSet(queues.all) = {}
  BY <1>2, EmptyIs
<1> QED BY <1>1, <1>2, <1>3, <1>4 DEF Pool

\* A GPU worker takes from the shared queue what the device can take, or the front of its own.
LEMMA GpuStep ==
    ASSUME IInv, NEW t \in Threads, MemoryWorker(t), GpuPops(t)
    PROVE  WorkersInv'
<1>0. Queued /\ MemoryTypes
  BY WorkerFrame
<1> DEFINE b == GpuBatchOf
<1>1. /\ workers[t].stage = "pop" /\ call.stage = "compress" /\ t \in GpuSide
      /\ UNCHANGED <<slots, slices, err>> /\ GpuTakes(t, b)
  BY DEF GpuPops
<1>2. /\ b \in Seq(Nat) /\ Distinct(b) /\ ToSet(b) \subseteq Pool
      /\ ToSet(b) \intersect ToSet(queues.cpu) = {}
  <2>1. CASE setup.policy = "global"
    <3> DEFINE e == EligibleOf(queues.all)
    <3>1. e \in Seq(Nat) /\ Distinct(e) /\ ToSet(e) \subseteq ToSet(queues.all)
      BY <1>0, QueuesAre, KeptIs DEF EligibleOf
    <3> HIDE DEF e
    <3>2. /\ BatchFrom(e) \in Seq(Nat) /\ Distinct(BatchFrom(e))
          /\ ToSet(BatchFrom(e)) \subseteq ToSet(e)
      BY <3>1, BatchIs
    <3>3. b = BatchFrom(e)
      BY <2>1 DEF GpuBatchOf, e
    <3> HIDE DEF b
    <3> QED BY <1>0, <2>1, <3>1, <3>2, <3>3, QueuesAre
  <2>2. CASE setup.policy # "global" /\ should_stop_gpu_tail_pop(Len(queues.gpu))
    <3>1. b = <<>>
      BY <2>2 DEF GpuBatchOf
    <3> HIDE DEF b
    <3> QED BY <3>1, EmptyIs
  <2>3. CASE setup.policy # "global" /\ ~should_stop_gpu_tail_pop(Len(queues.gpu))
    <3>1. /\ BatchFrom(queues.gpu) \in Seq(Nat) /\ Distinct(BatchFrom(queues.gpu))
          /\ ToSet(BatchFrom(queues.gpu)) \subseteq ToSet(queues.gpu)
      BY <1>0, QueuesAre, BatchIs
    <3>2. b = BatchFrom(queues.gpu)
      BY <2>3 DEF GpuBatchOf
    <3> HIDE DEF b
    <3> QED BY <1>0, <3>1, <3>2, QueuesAre
  <2> QED BY <2>1, <2>2, <2>3
<1>3. ~(t \in CpuSide \/ (call.stage = "decode" /\ setup.force))
  BY <1>1, MemoryConstants
<1> HIDE DEF b
<1> QED BY <1>1, <1>2, <1>3, TakenStep

\* A decoder takes the front of the shared queue, or what the device can take of it.
LEMMA DecoderStep ==
    ASSUME IInv, NEW t \in Threads, MemoryWorker(t), DecoderPops(t)
    PROVE  WorkersInv'
<1>0. Queued /\ MemoryTypes
  BY WorkerFrame
<1>1. /\ workers[t].stage = "pop" /\ call.stage = "decode" /\ setup.policy = "global"
      /\ UNCHANGED <<slots, slices, err>>
  BY DEF DecoderPops, IInv, Decoding
<1>2. /\ queues.all \in Seq(Nat) /\ Distinct(queues.all) /\ Pool = ToSet(queues.all)
      /\ ToSet(queues.cpu) = {}
  BY <1>0, <1>1, QueuesAre
<1>3. ASSUME NEW b \in Seq(Nat), Distinct(b), ToSet(b) \subseteq ToSet(queues.all), GpuTakes(t, b),
             t \in CpuSide \/ setup.force => (b = <<>> => queues.all = <<>>)
      PROVE  WorkersInv'
  <2>1. queues.all = <<>> => Pool = {}
    BY <1>2, EmptyIs
  <2>2. /\ ToSet(b) \subseteq Pool /\ ToSet(b) \intersect ToSet(queues.cpu) = {}
        /\ b = <<>> /\ (t \in CpuSide \/ (call.stage = "decode" /\ setup.force)) => Pool = {}
    BY <1>2, <1>3, <2>1
  <2> QED BY <1>1, <1>3, <2>2, TakenStep
<1>4. CASE t \in GpuSide /\ setup.force
  <2>1. GpuTakes(t, BatchFrom(queues.all))
    BY <1>4 DEF DecoderPops
  <2>2. /\ BatchFrom(queues.all) \in Seq(Nat) /\ Distinct(BatchFrom(queues.all))
        /\ ToSet(BatchFrom(queues.all)) \subseteq ToSet(queues.all)
        /\ BatchFrom(queues.all) = <<>> => queues.all = <<>>
    BY <1>2, BatchIs
  <2> QED BY <1>3, <2>1, <2>2
<1>5. CASE t \in GpuSide /\ ~setup.force
  <2> DEFINE e == EligibleOf(queues.all)
  <2>1. e \in Seq(Nat) /\ Distinct(e) /\ ToSet(e) \subseteq ToSet(queues.all)
    BY <1>2, KeptIs DEF EligibleOf
  <2>2. GpuTakes(t, BatchFrom(e))
    BY <1>5 DEF DecoderPops
  <2> HIDE DEF e
  <2>3. /\ BatchFrom(e) \in Seq(Nat) /\ Distinct(BatchFrom(e))
        /\ ToSet(BatchFrom(e)) \subseteq ToSet(queues.all)
    BY <2>1, BatchIs
  <2>4. ~(t \in CpuSide \/ setup.force)
    BY <1>5, MemoryConstants
  <2> QED BY <1>3, <2>2, <2>3, <2>4
<1>6. CASE t \notin GpuSide /\ queues.all = <<>>
  <2>1. GpuTakes(t, <<>>)
    BY <1>6 DEF DecoderPops
  <2>2. <<>> \in Seq(Nat) /\ Distinct(<<>>) /\ ToSet(<<>>) \subseteq ToSet(queues.all)
    BY EmptyIs
  <2> QED BY <1>3, <1>6, <2>1, <2>2
<1>7. CASE t \notin GpuSide /\ queues.all # <<>>
  <2> DEFINE b == <<Head(queues.all)>>
  <2>1. GpuTakes(t, b)
    BY <1>7 DEF DecoderPops
  <2>2. Head(queues.all) \in Nat /\ Head(queues.all) \in ToSet(queues.all)
    BY <1>2, <1>7, FrontIs
  <2>3. b \in Seq(Nat) /\ b # <<>> /\ Distinct(b) /\ ToSet(b) = {Head(queues.all)}
    BY <2>2 DEF Distinct, ToSet
  <2> HIDE DEF b
  <2>4. ToSet(b) \subseteq ToSet(queues.all)
    BY <2>2, <2>3
  <2> QED BY <1>3, <2>1, <2>3, <2>4
<1> QED BY <1>4, <1>5, <1>6, <1>7

\* The codec or the device fails: the first error stays.
LEMMA FailsStep ==
    ASSUME IInv, NEW t \in Threads, MemoryWorker(t), Fails(t) \/ Mismatched(t)
    PROVE  WorkersInv'
<1>0. /\ call' = call /\ setup' = setup /\ InHands /\ MemoryTypes
      /\ workers \in [Threads -> WorkerState]
  BY WorkerFrame
<1>1. /\ workers[t].stage = "work" /\ UNCHANGED <<queues, slots, slices>>
      /\ err \in {"none"} \union MemoryFaults
      /\ queues \in [all : Seq(Nat), cpu : Seq(Nat), gpu : Seq(Nat)]
  BY <1>0 DEF Fails, Mismatched, MemoryTypes
<1>2. ASSUME NEW e \in MemoryFaults, e # "none", Goes(t, "left"), set_worker_error_once(e)
      PROVE  WorkersInv'
  <2>1. /\ err' # "none" /\ (err # "none" => err' = err)
        /\ err' \in {"none"} \union MemoryFaults
    BY <1>1, <1>2 DEF set_worker_error_once
  <2>2. Queued' /\ Spread' /\ InHands' /\ Quits'
    BY <1>1, <1>2, <2>1, GoesStep
  <2>3. MemoryTypes'
    BY <1>0, <1>1, <1>2, <2>1, GoesTypes
  <2> QED BY <2>2, <2>3 DEF WorkersInv
<1>3. ASSUME t \in GpuSide, Goes(t, "panicked"), err' = err
      PROVE  WorkersInv'
  <2>1. Queued' /\ Spread' /\ InHands' /\ Quits'
    BY <1>1, <1>3, GoesStep
  <2>2. MemoryTypes'
    BY <1>0, <1>1, <1>3, GoesTypes
  <2> QED BY <2>1, <2>2 DEF WorkersInv
<1>4. t \in CpuSide \/ t \in GpuSide
  BY MemoryConstants
<1>5. CASE Fails(t)
  BY <1>2, <1>3, <1>4, <1>5 DEF Fails
<1>6. CASE Mismatched(t)
  BY <1>2, <1>6 DEF Mismatched
<1> QED BY <1>5, <1>6

\* A worker has done some of what it held.
LEMMA DoneStep ==
    ASSUME IInv, NEW t \in Threads, MemoryWorker(t), NEW w \in WorkerState,
           workers' = [workers EXCEPT ![t] = w], UNCHANGED <<queues, err>>,
           Distinct(w.held), ToSet(w.held) \subseteq HeldBy(t),
           ReadyChunks' = ReadyChunks \union (HeldBy(t) \ ToSet(w.held)),
           w.stage \in {"top", "work"}, w.stage = "top" <=> w.held = <<>>
    PROVE  WorkersInv'
<1>0. /\ call' = call /\ setup' = setup /\ Queued /\ Spread /\ InHands /\ Quits /\ MemoryTypes
      /\ workers \in [Threads -> WorkerState]
      /\ Spawned(call.stage = "decode")' = Spawned(call.stage = "decode")
  BY WorkerFrame
<1>1. /\ workers'[t] = w /\ \A u \in Threads : u # t => workers'[u] = workers[u]
  BY <1>0
<1>2. /\ Pool' = Pool /\ HeldBy(t)' = ToSet(w.held)
      /\ \A u \in Threads : u # t => HeldBy(u)' = HeldBy(u)
  BY <1>0, <1>1 DEF Pool, HeldBy
<1>3. Queued'
  BY <1>0 DEF Queued
<1>4. Spread'
  <2>1. /\ \A u \in Threads : Distinct(workers[u].held) /\ HeldBy(u) \intersect Pool = {}
        /\ \A u, v \in Threads : u # v => HeldBy(u) \intersect HeldBy(v) = {}
        /\ \A u \in Threads : HeldBy(u) \intersect ReadyChunks = {}
        /\ Pool \intersect ReadyChunks = {}
        /\ \A u \in Threads : HeldBy(u) \subseteq 1 .. setup.chunks
        /\ \A i \in 1 .. setup.chunks :
              i \in Pool \/ i \in ReadyChunks \/ \E u \in Threads : i \in HeldBy(u)
        /\ Pool \subseteq 1 .. setup.chunks
    BY <1>0, Zenon DEF Spread
  <2>2. \A u \in Threads : Distinct(workers'[u].held)
    BY <1>1, <2>1
  <2>3. \A u \in Threads : HeldBy(u)' \subseteq HeldBy(u)
    BY <1>2
  <2>4. \A u \in Threads : HeldBy(u)' \intersect Pool = {}
    BY <2>1, <2>3
  <2>5. \A u, v \in Threads : u # v => HeldBy(u)' \intersect HeldBy(v)' = {}
    BY <2>1, <2>3
  <2>6. \A u \in Threads : HeldBy(u)' \intersect ReadyChunks' = {}
    <3>1. ASSUME NEW u \in Threads, u # t PROVE HeldBy(u)' \intersect ReadyChunks' = {}
      BY <1>2, <2>1, <3>1
    <3>2. HeldBy(t)' \intersect ReadyChunks' = {}
      BY <1>2, <2>1
    <3> QED BY <3>1, <3>2
  <2>7. Pool \intersect ReadyChunks' = {}
    BY <2>1
  <2>8. \A u \in Threads : HeldBy(u)' \subseteq 1 .. setup.chunks
    BY <2>1, <2>3
  <2>9. \A i \in 1 .. setup.chunks :
           i \in Pool \/ i \in ReadyChunks' \/ \E u \in Threads : i \in HeldBy(u)'
    <3> SUFFICES ASSUME NEW i \in 1 .. setup.chunks, i \notin Pool, i \notin ReadyChunks'
                 PROVE  \E u \in Threads : i \in HeldBy(u)'
      OBVIOUS
    <3>1. PICK u \in Threads : i \in HeldBy(u)
      BY <2>1
    <3>2. CASE u = t
      BY <1>2, <3>1, <3>2
    <3>3. CASE u # t
      BY <1>2, <3>1, <3>3
    <3> QED BY <3>2, <3>3
  <2> QED BY <1>0, <1>2, <2>1, <2>2, <2>4, <2>5, <2>6, <2>7, <2>8, <2>9, Zenon DEF Spread
<1>5. InHands'
  BY <1>0, <1>1 DEF InHands
<1>6. Quits'
  <2> SUFFICES ASSUME NEW u \in Spawned(call.stage = "decode"), workers'[u].stage = "left",
                      u \in CpuSide \/ (call.stage = "decode" /\ setup.force)
               PROVE  err # "none" \/ Pool = {}
    BY <1>0, <1>2 DEF Quits
  <2>1. u \in Threads /\ u # t
    BY MemoryConstants, <1>0, <1>1 DEF Spawned, IInv, MemoryTypes, Options
  <2>2. workers[u].stage = "left"
    BY <1>1, <2>1
  <2> QED BY <1>0, <2>2 DEF Quits
<1>7. MemoryTypes'
  <2>1. /\ queues' \in [all : Seq(Nat), cpu : Seq(Nat), gpu : Seq(Nat)]
        /\ err' \in {"none"} \union MemoryFaults
    BY <1>0 DEF MemoryTypes
  <2> QED BY <1>0, <2>1, TypesStep
<1> QED BY <1>3, <1>4, <1>5, <1>6, <1>7 DEF WorkersInv

\* The place of a result is never taken: a chunk that is held has no result.
LEMMA StoresFree ==
    ASSUME IInv, NEW t \in Threads, MemoryWorker(t), Stores(t)
    PROVE  /\ call.stage = "compress" /\ DOMAIN slots = 1 .. setup.chunks
           /\ HeldBy(t) \subseteq DOMAIN slots
           /\ slots' = [i \in DOMAIN slots |-> IF i \in HeldBy(t) THEN {i} ELSE slots[i]]
           /\ workers' = [workers EXCEPT ![t] = [@ EXCEPT !.stage = "top", !.held = <<>>]]
           /\ UNCHANGED <<setup, call, queues, slices, err>>
<1>1. call.stage = "compress" /\ Spread
  BY WorkerFrame DEF Stores
<1>2. DOMAIN slots = 1 .. setup.chunks
  BY <1>1 DEF IInv, Compressing
<1>3. HeldBy(t) \subseteq DOMAIN slots
  BY <1>1, <1>2, Zenon DEF Spread
<1>4. HeldBy(t) \intersect {i \in DOMAIN slots : slots[i] # {}} = {}
  <2>1. HeldBy(t) \intersect ReadyChunks = {}
    BY <1>1, Zenon DEF Spread
  <2> QED BY <1>1, <2>1 DEF ReadyChunks
<1>5. ~\E i \in ToSet(workers[t].held) : slots[i] # {}
  BY <1>3, <1>4 DEF HeldBy
<1> QED BY <1>1, <1>2, <1>3, <1>5 DEF Stores, HeldBy

LEMMA StoresStep ==
    ASSUME IInv, NEW t \in Threads, MemoryWorker(t), Stores(t)
    PROVE  WorkersInv'
<1>0. workers \in [Threads -> WorkerState] /\ call' = call
  BY WorkerFrame
<1>1. /\ call.stage = "compress" /\ HeldBy(t) \subseteq DOMAIN slots
      /\ slots' = [i \in DOMAIN slots |-> IF i \in HeldBy(t) THEN {i} ELSE slots[i]]
      /\ workers' = [workers EXCEPT ![t] = [@ EXCEPT !.stage = "top", !.held = <<>>]]
      /\ UNCHANGED <<queues, err>>
  BY StoresFree
<1> DEFINE w == [workers[t] EXCEPT !.stage = "top", !.held = <<>>]
<1>2. /\ w \in WorkerState /\ w.stage = "top" /\ w.held = <<>>
      /\ workers' = [workers EXCEPT ![t] = w]
  <2>1. workers[t] \in WorkerState /\ <<>> \in Seq(Nat)
    BY <1>0
  <2>2. w \in WorkerState /\ w.stage = "top" /\ w.held = <<>>
    BY <2>1 DEF WorkerState
  <2> QED BY <1>0, <1>1, <2>2
<1> HIDE DEF w
<1>3. Distinct(w.held) /\ ToSet(w.held) = {}
  BY <1>2, EmptyIs
<1>4. ReadyChunks' = ReadyChunks \union HeldBy(t)
  <2>1. ReadyChunks = {i \in DOMAIN slots : slots[i] # {}}
    BY <1>1 DEF ReadyChunks
  <2>2. ReadyChunks' = {i \in DOMAIN slots : slots'[i] # {}}
    BY <1>0, <1>1 DEF ReadyChunks
  <2>3. \A i \in DOMAIN slots : slots'[i] # {} <=> i \in HeldBy(t) \/ slots[i] # {}
    BY <1>1
  <2> QED BY <1>1, <2>1, <2>2, <2>3
<1> QED BY <1>1, <1>2, <1>3, <1>4, DoneStep

\* What a decoder does to the chunk it is at.
LEMMA DecodesAre ==
    ASSUME IInv, NEW t \in Threads, MemoryWorker(t), Decodes(t)
    PROVE  \E ok \in BOOLEAN, w \in WorkerState :
              LET i == Head(workers[t].held) IN
              /\ i \in 1 .. setup.chunks /\ i \in HeldBy(t) /\ slices[i] = <<>>
              /\ call.stage = "decode" /\ DOMAIN slices = 1 .. setup.chunks
              /\ slices' = [slices EXCEPT ![i] = <<IF ok THEN call.stream[i].id ELSE 0>>]
              /\ workers' = [workers EXCEPT ![t] = w]
              /\ w.held = Tail(workers[t].held) /\ w.stage \in {"top", "work"}
              /\ w.stage = "top" <=> w.held = <<>>
              /\ w.done = Append(workers[t].done, [chunk |-> i, ok |-> ok])
              /\ UNCHANGED <<setup, call, queues, slots, err>>
<1>0. /\ workers \in [Threads -> WorkerState] /\ Spread /\ InHands /\ call.stage = "decode"
      /\ workers[t].stage = "work"
  BY WorkerFrame DEF Decodes
<1> DEFINE i == Head(workers[t].held)
<1>1. /\ workers[t].held \in Seq(Nat) /\ workers[t].held # <<>>
      /\ workers[t].done \in Seq([chunk : Nat, ok : BOOLEAN])
  BY <1>0 DEF InHands, WorkerState
<1>2. Distinct(workers[t].held) /\ HeldBy(t) \subseteq 1 .. setup.chunks /\ HeldBy(t) \intersect ReadyChunks = {}
  BY <1>0, Zenon DEF Spread
<1>3. i \in Nat /\ i \in HeldBy(t) /\ Tail(workers[t].held) \in Seq(Nat)
  BY <1>1, <1>2, FrontIs DEF HeldBy
<1>4. DOMAIN slices = 1 .. setup.chunks
  BY <1>0 DEF IInv, Decoding
<1>5. i \in 1 .. setup.chunks /\ slices[i] = <<>>
  BY <1>0, <1>2, <1>3, <1>4 DEF ReadyChunks
<1>6. PICK gpu \in BOOLEAN :
         LET ok == gpu \/ call.stream[i].decodes
         IN  /\ slices' = [slices EXCEPT ![i] = Append(@, IF ok THEN call.stream[i].id ELSE 0)]
             /\ workers' = [workers EXCEPT ![t] =
                    [stage |-> IF Tail(@.held) = <<>> THEN "top" ELSE "work",
                     held |-> Tail(@.held), done |-> Append(@.done, [chunk |-> i, ok |-> ok])]]
  BY DEF Decodes
<1> DEFINE ok == gpu \/ call.stream[i].decodes
           r == [chunk |-> i, ok |-> ok]
           x == IF ok THEN call.stream[i].id ELSE 0
           w == [stage |-> IF Tail(workers[t].held) = <<>> THEN "top" ELSE "work",
                 held |-> Tail(workers[t].held), done |-> Append(workers[t].done, r)]
<1>7. slices' = [slices EXCEPT ![i] = <<x>>]
  <2>1. slices' = [slices EXCEPT ![i] = Append(slices[i], x)]
    BY <1>6
  <2>2. Append(slices[i], x) = <<x>>
    BY <1>5
  <2> QED BY <2>1, <2>2
<1>8. workers' = [workers EXCEPT ![t] = w]
  BY <1>6
<1>9. ok \in BOOLEAN
  OBVIOUS
<1>10. UNCHANGED <<setup, call, queues, slots, err>>
  BY DEF Decodes
<1> HIDE DEF ok
<1>11. r \in [chunk : Nat, ok : BOOLEAN]
  BY <1>3, <1>9
<1> HIDE DEF r
<1>12. Append(workers[t].done, r) \in Seq([chunk : Nat, ok : BOOLEAN])
  <2> DEFINE D == [chunk : Nat, ok : BOOLEAN]
  <2> HIDE DEF D
  <2>1. workers[t].done \in Seq(D) /\ r \in D
    BY <1>1, <1>11 DEF D
  <2>2. Append(workers[t].done, r) \in Seq(D)
    BY <2>1
  <2> QED BY <2>2 DEF D
<1>13. /\ w \in WorkerState /\ w.held = Tail(workers[t].held) /\ w.stage \in {"top", "work"}
       /\ w.stage = "top" <=> w.held = <<>>
       /\ w.done = Append(workers[t].done, r)
  BY <1>3, <1>12 DEF WorkerState
<1> HIDE DEF w
<1>14. w.done = Append(workers[t].done, [chunk |-> i, ok |-> ok])
  BY <1>13 DEF r
<1>15. slices' = [slices EXCEPT ![i] = <<IF ok THEN call.stream[i].id ELSE 0>>]
  BY <1>7
<1> HIDE DEF i
<1>16. /\ i \in 1 .. setup.chunks /\ i \in HeldBy(t) /\ slices[i] = <<>>
       /\ call.stage = "decode" /\ DOMAIN slices = 1 .. setup.chunks
       /\ slices' = [slices EXCEPT ![i] = <<IF ok THEN call.stream[i].id ELSE 0>>]
       /\ workers' = [workers EXCEPT ![t] = w]
       /\ w.held = Tail(workers[t].held) /\ w.stage \in {"top", "work"}
       /\ w.stage = "top" <=> w.held = <<>>
       /\ w.done = Append(workers[t].done, [chunk |-> i, ok |-> ok])
       /\ UNCHANGED <<setup, call, queues, slots, err>>
  BY <1>0, <1>3, <1>4, <1>5, <1>8, <1>10, <1>13, <1>14, <1>15
<1> QED BY <1>9, <1>13, <1>16 DEF i

LEMMA DecodesStep ==
    ASSUME IInv, NEW t \in Threads, MemoryWorker(t), Decodes(t)
    PROVE  WorkersInv'
<1>0. workers \in [Threads -> WorkerState] /\ call' = call /\ Spread
  BY WorkerFrame
<1> DEFINE i == Head(workers[t].held)
<1>1. PICK ok \in BOOLEAN, w \in WorkerState :
         /\ i \in 1 .. setup.chunks /\ i \in HeldBy(t) /\ slices[i] = <<>>
         /\ call.stage = "decode" /\ DOMAIN slices = 1 .. setup.chunks
         /\ slices' = [slices EXCEPT ![i] = <<IF ok THEN call.stream[i].id ELSE 0>>]
         /\ workers' = [workers EXCEPT ![t] = w]
         /\ w.held = Tail(workers[t].held) /\ w.stage \in {"top", "work"}
         /\ w.stage = "top" <=> w.held = <<>>
         /\ UNCHANGED <<queues, err>>
  BY DecodesAre
<1>2. Distinct(w.held) /\ ToSet(w.held) = HeldBy(t) \ {i}
  <2>1. workers[t].held \in Seq(Nat) /\ Distinct(workers[t].held) /\ workers[t].held # <<>>
    <3>1. Distinct(workers[t].held)
      BY <1>0, Zenon DEF Spread
    <3>2. HeldBy(t) # {}
      BY <1>1
    <3> QED BY <1>0, <3>1, <3>2, EmptyIs DEF HeldBy, WorkerState
  <2> QED BY <1>1, <2>1, FrontIs DEF HeldBy
<1>3. ReadyChunks' = ReadyChunks \union (HeldBy(t) \ ToSet(w.held))
  <2>1. ReadyChunks = {k \in DOMAIN slices : slices[k] # <<>>}
    BY <1>1 DEF ReadyChunks
  <2>2. ReadyChunks' = {k \in DOMAIN slices : slices'[k] # <<>>}
    BY <1>0, <1>1 DEF ReadyChunks
  <2>3. slices'[i] # <<>> /\ \A k \in DOMAIN slices : k # i => slices'[k] = slices[k]
    BY <1>1
  <2>4. HeldBy(t) \ ToSet(w.held) = {i}
    BY <1>1, <1>2
  <2> HIDE DEF i
  <2> QED BY <1>1, <2>1, <2>2, <2>3, <2>4
<1>4. ToSet(w.held) \subseteq HeldBy(t)
  BY <1>2
<1> QED BY <1>1, <1>2, <1>3, <1>4, DoneStep

\* Each step of a worker.
LEMMA WorkerStep ==
    ASSUME IInv, NEW t \in Threads, MemoryWorker(t)
    PROVE  WorkersInv'
BY LooksStep, CpuStep, GpuStep, StoresStep, FailsStep, DecoderStep, DecodesStep DEF MemoryWorker

--------------------------------------------------------------------------------
(* The results.                                                                *)

\* What a step of a worker has to preserve of the results.
ResultsInv ==
    /\ Compressing /\ Decoding /\ Returned
    /\ call.stage = "compress" => \A t \in Threads : workers[t].done = <<>>

LEMMA AppendSet ==
    ASSUME NEW D, NEW s \in Seq(D), NEW x \in D
    PROVE  ToSet(Append(s, x)) = ToSet(s) \union {x}
<1> DEFINE a == Append(s, x)
<1>1. /\ Len(s) \in Nat /\ DOMAIN s = 1 .. Len(s) /\ DOMAIN a = 1 .. (Len(s) + 1)
      /\ \A i \in 1 .. Len(s) : a[i] = s[i]
      /\ a[Len(s) + 1] = x
  BY AppendProperties
<1> HIDE DEF a
<1>2. \A i : i \in 1 .. (Len(s) + 1) <=> i \in 1 .. Len(s) \/ i = Len(s) + 1
  BY <1>1
<1>3. ToSet(a) = ToSet(s) \union {x}
  BY <1>1, <1>2 DEF ToSet
<1> QED BY <1>3 DEF a

\* A step that leaves the results alone.
LEMMA ResultsSame ==
    ASSUME IInv, NEW t \in Threads, MemoryWorker(t), UNCHANGED <<slots, slices>>,
           \A u \in Threads : workers'[u].done = workers[u].done
    PROVE  ResultsInv'
<1>0. /\ Active /\ call' = call /\ setup' = setup
  BY WorkerFrame
<1>1. Compressing' /\ Returned'
  BY <1>0 DEF IInv, Compressing, Returned
<1>2. Results' = Results
  BY DEF Results
<1>3. Decoding'
  <2>1. call.stage # "spawn"
    BY <1>0 DEF Active
  <2>2. Decoding
    BY DEF IInv
  <2>3. call'.stage # "spawn"
    BY <1>0, <2>1
  <2>4. /\ slices' = <<>> \/ DOMAIN slices' = DOMAIN call'.stream
        /\ \A i \in DOMAIN slices' : slices'[i] = <<>> \/ slices'[i] = <<slices'[i][1]>>
        /\ call'.stage \in {"spawn", "decode"} =>
              /\ setup'.policy = "global" /\ setup'.chunks = Len(call'.stream)
              /\ DOMAIN slices' = 1 .. setup'.chunks
    BY <1>0, <2>2 DEF Decoding
  <2>5. ASSUME call'.stage = "decode"
        PROVE  /\ \A u \in Threads : \A r \in ToSet(workers'[u].done) :
                     /\ r.chunk \in DOMAIN slices'
                     /\ slices'[r.chunk] = <<IF r.ok THEN call'.stream[r.chunk].id ELSE 0>>
               /\ \A i \in DOMAIN slices' : slices'[i] # <<>> => \E r \in Results' : r.chunk = i
    BY <1>0, <1>2, <2>2, <2>5 DEF Decoding
  <2> QED BY <2>3, <2>4, <2>5 DEF Decoding
<1>4. call'.stage = "compress" => \A u \in Threads : workers'[u].done = <<>>
  BY <1>0 DEF IInv
<1> QED BY <1>1, <1>3, <1>4 DEF ResultsInv

\* A compressed chunk is stored as its own.
LEMMA ResultsStored ==
    ASSUME IInv, NEW t \in Threads, MemoryWorker(t), Stores(t)
    PROVE  ResultsInv'
<1>0. /\ call' = call /\ setup' = setup /\ workers \in [Threads -> WorkerState]
  BY WorkerFrame
<1>1. /\ call.stage = "compress" /\ DOMAIN slots = 1 .. setup.chunks /\ slices' = slices
      /\ slots' = [i \in DOMAIN slots |-> IF i \in HeldBy(t) THEN {i} ELSE slots[i]]
      /\ workers' = [workers EXCEPT ![t] = [@ EXCEPT !.stage = "top", !.held = <<>>]]
  BY StoresFree
<1>2. \A u \in Threads : workers'[u].done = workers[u].done
  BY <1>0, <1>1 DEF WorkerState
<1>3. Compressing'
  <2>1. DOMAIN slots' = 1 .. setup.chunks /\ \A i \in DOMAIN slots : slots[i] \in {{}, {i}}
    BY <1>1 DEF IInv, Compressing
  <2>2. \A i \in DOMAIN slots' : slots'[i] \in {{}, {i}}
    BY <1>1, <2>1
  <2>3. slices' = <<>>
    BY <1>1 DEF IInv, Compressing
  <2> QED BY <1>0, <1>1, <2>1, <2>2, <2>3 DEF Compressing
<1>4. Decoding'
  BY <1>0, <1>1 DEF IInv, Decoding
<1>5. Returned'
  BY <1>0, <1>1 DEF IInv, Returned
<1>6. call'.stage = "compress" => \A u \in Threads : workers'[u].done = <<>>
  BY <1>0, <1>2 DEF IInv
<1> QED BY <1>3, <1>4, <1>5, <1>6 DEF ResultsInv

\* A decoded chunk is in its part of the output, and among the results of the worker.
LEMMA ResultsDecoded ==
    ASSUME IInv, NEW t \in Threads, MemoryWorker(t), Decodes(t)
    PROVE  ResultsInv'
<1>0. workers \in [Threads -> WorkerState] /\ call' = call /\ setup' = setup
  BY WorkerFrame
<1> DEFINE i == Head(workers[t].held)
<1>1. PICK ok \in BOOLEAN, w \in WorkerState :
         /\ i \in 1 .. setup.chunks /\ slices[i] = <<>>
         /\ call.stage = "decode" /\ DOMAIN slices = 1 .. setup.chunks
         /\ slices' = [slices EXCEPT ![i] = <<IF ok THEN call.stream[i].id ELSE 0>>]
         /\ workers' = [workers EXCEPT ![t] = w]
         /\ w.done = Append(workers[t].done, [chunk |-> i, ok |-> ok])
  BY DecodesAre, ZenonT(40)
<1> DEFINE r0 == [chunk |-> i, ok |-> ok]
<1>2. /\ workers'[t].done = Append(workers[t].done, r0)
      /\ \A u \in Threads : u # t => workers'[u] = workers[u]
  BY <1>0, <1>1
<1>3. /\ DOMAIN slices' = DOMAIN slices /\ slices'[i] = <<IF ok THEN call.stream[i].id ELSE 0>>
      /\ \A k \in DOMAIN slices : k # i => slices'[k] = slices[k]
  BY <1>1
<1>4. i \in Nat
  BY <1>1 DEF IInv, MemoryTypes, Options
<1>5. ToSet(workers'[t].done) = ToSet(workers[t].done) \union {r0}
  <2> DEFINE D == [chunk : Nat, ok : BOOLEAN]
  <2>1. r0 \in D
    BY <1>1, <1>4
  <2>2. workers[t].done \in Seq(D)
    BY <1>0 DEF WorkerState
  <2> HIDE DEF D, r0
  <2> QED BY <1>2, <2>1, <2>2, AppendSet
<1>6. r0.chunk = i /\ r0.ok = ok
  OBVIOUS
<1> HIDE DEF r0, i
<1>7. /\ slices = <<>> \/ DOMAIN slices = DOMAIN call.stream
      /\ \A k \in DOMAIN slices : slices[k] = <<>> \/ slices[k] = <<slices[k][1]>>
      /\ setup.policy = "global" /\ setup.chunks = Len(call.stream)
      /\ \A u \in Threads : \A r \in ToSet(workers[u].done) :
            /\ r.chunk \in DOMAIN slices
            /\ slices[r.chunk] = <<IF r.ok THEN call.stream[r.chunk].id ELSE 0>>
      /\ \A k \in DOMAIN slices : slices[k] # <<>> => \E r \in Results : r.chunk = k
  BY <1>1 DEF IInv, Decoding
<1>8. DOMAIN slices' = DOMAIN call.stream
  <2>1. call.stream \in Seq(StreamChunk)
    BY DEF IInv, MemoryTypes
  <2>2. DOMAIN call.stream = 1 .. Len(call.stream)
    BY <2>1
  <2> QED BY <1>1, <1>3, <1>7, <2>2
<1>9. \A k \in DOMAIN slices' : slices'[k] = <<>> \/ slices'[k] = <<slices'[k][1]>>
  BY <1>3, <1>7
<1>10. ASSUME NEW u \in Threads, NEW r \in ToSet(workers'[u].done)
       PROVE  /\ r.chunk \in DOMAIN slices'
              /\ slices'[r.chunk] = <<IF r.ok THEN call.stream[r.chunk].id ELSE 0>>
  <2>1. CASE r \in ToSet(workers[u].done)
    <3>1. /\ r.chunk \in DOMAIN slices
          /\ slices[r.chunk] = <<IF r.ok THEN call.stream[r.chunk].id ELSE 0>>
      BY <1>7, <2>1
    <3>2. slices[r.chunk] # <<>>
      BY <3>1
    <3>3. r.chunk # i
      BY <1>1, <3>2
    <3> QED BY <1>3, <3>1, <3>3
  <2>2. CASE r \notin ToSet(workers[u].done)
    <3>1. r = r0
      BY <1>2, <1>5, <2>2
    <3> QED BY <1>1, <1>3, <1>6, <3>1
  <2> QED BY <2>1, <2>2
<1>11. ASSUME NEW k \in DOMAIN slices', slices'[k] # <<>>
       PROVE  \E r \in Results' : r.chunk = k
  <2>1. CASE k = i
    <3>1. r0 \in Results'
      BY <1>5 DEF Results
    <3> QED BY <1>6, <2>1, <3>1
  <2>2. CASE k # i
    <3>1. slices[k] # <<>> /\ k \in DOMAIN slices
      BY <1>3, <1>11, <2>2
    <3>2. PICK r \in Results : r.chunk = k
      BY <1>7, <3>1
    <3>3. PICK u \in Threads : r \in ToSet(workers[u].done)
      BY DEF Results
    <3>4. r \in ToSet(workers'[u].done)
      BY <1>2, <1>5, <3>3
    <3> QED BY <3>2, <3>4 DEF Results
  <2> QED BY <2>1, <2>2
<1>12. Decoding'
  BY <1>0, <1>1, <1>3, <1>7, <1>8, <1>9, <1>10, <1>11 DEF Decoding
<1>13. Compressing'
  BY <1>0, <1>1 DEF Compressing
<1>14. Returned'
  BY <1>0, <1>1 DEF IInv, Returned
<1> QED BY <1>0, <1>1, <1>12, <1>13, <1>14 DEF ResultsInv

LEMMA ResultsStep ==
    ASSUME IInv, NEW t \in Threads, MemoryWorker(t)
    PROVE  ResultsInv'
<1>0. workers \in [Threads -> WorkerState]
  BY WorkerFrame
<1>1. CASE LooksAtError(t)
  <2>1. /\ UNCHANGED <<slots, slices>>
        /\ \A u \in Threads : workers'[u].done = workers[u].done
    BY <1>0, <1>1 DEF LooksAtError, Goes, WorkerState
  <2> QED BY <2>1, ResultsSame
<1>2. CASE CpuPops(t)
  <2>1. UNCHANGED <<slots, slices>>
    BY <1>2 DEF CpuPops
  <2>2. \E w : workers' = [workers EXCEPT ![t] = w] /\ w.done = workers[t].done
    <3>1. CASE CpuSource \in {"none", "retry"}
      BY <1>0, <1>2, <3>1 DEF CpuPops, Goes, WorkerState
    <3>2. CASE CpuSource \notin {"none", "retry"}
      BY <1>0, <1>2, <3>2 DEF CpuPops, WorkerState
    <3> QED BY <3>1, <3>2
  <2>3. \A u \in Threads : workers'[u].done = workers[u].done
    BY <1>0, <2>2
  <2> QED BY <2>1, <2>3, ResultsSame
<1>3. ASSUME NEW b, GpuTakes(t, b), UNCHANGED <<slots, slices>>
      PROVE  ResultsInv'
  <2>1. \E w : workers' = [workers EXCEPT ![t] = w] /\ w.done = workers[t].done
    <3>1. CASE b = <<>>
      BY <1>0, <1>3, <3>1 DEF GpuTakes, Goes, WorkerState
    <3>2. CASE b # <<>>
      <4>1. workers' = [workers EXCEPT ![t] = [@ EXCEPT !.stage = "work", !.held = b]]
        BY <1>3, <3>2 DEF GpuTakes
      <4> DEFINE w == [workers[t] EXCEPT !.stage = "work", !.held = b]
      <4>2. workers' = [workers EXCEPT ![t] = w]
        BY <4>1
      <4>3. workers[t] = [stage |-> workers[t].stage, held |-> workers[t].held,
                          done |-> workers[t].done]
        BY <1>0 DEF WorkerState
      <4>4. w.done = workers[t].done
        BY <4>3
      <4> HIDE DEF w
      <4> QED BY <4>2, <4>4
    <3> QED BY <3>1, <3>2
  <2>2. \A u \in Threads : workers'[u].done = workers[u].done
    BY <1>0, <2>1
  <2> QED BY <1>3, <2>2, ResultsSame
<1>4. CASE GpuPops(t)
  BY <1>3, <1>4 DEF GpuPops
<1>5. CASE DecoderPops(t)
  BY <1>3, <1>5 DEF DecoderPops
<1>6. CASE Fails(t) \/ Mismatched(t)
  <2>1. UNCHANGED <<slots, slices>> /\ \E to : Goes(t, to)
    BY <1>6 DEF Fails, Mismatched
  <2>2. \A u \in Threads : workers'[u].done = workers[u].done
    BY <1>0, <2>1 DEF Goes, WorkerState
  <2> QED BY <2>1, <2>2, ResultsSame
<1> QED BY <1>1, <1>2, <1>4, <1>5, <1>6, ResultsStored, ResultsDecoded DEF MemoryWorker

\* Every step of a worker preserves the invariant.
LEMMA WorkerInvariant ==
    ASSUME IInv, NEW t \in Threads, MemoryWorker(t)
    PROVE  IInv'
<1>1. WorkersInv' /\ ResultsInv'
  BY WorkerStep, ResultsStep
<1>2. Active' /\ call'.stage # "written"
  BY WorkerFrame DEF Active
<1> QED BY <1>1, <1>2, Zenon DEF WorkersInv, ResultsInv, IInv

--------------------------------------------------------------------------------
(* The caller.                                                                 *)

\* The threads of a call begin with nothing in their hands.
LEMMA FreshStep ==
    ASSUME NEW d \in BOOLEAN, Options, setup' = setup, (call'.stage = "decode") = d,
           workers' = [t \in Threads |-> Idle(t, d)],
           ReadyChunks' = {}, Pool' = 1 .. setup.chunks
    PROVE  /\ workers' \in [Threads -> WorkerState] /\ Spread' /\ InHands' /\ Quits'
           /\ \A t \in Threads : workers'[t].done = <<>>
<1>1. \A t \in Threads : /\ workers'[t].held = <<>> /\ workers'[t].done = <<>>
                         /\ workers'[t].stage \in {"top", "left"}
                         /\ t \in Spawned(d) => workers'[t].stage = "top"
  BY DEF Idle
<1>2. workers' \in [Threads -> WorkerState]
  <2>1. \A t \in Threads : Idle(t, d) \in WorkerState
    <3>1. <<>> \in Seq(Nat) /\ <<>> \in Seq([chunk : Nat, ok : BOOLEAN])
      OBVIOUS
    <3> QED BY <3>1 DEF Idle, WorkerState
  <2> QED BY <2>1
<1>3. \A t \in Threads : HeldBy(t)' = {} /\ Distinct(workers'[t].held)
  BY <1>1, EmptyIs DEF HeldBy
<1>4. Spread'
  <2>1. \A t \in Threads : Distinct(workers'[t].held) /\ HeldBy(t)' \intersect Pool' = {}
    BY <1>3
  <2>2. \A t, u \in Threads : t # u => HeldBy(t)' \intersect HeldBy(u)' = {}
    BY <1>3
  <2>3. \A t \in Threads : HeldBy(t)' \intersect ReadyChunks' = {}
    BY <1>3
  <2>4. Pool' \intersect ReadyChunks' = {}
    OBVIOUS
  <2>5. \A t \in Threads : HeldBy(t)' \subseteq 1 .. setup'.chunks
    BY <1>3
  <2>6. \A i \in 1 .. setup'.chunks :
           i \in Pool' \/ i \in ReadyChunks' \/ \E t \in Threads : i \in HeldBy(t)'
    OBVIOUS
  <2>7. Pool' \subseteq 1 .. setup'.chunks
    OBVIOUS
  <2> QED BY <2>5, <2>1, <2>2, <2>3, <2>4, <2>6, <2>7, Zenon DEF Spread
<1>5. InHands'
  BY <1>1 DEF InHands
<1>6. Quits'
  <2>1. Spawned(call.stage = "decode")' = Spawned(d)
    BY DEF Spawned
  <2>2. \A u \in Spawned(d) : u \in Threads
    BY MemoryConstants DEF Spawned, Options
  <2>3. \A u \in Spawned(call.stage = "decode")' : workers'[u].stage = "top"
    BY <1>1, <2>1, <2>2
  <2> QED BY <2>3 DEF Quits
<1> QED BY <1>1, <1>2, <1>4, <1>5, <1>6

\* The queues of a compressor: each chunk is in one of them.
LEMMA InitialAre ==
    ASSUME Options, NEW n \in Nat, queues' = InitialQueues(n), setup' = setup
    PROVE  /\ queues' \in [all : Seq(Nat), cpu : Seq(Nat), gpu : Seq(Nat)]
           /\ Queued' /\ Pool' = 1 .. n
<1> DEFINE q == Numbers(n)
           C == {i \in 1 .. n : ~OnDevice(i)}
           G == {i \in 1 .. n : OnDevice(i)}
<1>1. q \in Seq(Nat) /\ Distinct(q) /\ ToSet(q) = 1 .. n
  BY NumbersAre
<1>2. <<>> \in Seq(Nat) /\ Distinct(<<>>) /\ ToSet(<<>>) = {}
  BY EmptyIs
<1>3. C \union G = 1 .. n /\ C \intersect G = {} /\ C \subseteq 1 .. n /\ G \subseteq 1 .. n
  OBVIOUS
<1>4. CASE setup.policy = "global"
  <2>1. queues' = [all |-> q, cpu |-> <<>>, gpu |-> <<>>]
    BY <1>4 DEF InitialQueues
  <2> HIDE DEF q
  <2>2. /\ queues'.all = q /\ queues'.cpu = <<>> /\ queues'.gpu = <<>>
        /\ queues' \in [all : Seq(Nat), cpu : Seq(Nat), gpu : Seq(Nat)]
    BY <1>1, <1>2, <2>1
  <2>3. Queued'
    BY <1>1, <1>2, <1>4, <2>2 DEF Queued
  <2> QED BY <1>1, <1>2, <2>2, <2>3 DEF Pool
<1>5. CASE setup.policy # "global"
  <2> DEFINE c == Kept(q, C)
             g == Kept(q, G)
  <2>1. queues' = [all |-> <<>>, cpu |-> c, gpu |-> g]
    BY <1>5 DEF InitialQueues
  <2> HIDE DEF q, C, G
  <2>2. /\ c \in Seq(Nat) /\ Distinct(c) /\ ToSet(c) = ToSet(q) \intersect C
        /\ g \in Seq(Nat) /\ Distinct(g) /\ ToSet(g) = ToSet(q) \intersect G
    BY <1>1, KeptIs
  <2> HIDE DEF c, g
  <2>3. /\ queues'.all = <<>> /\ queues'.cpu = c /\ queues'.gpu = g
        /\ queues' \in [all : Seq(Nat), cpu : Seq(Nat), gpu : Seq(Nat)]
    BY <1>2, <2>1, <2>2
  <2>4. ToSet(c) = C /\ ToSet(g) = G
    BY <1>1, <1>3, <2>2
  <2>5. ToSet(queues'.cpu) \intersect ToSet(queues'.gpu) = {}
    BY <1>3, <2>3, <2>4
  <2>6. Queued'
    BY <1>2, <1>5, <2>2, <2>3, <2>5 DEF Queued
  <2>7. Pool' = 1 .. n
    BY <1>2, <1>3, <2>3, <2>4 DEF Pool
  <2> QED BY <2>3, <2>6, <2>7
<1> QED BY <1>4, <1>5

\* Compressing begins with every chunk in a queue.
LEMMA CompressCallStep ==
    ASSUME IInv, CompressCall
    PROVE  IInv'
<1>1. /\ MemoryTypes /\ Compressing /\ Returned /\ call.stage = "start"
      /\ slices = <<>> /\ call.result # "missing"
  BY DEF IInv, CompressCall, Compressing, Returned
<1>2. /\ Options /\ setup.chunks \in Nat /\ setup' = setup /\ slices' = <<>> /\ err' = err
      /\ call' = [call EXCEPT !.stage = "compress"]
      /\ queues' = InitialQueues(setup.chunks)
      /\ workers' = [t \in Threads |-> Idle(t, FALSE)]
      /\ slots' = [i \in 1 .. setup.chunks |-> {}]
  BY <1>1 DEF CompressCall, MemoryTypes, Options
<1>3. /\ call'.stage = "compress" /\ call'.result = call.result /\ call'.stream = call.stream
      /\ DOMAIN call' = {"stage", "result", "stream"} /\ call'.stream \in Seq(StreamChunk)
  BY <1>1, <1>2 DEF MemoryTypes
<1>4. /\ queues' \in [all : Seq(Nat), cpu : Seq(Nat), gpu : Seq(Nat)]
      /\ Queued' /\ Pool' = 1 .. setup.chunks
  BY <1>2, InitialAre
<1>5. ReadyChunks' = {}
  BY <1>2, <1>3 DEF ReadyChunks
<1>6. /\ workers' \in [Threads -> WorkerState] /\ Spread' /\ InHands' /\ Quits'
      /\ \A t \in Threads : workers'[t].done = <<>>
  BY <1>2, <1>3, <1>4, <1>5, FreshStep
<1>7. MemoryTypes'
  BY <1>1, <1>2, <1>3, <1>4, <1>6 DEF MemoryTypes, Options
<1>8. Compressing'
  BY <1>2, <1>3 DEF Compressing
<1>9. Decoding' /\ Returned'
  BY <1>1, <1>2, <1>3 DEF Decoding, Returned
<1> QED BY <1>3, <1>4, <1>6, <1>7, <1>8, <1>9 DEF IInv, Active

\* When all threads were joined without an error, every chunk has its result, if one of
\* them had to go on until the queues were empty.
LEMMA AllDone ==
    ASSUME IInv, Active, Joined, ~Panicked, err = "none",
           NEW w \in Spawned(call.stage = "decode"),
           w \in CpuSide \/ (call.stage = "decode" /\ setup.force)
    PROVE  Pool = {} /\ \A i \in 1 .. setup.chunks : i \in ReadyChunks
<1>1. Spread /\ InHands /\ Quits /\ Options
  BY DEF IInv, MemoryTypes
<1>2. \A t \in Threads : workers[t].stage = "left"
  BY DEF Joined, Panicked
<1>3. w \in Threads
  BY <1>1, MemoryConstants DEF Spawned, Options
<1>4. Pool = {}
  BY <1>1, <1>2, <1>3 DEF Quits
<1>5. \A t \in Threads : HeldBy(t) = {}
  BY <1>1, <1>2, EmptyIs DEF InHands, HeldBy
<1>6. \A i \in 1 .. setup.chunks :
         i \in Pool \/ i \in ReadyChunks \/ \E t \in Threads : i \in HeldBy(t)
  BY <1>1, Zenon DEF Spread
<1> QED BY <1>4, <1>5, <1>6

\* A compressor has a CPU worker.
LEMMA CompressorsEnd ==
    ASSUME IInv, call.stage = "compress", Joined, ~Panicked, err = "none"
    PROVE  /\ Pool = {} /\ DOMAIN slots = 1 .. setup.chunks /\ setup.chunks \in Nat
           /\ \A i \in 1 .. setup.chunks : slots[i] = {i}
<1>1. PICK w \in Spawned(call.stage = "decode") : w \in CpuSide
  <2>1. (call.stage = "decode") = FALSE
    OBVIOUS
  <2> QED BY <2>1, MemoryConstants DEF Spawned
<1>2. Active
  BY DEF Active
<1>3. Pool = {} /\ \A i \in 1 .. setup.chunks : i \in ReadyChunks
  BY <1>1, <1>2, AllDone
<1>4. /\ DOMAIN slots = 1 .. setup.chunks
      /\ \A i \in DOMAIN slots : slots[i] \in {{}, {i}}
  BY DEF IInv, Compressing
<1>5. \A i \in 1 .. setup.chunks : slots[i] # {}
  BY <1>3 DEF ReadyChunks
<1>6. setup.chunks \in Nat
  BY DEF IInv, MemoryTypes, Options
<1> QED BY <1>3, <1>4, <1>5, <1>6

\* What the chunks are framed into.
LEMMA FramedIs ==
    ASSUME NEW n \in Nat, DOMAIN slots = 1 .. n, \A i \in 1 .. n : slots[i] = {i}
    PROVE  /\ Framed \in Seq(StreamChunk)
           /\ [i \in DOMAIN Framed |-> Framed[i].id] = Numbers(n)
<1> DEFINE f == Framed
<1>1. \A i \in 1 .. n : (CHOOSE c \in slots[i] : TRUE) = i
  <2>1. \A i : (CHOOSE c \in {i} : TRUE) = i
    OBVIOUS
  <2> QED BY <2>1
<1>2. /\ DOMAIN f = 1 .. n
      /\ \A i \in 1 .. n : f[i] = [id |-> CHOOSE c \in slots[i] : TRUE, final |-> i = Len(slots),
                                   parses |-> TRUE, decodes |-> TRUE]
  BY DEF Framed
<1>3. \A i \in 1 .. n : f[i].id = i /\ f[i] \in StreamChunk
  <2> SUFFICES ASSUME NEW i \in 1 .. n
               PROVE  f[i].id = i /\ f[i] \in StreamChunk
    OBVIOUS
  <2>1. f[i] = [id |-> i, final |-> i = Len(slots), parses |-> TRUE, decodes |-> TRUE]
    BY <1>1, <1>2
  <2>2. (i = Len(slots)) \in BOOLEAN /\ i \in Nat
    OBVIOUS
  <2> HIDE DEF f
  <2> QED BY <2>1, <2>2 DEF StreamChunk
<1>4. f = [i \in 1 .. n |-> f[i]]
  BY DEF Framed
<1> HIDE DEF f
<1>5. f \in Seq(StreamChunk)
  <2> DEFINE S == StreamChunk
  <2>1. \A i \in 1 .. n : f[i] \in S
    BY <1>3
  <2> HIDE DEF S
  <2>2. f \in [1 .. n -> S]
    BY <1>4, <2>1
  <2>3. f \in Seq(S)
    BY <2>2
  <2> QED BY <2>3 DEF S
<1>6. [i \in DOMAIN f |-> f[i].id] = Numbers(n)
  BY <1>2, <1>3 DEF Numbers
<1> QED BY <1>5, <1>6 DEF f

\* Compressing ends with every chunk in its place, or with what went wrong.
LEMMA CompressReturnsStep ==
    ASSUME IInv, CompressReturns
    PROVE  IInv'
<1>1. /\ MemoryTypes /\ call.stage = "compress" /\ Joined /\ slices = <<>>
      /\ call.result # "missing"
      /\ setup' = setup /\ queues' = queues /\ workers' = workers /\ slots' = slots
      /\ slices' = slices /\ err' = err
  BY DEF IInv, CompressReturns, Compressing, Returned
<1>2. /\ DOMAIN call = {"stage", "result", "stream"} /\ call.stream \in Seq(StreamChunk)
      /\ err \in {"none"} \union MemoryFaults
  BY <1>1 DEF MemoryTypes
<1>3. Joined' /\ slices' = <<>>
  BY <1>1 DEF Joined
<1>4. ASSUME NEW e, call' = [call EXCEPT !.stage = "returned", !.result = e],
             e \notin {"ok", "missing"}
      PROVE  IInv'
  <2>1. /\ call'.stage = "returned" /\ call'.result = e /\ call'.stream = call.stream
        /\ DOMAIN call' = {"stage", "result", "stream"}
    BY <1>2, <1>4
  <2>2. MemoryTypes'
    BY <1>1, <1>2, <2>1 DEF MemoryTypes, Options
  <2>3. Compressing' /\ Decoding' /\ Returned'
    BY <1>3, <1>4, <2>1 DEF Compressing, Decoding, Returned
  <2> QED BY <1>3, <2>1, <2>2, <2>3 DEF IInv, Active
<1>5. CASE Panicked
  <2>1. call' = [call EXCEPT !.stage = "returned", !.result = "panicked"]
    BY <1>5 DEF CompressReturns
  <2>2. "panicked" \notin {"ok", "missing"}
    OBVIOUS
  <2> QED BY <1>4, <2>1, <2>2
<1>6. CASE ~Panicked /\ err # "none"
  <2>1. call' = [call EXCEPT !.stage = "returned", !.result = err]
    BY <1>6 DEF CompressReturns
  <2>2. err \notin {"ok", "missing"}
    BY <1>2, <1>6, MemoryAssumption
  <2> QED BY <1>4, <2>1, <2>2
<1>7. CASE ~Panicked /\ err = "none"
  <2>1. /\ Pool = {} /\ DOMAIN slots = 1 .. setup.chunks /\ setup.chunks \in Nat
        /\ \A i \in 1 .. setup.chunks : slots[i] = {i}
    BY <1>1, <1>7, CompressorsEnd
  <2>2. ~\E i \in DOMAIN slots : slots[i] = {}
    BY <2>1
  <2>3. call' = [call EXCEPT !.stage = "written", !.result = "ok", !.stream = Framed]
    BY <1>7, <2>2 DEF CompressReturns
  <2>4. /\ call'.stage = "written" /\ call'.result = "ok" /\ call'.stream = Framed
        /\ DOMAIN call' = {"stage", "result", "stream"}
    BY <1>2, <2>3
  <2>5. /\ Framed \in Seq(StreamChunk)
        /\ [i \in DOMAIN Framed |-> Framed[i].id] = Numbers(setup.chunks)
    BY <2>1, FramedIs
  <2>6. MemoryTypes'
    BY <1>1, <2>4, <2>5 DEF MemoryTypes, Options
  <2>7. Compressing'
    <3>1. [i \in DOMAIN call'.stream |-> call'.stream[i].id] = Numbers(setup'.chunks)
      BY <1>1, <2>4, <2>5 DEF Numbers
    <3> QED BY <1>3, <2>4, <3>1 DEF Compressing
  <2>8. Decoding' /\ Returned'
    BY <1>3, <2>4 DEF Decoding, Returned
  <2>9. Pool' = {}
    BY <1>1, <2>1 DEF Pool
  <2> QED BY <1>3, <2>4, <2>6, <2>7, <2>8, <2>9 DEF IInv, Active
<1> QED BY <1>5, <1>6, <1>7

\* The chunks of a stream are its first ones.
LEMMA ChunksAre ==
    ASSUME NEW s \in [chunks : Seq(StreamChunk), rest : BOOLEAN]
    PROVE  Chunks(s) \in Seq(StreamChunk)
<1> DEFINE S == StreamChunk
           q == s.chunks
           F == {i \in DOMAIN q : q[i].final}
<1>1. q \in Seq(S)
  OBVIOUS
<1> HIDE DEF S
<1>2. DOMAIN q = 1 .. Len(q) /\ Len(q) \in Nat
  BY <1>1
<1>3. CASE F = {}
  <2>1. Chunks(s) = q
    BY <1>3 DEF Chunks
  <2> QED BY <1>1, <2>1 DEF S
<1>4. CASE F # {}
  <2> DEFINE R(i) == i \in F /\ \A k \in F : i <= k
             m == CHOOSE i \in F : \A k \in F : i <= k
  <2>0. F \in SUBSET Nat
    BY <1>2
  <2>1. \E i \in F : \A k \in F : i <= k
    <3> HIDE DEF F
    <3> QED BY <1>4, <2>0, LeastNat
  <2>2. m \in F
    <3> HIDE DEF F
    <3> QED BY <2>1
  <2>3. m \in 1 .. Len(q)
    BY <1>2, <2>2
  <2>4. Chunks(s) = SubSeq(q, 1, m)
    BY <1>4 DEF Chunks
  <2> HIDE DEF m, F, q
  <2>5. SubSeq(q, 1, m) \in Seq(S)
    <3>1. 1 \in 1 .. Len(q) + 1 /\ m \in (1 - 1) .. Len(q)
      BY <1>2, <2>3
    <3> QED BY <1>1, <3>1, SubSeqProperties
  <2> QED BY <2>4, <2>5 DEF S
<1> QED BY <1>3, <1>4

\* A stream is handed to the decoder.
LEMMA DecodeCallStep ==
    ASSUME IInv, DecodeCall
    PROVE  IInv'
<1>1. /\ MemoryTypes /\ call.stage = "written" /\ Joined /\ Pool = {}
      /\ workers' = workers /\ slots' = slots /\ err' = err
  BY DEF IInv, DecodeCall, Active
<1>2. PICK s \in {[chunks |-> call.stream, rest |-> FALSE]} \cup DamagedStreams,
           options \in MemorySetups :
         /\ setup' = [options EXCEPT !.chunks = Len(Chunks(s)),
                         !.eligible = @ \cap 1 .. Len(Chunks(s)), !.policy = "global"]
         /\ call' = [stage |-> IF ParseError(s) = "none" THEN "spawn" ELSE "returned",
                     result |-> ParseError(s), stream |-> Chunks(s)]
         /\ queues' = [queues EXCEPT !.all = Numbers(Len(Chunks(s)))]
         /\ slices' = [i \in DOMAIN Chunks(s) |-> <<>>]
  BY DEF DecodeCall
<1>3. s \in [chunks : Seq(StreamChunk), rest : BOOLEAN]
  <2>1. call.stream \in Seq(StreamChunk)
    BY <1>1 DEF MemoryTypes
  <2>2. DamagedStreams \subseteq [chunks : Seq(StreamChunk), rest : BOOLEAN]
    BY MemoryAssumption DEF StreamChunk
  <2> DEFINE S == Seq(StreamChunk)
  <2> HIDE DEF S
  <2>3. call.stream \in S /\ DamagedStreams \subseteq [chunks : S, rest : BOOLEAN]
    BY <2>1, <2>2 DEF S
  <2>4. s \in [chunks : S, rest : BOOLEAN]
    <3>1. CASE s \in DamagedStreams
      BY <2>3, <3>1
    <3>2. CASE s = [chunks |-> call.stream, rest |-> FALSE]
      BY <2>3, <3>2
    <3> QED BY <1>2, <3>1, <3>2
  <2> QED BY <2>4 DEF S
<1> DEFINE c == Chunks(s)
           n == Len(c)
           e == ParseError(s)
<1>4. c \in Seq(StreamChunk)
  BY <1>3, ChunksAre
<1>5. e \in {"parse", "cut", "trailing", "final", "none"}
  BY DEF ParseError
<1>6. /\ setup' = [options EXCEPT !.chunks = n, !.eligible = @ \cap 1 .. n, !.policy = "global"]
      /\ call' = [stage |-> IF e = "none" THEN "spawn" ELSE "returned", result |-> e, stream |-> c]
      /\ queues' = [queues EXCEPT !.all = Numbers(n)]
      /\ slices' = [i \in DOMAIN c |-> <<>>]
  BY <1>2
<1> HIDE DEF c, e
<1>7. n \in Nat /\ DOMAIN c = 1 .. n
  BY <1>4
<1> HIDE DEF n
<1>8. Options' /\ setup'.policy = "global" /\ setup'.chunks = n
  <2>1. /\ options \in [chunks : Nat, eligible : SUBSET Nat, policy : {"global", "split"},
                        gpu : BOOLEAN, force : BOOLEAN]
        /\ options.gpu => GpuSide # {}
    BY <1>2, MemoryAssumption
  <2>2. (options.eligible \cap 1 .. n) \in SUBSET Nat
    BY <2>1
  <2>3. setup' = [chunks |-> n, eligible |-> options.eligible \cap 1 .. n, policy |-> "global",
                  gpu |-> options.gpu, force |-> options.force]
    BY <1>6, <2>1
  <2> QED BY <1>7, <2>1, <2>2, <2>3 DEF Options
<1>9. /\ queues.all \in Seq(Nat) /\ queues.cpu \in Seq(Nat) /\ queues.gpu \in Seq(Nat)
      /\ queues = [all |-> queues.all, cpu |-> queues.cpu, gpu |-> queues.gpu]
  BY <1>1 DEF MemoryTypes
<1>10. queues.cpu = <<>> /\ queues.gpu = <<>>
  BY <1>1, <1>9, EmptyIs DEF Pool
<1>11. /\ queues'.all = Numbers(n) /\ queues'.cpu = <<>> /\ queues'.gpu = <<>>
       /\ queues' \in [all : Seq(Nat), cpu : Seq(Nat), gpu : Seq(Nat)]
  BY <1>6, <1>7, <1>9, <1>10, NumbersAre
<1>12. /\ call'.stage \in {"spawn", "returned"} /\ call'.result = e /\ call'.stream = c
       /\ DOMAIN call' = {"stage", "result", "stream"}
       /\ (call'.stage = "returned" => e # "none")
  BY <1>6
<1>13. MemoryTypes'
  BY <1>1, <1>4, <1>8, <1>11, <1>12 DEF MemoryTypes
<1>14. Compressing'
  BY <1>12 DEF Compressing
<1>15. Decoding'
  <2>1. DOMAIN slices' = DOMAIN call'.stream /\ DOMAIN slices' = 1 .. n
        /\ \A i \in DOMAIN slices' : slices'[i] = <<>>
    BY <1>6, <1>7, <1>12
  <2>2. Len(call'.stream) = n
    BY <1>12 DEF n
  <2> QED BY <1>8, <1>11, <1>12, <2>1, <2>2 DEF Decoding
<1>16. Returned'
  BY <1>5, <1>12 DEF Returned
<1>17. Joined'
  BY <1>1 DEF Joined
<1> QED BY <1>12, <1>13, <1>14, <1>15, <1>16, <1>17 DEF IInv, Active

\* Decoding begins with every chunk in the shared queue.
LEMMA SpawnStep ==
    ASSUME IInv, SpawnDecoders
    PROVE  IInv'
<1>1. /\ MemoryTypes /\ Options /\ Decoding /\ Returned /\ call.stage = "spawn"
      /\ setup' = setup /\ queues' = queues /\ slots' = slots /\ slices' = slices /\ err' = err
      /\ call' = [call EXCEPT !.stage = "decode"]
      /\ workers' = [t \in Threads |-> Idle(t, TRUE)]
  BY DEF IInv, SpawnDecoders, MemoryTypes
<1>2. /\ call'.stage = "decode" /\ call'.result = call.result /\ call'.stream = call.stream
      /\ DOMAIN call' = {"stage", "result", "stream"} /\ call'.stream \in Seq(StreamChunk)
  BY <1>1 DEF MemoryTypes
<1>3. /\ setup.policy = "global" /\ setup.chunks = Len(call.stream)
      /\ DOMAIN slices = 1 .. setup.chunks
      /\ queues.all = Numbers(setup.chunks) /\ queues.cpu = <<>> /\ queues.gpu = <<>>
      /\ \A i \in DOMAIN slices : slices[i] = <<>>
      /\ slices = <<>> \/ DOMAIN slices = DOMAIN call.stream
  BY <1>1 DEF Decoding
<1>4. setup.chunks \in Nat
  BY <1>1 DEF Options
<1>5. /\ Numbers(setup.chunks) \in Seq(Nat) /\ Distinct(Numbers(setup.chunks))
      /\ ToSet(Numbers(setup.chunks)) = 1 .. setup.chunks
  BY <1>4, NumbersAre
<1>6. Pool' = 1 .. setup.chunks
  BY <1>1, <1>3, <1>5, EmptyIs DEF Pool
<1>7. Queued'
  BY <1>1, <1>3, <1>5, EmptyIs DEF Queued
<1>8. ReadyChunks' = {}
  BY <1>1, <1>2, <1>3 DEF ReadyChunks
<1>9. /\ workers' \in [Threads -> WorkerState] /\ Spread' /\ InHands' /\ Quits'
      /\ \A t \in Threads : workers'[t].done = <<>>
  BY <1>1, <1>2, <1>6, <1>8, FreshStep
<1>10. MemoryTypes'
  BY <1>1, <1>2, <1>9 DEF MemoryTypes, Options
<1>11. Compressing' /\ Returned'
  BY <1>1, <1>2 DEF Compressing, Returned
<1>12. Decoding'
  <2>1. \A t \in Threads : ToSet(workers'[t].done) = {}
    BY <1>9, EmptyIs
  <2> QED BY <1>1, <1>2, <1>3, <2>1 DEF Decoding
<1> QED BY <1>2, <1>7, <1>9, <1>10, <1>11, <1>12 DEF IInv, Active

\* A decoder that has neither a CPU worker nor a forced device is forced to use one it has
\* not got.
LEMMA DecodersEnd ==
    ASSUME IInv, call.stage = "decode", Joined, ~Panicked, err = "none", ~(setup.force /\ ~setup.gpu)
    PROVE  \A i \in DOMAIN slices : \E r \in Results : r.chunk = i
<1>1. Options
  BY DEF IInv, MemoryTypes
<1>2. \E w \in Spawned(call.stage = "decode") : w \in CpuSide \/ setup.force
  <2>0. (call.stage = "decode") = TRUE
    OBVIOUS
  <2>1. CASE ~setup.force
    BY <2>0, <2>1, MemoryConstants DEF Spawned
  <2>2. CASE setup.force /\ setup.gpu
    <3>1. (CHOOSE g \in GpuSide : TRUE) \in Spawned(TRUE)
      BY <2>2 DEF Spawned
    <3> QED BY <2>0, <2>2, <3>1
  <2> QED BY <2>1, <2>2
<1>3. Active
  BY DEF Active
<1>4. \A i \in 1 .. setup.chunks : i \in ReadyChunks
  BY <1>2, <1>3, AllDone
<1>5. /\ DOMAIN slices = 1 .. setup.chunks
      /\ \A i \in DOMAIN slices : slices[i] # <<>> => \E r \in Results : r.chunk = i
  BY DEF IInv, Decoding
<1>6. \A i \in 1 .. setup.chunks : slices[i] # <<>>
  BY <1>4 DEF ReadyChunks
<1> QED BY <1>5, <1>6

\* Decoding ends: it is only called done when each part of the output has its own chunk.
LEMMA DecodeReturnsStep ==
    ASSUME IInv, DecodeReturns
    PROVE  IInv'
<1>1. /\ MemoryTypes /\ Decoding /\ call.stage = "decode" /\ Joined
      /\ setup' = setup /\ queues' = queues /\ workers' = workers /\ slots' = slots
      /\ slices' = slices /\ err' = err
  BY DEF IInv, DecodeReturns
<1>2. /\ DOMAIN call = {"stage", "result", "stream"} /\ call.stream \in Seq(StreamChunk)
      /\ err \in {"none"} \union MemoryFaults
  BY <1>1 DEF MemoryTypes
<1>3. PICK e : /\ call' = [call EXCEPT !.stage = "returned", !.result = e]
               /\ e = "missing" => /\ ~Panicked
                                   /\ err = "none" \/ e = err
                                   /\ err = "none" =>
                                         \E i \in DOMAIN slices : \A r \in Results : r.chunk # i
               /\ e = "ok" => \/ ~Panicked /\ err # "none" /\ e = err
                              \/ /\ ~Panicked /\ err = "none" /\ \A r \in Results : r.ok
                                 /\ \A i \in DOMAIN slices : \E r \in Results : r.chunk = i
  <2> DEFINE twice == \E i \in DOMAIN slices :
                         FoldSet(LAMBDA t, n : n + Len(SelectSeq(workers[t].done,
                                                      LAMBDA r : r.chunk = i)), 0, Threads) > 1
             result == IF Panicked THEN "panicked"
                       ELSE IF err # "none" THEN err
                       ELSE IF twice THEN "duplicate"
                       ELSE IF \E r \in Results : ~r.ok THEN "damaged"
                       ELSE IF \E i \in DOMAIN slices : \A r \in Results : r.chunk # i THEN "missing"
                       ELSE "ok"
  <2>1. call' = [call EXCEPT !.stage = "returned", !.result = result]
    BY DEF DecodeReturns
  <2> HIDE DEF twice
  <2>2. result = "missing" => /\ ~Panicked
                              /\ err = "none" \/ result = err
                              /\ err = "none" =>
                                    \E i \in DOMAIN slices : \A r \in Results : r.chunk # i
    OBVIOUS
  <2>3. result = "ok" => \/ ~Panicked /\ err # "none" /\ result = err
                         \/ /\ ~Panicked /\ err = "none" /\ \A r \in Results : r.ok
                            /\ \A i \in DOMAIN slices : \E r \in Results : r.chunk = i
    OBVIOUS
  <2> HIDE DEF result
  <2> QED BY <2>1, <2>2, <2>3
<1>4. err # "missing" /\ err # "ok"
  BY <1>2, MemoryAssumption
<1>5. /\ call'.stage = "returned" /\ call'.result = e /\ call'.stream = call.stream
      /\ DOMAIN call' = {"stage", "result", "stream"}
  BY <1>2, <1>3
<1>6. MemoryTypes'
  BY <1>1, <1>2, <1>5 DEF MemoryTypes, Options
<1>7. Compressing' /\ Joined'
  BY <1>1, <1>5 DEF Compressing, Joined
<1>8. Decoding'
  BY <1>1, <1>5 DEF Decoding
<1>9. /\ DOMAIN slices = 1 .. setup.chunks
      /\ \A t \in Threads : \A r \in ToSet(workers[t].done) :
            slices[r.chunk] = <<IF r.ok THEN call.stream[r.chunk].id ELSE 0>>
  BY <1>1 DEF Decoding
<1>10. ASSUME e = "missing"
       PROVE  slices # <<>> /\ setup.force /\ ~setup.gpu
  <2>1. ~Panicked /\ err = "none" /\ \E i \in DOMAIN slices : \A r \in Results : r.chunk # i
    BY <1>3, <1>4, <1>10
  <2>2. setup.force /\ ~setup.gpu
    BY <1>1, <2>1, DecodersEnd
  <2> QED BY <2>1, <2>2
<1>11. ASSUME e = "ok", NEW i \in DOMAIN slices
       PROVE  slices[i] = <<call.stream[i].id>>
  <2>1. PICK r \in Results : r.chunk = i /\ r.ok
    BY <1>3, <1>4, <1>11
  <2>2. PICK t \in Threads : r \in ToSet(workers[t].done)
    BY DEF Results
  <2> QED BY <1>9, <2>1, <2>2
<1>12. Returned'
  BY <1>1, <1>5, <1>10, <1>11 DEF Returned
<1> QED BY <1>5, <1>6, <1>7, <1>8, <1>12 DEF IInv, Active

--------------------------------------------------------------------------------
(* The theorems.                                                               *)

LEMMA InitHolds == ASSUME MemoryInit PROVE IInv
<1>1. /\ setup \in MemorySetups /\ call = [stage |-> "start", result |-> "none", stream |-> <<>>]
      /\ queues = [all |-> <<>>, cpu |-> <<>>, gpu |-> <<>>]
      /\ workers = [t \in Threads |-> [stage |-> "left", held |-> <<>>, done |-> <<>>]]
      /\ slots = <<>> /\ slices = <<>> /\ err = "none"
  BY DEF MemoryInit
<1>2. Options
  BY <1>1, MemoryAssumption DEF Options
<1>3. /\ <<>> \in Seq(Nat) /\ <<>> \in Seq(StreamChunk) /\ <<>> \in Seq([chunk : Nat, ok : BOOLEAN])
  OBVIOUS
<1>4. workers \in [Threads -> WorkerState]
  <2>1. [stage |-> "left", held |-> <<>>, done |-> <<>>] \in WorkerState
    BY <1>3 DEF WorkerState
  <2> QED BY <1>1, <2>1
<1>5. MemoryTypes
  BY <1>1, <1>2, <1>3, <1>4 DEF MemoryTypes
<1>6. Compressing /\ Decoding /\ Returned
  BY <1>1 DEF Compressing, Decoding, Returned
<1>7. Joined
  BY <1>1 DEF Joined
<1> QED BY <1>1, <1>5, <1>6, <1>7 DEF IInv, Active

\* The inductive invariant: chunk by chunk, where it is while workers take, hold and finish
\* them, and what the caller may conclude when they have left.
THEOREM MemoryInvariant == MemorySpec => []IInv
<1>1. MemoryInit => IInv
  BY InitHolds
<1>2. IInv /\ [MemoryNext]_memoryVars => IInv'
  <2> SUFFICES ASSUME IInv, [MemoryNext]_memoryVars PROVE IInv'
    OBVIOUS
  <2>1. CASE UNCHANGED memoryVars
    <3>1. /\ setup' = setup /\ call' = call /\ queues' = queues /\ workers' = workers
          /\ slots' = slots /\ slices' = slices /\ err' = err
      BY <2>1 DEF memoryVars
    <3>2. Pool' = Pool /\ ReadyChunks' = ReadyChunks /\ Results' = Results /\ Active' = Active /\ Joined' = Joined
          /\ Spawned(call.stage = "decode")' = Spawned(call.stage = "decode")
          /\ \A t \in Threads : HeldBy(t)' = HeldBy(t)
      BY <3>1 DEF Pool, ReadyChunks, Results, Active, Joined, Spawned, HeldBy
    <3>3. MemoryTypes' /\ Compressing'
      BY <3>1, <3>2 DEF IInv, MemoryTypes, Options, Compressing
    <3>4. Decoding'
      BY <3>1, <3>2 DEF IInv, Decoding
    <3>5. Returned'
      BY <3>1, <3>2 DEF IInv, Returned
    <3>6. ASSUME Active PROVE (Queued /\ Spread /\ InHands /\ Quits)'
      <4>1. Queued' /\ InHands' /\ Quits'
        BY <3>1, <3>2, <3>6 DEF IInv, Queued, InHands, Quits
      <4>2. Spread'
        BY <3>1, <3>2, <3>6 DEF IInv, Spread
      <4> QED BY <4>1, <4>2
    <3> QED BY <3>1, <3>2, <3>3, <3>4, <3>5, <3>6 DEF IInv
  <2>2. CASE \E t \in Threads : MemoryWorker(t)
    BY <2>2, WorkerInvariant
  <2>3. CASE MemoryCaller
    BY <2>3, CompressCallStep, CompressReturnsStep, DecodeCallStep, SpawnStep,
       DecodeReturnsStep DEF MemoryCaller
  <2>4. CASE MemoryEnded
    BY <2>1, <2>4 DEF MemoryEnded
  <2> QED BY <2>1, <2>2, <2>3, <2>4 DEF MemoryNext
<1> QED BY <1>1, <1>2, PTL DEF MemorySpec

\* However many workers there are, whichever queues they share and whatever fails: a buffer
\* is only compressed with each chunk in its place, no part of the output is decoded into
\* twice, and what is called decoded is.
THEOREM MemoryIsSound == MemorySpec => []InMemorySound
<1>1. IInv => InMemorySound
  <2> SUFFICES ASSUME IInv PROVE InMemorySound
    OBVIOUS
  <2>1. CompressExact
    BY DEF IInv, MemoryTypes, Compressing, Returned, CompressExact
  <2>2. \A i \in DOMAIN slices : Len(slices[i]) <= 1
    <3>1. \A i \in DOMAIN slices : slices[i] = <<>> \/ slices[i] = <<slices[i][1]>>
      BY DEF IInv, Decoding
    <3>2. Len(<<>>) <= 1 /\ \A x : Len(<<x>>) <= 1
      OBVIOUS
    <3>3. ASSUME NEW i \in DOMAIN slices PROVE Len(slices[i]) <= 1
      BY <3>1, <3>2, Zenon
    <3> QED BY <3>3
  <2>3. DecodeExact
    BY <2>2 DEF IInv, Returned, DecodeExact
  <2> QED BY <2>1, <2>3 DEF InMemorySound
<1> QED BY <1>1, MemoryInvariant, PTL

--------------------------------------------------------------------------------
(* Picking from a sequence and sorting it, as ChunkOrder has them.                *)

\* How many of the first numbers there are.
LEMMA FirstNumbers ==
    ASSUME NEW n \in Nat
    PROVE  IsFiniteSet(1 .. n) /\ Cardinality(1 .. n) = n
<1>1. IsFiniteSet(1 .. n) /\ Cardinality(1 .. n) = IF 1 > n THEN 0 ELSE n - 1 + 1
  BY FS_Interval
<1> QED BY <1>1

\* The positions that are picked, in their order.
PickOrder(I) == [k \in 1 .. Cardinality(I) |-> CHOOSE i \in I : Cardinality({j \in I : j <= i}) = k]

\* They are numbered one after the other.
LEMMA PickedPositions ==
    ASSUME NEW n \in Nat, NEW I \in SUBSET (1 .. n)
    PROVE  /\ Cardinality(I) \in Nat
           /\ PickOrder(I) \in [1 .. Cardinality(I) -> I]
           /\ \A i \in I : \E k \in 1 .. Cardinality(I) : PickOrder(I)[k] = i
           /\ \A k, m \in 1 .. Cardinality(I) : PickOrder(I)[k] = PickOrder(I)[m] => k = m
           /\ \A k, m \in 1 .. Cardinality(I) : k < m => PickOrder(I)[k] < PickOrder(I)[m]
<1> DEFINE c == Cardinality(I)
           Below(i) == {j \in I : j <= i}
           rank == [i \in I |-> Cardinality(Below(i))]
           e == [k \in 1 .. c |-> CHOOSE i \in I : Cardinality(Below(i)) = k]
<1>1. IsFiniteSet(I) /\ c \in Nat
  BY FirstNumbers, FS_Subset, FS_CardinalityType
<1>2. \A i \in I : Below(i) \in SUBSET I /\ IsFiniteSet(Below(i)) /\ i \in Below(i)
  BY <1>1, FS_Subset
<1>3. \A i \in I : rank[i] \in 1 .. c
  <2> TAKE i \in I
  <2>1. Cardinality(Below(i)) \in Nat /\ Cardinality(Below(i)) <= c
    BY <1>1, <1>2, FS_Subset, FS_CardinalityType
  <2>2. Cardinality(Below(i)) # 0
    BY <1>2, FS_EmptySet
  <2> QED BY <2>1, <2>2, <1>1
<1>4. \A i, k \in I : i < k => rank[i] < rank[k]
  <2> TAKE i, k \in I
  <2> HAVE i < k
  <2>0. i \in Int /\ k \in Int /\ \A j \in I : j \in Int
    OBVIOUS
  <2>4. \A j \in I : j <= i => j <= k
    BY <2>0
  <2>5. ~(k <= i) /\ k <= k
    BY <2>0
  <2>1. Below(i) \in SUBSET Below(k) /\ k \notin Below(i) /\ k \in Below(k)
    BY <2>4, <2>5
  <2>2. Cardinality(Below(i)) <= Cardinality(Below(k)) /\ Cardinality(Below(i)) # Cardinality(Below(k))
    BY <1>2, <2>1, FS_Subset
  <2>3. rank[i] \in Nat /\ rank[k] \in Nat
    BY <1>3, <1>1
  <2> QED BY <2>2, <2>3
<1>5. \A i, k \in I : rank[i] = rank[k] => i = k
  BY <1>4, <1>3, <1>1
<1>6. rank \in Injection(I, 1 .. c)
  BY <1>3, <1>5, Fun_IsInj
<1>7. IsFiniteSet(1 .. c) /\ Cardinality(1 .. c) = c
  BY <1>1, FirstNumbers
<1>8. rank \in Surjection(I, 1 .. c)
  BY <1>6, <1>7, FS_Injection
<1>9. \A k \in 1 .. c : \E i \in I : rank[i] = k
  BY <1>8 DEF Surjection
<1>10. \A k \in 1 .. c : e[k] \in I /\ rank[e[k]] = k
  <2> TAKE k \in 1 .. c
  <2>1. \E i \in I : Cardinality(Below(i)) = k
    BY <1>9
  <2> HIDE DEF Below
  <2>2. e[k] \in I /\ Cardinality(Below(e[k])) = k
    BY <2>1
  <2> QED BY <2>2
<1> HIDE DEF e, rank, c
<1>12. e \in [1 .. c -> I]
  BY <1>10 DEF e
<1>13. \A i \in I : \E k \in 1 .. c : e[k] = i
  BY <1>3, <1>5, <1>10
<1>14. \A k, m \in 1 .. c : e[k] = e[m] => k = m
  BY <1>10
<1>15. \A k, m \in 1 .. c : k < m => e[k] < e[m]
  <2> TAKE k, m \in 1 .. c
  <2>1. e[k] \in I /\ e[m] \in I /\ rank[e[k]] = k /\ rank[e[m]] = m
    BY <1>10
  <2>2. e[m] < e[k] => m < k
    BY <2>1, <1>4
  <2>3. e[m] = e[k] => m = k
    BY <2>1
  <2>4. e[k] \in Int /\ e[m] \in Int
    <3>1. \A i \in I : i \in Int
      OBVIOUS
    <3> QED BY <2>1, <3>1
  <2>5. k \in Int /\ m \in Int
    OBVIOUS
  <2> QED BY <2>2, <2>3, <2>4, <2>5
<1>16. e = PickOrder(I)
  BY DEF e, c, PickOrder
<1> QED BY <1>1, <1>12, <1>13, <1>14, <1>15, <1>16 DEF c

\* Answers that are each to one of the chunks asked for, all of them, once: sorted they are
\* in the order in which they were asked for.
LEMMA SortedAnswers ==
    ASSUME NEW S, NEW answers \in Seq(S), \A a \in S : a.chunk \in Nat,
           NEW T, NEW asked \in Seq(T), \A a \in T : a.chunk \in Nat,
           Increasing(asked),
           \A i, k \in DOMAIN answers : answers[i].chunk = answers[k].chunk => i = k,
           \A i \in DOMAIN answers : \E p \in DOMAIN asked : asked[p].chunk = answers[i].chunk,
           \A p \in DOMAIN asked : \E i \in DOMAIN answers : asked[p].chunk = answers[i].chunk
    PROVE  LET sorted == ByChunk(answers) IN
           /\ sorted \in Seq(S)
           /\ [i \in DOMAIN sorted |-> sorted[i].chunk] = [i \in DOMAIN asked |-> asked[i].chunk]
           /\ \A i \in DOMAIN sorted : \E k \in DOMAIN answers : sorted[i] = answers[k]
<1> DEFINE m == Len(answers)  n == Len(asked)
           spot == [i \in 1 .. m |-> CHOOSE p \in 1 .. n : asked[p].chunk = answers[i].chunk]
           Below(i) == {j \in DOMAIN answers :
                          \/ answers[j].chunk < answers[i].chunk
                          \/ answers[j].chunk = answers[i].chunk /\ j <= i}
<1>1. /\ m \in Nat /\ n \in Nat /\ DOMAIN answers = 1 .. m /\ DOMAIN asked = 1 .. n
      /\ \A i \in 1 .. m : answers[i] \in S /\ answers[i].chunk \in Nat
      /\ \A p \in 1 .. n : asked[p].chunk \in Nat
  BY LenProperties
<1>2. \A i \in 1 .. m : spot[i] \in 1 .. n /\ asked[spot[i]].chunk = answers[i].chunk
  <2> TAKE i \in 1 .. m
  <2>1. \E p \in 1 .. n : asked[p].chunk = answers[i].chunk
    BY <1>1
  <2> QED BY <2>1
<1>30. \A p, q \in 1 .. n : p < q => asked[p].chunk < asked[q].chunk
  BY <1>1 DEF Increasing
<1>4. \A p, q \in 1 .. n : asked[p].chunk = asked[q].chunk => p = q
  <2> TAKE p, q \in 1 .. n
  <2>1. /\ p < q => asked[p].chunk < asked[q].chunk
        /\ q < p => asked[q].chunk < asked[p].chunk
    BY <1>30
  <2>2. asked[p].chunk \in Nat /\ asked[q].chunk \in Nat /\ p \in Int /\ q \in Int
    BY <1>1
  <2> HIDE DEF n
  <2> QED BY <2>1, <2>2
<1>3. \A p, q \in 1 .. n : asked[p].chunk < asked[q].chunk <=> p < q
  <2> TAKE p, q \in 1 .. n
  <2>1. /\ p < q => asked[p].chunk < asked[q].chunk
        /\ q < p => asked[q].chunk < asked[p].chunk
        /\ p = q => asked[p].chunk = asked[q].chunk
    BY <1>30
  <2>2. asked[p].chunk \in Nat /\ asked[q].chunk \in Nat /\ p \in Int /\ q \in Int
    BY <1>1
  <2> HIDE DEF n
  <2> QED BY <2>1, <2>2
<1>5. \A p \in 1 .. n : \E i \in 1 .. m : spot[i] = p
  <2> TAKE p \in 1 .. n
  <2>1. PICK i \in 1 .. m : asked[p].chunk = answers[i].chunk
    BY <1>1
  <2>2. spot[i] = p
    BY <2>1, <1>2, <1>4
  <2> QED BY <2>2
<1>6. spot \in [1 .. m -> 1 .. n] /\ \A i, k \in 1 .. m : spot[i] = spot[k] => i = k
  <2>1. \A i, k \in 1 .. m : answers[i].chunk = answers[k].chunk => i = k
    BY <1>1
  <2>2. \A i, k \in 1 .. m : spot[i] = spot[k] => i = k
    <3> TAKE i, k \in 1 .. m
    <3>1. asked[spot[i]].chunk = answers[i].chunk /\ asked[spot[k]].chunk = answers[k].chunk
      BY <1>2
    <3>2. answers[i].chunk = answers[k].chunk => i = k
      BY <2>1
    <3> QED BY <3>1, <3>2
  <2> QED BY <2>2, <1>2
<1> HIDE DEF spot
<1>7. \A i \in 1 .. m : PlaceOf(answers, i) = spot[i]
  <2> TAKE i \in 1 .. m
  <2>1. Below(i) = {j \in 1 .. m : spot[j] <= spot[i]}
    <3>1. \A j \in 1 .. m : j \in Below(i) <=> spot[j] <= spot[i]
      <4> TAKE j \in 1 .. m
      <4>1. answers[j].chunk < answers[i].chunk <=> spot[j] < spot[i]
        BY <1>2, <1>3
      <4>2. answers[j].chunk = answers[i].chunk <=> j = i
        BY <1>1
      <4>3. spot[j] \in Nat /\ spot[i] \in Nat /\ (j = i <=> spot[j] = spot[i])
        <5>1. spot[j] \in 1 .. n /\ spot[i] \in 1 .. n
          BY <1>2
        <5> QED BY <5>1, <1>6
      <4> QED BY <4>1, <4>2, <4>3, <1>1
    <3> QED BY <3>1, <1>1
  <2> DEFINE f == [j \in Below(i) |-> spot[j]]
  <2>2. spot[i] \in 1 .. n
    BY <1>6
  <2>3. f \in [Below(i) -> 1 .. spot[i]]
    BY <2>1, <1>6
  <2>4. \A j, k \in Below(i) : f[j] = f[k] => j = k
    BY <2>1, <1>6
  <2>5. \A p \in 1 .. spot[i] : \E j \in Below(i) : f[j] = p
    <3> TAKE p \in 1 .. spot[i]
    <3>0. p \in 1 .. n /\ p <= spot[i]
      BY <2>2, <1>1
    <3>1. PICK j \in 1 .. m : spot[j] = p
      BY <1>5, <3>0
    <3>2. j \in Below(i)
      BY <3>0, <3>1, <2>1
    <3> QED BY <3>1, <3>2
  <2> HIDE DEF Below
  <2>6. f \in Bijection(Below(i), 1 .. spot[i])
    BY <2>3, <2>4, <2>5, Fun_IsBij
  <2>7. Below(i) \in SUBSET (1 .. m) /\ IsFiniteSet(Below(i))
    BY <2>1, <1>1, FirstNumbers, FS_Subset
  <2>8. Cardinality(1 .. spot[i]) = Cardinality(Below(i))
    BY <2>6, <2>7, FS_Bijection DEF ExistsBijection
  <2>9. Cardinality(1 .. spot[i]) = spot[i]
    BY <2>2, FirstNumbers
  <2> QED BY <2>8, <2>9, <1>1 DEF PlaceOf, Below
<1>8. m = n
  <2>1. spot \in Bijection(1 .. m, 1 .. n)
    BY <1>5, <1>6, Fun_IsBij
  <2>2. Cardinality(1 .. m) = Cardinality(1 .. n)
    BY <2>1, <1>1, FirstNumbers, FS_Bijection DEF ExistsBijection
  <2>3. Cardinality(1 .. m) = m /\ Cardinality(1 .. n) = n
    BY <1>1, FirstNumbers
  <2> QED BY <2>2, <2>3
<1> DEFINE sorted == ByChunk(answers)
           from == [k \in 1 .. m |-> CHOOSE i \in 1 .. m : PlaceOf(answers, i) = k]
<1>9. \A k \in 1 .. m : from[k] \in 1 .. m /\ spot[from[k]] = k
  <2> TAKE k \in 1 .. m
  <2>1. \E i \in 1 .. m : PlaceOf(answers, i) = k
    BY <1>5, <1>7, <1>8
  <2>2. from[k] \in 1 .. m /\ PlaceOf(answers, from[k]) = k
    BY <2>1
  <2> QED BY <2>2, <1>7
<1>10. sorted = [k \in 1 .. m |-> answers[from[k]]]
  BY <1>1 DEF ByChunk
<1> HIDE DEF from, sorted
<1>11. sorted \in [1 .. m -> S]
  BY <1>1, <1>9, <1>10
<1>12. sorted \in Seq(S)
  BY <1>1, <1>11, SeqDef
<1>13. DOMAIN sorted = 1 .. m /\ \A k \in 1 .. m : sorted[k].chunk = asked[k].chunk
  BY <1>2, <1>9, <1>10
<1>14. [i \in DOMAIN sorted |-> sorted[i].chunk] = [i \in DOMAIN asked |-> asked[i].chunk]
  BY <1>1, <1>8, <1>13
<1>15. \A i \in DOMAIN sorted : \E k \in DOMAIN answers : sorted[i] = answers[k]
  BY <1>1, <1>9, <1>10, <1>13
<1> QED BY <1>12, <1>14, <1>15 DEF sorted

\* A finite set as a sequence.
LEMMA SetAsSeq ==
    ASSUME NEW S, IsFiniteSet(S)
    PROVE  /\ SetToSeq(S) \in Seq(S)
           /\ \A x \in S : \E i \in DOMAIN SetToSeq(S) : SetToSeq(S)[i] = x
           /\ \A i, k \in DOMAIN SetToSeq(S) : SetToSeq(S)[i] = SetToSeq(S)[k] => i = k
<1> DEFINE c == Cardinality(S)
<1>1. c \in Nat /\ ExistsBijection(1 .. c, S)
  BY FS_CardinalityType
<1>2. PICK b \in Bijection(1 .. c, S) : TRUE
  BY <1>1 DEF ExistsBijection
<1>3. b \in [1 .. c -> S] /\ IsInjective(b)
  BY <1>2 DEF Bijection, Injection, Surjection
<1> DEFINE f == SetToSeq(S)
<1>4. f \in [1 .. c -> S] /\ IsInjective(f)
  BY <1>3 DEF SetToSeq
<1> HIDE DEF f, c
<1>5. DOMAIN f = 1 .. c /\ \A i, k \in 1 .. c : f[i] = f[k] => i = k
  BY <1>4 DEF IsInjective
<1>6. f \in Injection(1 .. c, S)
  BY <1>4, <1>5, Fun_IsInj
<1>7. Cardinality(1 .. c) = Cardinality(S)
  BY <1>1, FirstNumbers DEF c
<1>8. f \in Surjection(1 .. c, S)
  BY <1>6, <1>7, FS_Injection
<1>9. \A x \in S : \E i \in 1 .. c : f[i] = x
  BY <1>8 DEF Surjection
<1>10. f \in Seq(S)
  BY <1>1, <1>4, SeqDef
<1> QED BY <1>5, <1>9, <1>10 DEF f

--------------------------------------------------------------------------------
(* Calls on slots (PdeflateGpuDecode): where each chunk of a call is, and which    *)
(* submission a slot serves.                                                       *)

Answers     == [chunk : Nat, gpu : Nat]
SlotKind    == [state : {"free", "inflight", "ready"}, holds : Nat, op : Nat,
                buffer : {"unmapped", "pending", "mapped"}]
Submissions == [op : Nat, job : DecodeJobs, class : Classes, slot : Nat,
                map : {"waiting", "ok", "kernel", "map"}]
DecodeStages == {"call", "complete", "submit", "wait", "returned", "failed", "panicked", "done"}

SlotTypes ==
    /\ decodeCalls \in Seq(Seq(DecodeJobs))
    /\ \A n \in DOMAIN decodeCalls : Increasing(decodeCalls[n])
    /\ DOMAIN pool = Classes
    /\ \A c \in Classes : pool[c] = [cap |-> pool[c].cap, slots |-> pool[c].slots]
    /\ \A c \in Classes : pool[c].slots \in Seq(SlotKind)
    /\ jobs \in Seq(DecodeJobs) /\ nextJob \in 1 .. Len(jobs) + 1
    /\ inflight \in SUBSET Submissions /\ IsFiniteSet(inflight)
    /\ gpuOps \in Seq(Nat) /\ ops \in Nat
    /\ round.stage \in DecodeStages
    /\ round = [stage |-> round.stage, limit |-> round.limit, budget |-> round.budget,
                submitted |-> round.submitted, completed |-> round.completed,
                stalled |-> round.stalled]
    /\ results \in Seq(Answers)

\* Submissions are known by their numbers, and the device finishes them in that order; one
\* that it has not finished is waited for or was given up.
OpsNumbered ==
    /\ \A s, u \in inflight : s.op = u.op => s = u
    /\ \A s \in inflight : s.op <= ops
    /\ \A i \in DOMAIN gpuOps : gpuOps[i] \in 1 .. ops
    /\ \A i, k \in DOMAIN gpuOps : i # k => gpuOps[i] # gpuOps[k]
    /\ \A s \in inflight : \A i \in DOMAIN gpuOps : gpuOps[i] = s.op => s.map = "waiting"

\* A slot is held by the submission it was used for, or its buffer is as it was before,
\* unless the mapping was given up.
SlotsHeld ==
    /\ \A s \in inflight :
          /\ s.slot \in Slots(s.class)
          /\ pool[s.class].slots[s.slot].op = s.op
          /\ pool[s.class].slots[s.slot].state = "inflight"
          /\ pool[s.class].slots[s.slot].holds = s.job.chunk
          /\ s.map = "map" => pool[s.class].slots[s.slot].buffer = "unmapped"
    /\ \A c \in Classes : \A i \in Slots(c) :
          /\ pool[c].slots[i].op <= ops
          /\ pool[c].slots[i].state = "inflight" =>
                \E s \in inflight : s.class = c /\ s.slot = i /\ s.op = pool[c].slots[i].op
          /\ pool[c].slots[i].state # "inflight" =>
                \/ pool[c].slots[i].op \in late
                \/ /\ pool[c].slots[i].buffer = "unmapped"
                   /\ \A k \in DOMAIN gpuOps : gpuOps[k] # pool[c].slots[i].op
    /\ round.stage = "panicked" => late # {}
    /\ round.stage \in {"returned", "failed", "call", "done"} =>
          /\ inflight = {}
          /\ \A c \in Classes : \A i \in Slots(c) : pool[c].slots[i].state = "free"

\* While a call goes round, each of its chunks is answered, or in one submission, or to come.
AskedNow  == Head(decodeCalls)
ToCome == {k \in DOMAIN jobs : nextJob <= k}
ChunkPlaces ==
    /\ round.stage \notin {"done", "call"} => decodeCalls # <<>>
    /\ round.stage \in {"complete", "submit", "wait"} =>
        /\ \A i, k \in DOMAIN results : results[i].chunk = results[k].chunk => i = k
        /\ \A s, u \in inflight : s.job.chunk = u.job.chunk => s = u
        /\ \A i, k \in ToCome : jobs[i].chunk = jobs[k].chunk => i = k
        /\ \A i \in DOMAIN results : \A s \in inflight : results[i].chunk # s.job.chunk
        /\ \A i \in DOMAIN results : \A k \in ToCome : results[i].chunk # jobs[k].chunk
        /\ \A s \in inflight : \A k \in ToCome : s.job.chunk # jobs[k].chunk
        /\ \A i \in DOMAIN results : \E p \in DOMAIN AskedNow : AskedNow[p].chunk = results[i].chunk
        /\ \A s \in inflight : \E p \in DOMAIN AskedNow : AskedNow[p].chunk = s.job.chunk
        /\ \A k \in ToCome : \E p \in DOMAIN AskedNow : AskedNow[p].chunk = jobs[k].chunk
        /\ \A p \in DOMAIN AskedNow :
              \/ \E i \in DOMAIN results : AskedNow[p].chunk = results[i].chunk
              \/ \E s \in inflight : AskedNow[p].chunk = s.job.chunk
              \/ \E k \in ToCome : AskedNow[p].chunk = jobs[k].chunk
        /\ \A i \in DOMAIN results : results[i].gpu \in {0, results[i].chunk}

DecodeInv == SlotTypes /\ OpsNumbered /\ SlotsHeld /\ ChunkPlaces /\ AnswersExact
--------------------------------------------------------------------------------

LEMMA FunctionIsSeq ==
    ASSUME NEW S, NEW n \in Nat, NEW f \in [1 .. n -> S]
    PROVE  f \in Seq(S) /\ Len(f) = n /\ DOMAIN f = 1 .. n
<1>1. f \in Seq(S)
  BY SeqDef
<1>2. Len(f) \in Nat /\ DOMAIN f = 1 .. Len(f) /\ DOMAIN f = 1 .. n
  BY <1>1, LenProperties
<1> QED BY <1>1, <1>2

\* What the parts of the invariant say while nobody moves.
LEMMA SlotsRest ==
    ASSUME DecodeInv, UNCHANGED slotVars
    PROVE  DecodeInv'
BY DEF DecodeInv, SlotTypes, OpsNumbered, SlotsHeld, ChunkPlaces, AnswersExact, slotVars, AskedNow,
       ToCome, Slots

LEMMA DecodeInitInv == GpuDecodeInit => DecodeInv
<1> SUFFICES ASSUME GpuDecodeInit PROVE DecodeInv
  OBVIOUS
<1>1. /\ decodeCalls \in DecodeCalls /\ pool = [c \in Classes |-> [cap |-> 0, slots |-> <<>>]]
      /\ jobs = <<>> /\ nextJob = 1 /\ inflight = {} /\ gpuOps = <<>> /\ ops = 0
      /\ round = [NewRound EXCEPT !.stage = "call"] /\ results = <<>> /\ late = {}
  BY DEF GpuDecodeInit
<1>2. /\ round.stage = "call"
      /\ round = [stage |-> round.stage, limit |-> round.limit, budget |-> round.budget,
                submitted |-> round.submitted, completed |-> round.completed,
                stalled |-> round.stalled]
  BY <1>1 DEF NewRound
<1>3. \A c \in Classes : pool[c].slots = <<>> /\ Slots(c) = {}
  BY <1>1 DEF Slots
<1>4. SlotTypes
  <2>1. decodeCalls \in Seq(Seq(DecodeJobs)) /\ \A n \in DOMAIN decodeCalls : Increasing(decodeCalls[n])
    BY <1>1, CallsAssumption
  <2>2. IsFiniteSet(inflight) /\ inflight \in SUBSET Submissions
    BY <1>1, FS_EmptySet
  <2>3. /\ DOMAIN pool = Classes
        /\ \A c \in Classes : pool[c] = [cap |-> pool[c].cap, slots |-> pool[c].slots]
        /\ \A c \in Classes : pool[c].slots \in Seq(SlotKind)
    BY <1>1, EmptySeq
  <2>4. jobs \in Seq(DecodeJobs) /\ gpuOps \in Seq(Nat) /\ results \in Seq(Answers)
        /\ nextJob \in 1 .. Len(jobs) + 1 /\ ops \in Nat
    BY <1>1, EmptySeq
  <2> QED BY <1>2, <2>1, <2>2, <2>3, <2>4 DEF SlotTypes, DecodeStages
<1>5. OpsNumbered /\ SlotsHeld /\ ChunkPlaces /\ AnswersExact
  BY <1>1, <1>2, <1>3 DEF OpsNumbered, SlotsHeld, ChunkPlaces, AnswersExact
<1> QED BY <1>4, <1>5 DEF DecodeInv

--------------------------------------------------------------------------------
(* The device.                                                                  *)

LEMMA DeviceStep ==
    ASSUME DecodeInv, DeviceFinishes
    PROVE  DecodeInv'
<1> DEFINE op == Head(gpuOps)
<1>1. PICK how \in {"ok"} \cup (DeviceFaults \cap {"kernel", "map"}) :
        /\ inflight' = {IF s.op = op /\ s.map = "waiting" THEN [s EXCEPT !.map = how] ELSE s :
                             s \in inflight}
        /\ pool' = [c \in Classes |-> [pool[c] EXCEPT !.slots =
                        [i \in DOMAIN @ |-> IF @[i].op # op THEN @[i]
                            ELSE [@[i] EXCEPT !.buffer = IF how = "map" THEN "unmapped"
                                                         ELSE "mapped"]]]]
  BY DEF DeviceFinishes
<1>2. /\ gpuOps # <<>> /\ gpuOps' = Tail(gpuOps)
      /\ UNCHANGED <<decodeCalls, jobs, nextJob, ops, round, spins, results, late>>
  BY DEF DeviceFinishes
<1>3. SlotTypes /\ OpsNumbered /\ SlotsHeld /\ ChunkPlaces /\ AnswersExact
  BY DEF DecodeInv
<1> DEFINE becomes(s) == IF s.op = op /\ s.map = "waiting" THEN [s EXCEPT !.map = how] ELSE s
<1>4. /\ gpuOps' \in Seq(Nat) /\ op \in Nat /\ Len(gpuOps') = Len(gpuOps) - 1 /\ op = gpuOps[1]
      /\ DOMAIN gpuOps = 1 .. Len(gpuOps) /\ DOMAIN gpuOps' = 1 .. Len(gpuOps) - 1
      /\ Len(gpuOps) \in Nat \ {0}
      /\ \A k \in DOMAIN gpuOps' : gpuOps'[k] = gpuOps[k + 1] /\ k + 1 \in DOMAIN gpuOps
  <2>1. gpuOps \in Seq(Nat)
    BY <1>3 DEF SlotTypes
  <2> QED BY <2>1, <1>2, HeadTailProperties, EmptySeq, LenProperties
<1>5. \A k \in DOMAIN gpuOps' : gpuOps'[k] # op /\ gpuOps'[k] \in 1 .. ops
  <2>1. 1 \in DOMAIN gpuOps
    BY <1>4
  <2> QED BY <1>3, <1>4, <2>1 DEF OpsNumbered
<1>6. \A s \in inflight :
        /\ becomes(s).op = s.op /\ becomes(s).job = s.job /\ becomes(s).class = s.class
        /\ becomes(s).slot = s.slot /\ becomes(s) \in Submissions
        /\ becomes(s).map = IF s.op = op THEN how ELSE s.map
  <2> TAKE s \in inflight
  <2>1. s \in Submissions
    BY <1>3 DEF SlotTypes
  <2>2. s.op = op => s.map = "waiting"
    BY <1>3, <1>4 DEF OpsNumbered
  <2>3. how \in {"ok", "kernel", "map"}
    OBVIOUS
  <2> QED BY <2>1, <2>2, <2>3 DEF Submissions
<1>7. /\ \A u \in inflight' : \E s \in inflight : u = becomes(s)
      /\ \A s \in inflight : becomes(s) \in inflight'
  BY <1>1
<1>8. IsFiniteSet(inflight')
  <2> DEFINE f == [s \in inflight |-> becomes(s)]
  <2>1. f \in Surjection(inflight, inflight')
    BY <1>1, <1>7, Fun_IsSurj
  <2>2. IsFiniteSet(inflight)
    BY <1>3 DEF SlotTypes
  <2> QED BY <2>1, <2>2, FS_Surjection
<1>9. ASSUME NEW c \in Classes
      PROVE  /\ pool'[c] = [cap |-> pool'[c].cap, slots |-> pool'[c].slots]
             /\ pool'[c].slots \in Seq(SlotKind)
             /\ DOMAIN pool'[c].slots = DOMAIN pool[c].slots
             /\ \A i \in DOMAIN pool[c].slots :
                  /\ pool'[c].slots[i].op = pool[c].slots[i].op
                  /\ pool'[c].slots[i].state = pool[c].slots[i].state
                  /\ pool'[c].slots[i].holds = pool[c].slots[i].holds
                  /\ pool'[c].slots[i].buffer = IF pool[c].slots[i].op # op THEN pool[c].slots[i].buffer
                                                ELSE IF how = "map" THEN "unmapped" ELSE "mapped"
  <2> DEFINE ring == pool[c].slots
             new == [i \in DOMAIN ring |-> IF ring[i].op # op THEN ring[i]
                            ELSE [ring[i] EXCEPT !.buffer = IF how = "map" THEN "unmapped"
                                                         ELSE "mapped"]]
  <2>1. pool[c] = [cap |-> pool[c].cap, slots |-> ring] /\ ring \in Seq(SlotKind)
    BY <1>3 DEF SlotTypes
  <2>2. pool'[c] = [pool[c] EXCEPT !.slots = new]
    BY <1>1
  <2>3. pool'[c].slots = new /\ pool'[c] = [cap |-> pool'[c].cap, slots |-> pool'[c].slots]
    BY <2>1, <2>2
  <2>4. DOMAIN ring = 1 .. Len(ring) /\ Len(ring) \in Nat /\ \A i \in DOMAIN ring : ring[i] \in SlotKind
    BY <2>1, LenProperties
  <2>5. \A i \in DOMAIN ring :
          /\ new[i] \in SlotKind
          /\ new[i].op = ring[i].op /\ new[i].state = ring[i].state
          /\ new[i].holds = ring[i].holds
          /\ new[i].buffer = IF ring[i].op # op THEN ring[i].buffer
                             ELSE IF how = "map" THEN "unmapped" ELSE "mapped"
    BY <2>4 DEF SlotKind
  <2>6. new \in [1 .. Len(ring) -> SlotKind] /\ DOMAIN new = DOMAIN ring
    BY <2>4, <2>5
  <2> HIDE DEF new
  <2>7. new \in Seq(SlotKind)
    <3> HIDE DEF ring
    <3>1. Len(ring) \in Nat /\ new \in [1 .. Len(ring) -> SlotKind]
      BY <2>4, <2>6
    <3> QED BY <3>1, FunctionIsSeq
  <2> QED BY <2>3, <2>5, <2>6, <2>7
<1>10. DOMAIN pool' = Classes
  BY <1>1
<1> HIDE DEF becomes, op
<1>11. SlotTypes'
  <2>1. inflight' \in SUBSET Submissions
    BY <1>6, <1>7
  <2> QED BY <1>2, <1>3, <1>4, <1>8, <1>9, <1>10, <2>1 DEF SlotTypes
<1>12. OpsNumbered'
  <2>1. \A s, u \in inflight' : s.op = u.op => s = u
    BY <1>3, <1>6, <1>7 DEF OpsNumbered
  <2>2. \A s \in inflight' : s.op <= ops'
    BY <1>2, <1>3, <1>6, <1>7 DEF OpsNumbered
  <2>3. \A i \in DOMAIN gpuOps' : gpuOps'[i] \in 1 .. ops'
    BY <1>2, <1>5
  <2>4. \A i, k \in DOMAIN gpuOps' : i # k => gpuOps'[i] # gpuOps'[k]
    <3> TAKE i, k \in DOMAIN gpuOps'
    <3>1. /\ gpuOps'[i] = gpuOps[i + 1] /\ i + 1 \in DOMAIN gpuOps
          /\ gpuOps'[k] = gpuOps[k + 1] /\ k + 1 \in DOMAIN gpuOps
          /\ i \in Int /\ k \in Int
      BY <1>4
    <3>2. i # k => i + 1 # k + 1
      BY <3>1
    <3> QED BY <1>3, <3>1, <3>2 DEF OpsNumbered
  <2>5. \A s \in inflight' : \A i \in DOMAIN gpuOps' : gpuOps'[i] = s.op => s.map = "waiting"
    <3> TAKE u \in inflight'
    <3> TAKE i \in DOMAIN gpuOps'
    <3>1. PICK s \in inflight : u = becomes(s)
      BY <1>7
    <3>2. gpuOps'[i] # op /\ gpuOps'[i] = gpuOps[i + 1] /\ i + 1 \in DOMAIN gpuOps
      BY <1>4, <1>5
    <3> QED BY <1>3, <1>6, <3>1, <3>2 DEF OpsNumbered
  <2> QED BY <2>5, <2>1, <2>2, <2>3, <2>4 DEF OpsNumbered
<1>13. SlotsHeld'
  <2>1. ASSUME NEW u \in inflight'
        PROVE  /\ u.slot \in DOMAIN pool'[u.class].slots
               /\ pool'[u.class].slots[u.slot].op = u.op
               /\ pool'[u.class].slots[u.slot].state = "inflight"
               /\ pool'[u.class].slots[u.slot].holds = u.job.chunk
               /\ u.map = "map" => pool'[u.class].slots[u.slot].buffer = "unmapped"
    <3>1. PICK s \in inflight : u = becomes(s)
      BY <1>7
    <3>2. s.class \in Classes
      BY <1>3 DEF SlotTypes, Submissions
    <3>3. /\ s.slot \in DOMAIN pool[s.class].slots
          /\ pool[s.class].slots[s.slot].op = s.op
          /\ pool[s.class].slots[s.slot].state = "inflight"
          /\ pool[s.class].slots[s.slot].holds = s.job.chunk
          /\ s.map = "map" => pool[s.class].slots[s.slot].buffer = "unmapped"
      BY <1>3 DEF SlotsHeld, Slots
    <3>4. /\ u.op = s.op /\ u.job = s.job /\ u.class = s.class /\ u.slot = s.slot
          /\ u.map = IF s.op = op THEN how ELSE s.map
      BY <1>6, <3>1
    <3>5. /\ DOMAIN pool'[s.class].slots = DOMAIN pool[s.class].slots
          /\ pool'[s.class].slots[s.slot].op = pool[s.class].slots[s.slot].op
          /\ pool'[s.class].slots[s.slot].state = pool[s.class].slots[s.slot].state
          /\ pool'[s.class].slots[s.slot].holds = pool[s.class].slots[s.slot].holds
          /\ pool'[s.class].slots[s.slot].buffer =
                IF pool[s.class].slots[s.slot].op # op THEN pool[s.class].slots[s.slot].buffer
                ELSE IF how = "map" THEN "unmapped" ELSE "mapped"
      BY <1>9, <3>2, <3>3
    <3> QED BY <3>3, <3>4, <3>5
  <2>2. ASSUME NEW c \in Classes, NEW i \in DOMAIN pool'[c].slots
        PROVE  /\ pool'[c].slots[i].op <= ops'
               /\ pool'[c].slots[i].state = "inflight" =>
                    \E s \in inflight' : s.class = c /\ s.slot = i /\ s.op = pool'[c].slots[i].op
               /\ pool'[c].slots[i].state # "inflight" =>
                    \/ pool'[c].slots[i].op \in late'
                    \/ /\ pool'[c].slots[i].buffer = "unmapped"
                       /\ \A k \in DOMAIN gpuOps' : gpuOps'[k] # pool'[c].slots[i].op
    <3> DEFINE slot == pool[c].slots[i]
    <3>1. /\ i \in DOMAIN pool[c].slots
          /\ pool'[c].slots[i].op = slot.op /\ pool'[c].slots[i].state = slot.state
          /\ pool'[c].slots[i].buffer = IF slot.op # op THEN slot.buffer
                                        ELSE IF how = "map" THEN "unmapped" ELSE "mapped"
      BY <1>9
    <3>2. /\ slot.op <= ops
          /\ slot.state = "inflight" =>
                    \E s \in inflight : s.class = c /\ s.slot = i /\ s.op = slot.op
          /\ slot.state # "inflight" =>
                    \/ slot.op \in late
                    \/ slot.buffer = "unmapped" /\ \A k \in DOMAIN gpuOps : gpuOps[k] # slot.op
      BY <1>3, <3>1 DEF SlotsHeld, Slots
    <3> HIDE DEF slot
    <3>3. slot.state = "inflight" =>
             \E s \in inflight' : s.class = c /\ s.slot = i /\ s.op = slot.op
      BY <1>6, <1>7, <3>2
    <3>4. ASSUME \A k \in DOMAIN gpuOps : gpuOps[k] # slot.op
          PROVE  slot.op # op /\ \A k \in DOMAIN gpuOps' : gpuOps'[k] # slot.op
      <4>1. 1 \in DOMAIN gpuOps /\ op = gpuOps[1]
        BY <1>4
      <4> QED BY <1>4, <3>4, <4>1
    <3> QED BY <1>2, <3>1, <3>2, <3>3, <3>4
  <2>3. round.stage = "panicked" => late # {}
    BY <1>3 DEF SlotsHeld
  <2>4. round.stage \in {"returned", "failed", "call", "done"} =>
          inflight' = {} /\ \A c \in Classes : \A i \in DOMAIN pool'[c].slots :
                               pool'[c].slots[i].state = "free"
    <3> SUFFICES ASSUME round.stage \in {"returned", "failed", "call", "done"}
                 PROVE  inflight' = {} /\ \A c \in Classes : \A i \in DOMAIN pool'[c].slots :
                               pool'[c].slots[i].state = "free"
      OBVIOUS
    <3>1. inflight = {} /\ \A c \in Classes : \A i \in Slots(c) : pool[c].slots[i].state = "free"
      BY <1>3 DEF SlotsHeld
    <3>2. inflight' = {}
      BY <1>7, <3>1
    <3>3. \A c \in Classes : \A i \in DOMAIN pool'[c].slots : pool'[c].slots[i].state = "free"
      <4> TAKE c \in Classes
      <4> TAKE i \in DOMAIN pool'[c].slots
      <4>1. i \in DOMAIN pool[c].slots /\ pool'[c].slots[i].state = pool[c].slots[i].state
        BY <1>9
      <4> QED BY <3>1, <4>1 DEF Slots
    <3> QED BY <3>2, <3>3
  <2> QED BY <2>1, <2>2, <2>3, <2>4, <1>2 DEF SlotsHeld, Slots
<1>14. ChunkPlaces'
  <2>1. /\ round.stage \notin {"done", "call"} => decodeCalls # <<>>
        /\ AskedNow' = AskedNow /\ ToCome' = ToCome
    BY <1>2, <1>3 DEF ChunkPlaces, AskedNow, ToCome
  <2> SUFFICES ASSUME round.stage \in {"complete", "submit", "wait"} PROVE ChunkPlaces'
    BY <1>2, <2>1 DEF ChunkPlaces
  <2>2. \A s, u \in inflight' : s.job.chunk = u.job.chunk => s = u
    BY <1>3, <1>6, <1>7 DEF ChunkPlaces
  <2>3. \A i \in DOMAIN results : \A s \in inflight' : results[i].chunk # s.job.chunk
    BY <1>3, <1>6, <1>7 DEF ChunkPlaces
  <2>4. \A s \in inflight' : \A k \in ToCome : s.job.chunk # jobs[k].chunk
    BY <1>3, <1>6, <1>7 DEF ChunkPlaces
  <2>5. \A s \in inflight' : \E p \in DOMAIN AskedNow : AskedNow[p].chunk = s.job.chunk
    BY <1>3, <1>6, <1>7 DEF ChunkPlaces
  <2>6. \A p \in DOMAIN AskedNow :
              \/ \E i \in DOMAIN results : AskedNow[p].chunk = results[i].chunk
              \/ \E s \in inflight' : AskedNow[p].chunk = s.job.chunk
              \/ \E k \in ToCome : AskedNow[p].chunk = jobs[k].chunk
    <3> TAKE p \in DOMAIN AskedNow
    <3>1. CASE \E s \in inflight : AskedNow[p].chunk = s.job.chunk
      BY <3>1, <1>6, <1>7
    <3> QED BY <1>3, <3>1 DEF ChunkPlaces
  <2> QED BY <1>2, <1>3, <2>1, <2>2, <2>3, <2>4, <2>5, <2>6 DEF ChunkPlaces
<1>15. AnswersExact'
  BY <1>2, <1>3 DEF AnswersExact
<1> QED BY <1>11, <1>12, <1>13, <1>14, <1>15 DEF DecodeInv

--------------------------------------------------------------------------------
(* The stages of a round.                                                       *)

\* Slots that were copied out and not used again are free.
LEMMA Recycled ==
    ASSUME SlotTypes, NEW c \in Classes
    PROVE  LET r == recycle_gpu_decode_ready_slots(pool) IN
           /\ DOMAIN r = Classes
           /\ r[c] = [cap |-> r[c].cap, slots |-> r[c].slots]
           /\ r[c].slots \in Seq(SlotKind) /\ DOMAIN r[c].slots = Slots(c)
           /\ \A i \in Slots(c) :
                /\ r[c].slots[i].op = pool[c].slots[i].op
                /\ r[c].slots[i].holds = pool[c].slots[i].holds
                /\ r[c].slots[i].buffer = pool[c].slots[i].buffer
                /\ r[c].slots[i].state = IF pool[c].slots[i].state = "ready" THEN "free"
                                         ELSE pool[c].slots[i].state
<1> DEFINE r == recycle_gpu_decode_ready_slots(pool)
           ring == pool[c].slots
           new == [i \in DOMAIN ring |-> RecycledSlot(ring[i])]
<1>1. pool[c] = [cap |-> pool[c].cap, slots |-> ring] /\ ring \in Seq(SlotKind)
  BY DEF SlotTypes
<1>2. DOMAIN r = Classes /\ r[c] = [pool[c] EXCEPT !.slots = new]
  BY DEF recycle_gpu_decode_ready_slots
<1> HIDE DEF r
<1>3. r[c].slots = new /\ r[c] = [cap |-> r[c].cap, slots |-> r[c].slots]
  BY <1>1, <1>2
<1>4. DOMAIN ring = 1 .. Len(ring) /\ Len(ring) \in Nat /\ \A i \in DOMAIN ring : ring[i] \in SlotKind
  BY <1>1, LenProperties
<1>5. \A i \in DOMAIN ring :
        /\ new[i] \in SlotKind
        /\ new[i].op = ring[i].op /\ new[i].holds = ring[i].holds
        /\ new[i].buffer = ring[i].buffer
        /\ new[i].state = IF ring[i].state = "ready" THEN "free" ELSE ring[i].state
  BY <1>4 DEF SlotKind, RecycledSlot
<1>6. new \in [1 .. Len(ring) -> SlotKind] /\ DOMAIN new = DOMAIN ring
  BY <1>4, <1>5
<1> HIDE DEF new
<1>7. new \in Seq(SlotKind)
  <2> HIDE DEF ring
  <2> QED BY <1>4, <1>6, FunctionIsSeq
<1> QED BY <1>2, <1>3, <1>5, <1>6, <1>7 DEF Slots, r

LEMMA CompleteStep ==
    ASSUME DecodeInv, CompleteStage
    PROVE  DecodeInv'
<1> DEFINE recycled == recycle_gpu_decode_ready_slots(pool)
           slotOf(s) == recycled[s.class].slots[s.slot]
           answerTo(s) == IF s.map = "ok" THEN SubmittedGpu(s.job, slotOf(s)) ELSE CpuFallback(s.job)
<1>1. PICK tooLate \in SUBSET {s \in inflight : MapTimeout /\ s.map = "waiting"} :
        LET done     == {s \in inflight : s.map # "waiting"} \cup tooLate
            of(c, i) == {s \in done : s.class = c /\ s.slot = i}
            collected(slot, from) ==
                  [slot EXCEPT !.state = "ready",
                     !.buffer = IF \E s \in from : s.map \in {"ok", "kernel"}
                                THEN "unmapped" ELSE @]
            results1 == SetToSeq({<<s.op, answerTo(s)>> : s \in done})
            limit    == IF Cardinality(inflight \ done) < TargetInflight
                          THEN TargetInflight ELSE SlotCount
        IN  /\ pool' = [c \in Classes |-> [recycled[c] EXCEPT !.slots =
                            [i \in DOMAIN @ |->
                                IF of(c, i) = {} THEN @[i] ELSE collected(@[i], of(c, i))]]]
              /\ inflight' = inflight \ done
              /\ late' = late \cup {s.op : s \in tooLate}
              /\ results' = results \o [i \in DOMAIN results1 |-> results1[i][2]]
              /\ round' = [NewRound EXCEPT !.stage = "submit", !.limit = limit,
                             !.completed = Cardinality(done),
                             !.budget = MaxOf({MicroSubmit,
                                               limit - Cardinality(inflight \ done)})]
  BY DEF CompleteStage
<1> DEFINE done     == {s \in inflight : s.map # "waiting"} \cup tooLate
           of(c, i) == {s \in done : s.class = c /\ s.slot = i}
           pairs    == {<<s.op, answerTo(s)>> : s \in done}
           results1 == SetToSeq(pairs)
           more     == [i \in DOMAIN results1 |-> results1[i][2]]
<1>2. /\ round.stage = "complete"
      /\ UNCHANGED <<decodeCalls, jobs, nextJob, gpuOps, ops, spins>>
  BY DEF CompleteStage
<1>3. SlotTypes /\ OpsNumbered /\ SlotsHeld /\ ChunkPlaces
  BY DEF DecodeInv
<1>4. /\ inflight' = inflight \ done /\ late' = late \cup {s.op : s \in tooLate}
      /\ results' = results \o more /\ done \in SUBSET inflight /\ tooLate \in SUBSET done
      /\ \A s \in done : s.map # "waiting" \/ s \in tooLate
  BY <1>1
<1>5. /\ round'.stage = "submit"
      /\ round' = [stage |-> round'.stage, limit |-> round'.limit, budget |-> round'.budget,
                submitted |-> round'.submitted, completed |-> round'.completed,
                stalled |-> round'.stalled]
  BY <1>1 DEF NewRound
<1>6. DOMAIN pool' = Classes
  BY <1>1
<1>7. ASSUME NEW c \in Classes
      PROVE  /\ pool'[c] = [cap |-> pool'[c].cap, slots |-> pool'[c].slots]
             /\ pool'[c].slots \in Seq(SlotKind)
             /\ DOMAIN pool'[c].slots = Slots(c)
             /\ \A i \in Slots(c) :
                  /\ pool'[c].slots[i].op = pool[c].slots[i].op
                  /\ pool'[c].slots[i].holds = pool[c].slots[i].holds
                  /\ pool'[c].slots[i].state = IF of(c, i) # {} THEN "ready"
                                               ELSE IF pool[c].slots[i].state = "ready" THEN "free"
                                               ELSE pool[c].slots[i].state
                  /\ pool'[c].slots[i].buffer = IF \E s \in of(c, i) : s.map \in {"ok", "kernel"}
                                                THEN "unmapped" ELSE pool[c].slots[i].buffer
  <2> DEFINE ring == recycled[c].slots
             collected(slot, from) ==
                  [slot EXCEPT !.state = "ready",
                     !.buffer = IF \E s \in from : s.map \in {"ok", "kernel"}
                                THEN "unmapped" ELSE @]
             new == [i \in DOMAIN ring |->
                       IF of(c, i) = {} THEN ring[i] ELSE collected(ring[i], of(c, i))]
  <2>1. /\ recycled[c] = [cap |-> recycled[c].cap, slots |-> ring] /\ ring \in Seq(SlotKind)
        /\ DOMAIN ring = Slots(c)
        /\ \A i \in Slots(c) :
                /\ ring[i].op = pool[c].slots[i].op
                /\ ring[i].holds = pool[c].slots[i].holds
                /\ ring[i].buffer = pool[c].slots[i].buffer
                /\ ring[i].state = IF pool[c].slots[i].state = "ready" THEN "free"
                                         ELSE pool[c].slots[i].state
    BY <1>3, Recycled
  <2>2. pool'[c] = [recycled[c] EXCEPT !.slots = new]
    BY <1>1
  <2> HIDE DEF recycled, done, of
  <2>3. pool'[c].slots = new /\ pool'[c] = [cap |-> pool'[c].cap, slots |-> pool'[c].slots]
    BY <2>1, <2>2
  <2>4. DOMAIN ring = 1 .. Len(ring) /\ Len(ring) \in Nat /\ \A i \in DOMAIN ring : ring[i] \in SlotKind
    BY <2>1, LenProperties
  <2>5. ASSUME NEW i \in DOMAIN ring
        PROVE  /\ new[i] \in SlotKind
               /\ new[i].op = ring[i].op /\ new[i].holds = ring[i].holds
               /\ new[i].state = IF of(c, i) # {} THEN "ready" ELSE ring[i].state
               /\ new[i].buffer = IF \E s \in of(c, i) : s.map \in {"ok", "kernel"}
                                  THEN "unmapped" ELSE ring[i].buffer
    <3>1. ring[i] \in SlotKind
      BY <2>4
    <3>2. CASE of(c, i) = {}
      BY <3>1, <3>2
    <3>3. CASE of(c, i) # {}
      <4>1. new[i] = [ring[i] EXCEPT !.state = "ready",
                                      !.buffer = IF \E s \in of(c, i) : s.map \in {"ok", "kernel"}
                                                 THEN "unmapped" ELSE @]
        BY <3>3
      <4> HIDE DEF ring, new
      <4> QED BY <3>1, <3>3, <4>1 DEF SlotKind
    <3> QED BY <3>2, <3>3
  <2>6. new \in [1 .. Len(ring) -> SlotKind] /\ DOMAIN new = DOMAIN ring
    BY <2>4, <2>5
  <2> HIDE DEF new
  <2>7. new \in Seq(SlotKind)
    <3> HIDE DEF ring
    <3> QED BY <2>4, <2>6, FunctionIsSeq
  <2> QED BY <2>1, <2>3, <2>5, <2>6, <2>7
<1> HIDE DEF recycled
<1>8. ASSUME NEW s \in inflight
      PROVE  /\ s \in Submissions /\ s.class \in Classes /\ s.slot \in Slots(s.class)
             /\ of(s.class, s.slot) = done \cap {s}
  <2>1. s \in Submissions /\ s.class \in Classes /\ s.slot \in Slots(s.class)
    BY <1>3 DEF SlotTypes, Submissions, SlotsHeld
  <2>2. \A u \in inflight : u.class = s.class /\ u.slot = s.slot => u = s
    BY <1>3 DEF SlotsHeld, OpsNumbered
  <2> QED BY <2>1, <2>2, <1>4
\* What is answered.
<1>9. ASSUME NEW s \in done
      PROVE  answerTo(s) \in Answers /\ answerTo(s).chunk = s.job.chunk
             /\ answerTo(s).gpu \in {0, s.job.chunk}
  <2>1. s \in inflight /\ s \in Submissions /\ s.class \in Classes /\ s.slot \in Slots(s.class)
    BY <1>4, <1>8
  <2>2. slotOf(s).holds = s.job.chunk
    <3>1. pool[s.class].slots[s.slot].holds = s.job.chunk
      BY <1>3, <2>1 DEF SlotsHeld
    <3> DEFINE k == s.class
    <3>2. recycled[k].slots[s.slot].holds = pool[k].slots[s.slot].holds
      <4>1. k \in Classes /\ s.slot \in Slots(k)
        BY <2>1
      <4> HIDE DEF k
      <4> QED BY <1>3, <4>1, Recycled, ZenonT(40) DEF recycled
    <3> QED BY <3>1, <3>2
  <2>3. s.job.chunk \in Nat
    BY <2>1 DEF Submissions, DecodeJobs
  <2> HIDE DEF slotOf
  <2> QED BY <2>2, <2>3 DEF Answers, SubmittedGpu, CpuFallback
<1>10. IsFiniteSet(done) /\ IsFiniteSet(inflight \ done)
  BY <1>3, <1>4, FS_Subset DEF SlotTypes
<1>11. /\ results1 \in Seq(pairs)
       /\ \A x \in pairs : \E i \in DOMAIN results1 : results1[i] = x
       /\ \A i, k \in DOMAIN results1 : results1[i] = results1[k] => i = k
  <2> DEFINE f == [s \in done |-> <<s.op, answerTo(s)>>]
  <2>1. f \in Surjection(done, pairs)
    <3> HIDE DEF done, answerTo
    <3> QED BY Fun_IsSurj
  <2>2. IsFiniteSet(pairs)
    BY <2>1, <1>10, FS_Surjection
  <2> HIDE DEF pairs
  <2> QED BY <2>2, SetAsSeq
<1> HIDE DEF results1, answerTo, done
<1>12. /\ DOMAIN results1 = 1 .. Len(results1) /\ Len(results1) \in Nat
       /\ \A i \in DOMAIN results1 : \E s \in done : results1[i] = <<s.op, answerTo(s)>>
       /\ \A s \in done : \E i \in DOMAIN results1 : results1[i] = <<s.op, answerTo(s)>>
  <2>1. DOMAIN results1 = 1 .. Len(results1) /\ Len(results1) \in Nat
        /\ \A i \in DOMAIN results1 : results1[i] \in pairs
    BY <1>11, LenProperties
  <2> QED BY <1>11, <2>1, ZenonT(40)
<1>13. more \in Seq(Answers) /\ DOMAIN more = 1 .. Len(more) /\ Len(more) \in Nat
       /\ DOMAIN more = DOMAIN results1
  <2>1. \A i \in DOMAIN results1 : more[i] \in Answers
    BY <1>9, <1>12
  <2>2. more \in [1 .. Len(results1) -> Answers]
    BY <1>12, <2>1
  <2> QED BY <1>12, <2>2, FunctionIsSeq, LenProperties
<1>14. /\ \A i \in DOMAIN more : \E s \in done : /\ more[i].chunk = s.job.chunk
                                                 /\ more[i].gpu \in {0, more[i].chunk}
       /\ \A s \in done : \E i \in DOMAIN more : more[i].chunk = s.job.chunk
  BY <1>9, <1>12, <1>13
<1>15. \A s, u \in inflight : s.job.chunk = u.job.chunk => s = u
  BY <1>2, <1>3 DEF ChunkPlaces
<1>16. \A i, k \in DOMAIN more : more[i].chunk = more[k].chunk => i = k
  <2> TAKE i, k \in DOMAIN more
  <2>1. PICK s \in done : results1[i] = <<s.op, answerTo(s)>>
    BY <1>12, <1>13
  <2>2. PICK u \in done : results1[k] = <<u.op, answerTo(u)>>
    BY <1>12, <1>13
  <2>3. more[i].chunk = s.job.chunk /\ more[k].chunk = u.job.chunk
    BY <1>9, <1>13, <2>1, <2>2
  <2>4. s.job.chunk = u.job.chunk => s = u
    BY <1>4, <1>15
  <2> QED BY <1>11, <1>13, <2>1, <2>2, <2>3, <2>4
<1> HIDE DEF more
<1>17. /\ results' \in Seq(Answers)
       /\ \A i \in DOMAIN results' :
            \/ i \in DOMAIN results /\ results'[i] = results[i]
            \/ i - Len(results) \in DOMAIN more /\ results'[i] = more[i - Len(results)]
       /\ \A i \in DOMAIN results : i \in DOMAIN results' /\ results'[i] = results[i]
       /\ \A i \in DOMAIN more : \E k \in DOMAIN results' : results'[k] = more[i]
  <2>1. results \in Seq(Answers)
    BY <1>3 DEF SlotTypes
  <2>2. /\ results' \in Seq(Answers) /\ Len(results') = Len(results) + Len(more)
        /\ DOMAIN results' = 1 .. Len(results') /\ DOMAIN results = 1 .. Len(results)
        /\ Len(results) \in Nat
        /\ \A i \in 1 .. Len(results) + Len(more) :
              results'[i] = IF i <= Len(results) THEN results[i] ELSE more[i - Len(results)]
    BY <2>1, <1>4, <1>13, ConcatProperties, LenProperties
  <2>3. ASSUME NEW i \in DOMAIN more
        PROVE  \E k \in DOMAIN results' : results'[k] = more[i]
    <3>1. i + Len(results) \in 1 .. Len(results) + Len(more) /\ ~(i + Len(results) <= Len(results))
          /\ i + Len(results) - Len(results) = i
      BY <2>2, <1>13
    <3> QED BY <2>2, <3>1
  <2> QED BY <2>2, <2>3, <1>13
<1>18. SlotTypes'
  <2>1. inflight' \in SUBSET Submissions /\ IsFiniteSet(inflight')
    BY <1>3, <1>4, <1>10 DEF SlotTypes
  <2> QED BY <1>2, <1>3, <1>5, <1>6, <1>7, <1>17, <2>1 DEF SlotTypes, DecodeStages
<1>19. OpsNumbered'
  BY <1>2, <1>3, <1>4 DEF OpsNumbered
<1>20. SlotsHeld'
  <2>1. ASSUME NEW s \in inflight'
        PROVE  /\ s.slot \in DOMAIN pool'[s.class].slots
               /\ pool'[s.class].slots[s.slot].op = s.op
               /\ pool'[s.class].slots[s.slot].state = "inflight"
               /\ pool'[s.class].slots[s.slot].holds = s.job.chunk
               /\ s.map = "map" => pool'[s.class].slots[s.slot].buffer = "unmapped"
    <3>1. s \in inflight /\ s \notin done
      BY <1>4
    <3>2. s.class \in Classes /\ s.slot \in Slots(s.class) /\ of(s.class, s.slot) = {}
      BY <1>8, <3>1
    <3>3. /\ pool[s.class].slots[s.slot].op = s.op
          /\ pool[s.class].slots[s.slot].state = "inflight"
          /\ pool[s.class].slots[s.slot].holds = s.job.chunk
          /\ s.map = "map" => pool[s.class].slots[s.slot].buffer = "unmapped"
      BY <1>3, <3>1 DEF SlotsHeld
    <3> HIDE DEF of
    <3> QED BY <1>7, <3>2, <3>3
  <2>2. ASSUME NEW c \in Classes, NEW i \in DOMAIN pool'[c].slots
        PROVE  /\ pool'[c].slots[i].op <= ops'
               /\ pool'[c].slots[i].state = "inflight" =>
                    \E s \in inflight' : s.class = c /\ s.slot = i /\ s.op = pool'[c].slots[i].op
               /\ pool'[c].slots[i].state # "inflight" =>
                    \/ pool'[c].slots[i].op \in late'
                    \/ /\ pool'[c].slots[i].buffer = "unmapped"
                       /\ \A k \in DOMAIN gpuOps' : gpuOps'[k] # pool'[c].slots[i].op
    <3> DEFINE slot == pool[c].slots[i]
               new == pool'[c].slots[i]
    <3>1. /\ i \in Slots(c) /\ new.op = slot.op
          /\ new.state = IF of(c, i) # {} THEN "ready"
                         ELSE IF slot.state = "ready" THEN "free" ELSE slot.state
          /\ new.buffer = IF \E s \in of(c, i) : s.map \in {"ok", "kernel"}
                          THEN "unmapped" ELSE slot.buffer
      <4>1. i \in Slots(c)
        BY <1>7
      <4> HIDE DEF of
      <4> QED BY <1>7, <4>1
    <3>2. /\ slot.op <= ops
          /\ slot.state = "inflight" =>
                    \E s \in inflight : s.class = c /\ s.slot = i /\ s.op = slot.op
          /\ slot.state # "inflight" =>
                    \/ slot.op \in late
                    \/ slot.buffer = "unmapped" /\ \A k \in DOMAIN gpuOps : gpuOps[k] # slot.op
      BY <1>3, <3>1 DEF SlotsHeld
    <3>3. \A s \in inflight : s.class = c /\ s.slot = i =>
             /\ slot.op = s.op /\ slot.state = "inflight"
             /\ s.map = "map" => slot.buffer = "unmapped"
      BY <1>3 DEF SlotsHeld
    <3> HIDE DEF slot, new
    <3>4. CASE of(c, i) = {}
      <4>1. \A s \in inflight : s.class = c /\ s.slot = i => s \in inflight'
        BY <1>4, <3>4
      <4> HIDE DEF of
      <4> QED BY <1>2, <1>4, <3>1, <3>2, <3>4, <4>1 DEF new
    <3>5. CASE of(c, i) # {}
      <4>1. PICK s \in done : s.class = c /\ s.slot = i
        BY <3>5
      <4>2. s \in inflight /\ of(c, i) = {s}
        BY <1>4, <1>8, <4>1
      <4>3. new.op = s.op /\ new.state = "ready"
        BY <3>1, <3>3, <3>5, <4>1, <4>2
      <4>4. CASE s \in tooLate
        BY <1>2, <1>4, <3>1, <3>2, <4>3, <4>4 DEF new
      <4>5. CASE s.map # "waiting"
        <5>1. \A k \in DOMAIN gpuOps : gpuOps[k] # s.op
          BY <1>3, <4>2, <4>5 DEF OpsNumbered
        <5>2. s.map \in {"ok", "kernel", "map"}
          BY <1>8, <4>2, <4>5 DEF Submissions
        <5>3. new.buffer = "unmapped"
          BY <3>1, <3>3, <4>1, <4>2, <5>2
        <5> QED BY <1>2, <3>1, <3>2, <4>3, <5>1, <5>3 DEF new
      <4> QED BY <1>4, <4>1, <4>4, <4>5
    <3> QED BY <3>4, <3>5
  <2> QED BY <1>5, <2>1, <2>2 DEF SlotsHeld, Slots
<1>21. ChunkPlaces'
  <2>1. AskedNow' = AskedNow /\ ToCome' = ToCome /\ decodeCalls' = decodeCalls /\ decodeCalls # <<>>
        /\ jobs' = jobs
    BY <1>2, <1>3 DEF ChunkPlaces, AskedNow, ToCome
  <2>2. /\ \A i, k \in DOMAIN results : results[i].chunk = results[k].chunk => i = k
        /\ \A i, k \in ToCome : jobs[i].chunk = jobs[k].chunk => i = k
        /\ \A i \in DOMAIN results : \A s \in inflight : results[i].chunk # s.job.chunk
        /\ \A i \in DOMAIN results : \A k \in ToCome : results[i].chunk # jobs[k].chunk
        /\ \A s \in inflight : \A k \in ToCome : s.job.chunk # jobs[k].chunk
        /\ \A i \in DOMAIN results : \E p \in DOMAIN AskedNow : AskedNow[p].chunk = results[i].chunk
        /\ \A s \in inflight : \E p \in DOMAIN AskedNow : AskedNow[p].chunk = s.job.chunk
        /\ \A k \in ToCome : \E p \in DOMAIN AskedNow : AskedNow[p].chunk = jobs[k].chunk
        /\ \A p \in DOMAIN AskedNow :
              \/ \E i \in DOMAIN results : AskedNow[p].chunk = results[i].chunk
              \/ \E s \in inflight : AskedNow[p].chunk = s.job.chunk
              \/ \E k \in ToCome : AskedNow[p].chunk = jobs[k].chunk
        /\ \A i \in DOMAIN results : results[i].gpu \in {0, results[i].chunk}
    BY <1>2, <1>3 DEF ChunkPlaces
  <2>3. \A i \in DOMAIN results' :
            \/ i \in DOMAIN results /\ results'[i] = results[i]
            \/ \E s \in done : /\ results'[i].chunk = s.job.chunk
                               /\ results'[i].gpu \in {0, results'[i].chunk}
    BY <1>14, <1>17
  <2>4. \A i, k \in DOMAIN results' : results'[i].chunk = results'[k].chunk => i = k
    <3> TAKE i, k \in DOMAIN results'
    <3> HAVE results'[i].chunk = results'[k].chunk
    <3>0. i \in Int /\ k \in Int /\ Len(results) \in Int
      BY <1>3, <1>17, LenProperties DEF SlotTypes
    <3>1. CASE i \in DOMAIN results /\ results'[i] = results[i]
               /\ k \in DOMAIN results /\ results'[k] = results[k]
      BY <3>1, <2>2
    <3>2. CASE i \in DOMAIN results /\ results'[i] = results[i]
               /\ k - Len(results) \in DOMAIN more /\ results'[k] = more[k - Len(results)]
      BY <3>2, <2>2, <1>14, <1>4
    <3>3. CASE k \in DOMAIN results /\ results'[k] = results[k]
               /\ i - Len(results) \in DOMAIN more /\ results'[i] = more[i - Len(results)]
      BY <3>3, <2>2, <1>14, <1>4
    <3>4. CASE k - Len(results) \in DOMAIN more /\ results'[k] = more[k - Len(results)]
               /\ i - Len(results) \in DOMAIN more /\ results'[i] = more[i - Len(results)]
      <4>1. i - Len(results) = k - Len(results)
        BY <3>4, <1>16
      <4> QED BY <3>0, <4>1
    <3> QED BY <1>17, <3>1, <3>2, <3>3, <3>4
  <2>5. \A i \in DOMAIN results' : \A s \in inflight' : results'[i].chunk # s.job.chunk
    BY <2>2, <2>3, <1>4, <1>15
  <2>6. \A i \in DOMAIN results' : \A k \in ToCome : results'[i].chunk # jobs[k].chunk
    BY <2>2, <2>3, <1>4
  <2>7. \A i \in DOMAIN results' : \E p \in DOMAIN AskedNow : AskedNow[p].chunk = results'[i].chunk
    BY <2>2, <2>3, <1>4
  <2>8. \A i \in DOMAIN results' : results'[i].gpu \in {0, results'[i].chunk}
    BY <2>2, <2>3
  <2>9. \A p \in DOMAIN AskedNow :
              \/ \E i \in DOMAIN results' : AskedNow[p].chunk = results'[i].chunk
              \/ \E s \in inflight' : AskedNow[p].chunk = s.job.chunk
              \/ \E k \in ToCome : AskedNow[p].chunk = jobs[k].chunk
    <3> TAKE p \in DOMAIN AskedNow
    <3>1. CASE \E i \in DOMAIN results : AskedNow[p].chunk = results[i].chunk
      BY <1>17, <3>1
    <3>2. CASE \E s \in inflight : AskedNow[p].chunk = s.job.chunk
      <4>1. PICK s \in inflight : AskedNow[p].chunk = s.job.chunk
        BY <3>2
      <4>2. CASE s \in done
        BY <1>14, <1>17, <4>1, <4>2
      <4> QED BY <1>4, <4>1, <4>2
    <3> QED BY <2>2, <3>1, <3>2
  <2>10. \A s, u \in inflight' : s.job.chunk = u.job.chunk => s = u
    BY <1>4, <1>15
  <2>11. inflight' \subseteq inflight
    BY <1>4
  <2> QED BY <2>1, <2>2, <2>4, <2>5, <2>6, <2>7, <2>8, <2>9, <2>10, <2>11 DEF ChunkPlaces
<1>22. AnswersExact'
  BY <1>5 DEF AnswersExact
<1> QED BY <1>18, <1>19, <1>20, <1>21, <1>22 DEF DecodeInv

--------------------------------------------------------------------------------
(* A call begins.                                                               *)

LEMMA MaxOfTwo ==
    ASSUME NEW a \in Int, NEW b \in Int
    PROVE  MaxOf({a, b}) = IF a >= b THEN a ELSE b
<1> DEFINE top == IF a >= b THEN a ELSE b
<1>1. top \in {a, b} /\ \A k \in {a, b} : k <= top
  OBVIOUS
<1>2. \A x \in {a, b} : (\A k \in {a, b} : k <= x) => x = top
  BY <1>1
<1> QED BY <1>1, <1>2 DEF MaxOf

\* A group that is made anew has slots of before as they were, and fresh ones.
LEMMA GroupMade ==
    ASSUME NEW group, group.slots \in Seq(SlotKind), NEW count \in Int, NEW cap
    PROVE  LET made == ensure_gpu_decode_slot_group(group, count, cap) IN
           /\ made = [cap |-> made.cap, slots |-> made.slots]
           /\ made.slots \in Seq(SlotKind)
           /\ \A i \in DOMAIN made.slots : \/ made.slots[i] = FreshSlot
                                           \/ /\ i \in DOMAIN group.slots
                                              /\ made.slots[i] = group.slots[i]
<1> DEFINE made == ensure_gpu_decode_slot_group(group, count, cap)
           merged == MaxOf({group.cap, cap})
           kept   == IF merged # group.cap THEN <<>> ELSE group.slots
           n      == MaxOf({0, count - Len(kept)})
           fresh  == [i \in 1 .. n |-> FreshSlot]
<1>1. CASE count = 0
  <2>1. made = [cap |-> cap, slots |-> <<>>]
    BY <1>1 DEF ensure_gpu_decode_slot_group
  <2> HIDE DEF made
  <2>2. made.slots = <<>> /\ made = [cap |-> made.cap, slots |-> made.slots]
    BY <2>1
  <2>3. <<>> \in Seq(SlotKind) /\ DOMAIN <<>> = {}
    BY EmptySeq
  <2> QED BY <2>2, <2>3 DEF made
<1>2. CASE count # 0
  <2>1. made = [cap |-> merged, slots |-> kept \o fresh]
    BY <1>2 DEF ensure_gpu_decode_slot_group
  <2>2. /\ kept \in Seq(SlotKind) /\ Len(kept) \in Nat /\ DOMAIN kept = 1 .. Len(kept)
        /\ \A i \in DOMAIN kept : i \in DOMAIN group.slots /\ kept[i] = group.slots[i]
    <3>1. kept \in Seq(SlotKind) /\ \A i \in DOMAIN kept : i \in DOMAIN group.slots /\ kept[i] = group.slots[i]
      <4> HIDE DEF merged
      <4> QED BY EmptySeq
    <3> HIDE DEF kept
    <3> QED BY <3>1, LenProperties
  <2> HIDE DEF made, kept
  <2>3. n \in Nat
    BY <2>2, MaxOfTwo
  <2> HIDE DEF n
  <2>4. FreshSlot \in SlotKind
    BY DEF FreshSlot, SlotKind
  <2>5. fresh \in Seq(SlotKind) /\ Len(fresh) = n /\ DOMAIN fresh = 1 .. n
    BY <2>3, <2>4, FunctionIsSeq
  <2>6. \A i \in 1 .. n : fresh[i] = FreshSlot
    OBVIOUS
  <2> HIDE DEF fresh
  <2>7. made.slots = kept \o fresh /\ made = [cap |-> made.cap, slots |-> made.slots]
    BY <2>1
  <2>8. /\ made.slots \in Seq(SlotKind) /\ DOMAIN made.slots = 1 .. Len(kept) + n
        /\ \A i \in 1 .. Len(kept) + n :
              made.slots[i] = IF i <= Len(kept) THEN kept[i] ELSE fresh[i - Len(kept)]
    BY <2>2, <2>5, <2>7, <2>3, ConcatProperties, LenProperties
  <2>9. \A i \in DOMAIN made.slots : \/ made.slots[i] = FreshSlot
                                     \/ /\ i \in DOMAIN group.slots
                                        /\ made.slots[i] = group.slots[i]
    <3> SUFFICES ASSUME NEW i \in 1 .. Len(kept) + n
                 PROVE  \/ made.slots[i] = FreshSlot
                        \/ i \in DOMAIN group.slots /\ made.slots[i] = group.slots[i]
      BY <2>8
    <3>1. CASE i <= Len(kept)
      <4>1. i \in DOMAIN kept /\ made.slots[i] = kept[i]
        BY <2>2, <2>3, <2>8, <3>1
      <4> QED BY <2>2, <4>1
    <3>2. CASE ~(i <= Len(kept))
      <4>1. i - Len(kept) \in 1 .. n /\ made.slots[i] = fresh[i - Len(kept)]
        BY <2>2, <2>3, <2>8, <3>2
      <4> QED BY <2>6, <4>1
    <3> QED BY <3>1, <3>2
  <2> QED BY <2>7, <2>8, <2>9 DEF made
<1> QED BY <1>1, <1>2

LEMMA BeginStep ==
    ASSUME DecodeInv, BeginDecode
    PROVE  DecodeInv'
<1> DEFINE asked    == AskedNow
           n        == Len(asked)
           aligned  == {i \in DOMAIN asked : asked[i].aligned}
           rest     == DOMAIN asked \ aligned
           prepared == Picked(asked, aligned)
           others   == Picked(asked, rest)
           answers  == [i \in DOMAIN others |-> CpuFallback(others[i])]
           split    == gpu_decode_slot_split
           largest  == MaxOf({2 * NormalCap} \cup {prepared[i].need : i \in DOMAIN prepared})
<1>1. /\ round.stage = "call" /\ decodeCalls # <<>>
      /\ UNCHANGED <<decodeCalls, inflight, gpuOps, ops, late>>
      /\ jobs' = prepared /\ nextJob' = 1
      /\ results' = IF prepared = <<>> THEN ByChunk(answers) ELSE answers
      /\ \/ /\ prepared # <<>>
            /\ round' = [NewRound EXCEPT !.stage = "failed"] /\ UNCHANGED pool
         \/ /\ prepared = <<>>
            /\ round' = [NewRound EXCEPT !.stage = "returned"] /\ UNCHANGED pool
         \/ /\ prepared # <<>> /\ round' = NewRound
            /\ pool' = [normal |-> ensure_gpu_decode_slot_group(pool.normal, split.normal,
                                            NormalCap),
                        large  |-> ensure_gpu_decode_slot_group(pool.large, split.large,
                                            largest)]
  <2> HIDE DEF split
  <2>1. (\E i \in DOMAIN prepared : ~prepared[i].parses) => prepared # <<>>
    <3> HIDE DEF prepared
    <3> QED OBVIOUS
  <2>2. prepared = Picked(Head(decodeCalls), {i \in DOMAIN Head(decodeCalls) : Head(decodeCalls)[i].aligned})
    BY DEF AskedNow
  <2> QED BY <2>1 DEF BeginDecode, AskedNow, split
<1>2. SlotTypes /\ OpsNumbered /\ SlotsHeld
  BY DEF DecodeInv
<1>3. /\ asked \in Seq(DecodeJobs) /\ Increasing(asked) /\ n \in Nat /\ DOMAIN asked = 1 .. n
      /\ \A i \in 1 .. n : asked[i] \in DecodeJobs
  <2>1. decodeCalls \in Seq(Seq(DecodeJobs)) /\ 1 \in DOMAIN decodeCalls
        /\ asked = decodeCalls[1]
    BY <1>1, <1>2, HeadTailProperties, EmptySeq, LenProperties DEF SlotTypes, AskedNow
  <2>2. asked \in Seq(DecodeJobs) /\ Increasing(asked)
    BY <1>2, <2>1, ElementOfSeq, LenProperties DEF SlotTypes
  <2> HIDE DEF asked
  <2> QED BY <2>2, LenProperties
<1> HIDE DEF asked, n
<1>4. \A i, k \in 1 .. n : asked[i].chunk = asked[k].chunk => i = k
  <2> TAKE i, k \in 1 .. n
  <2>1. asked[i].chunk \in Nat /\ asked[k].chunk \in Nat
    BY <1>3 DEF DecodeJobs
  <2>2. i < k => asked[i].chunk < asked[k].chunk
    BY <1>3 DEF Increasing
  <2>3. k < i => asked[k].chunk < asked[i].chunk
    BY <1>3 DEF Increasing
  <2>4. i \in Int /\ k \in Int
    OBVIOUS
  <2> QED BY <2>1, <2>2, <2>3, <2>4
<1>5. aligned \in SUBSET (1 .. n) /\ rest \in SUBSET (1 .. n)
      /\ (\A i \in 1 .. n : i \in aligned \/ i \in rest) /\ \A i \in aligned : i \notin rest
  BY <1>3
<1> HIDE DEF aligned, rest
<1> DEFINE c == Cardinality(aligned)  d == Cardinality(rest)
<1>6. c \in Nat /\ d \in Nat
  BY <1>3, <1>5, PickedPositions
<1> DEFINE e == PickOrder(aligned)  f == PickOrder(rest)
<1>7. /\ e \in [1 .. c -> aligned] /\ prepared = [k \in 1 .. c |-> asked[e[k]]]
      /\ \A i \in aligned : \E k \in 1 .. c : e[k] = i
      /\ \A k, m \in 1 .. c : e[k] = e[m] => k = m
  <2>1. n \in Nat /\ aligned \in SUBSET (1 .. n)
    BY <1>3, <1>5
  <2>2. /\ e \in [1 .. c -> aligned]
        /\ \A i \in aligned : \E k \in 1 .. c : e[k] = i
        /\ \A k, m \in 1 .. c : e[k] = e[m] => k = m
    BY <2>1, PickedPositions
  <2>3. prepared = [k \in 1 .. c |-> asked[e[k]]]
    BY DEF Picked, PickOrder
  <2> QED BY <2>2, <2>3
<1>8. /\ f \in [1 .. d -> rest] /\ others = [k \in 1 .. d |-> asked[f[k]]]
      /\ \A i \in rest : \E k \in 1 .. d : f[k] = i
      /\ \A k, m \in 1 .. d : f[k] = f[m] => k = m
  <2>1. n \in Nat /\ rest \in SUBSET (1 .. n)
    BY <1>3, <1>5
  <2>2. /\ f \in [1 .. d -> rest]
        /\ \A i \in rest : \E k \in 1 .. d : f[k] = i
        /\ \A k, m \in 1 .. d : f[k] = f[m] => k = m
    BY <2>1, PickedPositions
  <2>3. others = [k \in 1 .. d |-> asked[f[k]]]
    BY DEF Picked, PickOrder
  <2> QED BY <2>2, <2>3
<1> HIDE DEF c, d, e, f, others, prepared
<1>9. /\ prepared \in Seq(DecodeJobs) /\ DOMAIN prepared = 1 .. c
      /\ \A k \in 1 .. c : e[k] \in aligned /\ e[k] \in 1 .. n /\ prepared[k] = asked[e[k]]
  <2>1. \A k \in 1 .. c : e[k] \in aligned /\ e[k] \in 1 .. n /\ prepared[k] = asked[e[k]]
    BY <1>5, <1>7
  <2>2. prepared \in [1 .. c -> DecodeJobs]
    BY <1>3, <1>7, <2>1
  <2> QED BY <1>6, <2>1, <2>2, FunctionIsSeq
<1>10. /\ answers \in Seq(Answers) /\ DOMAIN answers = 1 .. d
       /\ \A k \in 1 .. d : /\ f[k] \in rest /\ f[k] \in 1 .. n
                            /\ answers[k].chunk = asked[f[k]].chunk /\ answers[k].gpu = 0
  <2>1. DOMAIN others = 1 .. d /\ \A k \in 1 .. d : /\ f[k] \in rest /\ f[k] \in 1 .. n /\ others[k] = asked[f[k]]
    BY <1>5, <1>8
  <2>2. \A k \in 1 .. d : answers[k] = [chunk |-> asked[f[k]].chunk, gpu |-> 0]
    BY <2>1 DEF CpuFallback
  <2>3. \A k \in 1 .. d : answers[k] \in Answers /\ answers[k].chunk = asked[f[k]].chunk /\ answers[k].gpu = 0
    BY <1>3, <2>1, <2>2 DEF DecodeJobs, Answers
  <2>4. answers \in [1 .. d -> Answers]
    BY <2>1, <2>3
  <2> HIDE DEF answers
  <2> QED BY <1>6, <2>1, <2>3, <2>4, FunctionIsSeq
<1> HIDE DEF answers
<1>11. \A i, k \in 1 .. d : answers[i].chunk = answers[k].chunk => i = k
  <2> TAKE i, k \in 1 .. d
  <2>1. f[i] \in 1 .. n /\ f[k] \in 1 .. n
        /\ answers[i].chunk = asked[f[i]].chunk /\ answers[k].chunk = asked[f[k]].chunk
    BY <1>10
  <2>2. answers[i].chunk = answers[k].chunk => f[i] = f[k]
    BY <1>4, <2>1
  <2> QED BY <1>8, <2>2
<1>12. \A p \in 1 .. n : \/ \E i \in 1 .. d : asked[p].chunk = answers[i].chunk
                         \/ \E k \in 1 .. c : asked[p].chunk = prepared[k].chunk
  <2> TAKE p \in 1 .. n
  <2>1. CASE p \in aligned
    <3>1. PICK k \in 1 .. c : e[k] = p
      BY <1>7, <2>1
    <3> QED BY <1>9, <3>1
  <2>2. CASE p \in rest
    <3>1. PICK k \in 1 .. d : f[k] = p
      BY <1>8, <2>2
    <3> QED BY <1>10, <3>1
  <2> QED BY <1>5, <2>1, <2>2
<1>13. \A i \in 1 .. d : \A k \in 1 .. c : answers[i].chunk # prepared[k].chunk
  BY <1>4, <1>5, <1>9, <1>10, SMTT(30)
<1>14. AskedNow' = asked
  BY <1>1 DEF asked, AskedNow
<1>15. inflight = {} /\ \A k \in Classes : \A i \in Slots(k) : pool[k].slots[i].state = "free"
  BY <1>1, <1>2 DEF SlotsHeld
<1>16. nextJob' \in 1 .. Len(jobs') + 1
  BY <1>1, <1>9, LenProperties
<1>17. round' = [stage |-> round'.stage, limit |-> round'.limit, budget |-> round'.budget,
                submitted |-> round'.submitted, completed |-> round'.completed,
                stalled |-> round'.stalled]
  BY <1>1 DEF NewRound
<1>18. OpsNumbered'
  BY <1>1, <1>2 DEF OpsNumbered
<1>19. decodeCalls' # <<>>
  BY <1>1
\* The call is over before it has begun.
<1>20. CASE prepared # <<>> /\ round' = [NewRound EXCEPT !.stage = "failed"] /\ UNCHANGED pool
  <2>1. round'.stage = "failed"
    BY <1>20 DEF NewRound
  <2>2. results' \in Seq(Answers)
    BY <1>1, <1>20, <1>10
  <2>3. SlotTypes'
    BY <1>1, <1>2, <1>9, <1>16, <1>17, <1>20, <2>1, <2>2 DEF SlotTypes, DecodeStages
  <2>4. SlotsHeld'
    BY <1>1, <1>2, <1>15, <1>20, <2>1 DEF SlotsHeld, Slots
  <2>5. ChunkPlaces' /\ AnswersExact'
    BY <1>19, <2>1 DEF ChunkPlaces, AnswersExact
  <2> QED BY <1>18, <2>3, <2>4, <2>5 DEF DecodeInv
<1>21. CASE prepared = <<>> /\ round' = [NewRound EXCEPT !.stage = "returned"] /\ UNCHANGED pool
  <2>1. round'.stage = "returned"
    BY <1>21 DEF NewRound
  <2>2. 1 .. c = {}
    BY <1>9, <1>21
  <2>3. /\ results' \in Seq(Answers)
        /\ [i \in DOMAIN results' |-> results'[i].chunk] = [i \in DOMAIN asked |-> asked[i].chunk]
        /\ \A i \in DOMAIN results' : \E k \in DOMAIN answers : results'[i] = answers[k]
    <3>1. \A i \in DOMAIN answers : \E p \in DOMAIN asked : asked[p].chunk = answers[i].chunk
      BY <1>3, <1>10
    <3>2. \A p \in DOMAIN asked : \E i \in DOMAIN answers : asked[p].chunk = answers[i].chunk
      BY <1>3, <1>10, <1>12, <2>2
    <3>3. \A i, k \in DOMAIN answers : answers[i].chunk = answers[k].chunk => i = k
      BY <1>10, <1>11
    <3>4. results' = ByChunk(answers)
      BY <1>1, <1>21
    <3>5. (\A a \in Answers : a.chunk \in Nat) /\ (\A a \in DecodeJobs : a.chunk \in Nat)
      BY DEF Answers, DecodeJobs
    <3>6. /\ ByChunk(answers) \in Seq(Answers)
          /\ [i \in DOMAIN ByChunk(answers) |-> ByChunk(answers)[i].chunk]
                = [i \in DOMAIN asked |-> asked[i].chunk]
          /\ \A i \in DOMAIN ByChunk(answers) : \E k \in DOMAIN answers : ByChunk(answers)[i] = answers[k]
      <4>1. answers \in Seq(Answers) /\ asked \in Seq(DecodeJobs) /\ Increasing(asked)
        BY <1>3, <1>10
      <4> QED BY <3>1, <3>2, <3>3, <3>5, <4>1, SortedAnswers, ZenonT(60)
    <3> QED BY <3>4, <3>6, Zenon
  <2>4. SlotTypes'
    BY <1>1, <1>2, <1>9, <1>16, <1>17, <1>21, <2>1, <2>3 DEF SlotTypes, DecodeStages
  <2>5. SlotsHeld'
    BY <1>1, <1>2, <1>15, <1>21, <2>1 DEF SlotsHeld, Slots
  <2>6. ChunkPlaces'
    BY <1>19, <2>1 DEF ChunkPlaces
  <2>7. AnswersExact'
    <3>1. Head(decodeCalls)' = asked
      BY <1>14 DEF AskedNow
    <3>2. \A i \in DOMAIN results' : results'[i].gpu \in {0, results'[i].chunk}
      BY <1>10, <2>3
    <3> QED BY <2>3, <3>1, <3>2 DEF AnswersExact
  <2> QED BY <1>18, <2>4, <2>5, <2>6, <2>7 DEF DecodeInv
<1>22. CASE /\ prepared # <<>> /\ round' = NewRound
            /\ pool' = [normal |-> ensure_gpu_decode_slot_group(pool.normal, split.normal,
                                            NormalCap),
                        large  |-> ensure_gpu_decode_slot_group(pool.large, split.large,
                                            largest)]
  <2>1. round'.stage = "complete"
    BY <1>22 DEF NewRound
  <2>2. split.normal \in Int /\ split.large \in Int
    BY SlotAssumption DEF gpu_decode_slot_split
  <2> HIDE DEF split, largest
  <2>3. ASSUME NEW k \in Classes
        PROVE  /\ pool'[k] = [cap |-> pool'[k].cap, slots |-> pool'[k].slots]
               /\ pool'[k].slots \in Seq(SlotKind)
               /\ \A i \in DOMAIN pool'[k].slots :
                     \/ pool'[k].slots[i] = FreshSlot
                     \/ i \in Slots(k) /\ pool'[k].slots[i] = pool[k].slots[i]
    <3>1. pool[k].slots \in Seq(SlotKind) /\ pool.normal = pool["normal"] /\ pool.large = pool["large"]
      BY <1>2 DEF SlotTypes
    <3>2. CASE k = "normal"
      <4>1. pool'[k] = ensure_gpu_decode_slot_group(pool[k], split.normal, NormalCap)
        BY <1>22, <3>1, <3>2
      <4> QED BY <2>2, <3>1, <4>1, GroupMade DEF Slots
    <3>3. CASE k = "large"
      <4>1. pool'[k] = ensure_gpu_decode_slot_group(pool[k], split.large, largest)
        BY <1>22, <3>1, <3>3
      <4> QED BY <2>2, <3>1, <4>1, GroupMade DEF Slots
    <3> QED BY <3>2, <3>3 DEF Classes
  <2>4. DOMAIN pool' = Classes
    BY <1>22 DEF Classes
  <2>5. results' = answers
    BY <1>1, <1>22
  <2>6. SlotTypes'
    BY <1>1, <1>2, <1>9, <1>10, <1>16, <1>17, <2>1, <2>3, <2>4, <2>5 DEF SlotTypes, DecodeStages
  <2>7. SlotsHeld'
    <3>1. ASSUME NEW k \in Classes, NEW i \in DOMAIN pool'[k].slots
          PROVE  /\ pool'[k].slots[i].op <= ops'
                 /\ pool'[k].slots[i].state = "inflight" =>
                      \E s \in inflight' : s.class = k /\ s.slot = i /\ s.op = pool'[k].slots[i].op
                 /\ pool'[k].slots[i].state # "inflight" =>
                      \/ pool'[k].slots[i].op \in late'
                      \/ /\ pool'[k].slots[i].buffer = "unmapped"
                         /\ \A j \in DOMAIN gpuOps' : gpuOps'[j] # pool'[k].slots[i].op
      <4>1. CASE pool'[k].slots[i] = FreshSlot
        <5>1. pool'[k].slots[i].op = 0 /\ pool'[k].slots[i].state = "free"
              /\ pool'[k].slots[i].buffer = "unmapped"
          BY <4>1 DEF FreshSlot
        <5>2. ops \in Nat /\ \A j \in DOMAIN gpuOps : gpuOps[j] \in 1 .. ops
          BY <1>2 DEF SlotTypes, OpsNumbered
        <5> QED BY <1>1, <5>1, <5>2
      <4>2. CASE i \in Slots(k) /\ pool'[k].slots[i] = pool[k].slots[i]
        <5>1. /\ pool[k].slots[i].op <= ops /\ pool[k].slots[i].state = "free"
              /\ pool[k].slots[i].state # "inflight" =>
                    \/ pool[k].slots[i].op \in late
                    \/ /\ pool[k].slots[i].buffer = "unmapped"
                       /\ \A j \in DOMAIN gpuOps : gpuOps[j] # pool[k].slots[i].op
          BY <1>2, <1>15, <4>2 DEF SlotsHeld
        <5> QED BY <1>1, <4>2, <5>1
      <4> QED BY <2>3, <4>1, <4>2
    <3> QED BY <1>1, <1>15, <2>1, <3>1 DEF SlotsHeld, Slots
  <2>8. ToCome' = 1 .. c /\ jobs' = prepared
    <3>1. \A k \in 1 .. c : 1 <= k
      OBVIOUS
    <3> QED BY <1>1, <1>9, <3>1 DEF ToCome
  <2>9. \A i, k \in 1 .. c : prepared[i].chunk = prepared[k].chunk => i = k
    BY <1>4, <1>7, <1>9
  <2>10. \A k \in 1 .. c : \E p \in 1 .. n : asked[p].chunk = prepared[k].chunk
    BY <1>9
  <2>11. \A i \in 1 .. d : \E p \in 1 .. n : asked[p].chunk = answers[i].chunk
    BY <1>10
  <2>12. \A i \in 1 .. d : answers[i].gpu \in {0, answers[i].chunk}
    BY <1>10
  <2>13. ChunkPlaces'
    <3>1. DOMAIN results' = 1 .. d /\ inflight' = {} /\ ToCome' = 1 .. c /\ DOMAIN AskedNow' = 1 .. n
      BY <1>1, <1>3, <1>10, <1>14, <1>15, <2>5, <2>8
    <3>2. /\ \A i, k \in DOMAIN results' : results'[i].chunk = results'[k].chunk => i = k
          /\ \A i, k \in ToCome' : jobs'[i].chunk = jobs'[k].chunk => i = k
          /\ \A i \in DOMAIN results' : \A k \in ToCome' : results'[i].chunk # jobs'[k].chunk
          /\ \A i \in DOMAIN results' : results'[i].gpu \in {0, results'[i].chunk}
      BY <1>11, <1>13, <2>5, <2>8, <2>9, <2>12, <3>1
    <3>3. /\ \A i \in DOMAIN results' : \E p \in DOMAIN AskedNow' : AskedNow'[p].chunk = results'[i].chunk
          /\ \A k \in ToCome' : \E p \in DOMAIN AskedNow' : AskedNow'[p].chunk = jobs'[k].chunk
      BY <1>14, <2>5, <2>8, <2>10, <2>11, <3>1
    <3>4. \A p \in DOMAIN AskedNow' :
              \/ \E i \in DOMAIN results' : AskedNow'[p].chunk = results'[i].chunk
              \/ \E k \in ToCome' : AskedNow'[p].chunk = jobs'[k].chunk
      BY <1>12, <1>14, <2>5, <2>8, <3>1
    <3> QED BY <1>19, <3>1, <3>2, <3>3, <3>4 DEF ChunkPlaces
  <2>14. AnswersExact'
    BY <2>1 DEF AnswersExact
  <2> QED BY <1>18, <2>6, <2>7, <2>13, <2>14 DEF DecodeInv
<1> QED BY <1>1, <1>20, <1>21, <1>22

--------------------------------------------------------------------------------
(* Jobs are submitted, or answered by the CPU.                                  *)

LEMMA NextToCome ==
    ASSUME SlotTypes, nextJob <= Len(jobs), jobs' = jobs, nextJob' = nextJob + 1
    PROVE  /\ nextJob \in ToCome /\ ToCome' = ToCome \ {nextJob} /\ jobs[nextJob] \in DecodeJobs
           /\ nextJob' \in 1 .. Len(jobs') + 1
<1>1. jobs \in Seq(DecodeJobs) /\ nextJob \in 1 .. Len(jobs) + 1
  BY DEF SlotTypes
<1>2. DOMAIN jobs = 1 .. Len(jobs) /\ Len(jobs) \in Nat /\ \A k \in DOMAIN jobs : jobs[k] \in DecodeJobs
  BY <1>1, LenProperties
<1>3. nextJob \in DOMAIN jobs /\ nextJob \in Int
  BY <1>1, <1>2
<1>4. \A k \in DOMAIN jobs : nextJob + 1 <= k <=> nextJob <= k /\ k # nextJob
  BY <1>2, <1>3
<1>5. nextJob' \in 1 .. Len(jobs') + 1
  BY <1>1, <1>2
<1> QED BY <1>2, <1>3, <1>4, <1>5 DEF ToCome

\* A job that goes to the CPU.
LEMMA FallbackStep ==
    ASSUME DecodeInv, round.stage = "submit", nextJob <= Len(jobs),
           results' = Append(results, CpuFallback(jobs[nextJob])), nextJob' = nextJob + 1,
           round' = [round EXCEPT !.submitted = @ + 1],
           UNCHANGED <<decodeCalls, pool, jobs, inflight, gpuOps, ops, spins, late>>
    PROVE  DecodeInv'
<1> DEFINE task == jobs[nextJob]
           more == CpuFallback(task)
<1>1. SlotTypes /\ OpsNumbered /\ SlotsHeld /\ ChunkPlaces
  BY DEF DecodeInv
<1>2. /\ nextJob \in ToCome /\ ToCome' = ToCome \ {nextJob} /\ task \in DecodeJobs
      /\ nextJob' \in 1 .. Len(jobs') + 1
  BY <1>1, NextToCome
<1> HIDE DEF task
<1>3. more \in Answers /\ more.chunk = task.chunk /\ more.gpu = 0
  BY <1>2 DEF CpuFallback, Answers, DecodeJobs
<1>4. /\ results' \in Seq(Answers)
      /\ \A i \in DOMAIN results' : \/ i \in DOMAIN results /\ results'[i] = results[i]
                                    \/ i = Len(results) + 1 /\ results'[i] = more
      /\ \A i \in DOMAIN results : i \in DOMAIN results' /\ results'[i] = results[i]
      /\ Len(results) + 1 \in DOMAIN results' /\ results'[Len(results) + 1] = more
  <2>1. results \in Seq(Answers) /\ results' = Append(results, more)
    BY <1>1 DEF SlotTypes, task
  <2> HIDE DEF more
  <2>2. /\ results' \in Seq(Answers) /\ Len(results') = Len(results) + 1 /\ Len(results) \in Nat
        /\ \A i \in 1 .. Len(results) : results'[i] = results[i]
        /\ results'[Len(results) + 1] = more
        /\ DOMAIN results = 1 .. Len(results) /\ DOMAIN results' = 1 .. Len(results')
    BY <1>3, <2>1, AppendProperties, LenProperties
  <2> QED BY <2>2
<1> HIDE DEF more
<1>5. round'.stage = "submit"
      /\ round' = [stage |-> round'.stage, limit |-> round'.limit, budget |-> round'.budget,
                submitted |-> round'.submitted, completed |-> round'.completed,
                stalled |-> round'.stalled]
  BY <1>1 DEF SlotTypes
<1>6. SlotTypes'
  BY <1>1, <1>2, <1>4, <1>5 DEF SlotTypes, DecodeStages
<1>7. OpsNumbered' /\ SlotsHeld'
  BY <1>1, <1>5 DEF OpsNumbered, SlotsHeld, Slots
<1>8. ChunkPlaces'
  <2>1. AskedNow' = AskedNow /\ decodeCalls' = decodeCalls /\ decodeCalls # <<>> /\ jobs' = jobs
        /\ inflight' = inflight
    BY <1>1 DEF ChunkPlaces, AskedNow
  <2>2. /\ \A i, k \in DOMAIN results : results[i].chunk = results[k].chunk => i = k
        /\ \A s, u \in inflight : s.job.chunk = u.job.chunk => s = u
        /\ \A i, k \in ToCome : jobs[i].chunk = jobs[k].chunk => i = k
        /\ \A i \in DOMAIN results : \A s \in inflight : results[i].chunk # s.job.chunk
        /\ \A i \in DOMAIN results : \A k \in ToCome : results[i].chunk # jobs[k].chunk
        /\ \A s \in inflight : \A k \in ToCome : s.job.chunk # jobs[k].chunk
        /\ \A i \in DOMAIN results : \E p \in DOMAIN AskedNow : AskedNow[p].chunk = results[i].chunk
        /\ \A s \in inflight : \E p \in DOMAIN AskedNow : AskedNow[p].chunk = s.job.chunk
        /\ \A k \in ToCome : \E p \in DOMAIN AskedNow : AskedNow[p].chunk = jobs[k].chunk
        /\ \A p \in DOMAIN AskedNow :
              \/ \E i \in DOMAIN results : AskedNow[p].chunk = results[i].chunk
              \/ \E s \in inflight : AskedNow[p].chunk = s.job.chunk
              \/ \E k \in ToCome : AskedNow[p].chunk = jobs[k].chunk
        /\ \A i \in DOMAIN results : results[i].gpu \in {0, results[i].chunk}
    BY <1>1 DEF ChunkPlaces
  <2>3. more.chunk = jobs[nextJob].chunk
    BY <1>3 DEF task
  <2>4. \A i, k \in DOMAIN results' : results'[i].chunk = results'[k].chunk => i = k
    BY <1>2, <1>4, <2>2, <2>3
  <2>5. /\ \A i \in DOMAIN results' : \A s \in inflight : results'[i].chunk # s.job.chunk
        /\ \A i \in DOMAIN results' : \A k \in ToCome' : results'[i].chunk # jobs[k].chunk
        /\ \A i \in DOMAIN results' : \E p \in DOMAIN AskedNow : AskedNow[p].chunk = results'[i].chunk
        /\ \A i \in DOMAIN results' : results'[i].gpu \in {0, results'[i].chunk}
    <3>1. \A i \in DOMAIN results' : \/ i \in DOMAIN results /\ results'[i] = results[i]
                                     \/ results'[i].chunk = jobs[nextJob].chunk /\ results'[i].gpu = 0
      BY <1>3, <1>4, <2>3
    <3>2. \A i \in DOMAIN results' : \A s \in inflight : results'[i].chunk # s.job.chunk
      BY <1>2, <2>2, <3>1
    <3>3. \A i \in DOMAIN results' : \A k \in ToCome' : results'[i].chunk # jobs[k].chunk
      BY <1>2, <2>2, <3>1
    <3>4. \A i \in DOMAIN results' : \E p \in DOMAIN AskedNow : AskedNow[p].chunk = results'[i].chunk
      BY <1>2, <2>2, <3>1
    <3>5. \A i \in DOMAIN results' : results'[i].gpu \in {0, results'[i].chunk}
      BY <2>2, <3>1
    <3> QED BY <3>2, <3>3, <3>4, <3>5
  <2>6. \A p \in DOMAIN AskedNow :
              \/ \E i \in DOMAIN results' : AskedNow[p].chunk = results'[i].chunk
              \/ \E s \in inflight : AskedNow[p].chunk = s.job.chunk
              \/ \E k \in ToCome' : AskedNow[p].chunk = jobs[k].chunk
    <3> TAKE p \in DOMAIN AskedNow
    <3>1. CASE \E i \in DOMAIN results : AskedNow[p].chunk = results[i].chunk
      BY <1>4, <3>1
    <3>2. CASE \E k \in ToCome : AskedNow[p].chunk = jobs[k].chunk
      BY <1>2, <1>4, <2>3, <3>2
    <3> QED BY <2>2, <3>1, <3>2
  <2>7. \A i \in ToCome' : i \in ToCome
    BY <1>2
  <2> QED BY <2>1, <2>2, <2>4, <2>5, <2>6, <2>7, SMTT(30) DEF ChunkPlaces
<1>9. AnswersExact'
  BY <1>5 DEF AnswersExact
<1> QED BY <1>6, <1>7, <1>8, <1>9 DEF DecodeInv

\* The slot that is taken is the first one of its class that is free.
LEMMA TakenSlot ==
    ASSUME SlotTypes, NEW task, NEW c \in try_acquire_gpu_decode_slot(task)
    PROVE  LET i == CHOOSE k \in FreeSlots(c) : \A n \in FreeSlots(c) : k <= n IN
           c \in Classes /\ i \in Slots(c) /\ pool[c].slots[i].state = "free"
<1>1. c \in Classes /\ FreeSlots(c) # {}
  BY DEF try_acquire_gpu_decode_slot
<1>2. pool[c].slots \in Seq(SlotKind)
  BY <1>1 DEF SlotTypes
<1>3. Slots(c) = 1 .. Len(pool[c].slots) /\ Len(pool[c].slots) \in Nat
  BY <1>2, LenProperties DEF Slots
<1>4. FreeSlots(c) \in SUBSET Nat
  BY <1>3 DEF FreeSlots
<1>5. \E k \in FreeSlots(c) : \A n \in FreeSlots(c) : k <= n
  BY <1>1, <1>4, LeastNat
<1> DEFINE i == CHOOSE k \in FreeSlots(c) : \A n \in FreeSlots(c) : k <= n
<1>6. i \in FreeSlots(c)
  BY <1>5
<1> HIDE DEF i
<1>7. i \in Slots(c) /\ pool[c].slots[i].state = "free"
  BY <1>6 DEF FreeSlots
<1> QED BY <1>1, <1>7 DEF i

\* The job is submitted into a free slot, whose buffer is unmapped unless it was given up.
LEMMA SubmitStep ==
    ASSUME DecodeInv, SubmitJob
    PROVE  DecodeInv'
<1> DEFINE task == jobs[nextJob]
<1>1. /\ round.stage = "submit" /\ nextJob <= Len(jobs)
      /\ UNCHANGED <<decodeCalls, jobs, spins, late>>
  BY DEF SubmitJob, MayMicroSubmit
<1>2. PICK class \in try_acquire_gpu_decode_slot(task) :
        LET i    == CHOOSE k \in FreeSlots(class) : \A n \in FreeSlots(class) : k <= n
            slot == pool[class].slots[i]
        IN  IF slot.buffer # "unmapped" THEN
                 /\ round' = [round EXCEPT !.stage = "panicked"]
                 /\ UNCHANGED <<pool, inflight, gpuOps, ops, nextJob, results>>
              ELSE
                 /\ ops' = ops + 1
                 /\ pool' = [pool EXCEPT ![class].slots[i] =
                               [state |-> "inflight", holds |-> task.chunk, op |-> ops + 1,
                                buffer |-> "pending"]]
                 /\ inflight' = inflight \cup {[op |-> ops + 1, job |-> task, class |-> class,
                                                slot |-> i, map |-> "waiting"]}
                 /\ gpuOps' = Append(gpuOps, ops + 1)
                 /\ nextJob' = nextJob + 1
                 /\ round' = [round EXCEPT !.submitted = @ + 1]
                 /\ UNCHANGED results
  BY DEF SubmitJob
<1> DEFINE i    == CHOOSE k \in FreeSlots(class) : \A n \in FreeSlots(class) : k <= n
           slot == pool[class].slots[i]
           used == [state |-> "inflight", holds |-> task.chunk, op |-> ops + 1, buffer |-> "pending"]
           new  == [op |-> ops + 1, job |-> task, class |-> class, slot |-> i, map |-> "waiting"]
<1>3. SlotTypes /\ OpsNumbered /\ SlotsHeld /\ ChunkPlaces
  BY DEF DecodeInv
<1>4. class \in Classes /\ i \in Slots(class) /\ slot.state = "free"
  BY <1>3, TakenSlot
<1>5. \/ /\ slot.buffer # "unmapped"
         /\ round' = [round EXCEPT !.stage = "panicked"]
         /\ UNCHANGED <<pool, inflight, gpuOps, ops, nextJob, results>>
      \/ /\ slot.buffer = "unmapped"
         /\ ops' = ops + 1 /\ pool' = [pool EXCEPT ![class].slots[i] = used]
         /\ inflight' = inflight \cup {new} /\ gpuOps' = Append(gpuOps, ops + 1)
         /\ nextJob' = nextJob + 1 /\ round' = [round EXCEPT !.submitted = @ + 1]
         /\ UNCHANGED results
  BY <1>2
<1> HIDE DEF i
<1>6. CASE /\ slot.buffer # "unmapped"
           /\ round' = [round EXCEPT !.stage = "panicked"]
           /\ UNCHANGED <<pool, inflight, gpuOps, ops, nextJob, results>>
  <2>1. round'.stage = "panicked"
        /\ round' = [stage |-> round'.stage, limit |-> round'.limit, budget |-> round'.budget,
                submitted |-> round'.submitted, completed |-> round'.completed,
                stalled |-> round'.stalled]
    BY <1>3, <1>6 DEF SlotTypes
  <2>2. slot.op \in late
    BY <1>3, <1>4, <1>6 DEF SlotsHeld
  <2>3. SlotTypes'
    BY <1>1, <1>3, <1>6, <2>1 DEF SlotTypes, DecodeStages
  <2>4. OpsNumbered' /\ SlotsHeld'
    BY <1>1, <1>3, <1>6, <2>1, <2>2 DEF OpsNumbered, SlotsHeld, Slots
  <2>5. ChunkPlaces' /\ AnswersExact'
    BY <1>1, <1>3, <2>1 DEF ChunkPlaces, AnswersExact
  <2> QED BY <2>3, <2>4, <2>5 DEF DecodeInv
<1>7. CASE /\ slot.buffer = "unmapped"
           /\ ops' = ops + 1 /\ pool' = [pool EXCEPT ![class].slots[i] = used]
           /\ inflight' = inflight \cup {new} /\ gpuOps' = Append(gpuOps, ops + 1)
           /\ nextJob' = nextJob + 1 /\ round' = [round EXCEPT !.submitted = @ + 1]
           /\ UNCHANGED results
  <2>1. /\ nextJob \in ToCome /\ ToCome' = ToCome \ {nextJob} /\ task \in DecodeJobs
        /\ nextJob' \in 1 .. Len(jobs') + 1
    BY <1>1, <1>3, <1>7, NextToCome
  <2>2. round'.stage = "submit"
        /\ round' = [stage |-> round'.stage, limit |-> round'.limit, budget |-> round'.budget,
                submitted |-> round'.submitted, completed |-> round'.completed,
                stalled |-> round'.stalled]
    BY <1>1, <1>3, <1>7 DEF SlotTypes
  <2>3. ops \in Nat /\ ops' \in Nat /\ ops' = ops + 1 /\ task.chunk \in Nat
    <3>1. ops \in Nat /\ ops' = ops + 1
      BY <1>3, <1>7 DEF SlotTypes
    <3>2. task.chunk \in Nat
      <4> HIDE DEF task
      <4> QED BY <2>1 DEF DecodeJobs
    <3> QED BY <3>1, <3>2
  <2> HIDE DEF task
  <2>4. used \in SlotKind /\ used.op = ops + 1 /\ used.state = "inflight" /\ used.holds = task.chunk
        /\ used.buffer = "pending"
    BY <2>3 DEF SlotKind
  <2> HIDE DEF used
  <2>5. ASSUME NEW c \in Classes
        PROVE  /\ pool'[c] = [cap |-> pool'[c].cap, slots |-> pool'[c].slots]
               /\ pool'[c].slots \in Seq(SlotKind)
               /\ DOMAIN pool'[c].slots = Slots(c)
               /\ \A k \in Slots(c) : pool'[c].slots[k] = IF c = class /\ k = i THEN used
                                                          ELSE pool[c].slots[k]
    <3>1. /\ pool[c] = [cap |-> pool[c].cap, slots |-> pool[c].slots]
          /\ pool[c].slots \in Seq(SlotKind) /\ DOMAIN pool = Classes
      BY <1>3 DEF SlotTypes
    <3>2. CASE c # class
      <4>1. pool'[c] = pool[c]
        BY <1>7, <3>1, <3>2
      <4> QED BY <3>1, <3>2, <4>1 DEF Slots
    <3>3. CASE c = class
      <4> DEFINE ring == [pool[c].slots EXCEPT ![i] = used]
      <4>1. pool'[c] = [pool[c] EXCEPT !.slots = ring]
        BY <1>7, <3>1, <3>3
      <4>2. ring \in Seq(SlotKind) /\ DOMAIN ring = Slots(c)
        <5>1. i \in 1 .. Len(pool[c].slots) /\ DOMAIN ring = DOMAIN pool[c].slots
          BY <1>4, <3>1, <3>3, LenProperties DEF Slots
        <5> QED BY <2>4, <3>1, <5>1, ExceptSeq DEF Slots
      <4>3. \A k \in Slots(c) : ring[k] = IF k = i THEN used ELSE pool[c].slots[k]
        BY DEF Slots
      <4> HIDE DEF ring
      <4>4. pool'[c].slots = ring /\ pool'[c] = [cap |-> pool'[c].cap, slots |-> pool'[c].slots]
        BY <3>1, <4>1
      <4> QED BY <3>3, <4>2, <4>3, <4>4
    <3> QED BY <3>2, <3>3
  <2>6. DOMAIN pool' = Classes
    BY <1>3, <1>7 DEF SlotTypes
  <2>7. i \in Nat
    <3>1. pool[class].slots \in Seq(SlotKind)
      BY <1>3, <1>4 DEF SlotTypes
    <3> QED BY <1>4, <3>1, LenProperties DEF Slots
  <2>8. new \in Submissions /\ new.op = ops + 1 /\ new.job = task /\ new.class = class /\ new.slot = i
        /\ new.map = "waiting"
    BY <1>4, <2>1, <2>3, <2>7 DEF Submissions
  <2>9. inflight' = inflight \cup {new}
    BY <1>7
  <2> HIDE DEF new
  <2>10. /\ gpuOps' \in Seq(Nat)
         /\ \A k \in DOMAIN gpuOps' : \/ k \in DOMAIN gpuOps /\ gpuOps'[k] = gpuOps[k]
                                      \/ k = Len(gpuOps) + 1 /\ gpuOps'[k] = ops + 1
         /\ \A k \in DOMAIN gpuOps : gpuOps[k] \in 1 .. ops
    <3>1. gpuOps \in Seq(Nat) /\ gpuOps' = Append(gpuOps, ops + 1) /\ ops + 1 \in Nat
      BY <1>3, <1>7, <2>3 DEF SlotTypes
    <3>2. /\ gpuOps' \in Seq(Nat) /\ Len(gpuOps') = Len(gpuOps) + 1 /\ Len(gpuOps) \in Nat
          /\ \A k \in 1 .. Len(gpuOps) : gpuOps'[k] = gpuOps[k]
          /\ gpuOps'[Len(gpuOps) + 1] = ops + 1
          /\ DOMAIN gpuOps = 1 .. Len(gpuOps) /\ DOMAIN gpuOps' = 1 .. Len(gpuOps')
      BY <3>1, AppendProperties, LenProperties
    <3> QED BY <1>3, <3>2 DEF OpsNumbered
  <2>11. \A s \in inflight : s.op \in Nat /\ s.op <= ops /\ s.class \in Classes /\ s.slot \in Slots(s.class)
    BY <1>3 DEF SlotTypes, Submissions, OpsNumbered, SlotsHeld
  \* No submission held the slot.
  <2>12. \A s \in inflight : ~(s.class = class /\ s.slot = i)
    BY <1>3, <1>4 DEF SlotsHeld
  <2>13. SlotTypes'
    <3>1. inflight' \in SUBSET Submissions /\ IsFiniteSet(inflight')
      BY <1>3, <2>8, <2>9, FS_AddElement DEF SlotTypes
    <3> QED BY <1>1, <1>3, <1>7, <2>1, <2>2, <2>3, <2>5, <2>6, <2>10, <3>1 DEF SlotTypes, DecodeStages
  <2>14. OpsNumbered'
    <3>1. \A s, u \in inflight' : s.op = u.op => s = u
      BY <1>3, <2>3, <2>8, <2>9, <2>11 DEF OpsNumbered
    <3>2. \A s \in inflight' : s.op <= ops'
      BY <2>3, <2>8, <2>9, <2>11, SMTT(30)
    <3>3. \A k \in DOMAIN gpuOps' : gpuOps'[k] \in 1 .. ops'
      BY <2>3, <2>10
    <3>4. \A k, m \in DOMAIN gpuOps' : k # m => gpuOps'[k] # gpuOps'[m]
      <4> TAKE k, m \in DOMAIN gpuOps'
      <4>1. CASE k \in DOMAIN gpuOps /\ m \in DOMAIN gpuOps
        BY <1>3, <2>10, <4>1, <2>3 DEF OpsNumbered
      <4>2. CASE k \notin DOMAIN gpuOps
        BY <2>3, <2>10, <4>2
      <4>3. CASE m \notin DOMAIN gpuOps
        BY <2>3, <2>10, <4>3
      <4> QED BY <4>1, <4>2, <4>3
    <3>5. \A s \in inflight' : \A k \in DOMAIN gpuOps' : gpuOps'[k] = s.op => s.map = "waiting"
      <4> TAKE s \in inflight'
      <4> TAKE k \in DOMAIN gpuOps'
      <4>1. CASE s = new
        BY <2>8, <4>1
      <4>2. CASE s \in inflight
        BY <1>3, <2>3, <2>10, <2>11, <4>2 DEF OpsNumbered
      <4> QED BY <2>9, <4>1, <4>2
    <3> QED BY <3>1, <3>2, <3>3, <3>4, <3>5 DEF OpsNumbered
  <2>15. SlotsHeld'
    <3>1. ASSUME NEW s \in inflight'
          PROVE  /\ s.slot \in DOMAIN pool'[s.class].slots
                 /\ pool'[s.class].slots[s.slot].op = s.op
                 /\ pool'[s.class].slots[s.slot].state = "inflight"
                 /\ pool'[s.class].slots[s.slot].holds = s.job.chunk
                 /\ s.map = "map" => pool'[s.class].slots[s.slot].buffer = "unmapped"
      <4>1. CASE s = new
        BY <1>4, <2>4, <2>5, <2>8, <4>1
      <4>2. CASE s \in inflight
        <5>1. /\ pool[s.class].slots[s.slot].op = s.op
              /\ pool[s.class].slots[s.slot].state = "inflight"
              /\ pool[s.class].slots[s.slot].holds = s.job.chunk
              /\ s.map = "map" => pool[s.class].slots[s.slot].buffer = "unmapped"
          BY <1>3, <4>2 DEF SlotsHeld
        <5> QED BY <2>5, <2>11, <2>12, <4>2, <5>1
      <4> QED BY <2>9, <4>1, <4>2
    <3>2. ASSUME NEW c \in Classes, NEW k \in DOMAIN pool'[c].slots
          PROVE  /\ pool'[c].slots[k].op <= ops'
                 /\ pool'[c].slots[k].state = "inflight" =>
                      \E s \in inflight' : s.class = c /\ s.slot = k /\ s.op = pool'[c].slots[k].op
                 /\ pool'[c].slots[k].state # "inflight" =>
                      \/ pool'[c].slots[k].op \in late'
                      \/ /\ pool'[c].slots[k].buffer = "unmapped"
                         /\ \A m \in DOMAIN gpuOps' : gpuOps'[m] # pool'[c].slots[k].op
      <4>1. CASE c = class /\ k = i
        <5>1. pool'[c].slots[k] = used
          BY <2>5, <4>1
        <5>2. ops + 1 <= ops'
          BY <2>3
        <5> QED BY <2>4, <2>8, <2>9, <4>1, <5>1, <5>2
      <4>2. CASE ~(c = class /\ k = i)
        <5> DEFINE old == pool[c].slots[k]
        <5>1. pool'[c].slots[k] = old /\ k \in Slots(c) /\ old.op \in Nat
          <6>1. pool'[c].slots[k] = old /\ k \in Slots(c)
            BY <2>5, <4>2
          <6>2. pool[c].slots \in Seq(SlotKind)
            BY <1>3 DEF SlotTypes
          <6>3. old \in SlotKind
            BY <6>1, <6>2, LenProperties DEF Slots
          <6> QED BY <6>1, <6>3 DEF SlotKind
        <5>2. /\ old.op <= ops
              /\ old.state = "inflight" => \E s \in inflight : s.class = c /\ s.slot = k /\ s.op = old.op
              /\ old.state # "inflight" =>
                    \/ old.op \in late
                    \/ old.buffer = "unmapped" /\ \A m \in DOMAIN gpuOps : gpuOps[m] # old.op
          BY <1>3, <5>1 DEF SlotsHeld
        <5> HIDE DEF old
        <5>3. old.op # ops + 1 /\ old.op <= ops'
          BY <2>3, <5>1, <5>2
        <5> QED BY <1>1, <2>9, <2>10, <5>1, <5>2, <5>3
      <4> QED BY <4>1, <4>2
    <3> QED BY <2>2, <3>1, <3>2 DEF SlotsHeld, Slots
  <2>16. ChunkPlaces'
    <3>1. AskedNow' = AskedNow /\ decodeCalls' = decodeCalls /\ decodeCalls # <<>> /\ jobs' = jobs
          /\ results' = results
      BY <1>1, <1>3, <1>7 DEF ChunkPlaces, AskedNow
    <3>2. /\ \A m, k \in DOMAIN results : results[m].chunk = results[k].chunk => m = k
          /\ \A s, u \in inflight : s.job.chunk = u.job.chunk => s = u
          /\ \A m, k \in ToCome : jobs[m].chunk = jobs[k].chunk => m = k
          /\ \A m \in DOMAIN results : \A s \in inflight : results[m].chunk # s.job.chunk
          /\ \A m \in DOMAIN results : \A k \in ToCome : results[m].chunk # jobs[k].chunk
          /\ \A s \in inflight : \A k \in ToCome : s.job.chunk # jobs[k].chunk
          /\ \A m \in DOMAIN results : \E p \in DOMAIN AskedNow : AskedNow[p].chunk = results[m].chunk
          /\ \A s \in inflight : \E p \in DOMAIN AskedNow : AskedNow[p].chunk = s.job.chunk
          /\ \A k \in ToCome : \E p \in DOMAIN AskedNow : AskedNow[p].chunk = jobs[k].chunk
          /\ \A p \in DOMAIN AskedNow :
              \/ \E m \in DOMAIN results : AskedNow[p].chunk = results[m].chunk
              \/ \E s \in inflight : AskedNow[p].chunk = s.job.chunk
              \/ \E k \in ToCome : AskedNow[p].chunk = jobs[k].chunk
          /\ \A m \in DOMAIN results : results[m].gpu \in {0, results[m].chunk}
      BY <1>1, <1>3 DEF ChunkPlaces
    <3>3. new.job.chunk = jobs[nextJob].chunk
      BY <2>8 DEF task
    <3>4. \A s, u \in inflight' : s.job.chunk = u.job.chunk => s = u
      BY <2>1, <2>9, <3>2, <3>3
    <3>5. /\ \A m \in DOMAIN results : \A s \in inflight' : results[m].chunk # s.job.chunk
          /\ \A s \in inflight' : \A k \in ToCome' : s.job.chunk # jobs[k].chunk
          /\ \A s \in inflight' : \E p \in DOMAIN AskedNow : AskedNow[p].chunk = s.job.chunk
      BY <2>1, <2>9, <3>2, <3>3
    <3>6. \A p \in DOMAIN AskedNow :
              \/ \E m \in DOMAIN results : AskedNow[p].chunk = results[m].chunk
              \/ \E s \in inflight' : AskedNow[p].chunk = s.job.chunk
              \/ \E k \in ToCome' : AskedNow[p].chunk = jobs[k].chunk
      <4> TAKE p \in DOMAIN AskedNow
      <4>1. CASE \E s \in inflight : AskedNow[p].chunk = s.job.chunk
        BY <2>9, <4>1
      <4>2. CASE \E k \in ToCome : AskedNow[p].chunk = jobs[k].chunk
        BY <2>1, <2>9, <3>3, <4>2
      <4> QED BY <3>2, <4>1, <4>2
    <3>7. \A m \in ToCome' : m \in ToCome
      BY <2>1
    <3> QED BY <3>1, <3>2, <3>4, <3>5, <3>6, <3>7 DEF ChunkPlaces
  <2>17. AnswersExact'
    BY <2>2 DEF AnswersExact
  <2> QED BY <2>13, <2>14, <2>15, <2>16, <2>17 DEF DecodeInv
<1> QED BY <1>5, <1>6, <1>7

LEMMA NoSlotStep ==
    ASSUME DecodeInv, NoSlot
    PROVE  DecodeInv'
<1>1. /\ round.stage = "submit" /\ nextJob <= Len(jobs)
      /\ UNCHANGED <<decodeCalls, pool, jobs, inflight, gpuOps, ops, spins, late>>
      /\ \/ /\ round' = [round EXCEPT !.stage = "wait", !.stalled = TRUE]
            /\ UNCHANGED <<nextJob, results>>
         \/ /\ results' = Append(results, CpuFallback(jobs[nextJob]))
            /\ nextJob' = nextJob + 1
            /\ round' = [round EXCEPT !.submitted = @ + 1]
  BY DEF NoSlot, MayMicroSubmit
<1>2. CASE /\ round' = [round EXCEPT !.stage = "wait", !.stalled = TRUE]
           /\ UNCHANGED <<nextJob, results>>
  <2>1. SlotTypes /\ OpsNumbered /\ SlotsHeld /\ ChunkPlaces
    BY DEF DecodeInv
  <2>2. round'.stage = "wait"
        /\ round' = [stage |-> round'.stage, limit |-> round'.limit, budget |-> round'.budget,
                submitted |-> round'.submitted, completed |-> round'.completed,
                stalled |-> round'.stalled]
    BY <1>2, <2>1 DEF SlotTypes
  <2>3. SlotTypes' /\ OpsNumbered'
    BY <1>1, <1>2, <2>1, <2>2 DEF SlotTypes, OpsNumbered, DecodeStages
  <2>4. SlotsHeld' /\ ChunkPlaces' /\ AnswersExact'
    BY <1>1, <1>2, <2>1, <2>2 DEF SlotsHeld, Slots, ChunkPlaces, AnswersExact, AskedNow, ToCome
  <2> QED BY <2>3, <2>4 DEF DecodeInv
<1> QED BY <1>1, <1>2, FallbackStep

LEMMA StageEndStep ==
    ASSUME DecodeInv, SubmitStageEnds
    PROVE  DecodeInv'
<1>1. /\ round.stage = "submit" /\ round' = [round EXCEPT !.stage = "wait"]
      /\ UNCHANGED <<decodeCalls, pool, jobs, nextJob, inflight, gpuOps, ops, spins, results, late>>
  BY DEF SubmitStageEnds
<1>2. SlotTypes /\ OpsNumbered /\ SlotsHeld /\ ChunkPlaces
  BY DEF DecodeInv
<1>3. round'.stage = "wait"
      /\ round' = [stage |-> round'.stage, limit |-> round'.limit, budget |-> round'.budget,
                submitted |-> round'.submitted, completed |-> round'.completed,
                stalled |-> round'.stalled]
  BY <1>1, <1>2 DEF SlotTypes
<1>4. SlotTypes' /\ OpsNumbered'
  BY <1>1, <1>2, <1>3 DEF SlotTypes, OpsNumbered, DecodeStages
<1>5. SlotsHeld' /\ ChunkPlaces' /\ AnswersExact'
  BY <1>1, <1>2, <1>3 DEF SlotsHeld, Slots, ChunkPlaces, AnswersExact, AskedNow, ToCome
<1> QED BY <1>4, <1>5 DEF DecodeInv

--------------------------------------------------------------------------------
(* A round ends, and the call with it when everything is answered.              *)

LEMMA EndStep ==
    ASSUME DecodeInv, EndRound
    PROVE  DecodeInv'
<1>1. /\ round.stage = "wait"
      /\ round' = [NewRound EXCEPT !.stage =
                     IF nextJob > Len(jobs) /\ inflight = {} THEN "returned" ELSE "complete"]
      /\ pool' = IF round'.stage = "returned" THEN recycle_gpu_decode_ready_slots(pool) ELSE pool
      /\ results' = IF round'.stage = "returned" THEN ByChunk(results) ELSE results
      /\ UNCHANGED <<decodeCalls, jobs, nextJob, inflight, gpuOps, ops, late>>
  BY DEF EndRound
<1>2. SlotTypes /\ OpsNumbered /\ SlotsHeld /\ ChunkPlaces
  BY DEF DecodeInv
<1>3. round' = [stage |-> round'.stage, limit |-> round'.limit, budget |-> round'.budget,
                submitted |-> round'.submitted, completed |-> round'.completed,
                stalled |-> round'.stalled]
      /\ round'.stage = IF nextJob > Len(jobs) /\ inflight = {} THEN "returned" ELSE "complete"
  BY <1>1 DEF NewRound
<1>4. OpsNumbered'
  BY <1>1, <1>2 DEF OpsNumbered
<1>5. CASE ~(nextJob > Len(jobs) /\ inflight = {})
  <2>1. round'.stage = "complete" /\ pool' = pool /\ results' = results
    BY <1>1, <1>3, <1>5
  <2>2. SlotTypes'
    BY <1>1, <1>2, <1>3, <2>1 DEF SlotTypes, DecodeStages
  <2>4. UNCHANGED <<decodeCalls, jobs, nextJob, inflight, gpuOps, ops, late>>
    BY <1>1
  <2>5. SlotsHeld'
    BY <1>2, <2>1, <2>4 DEF SlotsHeld, Slots
  <2>6. ChunkPlaces'
    BY <1>1, <1>2, <2>1, <2>4 DEF ChunkPlaces, AskedNow, ToCome
  <2>3. SlotsHeld' /\ ChunkPlaces' /\ AnswersExact'
    BY <2>1, <2>5, <2>6 DEF AnswersExact
  <2> QED BY <1>4, <2>2, <2>3 DEF DecodeInv
<1>6. CASE nextJob > Len(jobs) /\ inflight = {}
  <2>1. /\ round'.stage = "returned" /\ pool' = recycle_gpu_decode_ready_slots(pool)
        /\ results' = ByChunk(results)
    BY <1>1, <1>3, <1>6
  <2>2. ToCome = {}
    <3>1. jobs \in Seq(DecodeJobs) /\ nextJob \in Int
      BY <1>2 DEF SlotTypes
    <3>2. DOMAIN jobs = 1 .. Len(jobs) /\ Len(jobs) \in Nat
      BY <3>1, LenProperties
    <3> QED BY <1>6, <3>1, <3>2 DEF ToCome
  <2>3. decodeCalls # <<>> /\ AskedNow \in Seq(DecodeJobs) /\ Increasing(AskedNow)
    <3>1. decodeCalls # <<>>
      BY <1>1, <1>2 DEF ChunkPlaces
    <3>2. decodeCalls \in Seq(Seq(DecodeJobs)) /\ 1 \in DOMAIN decodeCalls
          /\ AskedNow = decodeCalls[1]
      BY <1>2, <3>1, HeadTailProperties, EmptySeq, LenProperties DEF SlotTypes, AskedNow
    <3> QED BY <1>2, <3>1, <3>2, ElementOfSeq, LenProperties DEF SlotTypes
  <2>4. /\ ByChunk(results) \in Seq(Answers)
        /\ [i \in DOMAIN ByChunk(results) |-> ByChunk(results)[i].chunk]
                = [i \in DOMAIN AskedNow |-> AskedNow[i].chunk]
        /\ \A i \in DOMAIN ByChunk(results) : \E k \in DOMAIN results : ByChunk(results)[i] = results[k]
    <3>1. results \in Seq(Answers)
      BY <1>2 DEF SlotTypes
    <3>2. \A i, k \in DOMAIN results : results[i].chunk = results[k].chunk => i = k
      BY <1>1, <1>2 DEF ChunkPlaces
    <3>3. \A i \in DOMAIN results : \E p \in DOMAIN AskedNow : AskedNow[p].chunk = results[i].chunk
      BY <1>1, <1>2 DEF ChunkPlaces
    <3>4. \A p \in DOMAIN AskedNow : \E i \in DOMAIN results : AskedNow[p].chunk = results[i].chunk
      BY <1>1, <1>2, <1>6, <2>2 DEF ChunkPlaces
    <3>5. (\A a \in Answers : a.chunk \in Nat) /\ (\A a \in DecodeJobs : a.chunk \in Nat)
      BY DEF Answers, DecodeJobs
    <3> QED BY <2>3, <3>1, <3>2, <3>3, <3>4, <3>5, SortedAnswers, ZenonT(60)
  <2>5. DOMAIN pool' = Classes
    BY <1>2, <2>1, Recycled DEF Classes
  <2>6. ASSUME NEW c \in Classes
        PROVE  /\ pool'[c] = [cap |-> pool'[c].cap, slots |-> pool'[c].slots]
               /\ pool'[c].slots \in Seq(SlotKind) /\ DOMAIN pool'[c].slots = Slots(c)
               /\ \A i \in Slots(c) :
                    /\ pool'[c].slots[i].op = pool[c].slots[i].op
                    /\ pool'[c].slots[i].buffer = pool[c].slots[i].buffer
                    /\ pool'[c].slots[i].state = IF pool[c].slots[i].state = "ready" THEN "free"
                                                 ELSE pool[c].slots[i].state
    BY <1>2, <2>1, Recycled
  <2>7. ASSUME NEW c \in Classes, NEW i \in DOMAIN pool'[c].slots
        PROVE  /\ pool'[c].slots[i].op <= ops'
               /\ pool'[c].slots[i].state = "free"
               /\ \/ pool'[c].slots[i].op \in late'
                  \/ /\ pool'[c].slots[i].buffer = "unmapped"
                     /\ \A k \in DOMAIN gpuOps' : gpuOps'[k] # pool'[c].slots[i].op
    <3> DEFINE old == pool[c].slots[i]
    <3>1. i \in Slots(c) /\ pool'[c].slots[i].op = old.op /\ pool'[c].slots[i].buffer = old.buffer
          /\ pool'[c].slots[i].state = IF old.state = "ready" THEN "free" ELSE old.state
      <4>1. i \in Slots(c)
        BY <2>6
      <4> QED BY <2>6, <4>1
    <3>2. /\ old.op <= ops /\ old.state # "inflight"
          /\ old.state # "inflight" =>
                    \/ old.op \in late
                    \/ old.buffer = "unmapped" /\ \A m \in DOMAIN gpuOps : gpuOps[m] # old.op
      BY <1>2, <1>6, <3>1 DEF SlotsHeld
    <3>3. old.state \in {"free", "inflight", "ready"}
      <4>1. pool[c].slots \in Seq(SlotKind)
        BY <1>2 DEF SlotTypes
      <4>2. old \in SlotKind
        BY <3>1, <4>1, LenProperties DEF Slots
      <4> QED BY <4>2 DEF SlotKind
    <3> HIDE DEF old
    <3> QED BY <1>1, <3>1, <3>2, <3>3
  <2>8. SlotTypes'
    BY <1>1, <1>2, <1>3, <2>1, <2>4, <2>5, <2>6 DEF SlotTypes, DecodeStages
  <2>9. SlotsHeld'
    BY <1>1, <1>6, <2>1, <2>7 DEF SlotsHeld, Slots
  <2>10. ChunkPlaces'
    BY <1>1, <2>1, <2>3 DEF ChunkPlaces
  <2>11. AnswersExact'
    <3>1. Head(decodeCalls)' = AskedNow
      BY <1>1 DEF AskedNow
    <3>2. \A i \in DOMAIN results : results[i].gpu \in {0, results[i].chunk}
      BY <1>1, <1>2 DEF ChunkPlaces
    <3> QED BY <2>1, <2>4, <3>1, <3>2 DEF AnswersExact
  <2> QED BY <1>4, <2>8, <2>9, <2>10, <2>11 DEF DecodeInv
<1> QED BY <1>5, <1>6

LEMMA NextCallStep ==
    ASSUME DecodeInv, NextDecodeCall
    PROVE  DecodeInv'
<1>1. /\ round.stage \in {"returned", "failed"} /\ decodeCalls # <<>>
      /\ decodeCalls' = Tail(decodeCalls)
      /\ round' = [NewRound EXCEPT !.stage = IF decodeCalls' = <<>> THEN "done" ELSE "call"]
      /\ jobs' = <<>> /\ nextJob' = 1 /\ results' = <<>>
      /\ UNCHANGED <<pool, inflight, gpuOps, ops, late>>
  BY DEF NextDecodeCall
<1>2. SlotTypes /\ OpsNumbered /\ SlotsHeld
  BY DEF DecodeInv
<1>3. round' = [stage |-> round'.stage, limit |-> round'.limit, budget |-> round'.budget,
                submitted |-> round'.submitted, completed |-> round'.completed,
                stalled |-> round'.stalled]
      /\ round'.stage \in {"done", "call"}
  BY <1>1 DEF NewRound
<1>4. decodeCalls' \in Seq(Seq(DecodeJobs)) /\ \A n \in DOMAIN decodeCalls' : Increasing(decodeCalls'[n])
  <2>1. decodeCalls \in Seq(Seq(DecodeJobs)) /\ \A n \in DOMAIN decodeCalls : Increasing(decodeCalls[n])
    BY <1>2 DEF SlotTypes
  <2>2. /\ decodeCalls' \in Seq(Seq(DecodeJobs)) /\ Len(decodeCalls') = Len(decodeCalls) - 1
        /\ DOMAIN decodeCalls = 1 .. Len(decodeCalls) /\ DOMAIN decodeCalls' = 1 .. Len(decodeCalls) - 1
        /\ Len(decodeCalls) \in Nat \ {0}
        /\ \A k \in DOMAIN decodeCalls' : decodeCalls'[k] = decodeCalls[k + 1] /\ k + 1 \in DOMAIN decodeCalls
    BY <1>1, <2>1, HeadTailProperties, EmptySeq, LenProperties
  <2> QED BY <2>1, <2>2
<1>5. jobs' \in Seq(DecodeJobs) /\ results' \in Seq(Answers) /\ nextJob' \in 1 .. Len(jobs') + 1
  BY <1>1, EmptySeq
<1>6. SlotTypes' /\ OpsNumbered'
  BY <1>1, <1>2, <1>3, <1>4, <1>5 DEF SlotTypes, OpsNumbered, DecodeStages
<1>7. SlotsHeld'
  BY <1>1, <1>2, <1>3 DEF SlotsHeld, Slots
<1>8. ChunkPlaces' /\ AnswersExact'
  BY <1>3 DEF ChunkPlaces, AnswersExact
<1> QED BY <1>6, <1>7, <1>8 DEF DecodeInv

--------------------------------------------------------------------------------
LEMMA DecodeKeepsInv ==
    ASSUME DecodeInv, GpuDecodeNext \/ UNCHANGED slotVars
    PROVE  DecodeInv'
<1>1. CASE SubmitFails
  BY <1>1, FallbackStep DEF SubmitFails, MayMicroSubmit
<1>2. CASE DecodeEnded
  BY <1>2, SlotsRest DEF DecodeEnded
<1> QED BY <1>1, <1>2, BeginStep, CompleteStep, SubmitStep, NoSlotStep, StageEndStep, EndStep,
           NextCallStep, DeviceStep, SlotsRest DEF GpuDecodeNext, DecodeLoop

\* The invariant says that no two submissions hold one slot, and that the call is answered.
LEMMA DecodeInvSound == DecodeInv => SlotsSound /\ AnswersExact
<1> SUFFICES ASSUME DecodeInv PROVE SlotsSound
  BY DEF DecodeInv
<1>1. SlotTypes /\ OpsNumbered /\ SlotsHeld
  BY DEF DecodeInv
<1>2. \A s, u \in inflight : s # u => <<s.class, s.slot>> # <<u.class, u.slot>>
  <2> TAKE s, u \in inflight
  <2>1. s.class = u.class /\ s.slot = u.slot => s.op = u.op
    BY <1>1 DEF SlotsHeld
  <2> QED BY <1>1, <2>1 DEF OpsNumbered
<1>3. ASSUME round.stage \in {"returned", "call", "done"}
      PROVE  \A c \in Classes : \A i \in Slots(c) :
             /\ pool[c].slots[i].state = "free"
             /\ pool[c].slots[i].buffer = "unmapped" \/ pool[c].slots[i].op \in late
  BY <1>1, <1>3 DEF SlotsHeld
<1> QED BY <1>1, <1>2, <1>3 DEF SlotsSound, SlotsHeld

--------------------------------------------------------------------------------
(* Calls in true batches (PdeflateGpuTrueBatch): which rounds are answered, which  *)
(* are in the hands of their caller, and which submission a scratch serves.        *)

BatchAnswers == [chunk : Nat, gpu : Nat]
BatchesSent  == [jobs : Seq(PreparedJobs), op : Nat, scratch : Nat,
                 map : {"waiting", "ok", "map", "late"}, bad : SUBSET Nat]
ScratchKind  == [cap : Nat, holds : Seq(Nat), op : Nat,
                 buffer : {"unmapped", "pending", "mapped"}]

TrueBatchTypes ==
    /\ DOMAIN caller = BatchCallers
    /\ \A t \in BatchCallers :
          /\ caller[t] = [stage |-> caller[t].stage, rounds |-> caller[t].rounds,
                          pending |-> caller[t].pending, ready |-> caller[t].ready,
                          out |-> caller[t].out]
          /\ caller[t].stage \in {"round", "room", "returned", "panicked"}
          /\ caller[t].rounds \in Seq(Seq(PreparedJobs))
          /\ caller[t].pending \in Seq(BatchesSent) /\ caller[t].ready \in Seq(BatchesSent)
          /\ caller[t].out \in Seq(BatchAnswers)
    /\ truePool \in Seq(Nat) /\ scratches \in Seq(ScratchKind)
    /\ deviceQueue \in Seq(Nat) /\ submits \in Nat

\* The submissions of a call that are in its ring or wait to be copied.
Hand(c) == {c.pending[i] : i \in DOMAIN c.pending} \cup {c.ready[i] : i \in DOMAIN c.ready}
InHand(t) == Hand(caller[t])

PlacedOnce(c) ==
    /\ \A i, k \in DOMAIN c.pending : c.pending[i] = c.pending[k] => i = k
    /\ \A i, k \in DOMAIN c.ready : c.ready[i] = c.ready[k] => i = k
    /\ \A i \in DOMAIN c.pending : \A k \in DOMAIN c.ready : c.pending[i] # c.ready[k]
    /\ \A i \in DOMAIN c.pending : c.pending[i].map # "late"
    /\ \A k \in DOMAIN c.ready : c.ready[k].map # "waiting"

\* Submissions are known by their numbers, and each is in one place.
BatchesNumbered ==
    /\ \A t, u \in BatchCallers : \A p \in InHand(t) : \A q \in InHand(u) :
          p.op = q.op => t = u /\ p = q
    /\ \A t \in BatchCallers : PlacedOnce(caller[t])
    /\ \A t \in BatchCallers : \A p \in InHand(t) :
          /\ p.op \in 1 .. submits
          /\ p.map = "late" => p.op \in givenUp
          /\ \A k \in DOMAIN deviceQueue : deviceQueue[k] = p.op => p.map \in {"waiting", "late"}
    /\ \A i \in DOMAIN deviceQueue : deviceQueue[i] \in 1 .. submits
    /\ \A i, k \in DOMAIN deviceQueue : i # k => deviceQueue[i] # deviceQueue[k]

\* A scratch is in the pool, with its buffer unmapped unless a mapping was given up, or it
\* holds the chunks of the submission that has it.
ScratchesHeld ==
    /\ Len(truePool) <= TruePoolLimit
    /\ \A i, k \in DOMAIN truePool : truePool[i] = truePool[k] => i = k
    /\ \A i \in DOMAIN truePool :
          /\ truePool[i] \in DOMAIN scratches
          /\ \/ scratches[truePool[i]].op \in givenUp
             \/ /\ scratches[truePool[i]].buffer = "unmapped"
                /\ \A k \in DOMAIN deviceQueue : deviceQueue[k] # scratches[truePool[i]].op
    /\ \A t \in BatchCallers : \A p \in InHand(t) :
          /\ p.scratch \in DOMAIN scratches
          /\ \A i \in DOMAIN truePool : truePool[i] # p.scratch
          /\ scratches[p.scratch].op = p.op
          /\ scratches[p.scratch].holds = [i \in DOMAIN p.jobs |-> p.jobs[i].chunk]
          /\ p.map = "map" => scratches[p.scratch].buffer = "unmapped"
    /\ \A i \in DOMAIN scratches : scratches[i].op \in 0 .. submits
    /\ \A t \in BatchCallers : caller[t].stage = "panicked" => givenUp # {}

\* The rounds of a call are done in their order; what was submitted is in one submission's
\* hands or answered.
RoundsOf(t) == Rounds(BatchJobs[t])
AnsweredIn(out, chunk) == \E i \in DOMAIN out : out[i].chunk = chunk
RoundsSettled(rounds, hand, out, R) ==
    /\ Len(R) - Len(rounds) \in Nat
    /\ \A k \in DOMAIN rounds : rounds[k] = R[Len(R) - Len(rounds) + k]
    /\ \A part \in hand : \E k \in 1 .. Len(R) - Len(rounds) : part = R[k]
    /\ \A i, k \in DOMAIN out : out[i].chunk = out[k].chunk => i = k
    /\ \A i \in DOMAIN out : \E k \in 1 .. Len(R) - Len(rounds) :
          \E j \in DOMAIN R[k] : R[k][j].chunk = out[i].chunk
    /\ \A k \in 1 .. Len(R) - Len(rounds) : \A j \in DOMAIN R[k] :
          AnsweredIn(out, R[k][j].chunk) <=> R[k] \notin hand
    /\ \A i \in DOMAIN out : out[i].gpu \in {0, out[i].chunk}

JobsOf(c) == {p.jobs : p \in Hand(c)}
JobsApart(c) == \A p, q \in Hand(c) : p.jobs = q.jobs => p = q
RoundsKept(t) ==
    caller[t].stage # "returned" =>
        /\ JobsApart(caller[t])
        /\ RoundsSettled(caller[t].rounds, JobsOf(caller[t]), caller[t].out, RoundsOf(t))
RoundsInOrder == \A t \in BatchCallers : RoundsKept(t)

TrueBatchInv ==
    TrueBatchTypes /\ BatchesNumbered /\ ScratchesHeld /\ RoundsInOrder /\ TrueBatchExact
--------------------------------------------------------------------------------

(* The rounds of a call.                                                        *)

LEMMA TimesGrows ==
    ASSUME NEW i \in Nat, NEW k \in Nat, NEW n \in Nat, i <= k
    PROVE  i * n <= k * n /\ i * n \in Nat /\ k * n \in Nat
OBVIOUS

LEMMA TimesLess ==
    ASSUME NEW k \in Int, NEW n \in Int
    PROVE  (k - 1) * n = k * n - n /\ (k + 1) * n = k * n + n
OBVIOUS

LEMMA DivideDown ==
    ASSUME NEW i \in Nat, NEW n \in Nat \ {0}
    PROVE  i \div n \in Nat /\ (i \div n) * n <= i /\ i < (i \div n) * n + n
OBVIOUS

LEMMA DivideUp ==
    ASSUME NEW n \in Nat, NEW c \in Nat \ {0}
    PROVE  /\ (n + c - 1) \div c \in Nat
           /\ \A k \in 1 .. (n + c - 1) \div c : (k - 1) * c < n
           /\ \A p \in 1 .. n : (p - 1) \div c + 1 \in 1 .. (n + c - 1) \div c
<1>1. n + c - 1 \in Nat
  OBVIOUS
<1>2. (n + c - 1) \div c \in Nat
  BY <1>1, DivideDown
<1>3. \A k \in 1 .. (n + c - 1) \div c : (k - 1) * c < n
  OBVIOUS
<1>4. ASSUME NEW p \in 1 .. n
      PROVE  (p - 1) \div c + 1 \in 1 .. (n + c - 1) \div c
  <2> DEFINE d == (p - 1) \div c
             e == (n + c - 1) \div c
  <2>1. d \in Nat /\ d * c <= p - 1
    BY DivideDown
  <2>2. e \in Nat /\ n + c - 1 < e * c + c
    BY <1>1, DivideDown
  <2> HIDE DEF d, e
  <2>3. d * c + c <= p - 1 + c /\ p - 1 + c <= n + c - 1
    BY <2>1
  <2>4. (d + 1) * c = d * c + c /\ (e + 1) * c = e * c + c
    BY <2>1, <2>2
  <2>5. (d + 1) * c < (e + 1) * c
    <3>1. d * c \in Int /\ e * c \in Int
      BY <2>1, <2>2
    <3> QED BY <2>2, <2>3, <2>4, <3>1
  <2>6. ~(d + 1 >= e + 1)
    <3>1. ASSUME d + 1 >= e + 1 PROVE FALSE
      <4>1. d + 1 \in Nat /\ e + 1 \in Nat /\ e + 1 <= d + 1 /\ c \in Nat
        BY <2>1, <2>2, <3>1
      <4>2. (e + 1) * c <= (d + 1) * c /\ (e + 1) * c \in Nat /\ (d + 1) * c \in Nat
        BY <4>1, TimesGrows
      <4> QED BY <2>5, <4>2
    <3> QED BY <3>1
  <2>7. d + 1 \in 1 .. e
    BY <2>1, <2>2, <2>6
  <2> QED BY <2>7 DEF d, e
<1> QED BY <1>2, <1>3, <1>4

LEMMA RoundsParts ==
    ASSUME NEW part \in Seq(PreparedJobs), Increasing(part)
    PROVE  /\ Rounds(part) \in Seq(Seq(PreparedJobs))
           /\ \A k \in DOMAIN Rounds(part) : Rounds(part)[k] # <<>>
           /\ \A k, m \in DOMAIN Rounds(part) :
                 \A i \in DOMAIN Rounds(part)[k], j \in DOMAIN Rounds(part)[m] :
                    Rounds(part)[k][i].chunk = Rounds(part)[m][j].chunk => k = m /\ i = j
           /\ \A k \in DOMAIN Rounds(part) : \A i \in DOMAIN Rounds(part)[k] :
                 \E p \in DOMAIN part : part[p].chunk = Rounds(part)[k][i].chunk
           /\ \A p \in DOMAIN part : \E k \in DOMAIN Rounds(part) :
                 \E i \in DOMAIN Rounds(part)[k] : Rounds(part)[k][i].chunk = part[p].chunk
<1> DEFINE n == Len(part)
           c == SuperBatch
           r == (n + c - 1) \div c
           R == Rounds(part)
           upto(k) == IF k * c < n THEN k * c ELSE n
<1>1. /\ n \in Nat /\ DOMAIN part = 1 .. n /\ c \in Nat \ {0}
      /\ \A p \in 1 .. n : part[p] \in PreparedJobs
  BY TrueBatchAssumption, LenProperties
<1>2. R = [k \in 1 .. r |-> SubSeq(part, (k - 1) * c + 1, upto(k))]
  BY DEF Rounds
<1>3. r \in Nat /\ (\A k \in 1 .. r : (k - 1) * c < n) /\ \A p \in 1 .. n : (p - 1) \div c + 1 \in 1 .. r
  BY <1>1, DivideUp
<1> HIDE DEF r, R, n, c
<1>4. ASSUME NEW k \in 1 .. r
      PROVE  /\ (k - 1) * c \in Nat /\ k * c \in Nat /\ k * c = (k - 1) * c + c
             /\ upto(k) \in Nat /\ (k - 1) * c < upto(k) /\ upto(k) <= n /\ upto(k) <= k * c
             /\ R[k] \in Seq(PreparedJobs) /\ DOMAIN R[k] = 1 .. upto(k) - (k - 1) * c
             /\ \A i \in 1 .. upto(k) - (k - 1) * c : R[k][i] = part[(k - 1) * c + i]
  <2>1. (k - 1) * c \in Nat /\ k * c \in Nat /\ k * c = (k - 1) * c + c
    <3>1. k \in Int /\ k - 1 \in Nat /\ c \in Nat /\ k \in Nat
      BY <1>1, <1>3
    <3>2. (k - 1) * c = k * c - c
      BY <3>1, TimesLess
    <3>3. (k - 1) * c \in Nat /\ k * c \in Nat
      BY <3>1, TimesGrows
    <3> QED BY <3>1, <3>2, <3>3
  <2>2. (k - 1) * c < n
    BY <1>3
  <2> DEFINE from == (k - 1) * c  to == upto(k)
  <2>3. to \in Nat /\ from < to /\ to <= n /\ to <= k * c /\ from \in Nat
    BY <1>1, <2>1, <2>2
  <2>4. R[k] = SubSeq(part, from + 1, to)
    BY <1>2
  <2> HIDE DEF from, to
  <2>5. \A i \in from + 1 .. to : part[i] \in PreparedJobs
    BY <1>1, <2>3
  <2>6. /\ SubSeq(part, from + 1, to) \in Seq(PreparedJobs)
        /\ Len(SubSeq(part, from + 1, to)) = IF from + 1 <= to THEN to - (from + 1) + 1 ELSE 0
        /\ \A i \in 1 .. to - (from + 1) + 1 : SubSeq(part, from + 1, to)[i] = part[from + 1 + i - 1]
    BY <2>3, <2>5, SubSeqProperties
  <2>7. to - (from + 1) + 1 = to - from /\ from + 1 <= to
    BY <2>3
  <2>8. DOMAIN R[k] = 1 .. to - from
    BY <2>4, <2>6, <2>7, LenProperties
  <2>9. \A i \in 1 .. to - from : R[k][i] = part[from + i]
    <3> TAKE i \in 1 .. to - from
    <3>1. from + 1 + i - 1 = from + i
      BY <2>3
    <3> QED BY <2>4, <2>6, <2>7, <3>1
  <2> QED BY <2>1, <2>3, <2>4, <2>6, <2>8, <2>9 DEF from, to
<1>5. R \in Seq(Seq(PreparedJobs)) /\ DOMAIN R = 1 .. r
  <2>1. R \in [1 .. r -> Seq(PreparedJobs)]
    <3>1. DOMAIN R = 1 .. r /\ \A k \in 1 .. r : R[k] \in Seq(PreparedJobs)
      BY <1>2, <1>4
    <3>2. R = [k \in 1 .. r |-> R[k]]
      BY <1>2
    <3> QED BY <3>1, <3>2
  <2> QED BY <1>3, <2>1, SeqDef
<1>6. \A k \in 1 .. r : R[k] # <<>>
  <2> TAKE k \in 1 .. r
  <2>1. 1 \in DOMAIN R[k]
    BY <1>4
  <2> QED BY <2>1
<1>7. \A p, q \in 1 .. n : part[p].chunk = part[q].chunk => p = q
  <2> TAKE p, q \in 1 .. n
  <2>1. p < q => part[p].chunk < part[q].chunk
    BY <1>1 DEF Increasing
  <2>2. q < p => part[q].chunk < part[p].chunk
    BY <1>1 DEF Increasing
  <2>3. part[p].chunk \in Nat /\ part[q].chunk \in Nat
    BY <1>1 DEF PreparedJobs
  <2>4. p \in Int /\ q \in Int
    OBVIOUS
  <2> QED BY <2>1, <2>2, <2>3, <2>4
<1>8. ASSUME NEW k \in 1 .. r, NEW i \in DOMAIN R[k]
      PROVE  /\ (k - 1) * c + i \in 1 .. n /\ R[k][i] = part[(k - 1) * c + i]
             /\ i \in Int /\ (k - 1) * c < (k - 1) * c + i /\ (k - 1) * c + i <= k * c
  <2> DEFINE from == (k - 1) * c  to == upto(k)  over == k * c
  <2>1. /\ from \in Nat /\ over \in Nat /\ to \in Nat /\ to <= n /\ to <= over
        /\ i \in 1 .. to - from /\ R[k][i] = part[from + i]
    BY <1>4
  <2> HIDE DEF from, to, over
  <2>2. from + i \in 1 .. n /\ i \in Int /\ from < from + i /\ from + i <= over
    BY <1>1, <2>1
  <2> QED BY <2>1, <2>2 DEF from, over
<1>9. ASSUME NEW k \in 1 .. r, NEW m \in 1 .. r, k < m,
             NEW i \in DOMAIN R[k], NEW j \in DOMAIN R[m]
      PROVE  (k - 1) * c + i # (m - 1) * c + j
  <2>1. k \in Nat /\ m - 1 \in Nat /\ k <= m - 1 /\ c \in Nat
    BY <1>1, <1>3, <1>9
  <2>2. k * c <= (m - 1) * c /\ k * c \in Nat /\ (m - 1) * c \in Nat
    BY <2>1, TimesGrows
  <2>3. (k - 1) * c + i <= k * c /\ (m - 1) * c < (m - 1) * c + j
        /\ (k - 1) * c + i \in Int /\ (m - 1) * c + j \in Int
    BY <1>1, <1>8
  <2> DEFINE x == (k - 1) * c + i  y == k * c  z == (m - 1) * c  w == (m - 1) * c + j
  <2>4. x <= y /\ y <= z /\ z < w /\ x \in Int /\ y \in Int /\ z \in Int /\ w \in Int
    BY <2>2, <2>3
  <2> HIDE DEF x, y, z, w
  <2>5. x # w
    BY <2>4
  <2> QED BY <2>5 DEF x, w
<1>10. ASSUME NEW k \in 1 .. r, NEW m \in 1 .. r, NEW i \in DOMAIN R[k], NEW j \in DOMAIN R[m],
              R[k][i].chunk = R[m][j].chunk
       PROVE  k = m /\ i = j
  <2>1. (k - 1) * c + i = (m - 1) * c + j
    <3> DEFINE p == (k - 1) * c + i  q == (m - 1) * c + j
    <3>1. p \in 1 .. n /\ R[k][i] = part[p] /\ q \in 1 .. n /\ R[m][j] = part[q]
      BY <1>8
    <3> HIDE DEF p, q
    <3>2. p = q
      BY <1>7, <1>10, <3>1
    <3> QED BY <3>2 DEF p, q
  <2>2. ~(k < m) /\ ~(m < k)
    BY <1>9, <2>1
  <2>3. k = m
    BY <2>2
  <2> DEFINE x == (k - 1) * c
  <2>4. x + i = x + j /\ x \in Int /\ i \in Int /\ j \in Int
    BY <1>4, <1>8, <2>1, <2>3
  <2> HIDE DEF x
  <2>5. i = j
    BY <2>4
  <2> QED BY <2>3, <2>5
<1>11. ASSUME NEW p \in 1 .. n
       PROVE  \E k \in 1 .. r : \E i \in DOMAIN R[k] : R[k][i].chunk = part[p].chunk
  <2> DEFINE d == (p - 1) \div c
  <2>1. d \in Nat /\ d * c <= p - 1 /\ p - 1 < d * c + c
    BY <1>1, DivideDown
  <2>2. d + 1 \in 1 .. r
    BY <1>3
  <2> HIDE DEF d
  <2> DEFINE k == d + 1
             from == (k - 1) * c
             to == upto(k)
             over == k * c
  <2>3. from = d * c
    BY <2>1
  <2>4. /\ from \in Nat /\ over = from + c /\ to = IF over < n THEN over ELSE n
        /\ DOMAIN R[k] = 1 .. to - from /\ \A i \in 1 .. to - from : R[k][i] = part[from + i]
    BY <1>4, <2>2
  <2>5. from <= p - 1 /\ p - 1 < from + c
    BY <2>1, <2>3
  <2> HIDE DEF from, to, over
  <2>6. p - from \in 1 .. to - from /\ from + (p - from) = p
    BY <1>1, <2>4, <2>5
  <2> QED BY <2>2, <2>4, <2>6
<1>12. \A k \in 1 .. r : \A i \in DOMAIN R[k] : \E p \in DOMAIN part : part[p].chunk = R[k][i].chunk
  BY <1>1, <1>8
<1>13. \A k, m \in DOMAIN R : \A i \in DOMAIN R[k], j \in DOMAIN R[m] :
          R[k][i].chunk = R[m][j].chunk => k = m /\ i = j
  BY <1>5, <1>10
<1>14. /\ \A k \in DOMAIN R : R[k] # <<>>
       /\ \A k \in DOMAIN R : \A i \in DOMAIN R[k] : \E p \in DOMAIN part : part[p].chunk = R[k][i].chunk
       /\ \A p \in DOMAIN part : \E k \in DOMAIN R : \E i \in DOMAIN R[k] : R[k][i].chunk = part[p].chunk
  BY <1>1, <1>5, <1>6, <1>11, <1>12
<1> QED BY <1>5, <1>13, <1>14, Zenon DEF R

(* What leaves and enters sequences that name a thing once.                     *)

LEMMA TakenOut ==
    ASSUME NEW S, NEW s \in Seq(S), NEW i \in DOMAIN s,
           \A k, m \in DOMAIN s : s[k] = s[m] => k = m
    PROVE  /\ RemoveAt(s, i) \in Seq(S)
           /\ \A k \in DOMAIN RemoveAt(s, i) :
                 \E m \in DOMAIN s : m # i /\ RemoveAt(s, i)[k] = s[m]
           /\ \A m \in DOMAIN s : m # i => \E k \in DOMAIN RemoveAt(s, i) : RemoveAt(s, i)[k] = s[m]
           /\ \A k, m \in DOMAIN RemoveAt(s, i) : RemoveAt(s, i)[k] = RemoveAt(s, i)[m] => k = m
<1> DEFINE n == Len(s)
           left == SubSeq(s, 1, i - 1)
           right == SubSeq(s, i + 1, n)
           r == RemoveAt(s, i)
<1>1. n \in Nat /\ DOMAIN s = 1 .. n /\ i \in 1 .. n /\ \A k \in 1 .. n : s[k] \in S
  BY LenProperties
<1> HIDE DEF n
<1>2. /\ left \in Seq(S) /\ Len(left) = i - 1 /\ \A k \in 1 .. i - 1 : left[k] = s[k]
  <2>1. /\ left \in Seq(S) /\ Len(left) = IF 1 <= i - 1 THEN i - 1 - 1 + 1 ELSE 0
        /\ \A k \in 1 .. i - 1 - 1 + 1 : left[k] = s[1 + k - 1]
    <3>1. 1 \in Int /\ i - 1 \in Int /\ \A k \in 1 .. i - 1 : s[k] \in S
      BY <1>1
    <3> QED BY <3>1, SubSeqProperties
  <2> QED BY <1>1, <2>1
<1>3. /\ right \in Seq(S) /\ Len(right) = n - i /\ \A k \in 1 .. n - i : right[k] = s[i + k]
  <2>1. /\ right \in Seq(S) /\ Len(right) = IF i + 1 <= n THEN n - (i + 1) + 1 ELSE 0
        /\ \A k \in 1 .. n - (i + 1) + 1 : right[k] = s[i + 1 + k - 1]
    <3>1. i + 1 \in Int /\ n \in Int /\ \A k \in i + 1 .. n : s[k] \in S
      BY <1>1
    <3> QED BY <3>1, SubSeqProperties
  <2> QED BY <1>1, <2>1
<1>4. r = left \o right
  BY DEF RemoveAt, n
<1> HIDE DEF left, right, r
<1>5. /\ r \in Seq(S) /\ Len(r) = n - 1 /\ DOMAIN r = 1 .. n - 1
      /\ \A k \in 1 .. n - 1 : r[k] = IF k < i THEN s[k] ELSE s[k + 1]
  <2>1. /\ r \in Seq(S) /\ Len(r) = Len(left) + Len(right)
        /\ \A k \in 1 .. Len(left) + Len(right) :
              r[k] = IF k <= Len(left) THEN left[k] ELSE right[k - Len(left)]
    <3>1. left \in Seq(S) /\ right \in Seq(S)
      BY <1>2, <1>3
    <3> QED BY <1>4, <3>1, ConcatProperties
  <2>2. DOMAIN r = 1 .. Len(r)
    BY <2>1, LenProperties
  <2>3. \A k \in 1 .. n - 1 : r[k] = IF k < i THEN s[k] ELSE s[k + 1]
    <3> TAKE k \in 1 .. n - 1
    <3>1. CASE k < i
      <4>1. k \in 1 .. i - 1 /\ k <= i - 1 /\ i - 1 \in Nat /\ n - i \in Nat
        BY <1>1, <3>1
      <4>2. k \in 1 .. Len(left) + Len(right) /\ k <= Len(left)
        BY <1>1, <1>2, <1>3, <4>1
      <4>3. r[k] = left[k] /\ left[k] = s[k]
        BY <1>2, <2>1, <4>1, <4>2
      <4> QED BY <3>1, <4>3
    <3>2. CASE ~(k < i)
      <4>1. k - (i - 1) \in 1 .. n - i /\ i + (k - (i - 1)) = k + 1 /\ ~(k <= i - 1)
        BY <1>1, <3>2
      <4>2. r[k] = right[k - (i - 1)] /\ right[k - (i - 1)] = s[i + (k - (i - 1))]
        <5>1. k \in 1 .. Len(left) + Len(right)
          BY <1>1, <1>2, <1>3
        <5> QED BY <1>2, <1>3, <2>1, <4>1, <5>1
      <4> QED BY <3>2, <4>1, <4>2
    <3> QED BY <3>1, <3>2
  <2> QED BY <1>1, <1>2, <1>3, <2>1, <2>2, <2>3
<1>6. \A k \in 1 .. n - 1 : \E m \in 1 .. n : m # i /\ m = (IF k < i THEN k ELSE k + 1) /\ r[k] = s[m]
  BY <1>1, <1>5
<1>7. ASSUME NEW m \in 1 .. n, m # i
      PROVE  \E k \in 1 .. n - 1 : r[k] = s[m]
  <2>1. CASE m < i
    <3>1. m \in 1 .. n - 1
      BY <1>1, <2>1
    <3> QED BY <1>5, <2>1, <3>1
  <2>2. CASE m > i
    <3>1. m - 1 \in 1 .. n - 1 /\ ~(m - 1 < i) /\ m - 1 + 1 = m
      BY <1>1, <2>2
    <3> QED BY <1>5, <3>1
  <2> QED BY <1>1, <1>7, <2>1, <2>2
<1>8. ASSUME NEW k \in 1 .. n - 1, NEW m \in 1 .. n - 1, r[k] = r[m]
      PROVE  k = m
  <2> DEFINE x == IF k < i THEN k ELSE k + 1
             y == IF m < i THEN m ELSE m + 1
  <2>0. x \in 1 .. n /\ y \in 1 .. n
    BY <1>1
  <2>1. x \in 1 .. n /\ y \in 1 .. n /\ r[k] = s[x] /\ r[m] = s[y]
    BY <2>0, <1>5
  <2>2. x = y
    BY <1>1, <1>8, <2>1
  <2> QED BY <1>1, <2>2
<1> QED BY <1>1, <1>5, <1>6, <1>7, <1>8 DEF r

\* swap_remove.
LEMMA SwappedOut ==
    ASSUME NEW S, NEW s \in Seq(S), NEW i \in DOMAIN s,
           \A k, m \in DOMAIN s : s[k] = s[m] => k = m
    PROVE  /\ WithoutAt(s, i) \in Seq(S) /\ Len(WithoutAt(s, i)) = Len(s) - 1
           /\ \A k \in DOMAIN WithoutAt(s, i) :
                 \E m \in DOMAIN s : m # i /\ WithoutAt(s, i)[k] = s[m]
           /\ \A k, m \in DOMAIN WithoutAt(s, i) : WithoutAt(s, i)[k] = WithoutAt(s, i)[m] => k = m
<1> DEFINE n == Len(s)
           swapped == [s EXCEPT ![i] = s[n]]
           r == WithoutAt(s, i)
<1>1. n \in Nat /\ DOMAIN s = 1 .. n /\ i \in 1 .. n /\ \A k \in 1 .. n : s[k] \in S
  BY LenProperties
<1>2. r = SubSeq(swapped, 1, n - 1)
  BY DEF WithoutAt
<1>3. \A k \in 1 .. n : swapped[k] = IF k = i THEN s[n] ELSE s[k]
  BY <1>1
<1> HIDE DEF n, swapped, r
<1>4. /\ r \in Seq(S) /\ Len(r) = n - 1 /\ DOMAIN r = 1 .. n - 1
      /\ \A k \in 1 .. n - 1 : r[k] = IF k = i THEN s[n] ELSE s[k]
  <2>1. 1 \in Int /\ n - 1 \in Int /\ \A k \in 1 .. n - 1 : swapped[k] \in S
    BY <1>1, <1>3
  <2>2. /\ r \in Seq(S) /\ Len(r) = IF 1 <= n - 1 THEN n - 1 - 1 + 1 ELSE 0
        /\ \A k \in 1 .. n - 1 - 1 + 1 : r[k] = swapped[1 + k - 1]
    BY <1>2, <2>1, SubSeqProperties
  <2>3. Len(r) = n - 1 /\ \A k \in 1 .. n - 1 : r[k] = swapped[k]
    BY <1>1, <2>2
  <2> QED BY <1>1, <1>3, <2>2, <2>3, LenProperties
<1>5. \A k \in 1 .. n - 1 : \E m \in 1 .. n : m # i /\ r[k] = s[m]
  <2> TAKE k \in 1 .. n - 1
  <2>1. CASE k = i
    <3>1. n # i /\ n \in 1 .. n
      BY <1>1, <2>1
    <3> QED BY <1>4, <2>1, <3>1
  <2>2. CASE k # i
    BY <1>1, <1>4, <2>2
  <2> QED BY <2>1, <2>2
<1>6. ASSUME NEW k \in 1 .. n - 1, NEW m \in 1 .. n - 1, r[k] = r[m]
      PROVE  k = m
  <2> DEFINE x == IF k = i THEN n ELSE k
             y == IF m = i THEN n ELSE m
  <2>1. x \in 1 .. n /\ y \in 1 .. n /\ r[k] = s[x] /\ r[m] = s[y]
    BY <1>1, <1>4
  <2>2. x = y
    BY <1>1, <1>6, <2>1
  <2> QED BY <1>1, <2>2
<1> QED BY <1>1, <1>4, <1>5, <1>6 DEF r, n

LEMMA HeadLeaves ==
    ASSUME NEW S, NEW s \in Seq(S), s # <<>>
    PROVE  /\ Head(s) = s[1] /\ 1 \in DOMAIN s /\ Head(s) \in S
           /\ Tail(s) \in Seq(S) /\ Len(Tail(s)) = Len(s) - 1
           /\ \A k \in DOMAIN Tail(s) : k + 1 \in DOMAIN s /\ k + 1 # 1 /\ Tail(s)[k] = s[k + 1]
           /\ \A m \in DOMAIN s : m # 1 => m - 1 \in DOMAIN Tail(s) /\ Tail(s)[m - 1] = s[m]
<1>1. Len(s) \in Nat /\ DOMAIN s = 1 .. Len(s) /\ Len(s) # 0
  BY LenProperties, EmptySeq
<1>2. /\ Tail(s) \in Seq(S) /\ Len(Tail(s)) = Len(s) - 1 /\ Head(s) \in S
      /\ \A i \in 1 .. Len(Tail(s)) : Tail(s)[i] = s[i + 1]
  BY HeadTailProperties
<1>3. DOMAIN Tail(s) = 1 .. Len(s) - 1
  BY <1>2, LenProperties
<1>4. Head(s) = s[1]
  OBVIOUS
<1>5. \A m \in DOMAIN s : m # 1 => m - 1 \in 1 .. Len(s) - 1 /\ m - 1 + 1 = m
  BY <1>1
<1>6. \A k \in DOMAIN Tail(s) : k + 1 \in DOMAIN s /\ k + 1 # 1 /\ Tail(s)[k] = s[k + 1]
  BY <1>1, <1>2, <1>3
<1>7. \A m \in DOMAIN s : m # 1 => m - 1 \in DOMAIN Tail(s) /\ Tail(s)[m - 1] = s[m]
  BY <1>2, <1>3, <1>5
<1> QED BY <1>1, <1>2, <1>4, <1>6, <1>7

LEMMA JoinedBatch ==
    ASSUME NEW S, NEW s \in Seq(S), NEW r \in Seq(S)
    PROVE  /\ s \o r \in Seq(S)
           /\ \A k \in DOMAIN (s \o r) : \/ k \in DOMAIN s /\ (s \o r)[k] = s[k]
                                         \/ \E j \in DOMAIN r : k = Len(s) + j /\ (s \o r)[k] = r[j]
           /\ \A k \in DOMAIN s : k \in DOMAIN (s \o r) /\ (s \o r)[k] = s[k]
           /\ \A j \in DOMAIN r : Len(s) + j \in DOMAIN (s \o r) /\ (s \o r)[Len(s) + j] = r[j]
<1> DEFINE n == Len(s)  m == Len(r)  all == s \o r
<1>1. n \in Nat /\ m \in Nat /\ DOMAIN s = 1 .. n /\ DOMAIN r = 1 .. m
  BY LenProperties
<1>2. /\ all \in Seq(S) /\ Len(all) = n + m
      /\ \A k \in 1 .. n + m : all[k] = IF k <= n THEN s[k] ELSE r[k - n]
  BY ConcatProperties
<1> HIDE DEF all
<1>3. DOMAIN all = 1 .. n + m
  BY <1>2, LenProperties
<1> HIDE DEF n, m
<1>4. ASSUME NEW k \in 1 .. n + m, ~(k <= n)
      PROVE  k - n \in 1 .. m /\ k = n + (k - n)
  BY <1>1, <1>4
<1>5. \A j \in 1 .. m : n + j \in 1 .. n + m /\ ~(n + j <= n) /\ n + j - n = j
  BY <1>1
<1>6. \A k \in DOMAIN all : \/ k \in DOMAIN s /\ all[k] = s[k]
                            \/ \E j \in DOMAIN r : k = n + j /\ all[k] = r[j]
  <2> TAKE k \in DOMAIN all
  <2>1. CASE k <= n
    BY <1>1, <1>2, <1>3, <2>1
  <2>2. CASE ~(k <= n)
    BY <1>1, <1>2, <1>3, <1>4, <2>2
  <2> QED BY <2>1, <2>2
<1>7. \A k \in DOMAIN s : k \in DOMAIN all /\ all[k] = s[k]
  BY <1>1, <1>2, <1>3
<1>8. \A j \in DOMAIN r : n + j \in DOMAIN all /\ all[n + j] = r[j]
  BY <1>1, <1>2, <1>3, <1>5
<1> QED BY <1>2, <1>6, <1>7, <1>8 DEF all, n

LEMMA Appended ==
    ASSUME NEW S, NEW s \in Seq(S), NEW e \in S
    PROVE  /\ Append(s, e) \in Seq(S) /\ Len(Append(s, e)) = Len(s) + 1
           /\ \A k \in DOMAIN Append(s, e) : \/ k \in DOMAIN s /\ Append(s, e)[k] = s[k]
                                             \/ k = Len(s) + 1 /\ Append(s, e)[k] = e
           /\ \A k \in DOMAIN s : k \in DOMAIN Append(s, e) /\ Append(s, e)[k] = s[k]
           /\ Len(s) + 1 \in DOMAIN Append(s, e) /\ Append(s, e)[Len(s) + 1] = e
           /\ Len(s) + 1 \notin DOMAIN s
<1>1. /\ Append(s, e) \in Seq(S) /\ Len(Append(s, e)) = Len(s) + 1 /\ Len(s) \in Nat
      /\ \A k \in 1 .. Len(s) : Append(s, e)[k] = s[k]
      /\ Append(s, e)[Len(s) + 1] = e
      /\ DOMAIN s = 1 .. Len(s) /\ DOMAIN Append(s, e) = 1 .. Len(s) + 1
  BY AppendProperties, LenProperties
<1> QED BY <1>1

--------------------------------------------------------------------------------
(* The calls.                                                                   *)

LEMMA BatchOfCaller ==
    ASSUME NEW t \in BatchCallers
    PROVE  /\ BatchJobs[t] \in Seq(PreparedJobs) /\ Increasing(BatchJobs[t])
           /\ RoundsOf(t) \in Seq(Seq(PreparedJobs)) /\ Len(RoundsOf(t)) \in Nat
           /\ DOMAIN RoundsOf(t) = 1 .. Len(RoundsOf(t))
           /\ \A k \in DOMAIN RoundsOf(t) : RoundsOf(t)[k] \in Seq(PreparedJobs) /\ RoundsOf(t)[k] # <<>>
           /\ \A k, m \in DOMAIN RoundsOf(t) :
                 \A i \in DOMAIN RoundsOf(t)[k], j \in DOMAIN RoundsOf(t)[m] :
                    RoundsOf(t)[k][i].chunk = RoundsOf(t)[m][j].chunk => k = m /\ i = j
           /\ \A k, m \in DOMAIN RoundsOf(t) : RoundsOf(t)[k] = RoundsOf(t)[m] => k = m
           /\ \A k \in DOMAIN RoundsOf(t) : \A i \in DOMAIN RoundsOf(t)[k] :
                 \E p \in DOMAIN BatchJobs[t] : BatchJobs[t][p].chunk = RoundsOf(t)[k][i].chunk
           /\ \A p \in DOMAIN BatchJobs[t] : \E k \in DOMAIN RoundsOf(t) :
                 \E i \in DOMAIN RoundsOf(t)[k] : RoundsOf(t)[k][i].chunk = BatchJobs[t][p].chunk
<1> DEFINE R == RoundsOf(t)
<1>1. BatchJobs[t] \in Seq(PreparedJobs) /\ Increasing(BatchJobs[t])
  BY JobsAssumption
<1>2. /\ R \in Seq(Seq(PreparedJobs)) /\ (\A k \in DOMAIN R : R[k] # <<>>)
      /\ \A k, m \in DOMAIN R : \A i \in DOMAIN R[k], j \in DOMAIN R[m] :
                    R[k][i].chunk = R[m][j].chunk => k = m /\ i = j
      /\ \A k \in DOMAIN R : \A i \in DOMAIN R[k] :
                 \E p \in DOMAIN BatchJobs[t] : BatchJobs[t][p].chunk = R[k][i].chunk
      /\ \A p \in DOMAIN BatchJobs[t] : \E k \in DOMAIN R :
                 \E i \in DOMAIN R[k] : R[k][i].chunk = BatchJobs[t][p].chunk
  BY <1>1, RoundsParts, Zenon DEF RoundsOf
<1> HIDE DEF R
<1>3. Len(R) \in Nat /\ DOMAIN R = 1 .. Len(R) /\ \A k \in DOMAIN R : R[k] \in Seq(PreparedJobs)
  BY <1>2, LenProperties
<1>4. \A k, m \in DOMAIN R : R[k] = R[m] => k = m
  <2> TAKE k, m \in DOMAIN R
  <2> HAVE R[k] = R[m]
  <2>1. 1 \in DOMAIN R[k]
    <3>1. R[k] \in Seq(PreparedJobs) /\ R[k] # <<>>
      BY <1>2, <1>3
    <3> QED BY <3>1, HeadLeaves
  <2> QED BY <1>2, <2>1
<1> QED BY <1>1, <1>2, <1>3, <1>4, Zenon DEF R

LEMMA SameCaller ==
    ASSUME NEW t \in BatchCallers, caller'[t] = caller[t], RoundsKept(t)
    PROVE  RoundsKept(t)' /\ InHand(t)' = InHand(t)
<1>1. InHand(t)' = InHand(t)
  BY DEF InHand
<1>2. RoundsOf(t)' = RoundsOf(t)
  BY DEF RoundsOf
<1> QED BY <1>1, <1>2 DEF RoundsKept

\* The next round is taken into the hands.
LEMMA RoundTaken ==
    ASSUME NEW t \in BatchCallers, NEW hand, NEW out \in Seq(BatchAnswers),
           NEW rounds \in Seq(Seq(PreparedJobs)), rounds # <<>>,
           RoundsSettled(rounds, hand, out, RoundsOf(t))
    PROVE  /\ RoundsSettled(Tail(rounds), hand \cup {Head(rounds)}, out, RoundsOf(t))
           /\ Head(rounds) \notin hand
           /\ \E k \in DOMAIN RoundsOf(t) : Head(rounds) = RoundsOf(t)[k]
<1> DEFINE R == RoundsOf(t)
           done == Len(R) - Len(rounds)
           rest == Tail(rounds)
           part == Head(rounds)
<1>1. /\ R \in Seq(Seq(PreparedJobs)) /\ Len(R) \in Nat /\ DOMAIN R = 1 .. Len(R)
      /\ \A k \in DOMAIN R : R[k] \in Seq(PreparedJobs) /\ R[k] # <<>>
      /\ \A k, m \in DOMAIN R : \A i \in DOMAIN R[k], j \in DOMAIN R[m] :
                    R[k][i].chunk = R[m][j].chunk => k = m /\ i = j
      /\ \A k, m \in DOMAIN R : R[k] = R[m] => k = m
  BY BatchOfCaller, Zenon
<1>2. /\ part = rounds[1] /\ 1 \in DOMAIN rounds /\ rest \in Seq(Seq(PreparedJobs))
      /\ Len(rest) = Len(rounds) - 1 /\ Len(rounds) \in Nat /\ DOMAIN rounds = 1 .. Len(rounds)
      /\ \A k \in DOMAIN rest : k + 1 \in DOMAIN rounds /\ rest[k] = rounds[k + 1]
      /\ \A k \in DOMAIN rest : k \in Int
  BY HeadLeaves, LenProperties
<1>3. /\ done \in Nat
      /\ \A k \in DOMAIN rounds : rounds[k] = R[done + k]
      /\ \A x \in hand : \E k \in 1 .. done : x = R[k]
      /\ \A i, k \in DOMAIN out : out[i].chunk = out[k].chunk => i = k
      /\ \A i \in DOMAIN out : \E k \in 1 .. done : \E j \in DOMAIN R[k] : R[k][j].chunk = out[i].chunk
      /\ \A k \in 1 .. done : \A j \in DOMAIN R[k] : AnsweredIn(out, R[k][j].chunk) <=> R[k] \notin hand
      /\ \A i \in DOMAIN out : out[i].gpu \in {0, out[i].chunk}
  BY DEF RoundsSettled
<1>4. Len(R) - Len(rest) = done + 1 /\ done + 1 \in DOMAIN R /\ part = R[done + 1]
      /\ \A k \in 1 .. done : k \in DOMAIN R /\ k # done + 1
  <2>1. Len(R) - Len(rest) = done + 1 /\ done + 1 \in 1 .. Len(R) /\ \A k \in 1 .. done : k \in 1 .. Len(R) /\ k # done + 1
    BY <1>1, <1>2, <1>3
  <2>2. rounds[1] = R[done + 1]
    BY <1>2, <1>3
  <2> QED BY <1>1, <1>2, <2>1, <2>2
<1> HIDE DEF R, done, rest, part
<1>5. \A k \in DOMAIN rest : rest[k] = R[done + 1 + k]
  <2> TAKE k \in DOMAIN rest
  <2>1. done + (k + 1) = done + 1 + k
    BY <1>2, <1>3
  <2> QED BY <1>2, <1>3, <2>1, SMTT(30)
<1>6. 1 .. done + 1 = (1 .. done) \cup {done + 1}
  BY <1>3
<1>7. part \notin hand
  <2>1. \A k \in 1 .. done : R[k] # R[done + 1]
    BY <1>1, <1>4
  <2> QED BY <1>3, <1>4, <2>1
<1>8. ASSUME NEW k \in 1 .. done + 1, NEW j \in DOMAIN R[k]
      PROVE  AnsweredIn(out, R[k][j].chunk) <=> R[k] \notin hand \cup {part}
  <2>1. CASE k \in 1 .. done
    <3>1. R[k] # part
      BY <1>1, <1>4, <2>1
    <3> QED BY <1>3, <2>1, <3>1
  <2>2. CASE k = done + 1
    <3>1. ~AnsweredIn(out, R[k][j].chunk)
      <4> SUFFICES ASSUME NEW i \in DOMAIN out, out[i].chunk = R[k][j].chunk PROVE FALSE
        BY DEF AnsweredIn
      <4>1. PICK m \in 1 .. done : \E n \in DOMAIN R[m] : R[m][n].chunk = out[i].chunk
        BY <1>3
      <4>2. PICK n \in DOMAIN R[m] : R[m][n].chunk = out[i].chunk
        BY <4>1
      <4>3. m \in DOMAIN R /\ k \in DOMAIN R /\ R[m][n].chunk = R[k][j].chunk
        BY <1>4, <2>2, <4>2
      <4>4. m = k
        BY <1>1, <4>3
      <4> QED BY <1>4, <2>2, <4>4
    <3> QED BY <1>4, <2>2, <3>1
  <2> QED BY <1>6, <2>1, <2>2
<1>9. \A x \in hand \cup {part} : \E k \in 1 .. done + 1 : x = R[k]
  BY <1>3, <1>4, <1>6
<1>10. \A i \in DOMAIN out : \E k \in 1 .. done + 1 : \E j \in DOMAIN R[k] : R[k][j].chunk = out[i].chunk
  <2> TAKE i \in DOMAIN out
  <2>1. PICK k \in 1 .. done : \E j \in DOMAIN R[k] : R[k][j].chunk = out[i].chunk
    BY <1>3
  <2>2. k \in 1 .. done + 1
    BY <1>6
  <2> QED BY <2>1, <2>2
<1>11. done + 1 \in Nat
  BY <1>3
<1>12. RoundsSettled(rest, hand \cup {part}, out, R)
  <2> DEFINE all == hand \cup {part}
  <2>1. \A k \in 1 .. done + 1 : \A j \in DOMAIN R[k] : AnsweredIn(out, R[k][j].chunk) <=> R[k] \notin all
    BY <1>8
  <2>2. \A x \in all : \E k \in 1 .. done + 1 : x = R[k]
    BY <1>9
  <2>3. Len(R) - Len(rest) = done + 1
    BY <1>4
  <2> HIDE DEF all
  <2>4. RoundsSettled(rest, all, out, R)
    <3> DEFINE d == done + 1
    <3>1. Len(R) - Len(rest) = d
      BY <2>3
    <3>2. /\ d \in Nat
          /\ \A k \in DOMAIN rest : rest[k] = R[d + k]
          /\ \A x \in all : \E k \in 1 .. d : x = R[k]
          /\ \A i \in DOMAIN out : \E k \in 1 .. d : \E j \in DOMAIN R[k] : R[k][j].chunk = out[i].chunk
          /\ \A k \in 1 .. d : \A j \in DOMAIN R[k] : AnsweredIn(out, R[k][j].chunk) <=> R[k] \notin all
      BY <1>5, <1>10, <1>11, <2>1, <2>2
    <3>3. /\ \A i, k \in DOMAIN out : out[i].chunk = out[k].chunk => i = k
          /\ \A i \in DOMAIN out : out[i].gpu \in {0, out[i].chunk}
      BY <1>3
    <3> HIDE DEF d
    <3> QED BY <3>1, <3>2, <3>3, Zenon DEF RoundsSettled
  <2> QED BY <2>4 DEF all
<1> QED BY <1>4, <1>7, <1>12 DEF R, rest, part

\* The answers of a round that was in the hands.
LEMMA RoundAnswered ==
    ASSUME NEW t \in BatchCallers, NEW hand, NEW out \in Seq(BatchAnswers),
           NEW rounds \in Seq(Seq(PreparedJobs)), NEW part \in hand, NEW answers,
           RoundsSettled(rounds, hand, out, RoundsOf(t)),
           answers = [i \in DOMAIN part |-> answers[i]],
           \A i \in DOMAIN part : /\ answers[i] \in BatchAnswers
                                  /\ answers[i].chunk = part[i].chunk
                                  /\ answers[i].gpu \in {0, answers[i].chunk}
    PROVE  /\ RoundsSettled(rounds, hand \ {part}, out \o answers, RoundsOf(t))
           /\ out \o answers \in Seq(BatchAnswers)
<1> DEFINE R == RoundsOf(t)
           done == Len(R) - Len(rounds)
           all == out \o answers
<1>1. /\ R \in Seq(Seq(PreparedJobs)) /\ Len(R) \in Nat /\ DOMAIN R = 1 .. Len(R)
      /\ \A k \in DOMAIN R : R[k] \in Seq(PreparedJobs) /\ R[k] # <<>>
      /\ \A k, m \in DOMAIN R : \A i \in DOMAIN R[k], j \in DOMAIN R[m] :
                    R[k][i].chunk = R[m][j].chunk => k = m /\ i = j
      /\ \A k, m \in DOMAIN R : R[k] = R[m] => k = m
  BY BatchOfCaller, Zenon
<1>2. /\ done \in Nat
      /\ \A k \in DOMAIN rounds : rounds[k] = R[done + k]
      /\ \A x \in hand : \E k \in 1 .. done : x = R[k]
      /\ \A i, k \in DOMAIN out : out[i].chunk = out[k].chunk => i = k
      /\ \A i \in DOMAIN out : \E k \in 1 .. done : \E j \in DOMAIN R[k] : R[k][j].chunk = out[i].chunk
      /\ \A k \in 1 .. done : \A j \in DOMAIN R[k] : AnsweredIn(out, R[k][j].chunk) <=> R[k] \notin hand
      /\ \A i \in DOMAIN out : out[i].gpu \in {0, out[i].chunk}
  BY DEF RoundsSettled
<1>3. Len(rounds) \in Nat
  BY LenProperties
<1>4. \A k \in 1 .. done : k \in DOMAIN R
  BY <1>1, <1>2, <1>3
<1> HIDE DEF R, done
<1>5. PICK here \in 1 .. done : part = R[here]
  BY <1>2
<1>6. part \in Seq(PreparedJobs) /\ here \in DOMAIN R
  BY <1>1, <1>4, <1>5
<1>7. answers \in Seq(BatchAnswers) /\ DOMAIN answers = DOMAIN part
  <2>1. DOMAIN part = 1 .. Len(part) /\ Len(part) \in Nat
    BY <1>6, LenProperties
  <2>2. answers \in [1 .. Len(part) -> BatchAnswers] /\ DOMAIN answers = DOMAIN part
    BY <2>1
  <2> QED BY <2>1, <2>2, SeqDef
<1>8. /\ all \in Seq(BatchAnswers)
      /\ \A k \in DOMAIN all : \/ k \in DOMAIN out /\ all[k] = out[k]
                               \/ \E j \in DOMAIN answers : k = Len(out) + j /\ all[k] = answers[j]
      /\ \A k \in DOMAIN out : k \in DOMAIN all /\ all[k] = out[k]
      /\ \A j \in DOMAIN answers : Len(out) + j \in DOMAIN all /\ all[Len(out) + j] = answers[j]
  BY <1>7, JoinedBatch
<1> HIDE DEF all
<1>9. \A i \in DOMAIN part : ~AnsweredIn(out, part[i].chunk)
  BY <1>2, <1>5
<1>10. \A i, k \in DOMAIN part : part[i].chunk = part[k].chunk => i = k
  BY <1>1, <1>5, <1>6
<1>11. \A i, k \in DOMAIN all : all[i].chunk = all[k].chunk => i = k
  <2> TAKE i, k \in DOMAIN all
  <2> HAVE all[i].chunk = all[k].chunk
  <2>1. \A m \in DOMAIN out : \A j \in DOMAIN answers : out[m].chunk # answers[j].chunk
    BY <1>7, <1>9 DEF AnsweredIn
  <2>2. CASE i \in DOMAIN out /\ all[i] = out[i] /\ k \in DOMAIN out /\ all[k] = out[k]
    BY <1>2, <2>2
  <2>3. CASE /\ \E j \in DOMAIN answers : i = Len(out) + j /\ all[i] = answers[j]
             /\ \E j \in DOMAIN answers : k = Len(out) + j /\ all[k] = answers[j]
    <3>1. PICK j \in DOMAIN answers : i = Len(out) + j /\ all[i] = answers[j]
      BY <2>3
    <3>2. PICK n \in DOMAIN answers : k = Len(out) + n /\ all[k] = answers[n]
      BY <2>3
    <3>3. j = n
      BY <1>7, <1>10, <3>1, <3>2
    <3> QED BY <3>1, <3>2, <3>3
  <2>4. ~(i \in DOMAIN out /\ all[i] = out[i] /\ \E j \in DOMAIN answers : all[k] = answers[j])
    BY <2>1
  <2>5. ~(k \in DOMAIN out /\ all[k] = out[k] /\ \E j \in DOMAIN answers : all[i] = answers[j])
    BY <2>1
  <2> QED BY <1>8, <2>2, <2>3, <2>4, <2>5
<1>12. \A i \in DOMAIN all : \E k \in 1 .. done : \E j \in DOMAIN R[k] : R[k][j].chunk = all[i].chunk
  <2> TAKE i \in DOMAIN all
  <2>1. CASE i \in DOMAIN out /\ all[i] = out[i]
    BY <1>2, <2>1
  <2>2. CASE \E j \in DOMAIN answers : i = Len(out) + j /\ all[i] = answers[j]
    <3>1. PICK j \in DOMAIN answers : all[i] = answers[j]
      BY <2>2
    <3>2. j \in DOMAIN R[here] /\ R[here][j].chunk = all[i].chunk
      BY <1>5, <1>7, <3>1
    <3> QED BY <3>2
  <2> QED BY <1>8, <2>1, <2>2
<1>13. ASSUME NEW k \in 1 .. done, NEW j \in DOMAIN R[k]
       PROVE  AnsweredIn(all, R[k][j].chunk) <=> R[k] \notin hand \ {part}
  <2>1. CASE R[k] = part
    <3>1. j \in DOMAIN answers /\ answers[j].chunk = R[k][j].chunk
      BY <1>7, <2>1
    <3>2. AnsweredIn(all, R[k][j].chunk)
      BY <1>8, <3>1 DEF AnsweredIn
    <3> QED BY <2>1, <3>2
  <2>2. CASE R[k] # part
    <3>1. \A n \in DOMAIN answers : answers[n].chunk # R[k][j].chunk
      <4> TAKE n \in DOMAIN answers
      <4>1. n \in DOMAIN R[here] /\ answers[n].chunk = R[here][n].chunk
        BY <1>5, <1>7
      <4>2. k \in DOMAIN R /\ here # k
        BY <1>4, <1>5, <2>2
      <4>3. R[here][n].chunk # R[k][j].chunk
        BY <1>1, <1>6, <4>1, <4>2
      <4> QED BY <4>1, <4>3
    <3>2. AnsweredIn(all, R[k][j].chunk) <=> AnsweredIn(out, R[k][j].chunk)
      <4> DEFINE chunk == R[k][j].chunk
      <4>1. ASSUME NEW i \in DOMAIN all, all[i].chunk = chunk
            PROVE  \E m \in DOMAIN out : out[m].chunk = chunk
        <5>1. ~\E n \in DOMAIN answers : all[i] = answers[n]
          BY <3>1, <4>1
        <5> QED BY <1>8, <4>1, <5>1
      <4>2. ASSUME NEW i \in DOMAIN out, out[i].chunk = chunk
            PROVE  \E m \in DOMAIN all : all[m].chunk = chunk
        BY <1>8, <4>2
      <4> HIDE DEF chunk
      <4>3. AnsweredIn(all, chunk) <=> AnsweredIn(out, chunk)
        BY <4>1, <4>2 DEF AnsweredIn
      <4> QED BY <4>3 DEF chunk
    <3> QED BY <1>2, <2>2, <3>2
  <2> QED BY <2>1, <2>2
<1>14. \A i \in DOMAIN all : all[i].gpu \in {0, all[i].chunk}
  <2> TAKE i \in DOMAIN all
  <2>1. CASE i \in DOMAIN out /\ all[i] = out[i]
    BY <1>2, <2>1
  <2>2. CASE \E j \in DOMAIN answers : i = Len(out) + j /\ all[i] = answers[j]
    BY <1>7, <2>2
  <2> QED BY <1>8, <2>1, <2>2
<1>15. \A x \in hand \ {part} : \E k \in 1 .. done : x = R[k]
  BY <1>2
<1>16. RoundsSettled(rounds, hand \ {part}, all, R)
  BY <1>2, <1>11, <1>12, <1>13, <1>14, <1>15 DEF RoundsSettled, done
<1> QED BY <1>8, <1>16 DEF R, all

LEMMA TrueInitInv == TrueBatchInit => TrueBatchInv
<1> SUFFICES ASSUME TrueBatchInit PROVE TrueBatchInv
  OBVIOUS
<1>1. /\ caller = [t \in BatchCallers |->
                    [stage |-> "round", rounds |-> Rounds(BatchJobs[t]), pending |-> <<>>,
                     ready |-> <<>>, out |-> <<>>]]
      /\ truePool = <<>> /\ scratches = <<>> /\ deviceQueue = <<>> /\ submits = 0
      /\ givenUp = {}
  BY DEF TrueBatchInit
<1>2. \A t \in BatchCallers :
        /\ caller[t].stage = "round" /\ caller[t].rounds = RoundsOf(t)
        /\ caller[t].pending = <<>> /\ caller[t].ready = <<>> /\ caller[t].out = <<>>
        /\ InHand(t) = {}
  BY <1>1 DEF RoundsOf, InHand, Hand
<1>3. TrueBatchTypes
  <2>1. \A t \in BatchCallers : RoundsOf(t) \in Seq(Seq(PreparedJobs))
    BY BatchOfCaller
  <2>2. \A t \in BatchCallers :
          caller[t] = [stage |-> caller[t].stage, rounds |-> caller[t].rounds,
                          pending |-> caller[t].pending, ready |-> caller[t].ready,
                          out |-> caller[t].out]
    BY <1>1
  <2>3. \A S : <<>> \in Seq(S)
    BY EmptySeq
  <2> QED BY <1>1, <1>2, <2>1, <2>2, <2>3 DEF TrueBatchTypes
<1>4. BatchesNumbered
  <2>1. DOMAIN deviceQueue = {}
    BY <1>1
  <2>2. \A t \in BatchCallers : DOMAIN caller[t].pending = {} /\ DOMAIN caller[t].ready = {}
    BY <1>2
  <2>3. \A t \in BatchCallers : PlacedOnce(caller[t])
    BY <2>2 DEF PlacedOnce
  <2> QED BY <1>2, <2>1, <2>3 DEF BatchesNumbered
<1>5. ScratchesHeld
  <2>1. Len(truePool) = 0 /\ DOMAIN truePool = {}
    BY <1>1, EmptySeq
  <2>2. Len(truePool) <= TruePoolLimit
    BY <2>1, TrueBatchAssumption
  <2>3. DOMAIN scratches = {}
    BY <1>1, EmptySeq
  <2> QED BY <1>1, <1>2, <2>1, <2>2, <2>3 DEF ScratchesHeld
<1>6. ASSUME NEW t \in BatchCallers PROVE RoundsKept(t)
  <2>1. Len(RoundsOf(t)) \in Nat /\ DOMAIN RoundsOf(t) = 1 .. Len(RoundsOf(t))
    BY BatchOfCaller
  <2>2. Len(RoundsOf(t)) - Len(RoundsOf(t)) = 0 /\ \A k \in DOMAIN RoundsOf(t) : 0 + k = k
    BY <2>1
  <2>3. 1 .. 0 = {} /\ DOMAIN <<>> = {}
    OBVIOUS
  <2>4. JobsOf(caller[t]) = {} /\ JobsApart(caller[t])
    BY <1>2 DEF JobsOf, JobsApart, InHand
  <2>5. RoundsSettled(RoundsOf(t), {}, <<>>, RoundsOf(t))
    BY <2>2, <2>3 DEF RoundsSettled
  <2> QED BY <1>2, <2>4, <2>5 DEF RoundsKept
<1>7. TrueBatchExact
  BY <1>2 DEF TrueBatchExact
<1> QED BY <1>3, <1>4, <1>5, <1>6, <1>7 DEF TrueBatchInv, RoundsInOrder

LEMMA TrueRests ==
    ASSUME TrueBatchInv, UNCHANGED trueVars
    PROVE  TrueBatchInv'
<1>1. UNCHANGED <<caller, truePool, scratches, deviceQueue, submits, givenUp>>
  BY DEF trueVars
<1>2. \A t \in BatchCallers : InHand(t)' = InHand(t)
  BY <1>1 DEF InHand
<1>3. TrueBatchTypes'
  BY <1>1 DEF TrueBatchInv, TrueBatchTypes
<1>4. BatchesNumbered'
  BY <1>1, <1>2 DEF TrueBatchInv, BatchesNumbered
<1>5. ScratchesHeld'
  BY <1>1, <1>2 DEF TrueBatchInv, ScratchesHeld
<1>6. RoundsInOrder'
  BY <1>1, SameCaller DEF TrueBatchInv, RoundsInOrder
<1>7. TrueBatchExact'
  BY <1>1 DEF TrueBatchInv, TrueBatchExact
<1> QED BY <1>3, <1>4, <1>5, <1>6, <1>7 DEF TrueBatchInv

--------------------------------------------------------------------------------
(* The device.                                                                  *)

LEMMA BatchDeviceStep ==
    ASSUME TrueBatchInv, BatchFinishes
    PROVE  TrueBatchInv'
<1> DEFINE op == Head(deviceQueue)
           mine(p, map, bad) == IF p.op = op /\ p.map = "waiting"
                                THEN [p EXCEPT !.map = map, !.bad = bad] ELSE p
           chunks == UNION {ToSet(scratches[i].holds) : i \in {k \in DOMAIN scratches :
                                                               scratches[k].op = op}}
<1>1. PICK map \in {"ok"} \cup (BatchFaults \cap {"map"}),
           bad \in IF "kernel" \in BatchFaults THEN SUBSET chunks ELSE {{}} :
              /\ caller' = [t \in BatchCallers |->
                    [caller[t] EXCEPT !.pending = [i \in DOMAIN @ |-> mine(@[i], map, bad)]]]
              /\ scratches' = [i \in DOMAIN scratches |->
                    IF scratches[i].op # op THEN scratches[i]
                    ELSE [scratches[i] EXCEPT !.buffer =
                             IF map = "ok" THEN "mapped" ELSE "unmapped"]]
  BY DEF BatchFinishes
<1>2. deviceQueue # <<>> /\ deviceQueue' = Tail(deviceQueue)
      /\ UNCHANGED <<truePool, submits, givenUp>>
  BY DEF BatchFinishes
<1>3. TrueBatchTypes /\ BatchesNumbered /\ ScratchesHeld /\ RoundsInOrder /\ TrueBatchExact
  BY DEF TrueBatchInv
<1>4. /\ deviceQueue' \in Seq(Nat) /\ op = deviceQueue[1] /\ 1 \in DOMAIN deviceQueue
      /\ \A k \in DOMAIN deviceQueue' : /\ deviceQueue'[k] = deviceQueue[k + 1]
                                        /\ k + 1 \in DOMAIN deviceQueue /\ k + 1 # 1
      /\ \A k \in DOMAIN deviceQueue' : k \in Int
  <2>1. deviceQueue \in Seq(Nat)
    BY <1>3 DEF TrueBatchTypes
  <2>2. \A k \in DOMAIN deviceQueue' : k \in Int
    BY <1>2, <2>1, HeadLeaves, LenProperties
  <2> QED BY <1>2, <2>1, <2>2, HeadLeaves
<1>5. \A k \in DOMAIN deviceQueue' : deviceQueue'[k] # op /\ deviceQueue'[k] \in 1 .. submits
  BY <1>3, <1>4 DEF BatchesNumbered
<1>6. scratches \in Seq(ScratchKind) /\ DOMAIN scratches = 1 .. Len(scratches)
      /\ Len(scratches) \in Nat /\ \A i \in DOMAIN scratches : scratches[i] \in ScratchKind
  BY <1>3, LenProperties DEF TrueBatchTypes
<1>7. bad \in SUBSET Nat
  <2>1. chunks \in SUBSET Nat
    <3>1. ASSUME NEW i \in DOMAIN scratches PROVE ToSet(scratches[i].holds) \in SUBSET Nat
      <4>1. scratches[i].holds \in Seq(Nat)
        BY <1>6 DEF ScratchKind
      <4> QED BY <4>1, LenProperties DEF ToSet
    <3> QED BY <3>1
  <2> HIDE DEF chunks
  <2> QED BY <2>1
<1>8. map \in {"ok", "map"}
  OBVIOUS
<1> DEFINE becomes(p) == mine(p, map, bad)
<1>9. \A t \in BatchCallers : \A p \in InHand(t) :
        /\ p \in BatchesSent
        /\ becomes(p).op = p.op /\ becomes(p).jobs = p.jobs /\ becomes(p).scratch = p.scratch
        /\ becomes(p) \in BatchesSent
        /\ becomes(p).map = IF p.op = op /\ p.map = "waiting" THEN map ELSE p.map
  <2> TAKE t \in BatchCallers
  <2> TAKE p \in InHand(t)
  <2>1. p \in BatchesSent
    <3>1. caller[t].pending \in Seq(BatchesSent) /\ caller[t].ready \in Seq(BatchesSent)
      BY <1>3 DEF TrueBatchTypes
    <3> QED BY <3>1, LenProperties DEF InHand, Hand
  <2> QED BY <1>7, <1>8, <2>1 DEF BatchesSent
<1>10. ASSUME NEW t \in BatchCallers
       PROVE  /\ caller'[t] = [stage |-> caller'[t].stage, rounds |-> caller'[t].rounds,
                               pending |-> caller'[t].pending, ready |-> caller'[t].ready,
                               out |-> caller'[t].out]
              /\ caller'[t].stage = caller[t].stage /\ caller'[t].rounds = caller[t].rounds
              /\ caller'[t].ready = caller[t].ready /\ caller'[t].out = caller[t].out
              /\ caller'[t].pending \in Seq(BatchesSent)
              /\ DOMAIN caller'[t].pending = DOMAIN caller[t].pending
              /\ \A i \in DOMAIN caller[t].pending :
                    caller'[t].pending[i] = becomes(caller[t].pending[i])
  <2> DEFINE old == caller[t].pending
             new == [i \in DOMAIN old |-> becomes(old[i])]
  <2>1. /\ caller[t] = [stage |-> caller[t].stage, rounds |-> caller[t].rounds,
                        pending |-> caller[t].pending, ready |-> caller[t].ready,
                        out |-> caller[t].out]
        /\ old \in Seq(BatchesSent)
    BY <1>3 DEF TrueBatchTypes
  <2>2. caller'[t] = [caller[t] EXCEPT !.pending = new]
    BY <1>1
  <2> HIDE DEF becomes
  <2>3. DOMAIN old = 1 .. Len(old) /\ Len(old) \in Nat /\ \A i \in DOMAIN old : old[i] \in InHand(t)
    BY <2>1, LenProperties DEF InHand, Hand
  <2>4. new \in [1 .. Len(old) -> BatchesSent] /\ DOMAIN new = DOMAIN old
        /\ \A i \in DOMAIN old : new[i] = becomes(old[i])
    BY <1>9, <2>3
  <2>5. new \in Seq(BatchesSent)
    <3>1. Len(old) \in Nat
      BY <2>3
    <3> HIDE DEF old, new
    <3> QED BY <2>4, <3>1, SeqDef
  <2> HIDE DEF new
  <2>6. caller'[t].pending = new
        /\ caller'[t] = [stage |-> caller'[t].stage, rounds |-> caller'[t].rounds,
                               pending |-> caller'[t].pending, ready |-> caller'[t].ready,
                               out |-> caller'[t].out]
        /\ caller'[t].stage = caller[t].stage /\ caller'[t].rounds = caller[t].rounds
        /\ caller'[t].ready = caller[t].ready /\ caller'[t].out = caller[t].out
    BY <2>1, <2>2
  <2> QED BY <2>4, <2>5, <2>6
<1>11. /\ scratches' \in Seq(ScratchKind) /\ DOMAIN scratches' = DOMAIN scratches
       /\ \A i \in DOMAIN scratches :
            /\ scratches'[i].op = scratches[i].op /\ scratches'[i].holds = scratches[i].holds
            /\ scratches'[i].buffer = IF scratches[i].op # op THEN scratches[i].buffer
                                      ELSE IF map = "ok" THEN "mapped" ELSE "unmapped"
  <2>1. \A i \in DOMAIN scratches :
            /\ scratches'[i].op = scratches[i].op /\ scratches'[i].holds = scratches[i].holds
            /\ scratches'[i].buffer = IF scratches[i].op # op THEN scratches[i].buffer
                                      ELSE IF map = "ok" THEN "mapped" ELSE "unmapped"
            /\ scratches'[i] \in ScratchKind
    BY <1>1, <1>6 DEF ScratchKind
  <2>2. scratches' \in [1 .. Len(scratches) -> ScratchKind] /\ DOMAIN scratches' = DOMAIN scratches
    BY <1>1, <1>6, <2>1
  <2>3. scratches' \in Seq(ScratchKind)
    BY <1>6, <2>2, SeqDef
  <2> QED BY <2>1, <2>2, <2>3
<1> HIDE DEF becomes, op
<1>12. DOMAIN caller' = BatchCallers
  BY <1>1
\* What is ready is not waited for.
<1>13. ASSUME NEW t \in BatchCallers
       PROVE  /\ \A p \in InHand(t) : becomes(p) \in InHand(t)'
              /\ \A q \in InHand(t)' : \E p \in InHand(t) : q = becomes(p)
  <2>1. \A k \in DOMAIN caller[t].ready : becomes(caller[t].ready[k]) = caller[t].ready[k]
    <3> TAKE k \in DOMAIN caller[t].ready
    <3>1. caller[t].ready[k].map # "waiting"
      BY <1>3 DEF BatchesNumbered, PlacedOnce
    <3> QED BY <3>1 DEF becomes
  <2> DEFINE old == caller[t]  new == caller'[t]
  <2>2. \A k \in DOMAIN old.ready : becomes(old.ready[k]) = old.ready[k]
    BY <2>1
  <2>3. /\ new.ready = old.ready /\ DOMAIN new.pending = DOMAIN old.pending
        /\ \A i \in DOMAIN old.pending : new.pending[i] = becomes(old.pending[i])
    BY <1>10
  <2>4. InHand(t) = Hand(old) /\ InHand(t)' = Hand(new)
    BY DEF InHand
  <2> HIDE DEF old, new
  <2>5. \A p \in Hand(old) : becomes(p) \in Hand(new)
    BY <2>2, <2>3 DEF Hand
  <2>6. \A q \in Hand(new) : \E p \in Hand(old) : q = becomes(p)
    BY <2>2, <2>3 DEF Hand
  <2> QED BY <2>4, <2>5, <2>6
<1>14. TrueBatchTypes'
  BY <1>2, <1>3, <1>4, <1>10, <1>11, <1>12 DEF TrueBatchTypes
<1>15. BatchesNumbered'
  <2>1. \A t, u \in BatchCallers : \A p \in InHand(t)' : \A q \in InHand(u)' :
          p.op = q.op => t = u /\ p = q
    <3> TAKE t, u \in BatchCallers
    <3> TAKE x \in InHand(t)'
    <3> TAKE y \in InHand(u)'
    <3>1. PICK p \in InHand(t) : x = becomes(p)
      BY <1>13
    <3>2. PICK q \in InHand(u) : y = becomes(q)
      BY <1>13
    <3>3. x.op = p.op /\ y.op = q.op
      BY <1>9, <3>1, <3>2
    <3>4. p.op = q.op => t = u /\ p = q
      BY <1>3 DEF BatchesNumbered
    <3> QED BY <3>1, <3>2, <3>3, <3>4
  <2>2. ASSUME NEW t \in BatchCallers
        PROVE  \A p, q \in InHand(t) : becomes(p) = becomes(q) => p = q
    <3> TAKE p, q \in InHand(t)
    <3>1. becomes(p).op = p.op /\ becomes(q).op = q.op
      BY <1>9
    <3> QED BY <1>3, <3>1 DEF BatchesNumbered
  <2>4. ASSUME NEW t \in BatchCallers
        PROVE  PlacedOnce(caller'[t])
    <3> DEFINE old == caller[t]  new == caller'[t]
    <3>1. PlacedOnce(old)
      BY <1>3 DEF BatchesNumbered
    <3>2. /\ new.ready = old.ready /\ DOMAIN new.pending = DOMAIN old.pending
          /\ \A i \in DOMAIN old.pending : new.pending[i] = becomes(old.pending[i])
      BY <1>10
    <3>3. \A p, q \in Hand(old) : becomes(p) = becomes(q) => p = q
      BY <2>2 DEF InHand
    <3>4. /\ \A i \in DOMAIN old.pending : old.pending[i] \in Hand(old)
          /\ \A i \in DOMAIN old.ready : old.ready[i] \in Hand(old)
      BY DEF Hand
    <3>5. \A p \in Hand(old) : p.map # "late" => becomes(p).map # "late"
      <4>1. \A p \in Hand(old) : becomes(p).map = IF p.op = op /\ p.map = "waiting" THEN map ELSE p.map
        BY <1>9 DEF InHand
      <4> QED BY <1>8, <4>1
    <3>6. \A k \in DOMAIN old.ready : becomes(old.ready[k]) = old.ready[k]
      BY <3>1 DEF PlacedOnce, becomes
    <3> HIDE DEF old, new
    <3>7. \A i, k \in DOMAIN new.pending : new.pending[i] = new.pending[k] => i = k
      BY <3>1, <3>2, <3>3, <3>4 DEF PlacedOnce
    <3>8. \A i \in DOMAIN new.pending : \A k \in DOMAIN new.ready : new.pending[i] # new.ready[k]
      <4> TAKE i \in DOMAIN new.pending
      <4> TAKE k \in DOMAIN new.ready
      <4>1. new.pending[i] = becomes(old.pending[i]) /\ new.ready[k] = becomes(old.ready[k])
        BY <3>2, <3>6
      <4>2. old.pending[i] # old.ready[k] /\ i \in DOMAIN old.pending /\ k \in DOMAIN old.ready
        BY <3>1, <3>2 DEF PlacedOnce
      <4> QED BY <3>3, <3>4, <4>1, <4>2
    <3>9. \A i \in DOMAIN new.pending : new.pending[i].map # "late"
      BY <3>1, <3>2, <3>4, <3>5 DEF PlacedOnce
    <3>10. PlacedOnce(new)
      BY <3>1, <3>2, <3>7, <3>8, <3>9 DEF PlacedOnce
    <3> QED BY <3>10 DEF new
  <2>5. ASSUME NEW t \in BatchCallers, NEW x \in InHand(t)'
        PROVE  /\ x.op \in 1 .. submits'
               /\ x.map = "late" => x.op \in givenUp'
               /\ \A k \in DOMAIN deviceQueue' : deviceQueue'[k] = x.op => x.map \in {"waiting", "late"}
    <3>1. PICK p \in InHand(t) : x = becomes(p)
      BY <1>13
    <3>2. x.op = p.op /\ x.map = IF p.op = op /\ p.map = "waiting" THEN map ELSE p.map
      BY <1>9, <3>1
    <3>3. /\ p.op \in 1 .. submits
          /\ p.map = "late" => p.op \in givenUp
          /\ \A k \in DOMAIN deviceQueue : deviceQueue[k] = p.op => p.map \in {"waiting", "late"}
      BY <1>3 DEF BatchesNumbered
    <3>4. ASSUME NEW k \in DOMAIN deviceQueue', deviceQueue'[k] = p.op
          PROVE  p.op # op /\ p.map \in {"waiting", "late"}
      <4>1. deviceQueue'[k] # op /\ deviceQueue'[k] = deviceQueue[k + 1] /\ k + 1 \in DOMAIN deviceQueue
        BY <1>4, <1>5
      <4> QED BY <3>3, <3>4, <4>1
    <3>5. x.map = "late" => p.map = "late"
      BY <1>8, <3>2
    <3>6. p.op # op /\ p.map \in {"waiting", "late"} => x.map \in {"waiting", "late"}
      BY <3>2
    <3>7. submits' = submits /\ givenUp' = givenUp /\ x.op = p.op
      BY <1>2, <3>2
    <3>8. \A k \in DOMAIN deviceQueue' : deviceQueue'[k] = x.op => x.map \in {"waiting", "late"}
      BY <3>4, <3>6, <3>7
    <3>9. x.op \in 1 .. submits'
      <4>1. p.op \in 1 .. submits
        BY <3>3
      <4> QED BY <3>7, <4>1
    <3>10. x.map = "late" => x.op \in givenUp'
      <4>1. p.map = "late" => p.op \in givenUp
        BY <3>3
      <4> QED BY <3>5, <3>7, <4>1
    <3> QED BY <3>8, <3>9, <3>10
  <2>6. \A i, k \in DOMAIN deviceQueue' : i # k => deviceQueue'[i] # deviceQueue'[k]
    <3> TAKE i, k \in DOMAIN deviceQueue'
    <3>1. /\ deviceQueue'[i] = deviceQueue[i + 1] /\ i + 1 \in DOMAIN deviceQueue /\ i \in Int
          /\ deviceQueue'[k] = deviceQueue[k + 1] /\ k + 1 \in DOMAIN deviceQueue /\ k \in Int
      BY <1>4
    <3>2. i # k => i + 1 # k + 1
      BY <3>1
    <3> QED BY <1>3, <3>1, <3>2 DEF BatchesNumbered
  <2>7. \A i \in DOMAIN deviceQueue' : deviceQueue'[i] \in 1 .. submits'
    BY <1>2, <1>5
  <2> QED BY <2>1, <2>4, <2>5, <2>6, <2>7 DEF BatchesNumbered
<1>16. ScratchesHeld'
  <2>1. ASSUME NEW i \in DOMAIN truePool
        PROVE  /\ truePool[i] \in DOMAIN scratches'
               /\ \/ scratches'[truePool[i]].op \in givenUp
                  \/ /\ scratches'[truePool[i]].buffer = "unmapped"
                     /\ \A k \in DOMAIN deviceQueue' : deviceQueue'[k] # scratches'[truePool[i]].op
    <3> DEFINE id == truePool[i]
    <3>1. /\ id \in DOMAIN scratches
          /\ \/ scratches[id].op \in givenUp
             \/ /\ scratches[id].buffer = "unmapped"
                /\ \A k \in DOMAIN deviceQueue : deviceQueue[k] # scratches[id].op
      BY <1>3 DEF ScratchesHeld
    <3> HIDE DEF id
    <3>2. scratches'[id].op = scratches[id].op
          /\ scratches'[id].buffer = IF scratches[id].op # op THEN scratches[id].buffer
                                      ELSE IF map = "ok" THEN "mapped" ELSE "unmapped"
      BY <1>11, <3>1
    <3>3. CASE scratches[id].op \in givenUp
      BY <1>11, <3>1, <3>2, <3>3 DEF id
    <3>4. CASE /\ scratches[id].buffer = "unmapped"
               /\ \A k \in DOMAIN deviceQueue : deviceQueue[k] # scratches[id].op
      <4>1. scratches[id].op # op
        BY <1>4, <3>4
      <4>2. \A k \in DOMAIN deviceQueue' : deviceQueue'[k] # scratches[id].op
        BY <1>4, <3>4
      <4> QED BY <1>11, <3>1, <3>2, <3>4, <4>1, <4>2 DEF id
    <3> QED BY <3>1, <3>3, <3>4
  <2>2. ASSUME NEW t \in BatchCallers, NEW x \in InHand(t)'
        PROVE  /\ x.scratch \in DOMAIN scratches'
               /\ \A i \in DOMAIN truePool : truePool[i] # x.scratch
               /\ scratches'[x.scratch].op = x.op
               /\ scratches'[x.scratch].holds = [i \in DOMAIN x.jobs |-> x.jobs[i].chunk]
               /\ x.map = "map" => scratches'[x.scratch].buffer = "unmapped"
    <3>1. PICK p \in InHand(t) : x = becomes(p)
      BY <1>13
    <3>2. x.op = p.op /\ x.jobs = p.jobs /\ x.scratch = p.scratch
          /\ x.map = IF p.op = op /\ p.map = "waiting" THEN map ELSE p.map
      BY <1>9, <3>1
    <3>3. /\ p.scratch \in DOMAIN scratches
          /\ \A i \in DOMAIN truePool : truePool[i] # p.scratch
          /\ scratches[p.scratch].op = p.op
          /\ scratches[p.scratch].holds = [i \in DOMAIN p.jobs |-> p.jobs[i].chunk]
          /\ p.map = "map" => scratches[p.scratch].buffer = "unmapped"
      BY <1>3 DEF ScratchesHeld
    <3>4. /\ scratches'[p.scratch].op = scratches[p.scratch].op
          /\ scratches'[p.scratch].holds = scratches[p.scratch].holds
          /\ scratches'[p.scratch].buffer = IF scratches[p.scratch].op # op THEN scratches[p.scratch].buffer
                                      ELSE IF map = "ok" THEN "mapped" ELSE "unmapped"
      BY <1>11, <3>3
    <3>5. p.op = op => p.map \in {"waiting", "late"}
      BY <1>3, <1>4 DEF BatchesNumbered
    <3>6. x.map = "map" => scratches'[p.scratch].buffer = "unmapped"
      BY <1>8, <3>2, <3>3, <3>4, <3>5
    <3> QED BY <1>11, <3>2, <3>3, <3>4, <3>6
  <2>3. \A t \in BatchCallers : caller'[t].stage = "panicked" => givenUp' # {}
    BY <1>2, <1>3, <1>10 DEF ScratchesHeld
  <2>4. Len(truePool) <= TruePoolLimit
        /\ \A i, k \in DOMAIN truePool : truePool[i] = truePool[k] => i = k
    BY <1>3 DEF ScratchesHeld
  <2>5. \A i \in DOMAIN scratches' : scratches'[i].op \in 0 .. submits'
    <3>1. \A i \in DOMAIN scratches : scratches[i].op \in 0 .. submits
      BY <1>3 DEF ScratchesHeld
    <3> QED BY <1>2, <1>11, <3>1
  <2>6. truePool' = truePool
    BY <1>2
  <2>7. \A t \in BatchCallers : caller[t]' = caller'[t]
    OBVIOUS
  <2>8. /\ Len(truePool') <= TruePoolLimit
        /\ \A i, k \in DOMAIN truePool' : truePool'[i] = truePool'[k] => i = k
    BY <2>4, <2>6
  <2>9. \A i \in DOMAIN truePool' :
          /\ truePool'[i] \in DOMAIN scratches'
          /\ \/ scratches'[truePool'[i]].op \in givenUp'
             \/ /\ scratches'[truePool'[i]].buffer = "unmapped"
                /\ \A k \in DOMAIN deviceQueue' : deviceQueue'[k] # scratches'[truePool'[i]].op
    BY <1>2, <2>1, <2>6
  <2>10. \A t \in BatchCallers : \A x \in InHand(t)' : \A i \in DOMAIN truePool' : truePool'[i] # x.scratch
    BY <2>2, <2>6
  <2> QED BY <2>2, <2>3, <2>5, <2>8, <2>9, <2>10 DEF ScratchesHeld
<1>17. ASSUME NEW t \in BatchCallers PROVE RoundsKept(t)'
  <2> DEFINE old == caller[t]  new == caller'[t]
  <2>1. RoundsKept(t)
    BY <1>3 DEF RoundsInOrder
  <2>2. \A p \in Hand(old) : becomes(p).jobs = p.jobs /\ becomes(p) \in Hand(new)
    BY <1>9, <1>13 DEF InHand
  <2>3. \A q \in Hand(new) : \E p \in Hand(old) : q = becomes(p)
    BY <1>13 DEF InHand
  <2>4. new.stage = old.stage /\ new.rounds = old.rounds /\ new.out = old.out
    BY <1>10
  <2>5. RoundsOf(t)' = RoundsOf(t)
    BY DEF RoundsOf
  <2>6. JobsOf(new) = JobsOf(old)
    <3> HIDE DEF old, new
    <3> QED BY <2>2, <2>3 DEF JobsOf
  <2>7. JobsApart(old) => JobsApart(new)
    <3> HIDE DEF old, new
    <3> QED BY <2>2, <2>3 DEF JobsApart
  <2> QED BY <2>1, <2>4, <2>5, <2>6, <2>7 DEF RoundsKept
<1>18. TrueBatchExact'
  BY <1>3, <1>10 DEF TrueBatchExact
<1> QED BY <1>14, <1>15, <1>16, <1>17, <1>18 DEF TrueBatchInv, RoundsInOrder

--------------------------------------------------------------------------------
(* What the steps of one caller have in common: the caller t becomes d.         *)

CallerKind(d) ==
    /\ d = [stage |-> d.stage, rounds |-> d.rounds, pending |-> d.pending,
            ready |-> d.ready, out |-> d.out]
    /\ d.stage \in {"round", "room", "returned", "panicked"}
    /\ d.rounds \in Seq(Seq(PreparedJobs))
    /\ d.pending \in Seq(BatchesSent) /\ d.ready \in Seq(BatchesSent)
    /\ d.out \in Seq(BatchAnswers)

LEMMA CallerKinds ==
    ASSUME TrueBatchInv, NEW t \in BatchCallers
    PROVE  /\ CallerKind(caller[t])
           /\ \A p \in InHand(t) : p \in BatchesSent
           /\ truePool \in Seq(Nat) /\ scratches \in Seq(ScratchKind)
           /\ deviceQueue \in Seq(Nat) /\ submits \in Nat
<1>1. TrueBatchTypes
  BY DEF TrueBatchInv
<1>2. CallerKind(caller[t])
  BY <1>1 DEF TrueBatchTypes, CallerKind
<1>3. \A p \in InHand(t) : p \in BatchesSent
  BY <1>2, LenProperties DEF CallerKind, InHand, Hand
<1> QED BY <1>1, <1>2, <1>3 DEF TrueBatchTypes

LEMMA OneCaller ==
    ASSUME TrueBatchInv, NEW t \in BatchCallers, NEW d, caller' = [caller EXCEPT ![t] = d]
    PROVE  /\ DOMAIN caller' = BatchCallers /\ caller'[t] = d
           /\ InHand(t)' = Hand(d) /\ InHand(t) = Hand(caller[t])
           /\ \A u \in BatchCallers \ {t} : caller'[u] = caller[u] /\ InHand(u)' = InHand(u)
<1>1. DOMAIN caller = BatchCallers
  BY DEF TrueBatchInv, TrueBatchTypes
<1> QED BY <1>1 DEF InHand

LEMMA BatchTypesStep ==
    ASSUME TrueBatchInv, NEW t \in BatchCallers, NEW d, caller' = [caller EXCEPT ![t] = d],
           CallerKind(d), truePool' \in Seq(Nat), scratches' \in Seq(ScratchKind),
           deviceQueue' \in Seq(Nat), submits' \in Nat
    PROVE  TrueBatchTypes'
<1>1. \A u \in BatchCallers : CallerKind(caller'[u])
  BY OneCaller, CallerKinds
<1>2. DOMAIN caller' = BatchCallers
  BY OneCaller
<1> QED BY <1>1, <1>2 DEF TrueBatchTypes, CallerKind

\* The queue stays, or a submission joins it.
QueueGoesOn ==
    \/ submits' = submits /\ deviceQueue' = deviceQueue
    \/ submits' = submits + 1 /\ deviceQueue' = Append(deviceQueue, submits + 1)

LEMMA QueueKept ==
    ASSUME TrueBatchInv, QueueGoesOn
    PROVE  /\ deviceQueue' \in Seq(Nat) /\ submits' \in Nat /\ submits <= submits'
           /\ \A i \in DOMAIN deviceQueue' : deviceQueue'[i] \in 1 .. submits'
           /\ \A i, k \in DOMAIN deviceQueue' : i # k => deviceQueue'[i] # deviceQueue'[k]
           /\ \A k \in DOMAIN deviceQueue' :
                 \/ \E i \in DOMAIN deviceQueue : deviceQueue'[k] = deviceQueue[i]
                 \/ deviceQueue'[k] = submits + 1
<1>1. /\ deviceQueue \in Seq(Nat) /\ submits \in Nat
      /\ \A i \in DOMAIN deviceQueue : deviceQueue[i] \in 1 .. submits
      /\ \A i, k \in DOMAIN deviceQueue : i # k => deviceQueue[i] # deviceQueue[k]
  BY DEF TrueBatchInv, TrueBatchTypes, BatchesNumbered
<1>2. CASE submits' = submits /\ deviceQueue' = deviceQueue
  BY <1>1, <1>2
<1>3. CASE submits' = submits + 1 /\ deviceQueue' = Append(deviceQueue, submits + 1)
  <2>1. /\ deviceQueue' \in Seq(Nat)
        /\ \A k \in DOMAIN deviceQueue' : \/ k \in DOMAIN deviceQueue /\ deviceQueue'[k] = deviceQueue[k]
                                          \/ k = Len(deviceQueue) + 1 /\ deviceQueue'[k] = submits + 1
    BY <1>1, <1>3, Appended
  <2>2. submits' \in Nat /\ submits <= submits' /\ submits + 1 \in 1 .. submits' /\ submits + 1 \notin 1 .. submits
        /\ 1 .. submits \subseteq 1 .. submits'
    BY <1>1, <1>3
  <2>3. \A i \in DOMAIN deviceQueue' : deviceQueue'[i] \in 1 .. submits'
    BY <1>1, <2>1, <2>2
  <2>4. \A i, k \in DOMAIN deviceQueue' : i # k => deviceQueue'[i] # deviceQueue'[k]
    <3> TAKE i, k \in DOMAIN deviceQueue'
    <3> HAVE i # k
    <3>1. CASE i \in DOMAIN deviceQueue /\ deviceQueue'[i] = deviceQueue[i]
               /\ k \in DOMAIN deviceQueue /\ deviceQueue'[k] = deviceQueue[k]
      BY <1>1, <3>1
    <3>2. CASE i \in DOMAIN deviceQueue /\ deviceQueue'[i] = deviceQueue[i] /\ deviceQueue'[k] = submits + 1
      BY <1>1, <2>2, <3>2
    <3>3. CASE k \in DOMAIN deviceQueue /\ deviceQueue'[k] = deviceQueue[k] /\ deviceQueue'[i] = submits + 1
      BY <1>1, <2>2, <3>3
    <3> QED BY <2>1, <3>1, <3>2, <3>3
  <2> QED BY <2>1, <2>2, <2>3, <2>4
<1> QED BY <1>2, <1>3 DEF QueueGoesOn

LEMMA NumbersStep ==
    ASSUME TrueBatchInv, NEW t \in BatchCallers, NEW d, caller' = [caller EXCEPT ![t] = d],
           QueueGoesOn, givenUp \subseteq givenUp', PlacedOnce(d),
           \A p, q \in Hand(d) : p.op = q.op => p = q,
           \A q \in Hand(d) :
              /\ q.op \in 1 .. submits'
              /\ q.map = "late" => q.op \in givenUp'
              /\ \A k \in DOMAIN deviceQueue' : deviceQueue'[k] = q.op => q.map \in {"waiting", "late"}
              /\ (\E p \in InHand(t) : p.op = q.op) \/ q.op = submits + 1
    PROVE  BatchesNumbered'
<1>1. /\ DOMAIN caller' = BatchCallers /\ caller'[t] = d
      /\ InHand(t)' = Hand(d) /\ InHand(t) = Hand(caller[t])
      /\ \A u \in BatchCallers \ {t} : caller'[u] = caller[u] /\ InHand(u)' = InHand(u)
  BY OneCaller
<1>2. /\ submits' \in Nat /\ submits <= submits' /\ submits \in Nat
      /\ \A i \in DOMAIN deviceQueue' : deviceQueue'[i] \in 1 .. submits'
      /\ \A i, k \in DOMAIN deviceQueue' : i # k => deviceQueue'[i] # deviceQueue'[k]
      /\ \A k \in DOMAIN deviceQueue' :
                 \/ \E i \in DOMAIN deviceQueue : deviceQueue'[k] = deviceQueue[i]
                 \/ deviceQueue'[k] = submits + 1
  BY QueueKept, CallerKinds
<1>3. /\ \A x, u \in BatchCallers : \A p \in InHand(x) : \A q \in InHand(u) :
          p.op = q.op => x = u /\ p = q
      /\ \A u \in BatchCallers : PlacedOnce(caller[u])
      /\ \A u \in BatchCallers : \A p \in InHand(u) :
          /\ p.op \in 1 .. submits
          /\ p.map = "late" => p.op \in givenUp
          /\ \A k \in DOMAIN deviceQueue : deviceQueue[k] = p.op => p.map \in {"waiting", "late"}
  BY DEF TrueBatchInv, BatchesNumbered
<1>4. submits + 1 \notin 1 .. submits /\ 1 .. submits \subseteq 1 .. submits'
  BY <1>2
<1>5. \A u \in BatchCallers \ {t} : \A p \in InHand(u) : \A q \in Hand(d) : p.op # q.op
  BY <1>3, <1>4
<1>6. \A x, u \in BatchCallers : \A p \in InHand(x)' : \A q \in InHand(u)' :
          p.op = q.op => x = u /\ p = q
  <2> TAKE x, u \in BatchCallers
  <2> TAKE p \in InHand(x)'
  <2> TAKE q \in InHand(u)'
  <2> HAVE p.op = q.op
  <2>1. CASE x = t /\ u = t
    BY <1>1, <2>1
  <2>2. CASE x # t /\ u # t
    BY <1>1, <1>3, <2>2
  <2>3. ~(x # t /\ u = t)
    BY <1>1, <1>5
  <2>4. ~(x = t /\ u # t)
    BY <1>1, <1>5
  <2> QED BY <2>1, <2>2, <2>3, <2>4
<1>7. \A u \in BatchCallers : PlacedOnce(caller'[u])
  BY <1>1, <1>3
<1>8. ASSUME NEW u \in BatchCallers, NEW p \in InHand(u)'
      PROVE  /\ p.op \in 1 .. submits'
             /\ p.map = "late" => p.op \in givenUp'
             /\ \A k \in DOMAIN deviceQueue' : deviceQueue'[k] = p.op => p.map \in {"waiting", "late"}
  <2>1. CASE u = t
    BY <1>1, <2>1
  <2>2. CASE u # t
    <3>1. p \in InHand(u)
      BY <1>1, <2>2
    <3>2. p.op \in 1 .. submits /\ (p.map = "late" => p.op \in givenUp)
      BY <1>3, <3>1
    <3>3. \A k \in DOMAIN deviceQueue' : deviceQueue'[k] = p.op => p.map \in {"waiting", "late"}
      BY <1>2, <1>3, <1>4, <3>1, <3>2
    <3> QED BY <1>4, <3>2, <3>3
  <2> QED BY <2>1, <2>2
<1> QED BY <1>2, <1>6, <1>7, <1>8 DEF BatchesNumbered

\* Nothing is taken from the pool or put into it.
LEMMA SameScratches ==
    ASSUME TrueBatchInv, NEW t \in BatchCallers, NEW d, caller' = [caller EXCEPT ![t] = d],
           UNCHANGED <<truePool, scratches, deviceQueue, submits>>, givenUp \subseteq givenUp',
           d.stage = "panicked" => givenUp' # {},
           \A q \in Hand(d) : \E p \in InHand(t) :
              /\ q.scratch = p.scratch /\ q.op = p.op /\ q.jobs = p.jobs
              /\ q.map = "map" => p.map = "map"
    PROVE  ScratchesHeld'
<1>1. /\ DOMAIN caller' = BatchCallers /\ caller'[t] = d
      /\ InHand(t)' = Hand(d) /\ InHand(t) = Hand(caller[t])
      /\ \A u \in BatchCallers \ {t} : caller'[u] = caller[u] /\ InHand(u)' = InHand(u)
  BY OneCaller
<1>2. ScratchesHeld
  BY DEF TrueBatchInv
<1>3. \A i \in DOMAIN truePool' :
          /\ truePool'[i] \in DOMAIN scratches'
          /\ \/ scratches'[truePool'[i]].op \in givenUp'
             \/ /\ scratches'[truePool'[i]].buffer = "unmapped"
                /\ \A k \in DOMAIN deviceQueue' : deviceQueue'[k] # scratches'[truePool'[i]].op
  BY <1>2 DEF ScratchesHeld
<1>4. ASSUME NEW u \in BatchCallers, NEW q \in InHand(u)'
      PROVE  /\ q.scratch \in DOMAIN scratches
             /\ \A i \in DOMAIN truePool : truePool[i] # q.scratch
             /\ scratches[q.scratch].op = q.op
             /\ scratches[q.scratch].holds = [i \in DOMAIN q.jobs |-> q.jobs[i].chunk]
             /\ q.map = "map" => scratches[q.scratch].buffer = "unmapped"
  <2>1. PICK p \in InHand(u) : /\ q.scratch = p.scratch /\ q.op = p.op /\ q.jobs = p.jobs
                               /\ q.map = "map" => p.map = "map"
    BY <1>1
  <2> QED BY <1>2, <2>1 DEF ScratchesHeld
<1>5. \A u \in BatchCallers : caller'[u].stage = "panicked" => givenUp' # {}
  BY <1>1, <1>2 DEF ScratchesHeld
<1>6. /\ Len(truePool') <= TruePoolLimit
      /\ \A i, k \in DOMAIN truePool' : truePool'[i] = truePool'[k] => i = k
      /\ \A i \in DOMAIN scratches' : scratches'[i].op \in 0 .. submits'
  BY <1>2 DEF ScratchesHeld
<1> QED BY <1>3, <1>4, <1>5, <1>6 DEF ScratchesHeld

LEMMA RoundsStep ==
    ASSUME TrueBatchInv, NEW t \in BatchCallers, NEW d, caller' = [caller EXCEPT ![t] = d],
           d.stage # "returned" => /\ JobsApart(d)
                                   /\ RoundsSettled(d.rounds, JobsOf(d), d.out, RoundsOf(t))
    PROVE  RoundsInOrder'
<1>1. RoundsKept(t)'
  <2>1. caller'[t] = d
    BY OneCaller
  <2>2. RoundsOf(t)' = RoundsOf(t)
    BY DEF RoundsOf
  <2> QED BY <2>1, <2>2 DEF RoundsKept
<1>2. \A u \in BatchCallers \ {t} : RoundsKept(u)'
  BY OneCaller, SameCaller DEF TrueBatchInv, RoundsInOrder
<1> QED BY <1>1, <1>2 DEF RoundsInOrder

LEMMA ExactStep ==
    ASSUME TrueBatchInv, NEW t \in BatchCallers, NEW d, caller' = [caller EXCEPT ![t] = d],
           d.stage # "returned"
    PROVE  TrueBatchExact'
<1>1. caller'[t] = d /\ \A u \in BatchCallers \ {t} : caller'[u] = caller[u]
  BY OneCaller
<1> QED BY <1>1 DEF TrueBatchInv, TrueBatchExact

LEMMA RoundsHeld ==
    ASSUME TrueBatchInv, NEW t \in BatchCallers, caller[t].stage # "returned"
    PROVE  /\ JobsApart(caller[t])
           /\ RoundsSettled(caller[t].rounds, JobsOf(caller[t]), caller[t].out, RoundsOf(t))
BY DEF TrueBatchInv, RoundsInOrder, RoundsKept

--------------------------------------------------------------------------------
(* Steps that take nothing from the idle.                                       *)

LEMMA RoomStep ==
    ASSUME TrueBatchInv, NEW t \in BatchCallers, RoomMade(t)
    PROVE  TrueBatchInv'
<1> DEFINE c == caller[t]
           d == [c EXCEPT !.stage = "round"]
<1>1. /\ c.stage = "room"
      /\ caller' = [caller EXCEPT ![t].stage = "round"]
      /\ UNCHANGED <<truePool, scratches, deviceQueue, submits, givenUp>>
  BY DEF RoomMade
<1>2. caller' = [caller EXCEPT ![t] = d]
  BY <1>1
<1>3. CallerKind(c) /\ c.stage # "returned"
  BY <1>1, CallerKinds
<1>4. /\ CallerKind(d) /\ d.stage = "round" /\ d.rounds = c.rounds /\ d.pending = c.pending
      /\ d.ready = c.ready /\ d.out = c.out
  <2>1. c = [stage |-> c.stage, rounds |-> c.rounds, pending |-> c.pending,
             ready |-> c.ready, out |-> c.out]
    BY <1>3 DEF CallerKind
  <2> HIDE DEF c
  <2>2. d = [stage |-> "round", rounds |-> c.rounds, pending |-> c.pending,
             ready |-> c.ready, out |-> c.out]
    BY <2>1
  <2> HIDE DEF d
  <2>3. /\ d.stage = "round" /\ d.rounds = c.rounds /\ d.pending = c.pending
        /\ d.ready = c.ready /\ d.out = c.out
    BY <2>2
  <2> QED BY <1>3, <2>2, <2>3 DEF CallerKind
<1> HIDE DEF d
<1>5. Hand(d) = Hand(c) /\ InHand(t) = Hand(c) /\ (PlacedOnce(c) => PlacedOnce(d))
  BY <1>4 DEF Hand, InHand, PlacedOnce
<1>6. QueueGoesOn /\ givenUp \subseteq givenUp'
  BY <1>1 DEF QueueGoesOn
<1>7. TrueBatchTypes'
  BY <1>1, <1>2, <1>4, CallerKinds, BatchTypesStep
<1>8. BatchesNumbered'
  <2>1. PlacedOnce(c) /\ \A p, q \in Hand(c) : p.op = q.op => p = q
    BY <1>5 DEF TrueBatchInv, BatchesNumbered
  <2>2. \A q \in Hand(c) :
          /\ q.op \in 1 .. submits'
          /\ q.map = "late" => q.op \in givenUp'
          /\ \A k \in DOMAIN deviceQueue' : deviceQueue'[k] = q.op => q.map \in {"waiting", "late"}
    BY <1>1, <1>5 DEF TrueBatchInv, BatchesNumbered
  <2>3. \A q \in Hand(d) :
          /\ q.op \in 1 .. submits'
          /\ q.map = "late" => q.op \in givenUp'
          /\ \A k \in DOMAIN deviceQueue' : deviceQueue'[k] = q.op => q.map \in {"waiting", "late"}
          /\ (\E p \in InHand(t) : p.op = q.op) \/ q.op = submits + 1
    BY <1>5, <2>2
  <2>4. PlacedOnce(d) /\ \A p, q \in Hand(d) : p.op = q.op => p = q
    BY <1>5, <2>1
  <2> QED BY <1>2, <1>6, <2>3, <2>4, NumbersStep
<1>9. ScratchesHeld'
  <2>1. \A q \in Hand(d) : \E p \in InHand(t) :
              /\ q.scratch = p.scratch /\ q.op = p.op /\ q.jobs = p.jobs
              /\ q.map = "map" => p.map = "map"
    BY <1>5
  <2>2. UNCHANGED <<truePool, scratches, deviceQueue, submits>> /\ d.stage # "panicked"
    BY <1>1, <1>4
  <2> QED BY <1>2, <1>6, <2>1, <2>2, SameScratches
<1>10. RoundsInOrder'
  <2>1. JobsApart(d) /\ RoundsSettled(d.rounds, JobsOf(d), d.out, RoundsOf(t))
    <3>1. JobsApart(c) /\ RoundsSettled(c.rounds, JobsOf(c), c.out, RoundsOf(t))
      BY <1>3, RoundsHeld
    <3>2. JobsOf(d) = JobsOf(c)
      BY <1>5 DEF JobsOf
    <3> QED BY <1>4, <1>5, <3>1, <3>2 DEF JobsApart
  <2> QED BY <1>2, <2>1, RoundsStep
<1>11. TrueBatchExact'
  BY <1>2, <1>4, ExactStep
<1> QED BY <1>7, <1>8, <1>9, <1>10, <1>11 DEF TrueBatchInv

LEMMA BatchFallsBack ==
    ASSUME TrueBatchInv, NEW t \in BatchCallers, SubmitRound(t),
           \E i \in DOMAIN Head(caller[t].rounds) : ~Head(caller[t].rounds)[i].sound
    PROVE  TrueBatchInv'
<1> DEFINE c == caller[t]
           part == Head(c.rounds)
           answers == FallbackAll(part)
           d == [c EXCEPT !.rounds = Tail(@), !.out = @ \o answers]
<1>1. /\ c.stage = "round" /\ c.rounds # <<>>
      /\ caller' = [caller EXCEPT ![t] = [[c EXCEPT !.rounds = Tail(@)] EXCEPT !.out = @ \o FallbackAll(part)]]
      /\ UNCHANGED <<truePool, scratches, deviceQueue, submits, givenUp>>
  BY Zenon DEF SubmitRound
<1>2. CallerKind(c) /\ c.stage # "returned"
  BY <1>1, CallerKinds
<1>3. /\ caller' = [caller EXCEPT ![t] = d]
      /\ d.stage = "round" /\ d.rounds = Tail(c.rounds) /\ d.pending = c.pending
      /\ d.ready = c.ready /\ d.out = c.out \o answers
      /\ d = [stage |-> d.stage, rounds |-> d.rounds, pending |-> d.pending,
              ready |-> d.ready, out |-> d.out]
  <2>1. c = [stage |-> c.stage, rounds |-> c.rounds, pending |-> c.pending,
              ready |-> c.ready, out |-> c.out]
    BY <1>2 DEF CallerKind
  <2> HIDE DEF answers, part, c
  <2>2. caller' = [caller EXCEPT ![t] = d]
    <3> DEFINE e == [[c EXCEPT !.rounds = Tail(@)] EXCEPT !.out = @ \o answers]
    <3>1. e = d
      BY <2>1
    <3>2. caller' = [caller EXCEPT ![t] = e]
      BY <1>1, Zenon DEF c, part, answers
    <3> HIDE DEF e, d
    <3> QED BY <3>1, <3>2
  <2>3. d = [stage |-> c.stage, rounds |-> Tail(c.rounds), pending |-> c.pending,
             ready |-> c.ready, out |-> c.out \o answers]
    <3> HIDE DEF d
    <3> DEFINE r == Tail(c.rounds)
    <3> HIDE DEF r
    <3> DEFINE e == [c EXCEPT !.rounds = r]
    <3>1. e = [stage |-> c.stage, rounds |-> r, pending |-> c.pending,
               ready |-> c.ready, out |-> c.out]
      BY <2>1
    <3>2. d = [e EXCEPT !.out = c.out \o answers]
      BY DEF d, r
    <3> HIDE DEF e
    <3>3. d = [stage |-> c.stage, rounds |-> r, pending |-> c.pending,
             ready |-> c.ready, out |-> c.out \o answers]
      BY <3>1, <3>2
    <3> QED BY <3>3 DEF r
  <2> HIDE DEF d
  <2>4. /\ d.stage = c.stage /\ d.rounds = Tail(c.rounds) /\ d.pending = c.pending
        /\ d.ready = c.ready /\ d.out = c.out \o answers
    BY <2>3
  <2>5. c.stage = "round"
    BY <1>1
  <2> QED BY <2>2, <2>3, <2>4, <2>5
<1> HIDE DEF d
<1>4. /\ c.rounds \in Seq(Seq(PreparedJobs)) /\ c.out \in Seq(BatchAnswers)
      /\ JobsApart(c) /\ RoundsSettled(c.rounds, JobsOf(c), c.out, RoundsOf(t))
  BY <1>2, RoundsHeld DEF CallerKind
<1>5. /\ RoundsSettled(Tail(c.rounds), JobsOf(c) \cup {part}, c.out, RoundsOf(t))
      /\ part \notin JobsOf(c) /\ Tail(c.rounds) \in Seq(Seq(PreparedJobs))
      /\ part \in Seq(PreparedJobs)
  <2> DEFINE hand == JobsOf(c)  rounds == c.rounds  out == c.out
  <2>1. /\ rounds \in Seq(Seq(PreparedJobs)) /\ rounds # <<>> /\ out \in Seq(BatchAnswers)
        /\ RoundsSettled(rounds, hand, out, RoundsOf(t))
    BY <1>1, <1>4
  <2> HIDE DEF hand, rounds, out
  <2>2. /\ RoundsSettled(Tail(rounds), hand \cup {Head(rounds)}, out, RoundsOf(t))
        /\ Head(rounds) \notin hand
    BY <2>1, RoundTaken
  <2>3. Tail(rounds) \in Seq(Seq(PreparedJobs)) /\ Head(rounds) \in Seq(PreparedJobs)
    BY <2>1, HeadLeaves
  <2>4. hand = JobsOf(c) /\ rounds = c.rounds /\ out = c.out /\ Head(rounds) = part
    BY DEF hand, rounds, out
  <2> HIDE DEF c, part
  <2> QED BY <2>2, <2>3, <2>4
<1>6. /\ answers = [i \in DOMAIN part |-> answers[i]]
      /\ \A i \in DOMAIN part : /\ answers[i] \in BatchAnswers
                                /\ answers[i].chunk = part[i].chunk
                                /\ answers[i].gpu \in {0, answers[i].chunk}
  <2>0. part \in Seq(PreparedJobs)
    BY <1>5
  <2> HIDE DEF part
  <2>1. \A i \in DOMAIN part : part[i] \in PreparedJobs
    BY <2>0, LenProperties
  <2>2. \A i \in DOMAIN part : part[i].chunk \in Nat
    BY <2>1 DEF PreparedJobs
  <2> QED BY <2>2 DEF FallbackAll, BatchAnswers
<1> HIDE DEF part, answers
<1>7. /\ RoundsSettled(Tail(c.rounds), (JobsOf(c) \cup {part}) \ {part}, c.out \o answers, RoundsOf(t))
      /\ c.out \o answers \in Seq(BatchAnswers)
  <2> DEFINE hand == JobsOf(c) \cup {part}
  <2>1. part \in hand
    OBVIOUS
  <2>2. RoundsSettled(Tail(c.rounds), hand, c.out, RoundsOf(t))
    BY <1>5
  <2> HIDE DEF hand
  <2>3. /\ RoundsSettled(Tail(c.rounds), hand \ {part}, c.out \o answers, RoundsOf(t))
        /\ c.out \o answers \in Seq(BatchAnswers)
    BY <1>4, <1>5, <1>6, <2>1, <2>2, RoundAnswered
  <2> QED BY <2>3 DEF hand
<1>8. (JobsOf(c) \cup {part}) \ {part} = JobsOf(c)
  BY <1>5
<1>9. CallerKind(d)
  BY <1>2, <1>3, <1>5, <1>7 DEF CallerKind
<1>10. Hand(d) = Hand(c) /\ InHand(t) = Hand(c) /\ (PlacedOnce(c) => PlacedOnce(d))
  BY <1>3 DEF Hand, InHand, PlacedOnce
<1>11. QueueGoesOn /\ givenUp \subseteq givenUp'
  BY <1>1 DEF QueueGoesOn
<1>12. TrueBatchTypes'
  BY <1>1, <1>3, <1>9, CallerKinds, BatchTypesStep
<1>13. BatchesNumbered'
  <2>1. PlacedOnce(c) /\ \A p, q \in Hand(c) : p.op = q.op => p = q
    BY <1>10 DEF TrueBatchInv, BatchesNumbered
  <2>2. \A q \in Hand(c) :
          /\ q.op \in 1 .. submits'
          /\ q.map = "late" => q.op \in givenUp'
          /\ \A k \in DOMAIN deviceQueue' : deviceQueue'[k] = q.op => q.map \in {"waiting", "late"}
    BY <1>1, <1>10 DEF TrueBatchInv, BatchesNumbered
  <2>3. \A q \in Hand(d) :
          /\ q.op \in 1 .. submits'
          /\ q.map = "late" => q.op \in givenUp'
          /\ \A k \in DOMAIN deviceQueue' : deviceQueue'[k] = q.op => q.map \in {"waiting", "late"}
          /\ (\E p \in InHand(t) : p.op = q.op) \/ q.op = submits + 1
    BY <1>10, <2>2
  <2>4. PlacedOnce(d) /\ \A p, q \in Hand(d) : p.op = q.op => p = q
    BY <1>10, <2>1
  <2> QED BY <1>3, <1>11, <2>3, <2>4, NumbersStep
<1>14. ScratchesHeld'
  <2>1. \A q \in Hand(d) : \E p \in InHand(t) :
              /\ q.scratch = p.scratch /\ q.op = p.op /\ q.jobs = p.jobs
              /\ q.map = "map" => p.map = "map"
    BY <1>10
  <2> QED BY <1>1, <1>3, <1>11, <2>1, SameScratches, ZenonT(40)
<1>15. RoundsInOrder'
  <2>1. JobsApart(d) /\ RoundsSettled(d.rounds, JobsOf(d), d.out, RoundsOf(t))
    <3>1. JobsOf(d) = JobsOf(c)
      BY <1>10 DEF JobsOf
    <3>2. JobsApart(d)
      BY <1>4, <1>10 DEF JobsApart
    <3> QED BY <1>3, <1>7, <1>8, <3>1, <3>2
  <2> QED BY <1>3, <2>1, RoundsStep
<1>16. TrueBatchExact'
  BY <1>3, ExactStep
<1> QED BY <1>12, <1>13, <1>14, <1>15, <1>16 DEF TrueBatchInv

LEMMA PromoteStep ==
    ASSUME TrueBatchInv, NEW t \in BatchCallers, Promote(t), caller[t].stage # "returned"
    PROVE  TrueBatchInv'
<1> DEFINE c == caller[t]
<1>1. PICK i \in DOMAIN c.pending :
        LET p == c.pending[i]
            tooLate == p.map = "waiting"
        IN  /\ tooLate => BatchTimeout
            /\ \A k \in 1 .. i - 1 : c.pending[k].map = "waiting"
            /\ caller' = [caller EXCEPT ![t].pending = RemoveAt(@, i),
                             ![t].ready = Append(@, IF tooLate THEN [p EXCEPT !.map = "late"]
                                                    ELSE p)]
            /\ givenUp' = IF tooLate THEN givenUp \cup {p.op} ELSE givenUp
            /\ UNCHANGED <<truePool, scratches, deviceQueue, submits>>
  BY DEF Promote
<1> DEFINE p == c.pending[i]
           tooLate == p.map = "waiting"
           moved == IF tooLate THEN [p EXCEPT !.map = "late"] ELSE p
           d == [c EXCEPT !.pending = RemoveAt(@, i), !.ready = Append(@, moved)]
<1>2. CallerKind(c) /\ DOMAIN caller = BatchCallers
  BY CallerKinds DEF TrueBatchInv, TrueBatchTypes
<1>3. /\ givenUp' = IF tooLate THEN givenUp \cup {p.op} ELSE givenUp
      /\ UNCHANGED <<truePool, scratches, deviceQueue, submits>>
  BY <1>1
<1>4. /\ caller' = [caller EXCEPT ![t] = d]
      /\ d.stage = c.stage /\ d.rounds = c.rounds /\ d.pending = RemoveAt(c.pending, i)
      /\ d.ready = Append(c.ready, moved) /\ d.out = c.out
      /\ d = [stage |-> d.stage, rounds |-> d.rounds, pending |-> d.pending,
              ready |-> d.ready, out |-> d.out]
  <2>1. c = [stage |-> c.stage, rounds |-> c.rounds, pending |-> c.pending,
              ready |-> c.ready, out |-> c.out]
    BY <1>2 DEF CallerKind
  <2>2. caller' = [caller EXCEPT ![t].pending = RemoveAt(@, i), ![t].ready = Append(@, moved)]
    BY <1>1
  <2> HIDE DEF moved
  <2>3. caller' = [caller EXCEPT ![t] = d]
    <3> DEFINE first == [caller EXCEPT ![t].pending = RemoveAt(@, i)]
               e == [c EXCEPT !.pending = RemoveAt(@, i)]
    <3>1. first = [caller EXCEPT ![t] = e]
      OBVIOUS
    <3>2. caller' = [first EXCEPT ![t].ready = Append(@, moved)]
      BY <2>2
    <3>3. d = [e EXCEPT !.ready = Append(@, moved)]
      BY <2>1
    <3> HIDE DEF first, e, d
    <3>4. first[t] = e /\ DOMAIN first = BatchCallers
      BY <1>2, <3>1
    <3>5. caller' = [first EXCEPT ![t] = d]
      BY <3>2, <3>3, <3>4
    <3> HIDE DEF c
    <3> QED BY <1>2, <3>1, <3>5
  <2> HIDE DEF c
  <2>4. d = [stage |-> c.stage, rounds |-> c.rounds, pending |-> RemoveAt(c.pending, i),
             ready |-> Append(c.ready, moved), out |-> c.out]
    <3> DEFINE e == [c EXCEPT !.pending = RemoveAt(c.pending, i)]
    <3>1. e = [stage |-> c.stage, rounds |-> c.rounds, pending |-> RemoveAt(c.pending, i),
               ready |-> c.ready, out |-> c.out]
      BY <2>1
    <3>2. d = [e EXCEPT !.ready = Append(c.ready, moved)]
      OBVIOUS
    <3> HIDE DEF e, d
    <3> QED BY <3>1, <3>2
  <2> HIDE DEF d
  <2>5. /\ d.stage = c.stage /\ d.rounds = c.rounds /\ d.pending = RemoveAt(c.pending, i)
        /\ d.ready = Append(c.ready, moved) /\ d.out = c.out
    BY <2>4
  <2> QED BY <2>3, <2>4, <2>5
<1>5. c.pending \in Seq(BatchesSent) /\ c.ready \in Seq(BatchesSent) /\ PlacedOnce(c)
  BY <1>2 DEF CallerKind, TrueBatchInv, BatchesNumbered
<1>6. p \in BatchesSent /\ p \in Hand(c) /\ p.map # "late"
  BY <1>5, LenProperties DEF Hand, PlacedOnce
<1>7. /\ moved \in BatchesSent /\ moved.op = p.op /\ moved.jobs = p.jobs /\ moved.scratch = p.scratch
      /\ moved.map # "waiting" /\ (moved.map = "map" => p.map = "map")
      /\ (moved.map = "late" => tooLate) /\ (tooLate => moved.map = "late") /\ (~tooLate => moved = p)
  BY <1>6 DEF BatchesSent
<1> HIDE DEF d, moved
<1>8. /\ RemoveAt(c.pending, i) \in Seq(BatchesSent)
      /\ \A k \in DOMAIN RemoveAt(c.pending, i) :
            \E m \in DOMAIN c.pending : m # i /\ RemoveAt(c.pending, i)[k] = c.pending[m]
      /\ \A m \in DOMAIN c.pending : m # i =>
            \E k \in DOMAIN RemoveAt(c.pending, i) : RemoveAt(c.pending, i)[k] = c.pending[m]
      /\ \A k, m \in DOMAIN RemoveAt(c.pending, i) :
            RemoveAt(c.pending, i)[k] = RemoveAt(c.pending, i)[m] => k = m
  BY <1>5, TakenOut DEF PlacedOnce
<1>9. /\ Append(c.ready, moved) \in Seq(BatchesSent)
      /\ \A k \in DOMAIN Append(c.ready, moved) :
            \/ k \in DOMAIN c.ready /\ Append(c.ready, moved)[k] = c.ready[k]
            \/ k = Len(c.ready) + 1 /\ Append(c.ready, moved)[k] = moved
      /\ \A k \in DOMAIN c.ready : k \in DOMAIN Append(c.ready, moved)
                                   /\ Append(c.ready, moved)[k] = c.ready[k]
      /\ Len(c.ready) + 1 \in DOMAIN Append(c.ready, moved)
      /\ Append(c.ready, moved)[Len(c.ready) + 1] = moved
  BY <1>5, <1>7, Appended
<1>10. CallerKind(d)
  BY <1>2, <1>4, <1>8, <1>9 DEF CallerKind
<1>11. /\ \A q \in Hand(d) : q = moved \/ (q \in Hand(c) /\ q # p)
       /\ moved \in Hand(d) /\ \A q \in Hand(c) : q # p => q \in Hand(d)
  <2> HIDE DEF p
  <2>0. p = c.pending[i]
    BY DEF p
  <2> HIDE DEF c
  <2>1. \A q \in Hand(d) : q = moved \/ (q \in Hand(c) /\ q # p)
    <3> TAKE q \in Hand(d)
    <3>1. CASE \E k \in DOMAIN d.pending : q = d.pending[k]
      <4>1. PICK m \in DOMAIN c.pending : m # i /\ q = c.pending[m]
        BY <1>4, <1>8, <3>1
      <4>2. q # p
        BY <1>5, <2>0, <4>1 DEF PlacedOnce
      <4> QED BY <4>1, <4>2 DEF Hand
    <3>2. CASE \E k \in DOMAIN d.ready : q = d.ready[k]
      <4>1. q = moved \/ \E k \in DOMAIN c.ready : q = c.ready[k]
        BY <1>4, <1>9, <3>2
      <4> QED BY <1>5, <2>0, <4>1 DEF Hand, PlacedOnce
    <3> QED BY <3>1, <3>2 DEF Hand
  <2>2. moved \in Hand(d)
    BY <1>4, <1>9 DEF Hand
  <2>3. \A q \in Hand(c) : q # p => q \in Hand(d)
    <3> TAKE q \in Hand(c)
    <3> HAVE q # p
    <3>1. CASE \E m \in DOMAIN c.pending : q = c.pending[m]
      <4>1. \E k \in DOMAIN d.pending : d.pending[k] = q
        BY <1>4, <1>8, <2>0, <3>1
      <4> QED BY <4>1 DEF Hand
    <3>2. CASE \E k \in DOMAIN c.ready : q = c.ready[k]
      <4>1. \E k \in DOMAIN d.ready : d.ready[k] = q
        BY <1>4, <1>9, <3>2
      <4> QED BY <4>1 DEF Hand
    <3> QED BY <3>1, <3>2 DEF Hand
  <2> QED BY <2>1, <2>2, <2>3
<1>12. /\ InHand(t) = Hand(c)
       /\ \A x, y \in Hand(c) : x.op = y.op => x = y
       /\ \A x \in Hand(c) :
            /\ x.op \in 1 .. submits
            /\ x.map = "late" => x.op \in givenUp
            /\ \A k \in DOMAIN deviceQueue : deviceQueue[k] = x.op => x.map \in {"waiting", "late"}
  <2>1. InHand(t) = Hand(c)
    BY DEF InHand
  <2> QED BY <2>1 DEF TrueBatchInv, BatchesNumbered
<1>13. PlacedOnce(d)
  <2>1. \A k, m \in DOMAIN d.ready : d.ready[k] = d.ready[m] => k = m
    <3>1. \A k \in DOMAIN c.ready : c.ready[k] # moved
      <4> TAKE k \in DOMAIN c.ready
      <4>1. c.ready[k] \in Hand(c) /\ c.ready[k] # p
        BY <1>5 DEF Hand, PlacedOnce
      <4> QED BY <1>6, <1>7, <1>12, <4>1
    <3> QED BY <1>4, <1>5, <1>9, <3>1 DEF PlacedOnce
  <2>2. \A k \in DOMAIN d.pending : \A m \in DOMAIN d.ready : d.pending[k] # d.ready[m]
    <3> TAKE k \in DOMAIN d.pending
    <3> TAKE m \in DOMAIN d.ready
    <3>1. PICK n \in DOMAIN c.pending : n # i /\ d.pending[k] = c.pending[n]
      BY <1>4, <1>8
    <3>2. c.pending[n] # p /\ c.pending[n] \in Hand(c)
      BY <1>5, <3>1 DEF PlacedOnce, Hand
    <3>3. d.pending[k] # moved
      BY <1>6, <1>7, <1>12, <3>1, <3>2
    <3> QED BY <1>4, <1>5, <1>9, <3>1, <3>3 DEF PlacedOnce
  <2>3. \A k \in DOMAIN d.pending : d.pending[k].map # "late"
    BY <1>4, <1>5, <1>8 DEF PlacedOnce
  <2>4. \A k \in DOMAIN d.ready : d.ready[k].map # "waiting"
    BY <1>4, <1>5, <1>7, <1>9 DEF PlacedOnce
  <2> QED BY <1>4, <1>8, <2>1, <2>2, <2>3, <2>4 DEF PlacedOnce
<1>14. QueueGoesOn /\ givenUp \subseteq givenUp'
  BY <1>3 DEF QueueGoesOn
<1>15. TrueBatchTypes'
  BY <1>3, <1>4, <1>10, CallerKinds, BatchTypesStep
<1>16. BatchesNumbered'
  <2>1. \A x, y \in Hand(d) : x.op = y.op => x = y
    BY <1>6, <1>7, <1>11, <1>12
  <2>2. \A q \in Hand(d) :
          /\ q.op \in 1 .. submits'
          /\ q.map = "late" => q.op \in givenUp'
          /\ \A k \in DOMAIN deviceQueue' : deviceQueue'[k] = q.op => q.map \in {"waiting", "late"}
          /\ (\E x \in InHand(t) : x.op = q.op) \/ q.op = submits + 1
    <3> TAKE q \in Hand(d)
    <3>1. CASE q = moved
      <4>1. q.op = p.op /\ p.op \in 1 .. submits /\ p \in InHand(t)
        BY <1>6, <1>7, <1>12, <3>1
      <4>2. q.map = "late" => q.op \in givenUp'
        BY <1>3, <1>7, <3>1, <4>1
      <4>3. \A k \in DOMAIN deviceQueue : deviceQueue[k] = p.op => p.map \in {"waiting", "late"}
        BY <1>6, <1>12
      <4>4. \A k \in DOMAIN deviceQueue' : deviceQueue'[k] = q.op => q.map \in {"waiting", "late"}
        BY <1>3, <1>6, <1>7, <3>1, <4>1, <4>3
      <4> QED BY <1>3, <4>1, <4>2, <4>4
    <3>2. CASE q \in Hand(c) /\ q # p
      <4>1. /\ q.op \in 1 .. submits'
            /\ q.map = "late" => q.op \in givenUp'
            /\ \A k \in DOMAIN deviceQueue' : deviceQueue'[k] = q.op => q.map \in {"waiting", "late"}
        BY <1>3, <1>12, <3>2
      <4> QED BY <1>12, <3>2, <4>1
    <3> QED BY <1>11, <3>1, <3>2
  <2> QED BY <1>4, <1>13, <1>14, <2>1, <2>2, NumbersStep
<1>17. ScratchesHeld'
  <2>1. \A q \in Hand(d) : \E x \in InHand(t) :
              /\ q.scratch = x.scratch /\ q.op = x.op /\ q.jobs = x.jobs
              /\ q.map = "map" => x.map = "map"
    BY <1>6, <1>7, <1>11, <1>12
  <2>2. d.stage = "panicked" => givenUp' # {}
    BY <1>4, <1>14 DEF TrueBatchInv, ScratchesHeld
  <2> QED BY <1>3, <1>4, <1>14, <2>1, <2>2, SameScratches
<1>18. RoundsInOrder'
  <2>1. JobsApart(c) /\ RoundsSettled(c.rounds, JobsOf(c), c.out, RoundsOf(t))
    BY RoundsHeld
  <2>2. JobsApart(d)
    <3>1. \A x, y \in Hand(c) : x.jobs = y.jobs => x = y
      BY <2>1 DEF JobsApart
    <3>2. \A x, y \in Hand(d) : x.jobs = y.jobs => x = y
      BY <1>6, <1>7, <1>11, <3>1
    <3> QED BY <3>2 DEF JobsApart
  <2>3. JobsOf(d) = JobsOf(c)
    <3>1. \A q \in Hand(d) : \E x \in Hand(c) : x.jobs = q.jobs
      BY <1>6, <1>7, <1>11
    <3>2. \A x \in Hand(c) : \E q \in Hand(d) : x.jobs = q.jobs
      BY <1>6, <1>7, <1>11
    <3> HIDE DEF c
    <3> QED BY <3>1, <3>2 DEF JobsOf
  <2> QED BY <1>4, <2>1, <2>2, <2>3, RoundsStep
<1>19. TrueBatchExact'
  BY <1>4, ExactStep
<1> QED BY <1>15, <1>16, <1>17, <1>18, <1>19 DEF TrueBatchInv

--------------------------------------------------------------------------------
(* A scratch goes back to the idle.                                             *)

LEMMA Released ==
    ASSUME TrueBatchInv, NEW id \in DOMAIN scratches,
           \A i \in DOMAIN truePool : truePool[i] # id
    PROVE  LET idle == release_true_batch_scratch(id) IN
           /\ idle \in Seq(Nat) /\ Len(idle) <= TruePoolLimit
           /\ \A i, k \in DOMAIN idle : idle[i] = idle[k] => i = k
           /\ \A i \in DOMAIN idle : idle[i] = id \/ \E k \in DOMAIN truePool : idle[i] = truePool[k]
<1> DEFINE idle == release_true_batch_scratch(id)
           smaller == {i \in DOMAIN truePool : scratches[truePool[i]].cap <= scratches[id].cap}
<1>1. /\ truePool \in Seq(Nat) /\ Len(truePool) <= TruePoolLimit
      /\ \A i, k \in DOMAIN truePool : truePool[i] = truePool[k] => i = k
      /\ Len(truePool) \in Nat /\ DOMAIN truePool = 1 .. Len(truePool) /\ TruePoolLimit \in Nat
  BY CallerKinds, LenProperties, TrueBatchAssumption DEF TrueBatchInv, TrueBatchTypes, ScratchesHeld
<1>2. id \in Nat
  BY LenProperties DEF TrueBatchInv, TrueBatchTypes
<1>3. CASE Len(truePool) < TruePoolLimit
  <2>1. idle = Append(truePool, id)
    BY <1>3 DEF release_true_batch_scratch
  <2>2. /\ Append(truePool, id) \in Seq(Nat) /\ Len(Append(truePool, id)) = Len(truePool) + 1
        /\ \A k \in DOMAIN Append(truePool, id) :
              \/ k \in DOMAIN truePool /\ Append(truePool, id)[k] = truePool[k]
              \/ k = Len(truePool) + 1 /\ Append(truePool, id)[k] = id
    BY <1>1, <1>2, Appended
  <2> HIDE DEF idle
  <2>3. idle \in Seq(Nat) /\ Len(idle) <= TruePoolLimit
    BY <1>1, <1>3, <2>1, <2>2
  <2>4. \A i, k \in DOMAIN idle : idle[i] = idle[k] => i = k
    BY <1>1, <2>1, <2>2
  <2>5. \A i \in DOMAIN idle : idle[i] = id \/ \E k \in DOMAIN truePool : idle[i] = truePool[k]
    BY <2>1, <2>2
  <2> QED BY <2>3, <2>4, <2>5 DEF idle
<1>4. CASE ~(Len(truePool) < TruePoolLimit) /\ smaller = {}
  <2>1. idle = truePool
    BY <1>4 DEF release_true_batch_scratch
  <2> QED BY <1>1, <2>1
<1>5. CASE ~(Len(truePool) < TruePoolLimit) /\ smaller # {}
  <2> DEFINE at == CHOOSE i \in smaller : \A k \in smaller : i <= k
  <2>1. idle = [truePool EXCEPT ![at] = id]
    BY <1>5 DEF release_true_batch_scratch
  <2>2. at \in smaller
    <3>1. smaller \in SUBSET Nat
      BY <1>1
    <3> HIDE DEF smaller
    <3>2. \E i \in smaller : \A k \in smaller : i <= k
      BY <1>5, <3>1, LeastNat
    <3> QED BY <3>2
  <2>3. at \in DOMAIN truePool
    BY <2>2
  <2> HIDE DEF at, idle
  <2>4. /\ DOMAIN idle = DOMAIN truePool
        /\ \A i \in DOMAIN idle : idle[i] = IF i = at THEN id ELSE truePool[i]
    BY <2>1, <2>3
  <2>5. idle \in Seq(Nat) /\ Len(idle) = Len(truePool)
    <3>1. \A i \in DOMAIN truePool : truePool[i] \in Nat
      BY <1>1, LenProperties
    <3>2. idle \in [1 .. Len(truePool) -> Nat]
      <4>1. truePool \in [1 .. Len(truePool) -> Nat]
        BY <1>1, LenProperties
      <4> QED BY <1>2, <2>1, <4>1
    <3>3. idle \in Seq(Nat)
      <4>1. Len(truePool) \in Nat
        BY <1>1
      <4> QED BY <3>2, <4>1, SeqDef
    <3> QED BY <1>1, <2>4, <3>3, LenProperties
  <2>6. \A i, k \in DOMAIN idle : idle[i] = idle[k] => i = k
    BY <1>1, <2>4
  <2>7. \A i \in DOMAIN idle : idle[i] = id \/ \E k \in DOMAIN truePool : idle[i] = truePool[k]
    BY <2>4
  <2> QED BY <1>1, <2>5, <2>6, <2>7 DEF idle
<1> QED BY <1>3, <1>4, <1>5

LEMMA DrainStep ==
    ASSUME TrueBatchInv, NEW t \in BatchCallers, Drain(t), caller[t].stage # "returned"
    PROVE  TrueBatchInv'
<1> DEFINE c == caller[t]
           p == Head(c.ready)
           answers == BatchResults(p)
           d == [c EXCEPT !.ready = Tail(@), !.out = @ \o answers]
<1>1. /\ c.ready # <<>> /\ p.op \notin ToSet(deviceQueue)
      /\ caller' = [caller EXCEPT ![t].ready = Tail(@), ![t].out = @ \o BatchResults(p)]
      /\ scratches' = IF p.map = "ok"
                      THEN [scratches EXCEPT ![p.scratch].buffer = "unmapped"] ELSE scratches
      /\ truePool' = release_true_batch_scratch(p.scratch)
      /\ UNCHANGED <<deviceQueue, submits, givenUp>>
  BY Zenon DEF Drain
<1>2. CallerKind(c) /\ DOMAIN caller = BatchCallers
  BY CallerKinds DEF TrueBatchInv, TrueBatchTypes
<1>3. /\ caller' = [caller EXCEPT ![t] = d]
      /\ d.stage = c.stage /\ d.rounds = c.rounds /\ d.pending = c.pending
      /\ d.ready = Tail(c.ready) /\ d.out = c.out \o answers
      /\ d = [stage |-> d.stage, rounds |-> d.rounds, pending |-> d.pending,
              ready |-> d.ready, out |-> d.out]
  <2>1. c = [stage |-> c.stage, rounds |-> c.rounds, pending |-> c.pending,
              ready |-> c.ready, out |-> c.out]
    BY <1>2 DEF CallerKind
  <2>2. caller' = [caller EXCEPT ![t].ready = Tail(@), ![t].out = @ \o answers]
    BY <1>1
  <2> HIDE DEF answers
  <2> DEFINE r == Tail(c.ready)
  <2>3. caller' = [caller EXCEPT ![t].ready = r, ![t].out = @ \o answers]
    BY <2>2
  <2>4. d = [c EXCEPT !.ready = r, !.out = @ \o answers]
    OBVIOUS
  <2> HIDE DEF r, d
  <2> DEFINE first == [caller EXCEPT ![t].ready = r]
             e == [c EXCEPT !.ready = r]
  <2>5. first = [caller EXCEPT ![t] = e]
    OBVIOUS
  <2>6. caller' = [first EXCEPT ![t].out = @ \o answers]
    BY <2>3
  <2> HIDE DEF first
  <2>7. d = [e EXCEPT !.out = @ \o answers]
    <3>1. e.out = c.out
      BY <2>1
    <3> QED BY <2>4, <3>1
  <2>8. first[t] = e /\ DOMAIN first = BatchCallers
    BY <1>2, <2>5
  <2>9. caller' = [first EXCEPT ![t] = d]
    <3> HIDE DEF e
    <3> QED BY <2>6, <2>7, <2>8
  <2>10. caller' = [caller EXCEPT ![t] = d]
    <3> HIDE DEF c, e
    <3> QED BY <1>2, <2>5, <2>9
  <2> HIDE DEF c
  <2>11. e = [stage |-> c.stage, rounds |-> c.rounds, pending |-> c.pending,
              ready |-> r, out |-> c.out]
    BY <2>1
  <2> HIDE DEF e
  <2>12. d = [stage |-> c.stage, rounds |-> c.rounds, pending |-> c.pending,
              ready |-> r, out |-> c.out \o answers]
    BY <2>7, <2>11
  <2>13. /\ d.stage = c.stage /\ d.rounds = c.rounds /\ d.pending = c.pending
         /\ d.ready = r /\ d.out = c.out \o answers
    BY <2>12
  <2> QED BY <2>10, <2>12, <2>13 DEF r
<1> HIDE DEF d
<1>4. /\ c.pending \in Seq(BatchesSent) /\ c.ready \in Seq(BatchesSent) /\ PlacedOnce(c)
      /\ c.out \in Seq(BatchAnswers) /\ c.rounds \in Seq(Seq(PreparedJobs))
  BY <1>2 DEF CallerKind, TrueBatchInv, BatchesNumbered
<1>5. /\ p = c.ready[1] /\ 1 \in DOMAIN c.ready /\ p \in BatchesSent
      /\ Tail(c.ready) \in Seq(BatchesSent)
      /\ \A k \in DOMAIN Tail(c.ready) :
            k + 1 \in DOMAIN c.ready /\ k + 1 # 1 /\ Tail(c.ready)[k] = c.ready[k + 1]
      /\ \A m \in DOMAIN c.ready : m # 1 =>
            m - 1 \in DOMAIN Tail(c.ready) /\ Tail(c.ready)[m - 1] = c.ready[m]
      /\ \A k \in DOMAIN Tail(c.ready) : k \in Int
  <2> DEFINE s == c.ready
  <2>1. s \in Seq(BatchesSent) /\ s # <<>>
    BY <1>1, <1>4
  <2> HIDE DEF s
  <2>2. /\ Head(s) = s[1] /\ 1 \in DOMAIN s /\ Head(s) \in BatchesSent
        /\ Tail(s) \in Seq(BatchesSent)
        /\ \A k \in DOMAIN Tail(s) : k + 1 \in DOMAIN s /\ k + 1 # 1 /\ Tail(s)[k] = s[k + 1]
        /\ \A m \in DOMAIN s : m # 1 => m - 1 \in DOMAIN Tail(s) /\ Tail(s)[m - 1] = s[m]
    BY <2>1, HeadLeaves
  <2>3. \A k \in DOMAIN Tail(s) : k \in Int
    BY <2>2, LenProperties
  <2> QED BY <2>2, <2>3 DEF s
<1> HIDE DEF p, answers, c
<1>6. p \in Hand(c) /\ p.map # "waiting"
  BY <1>4, <1>5 DEF Hand, PlacedOnce
<1>7. /\ \A q \in Hand(d) : q \in Hand(c) /\ q # p
      /\ \A q \in Hand(c) : q # p => q \in Hand(d)
  <2>1. \A q \in Hand(d) : q \in Hand(c) /\ q # p
    <3> TAKE q \in Hand(d)
    <3>1. CASE \E k \in DOMAIN d.pending : q = d.pending[k]
      BY <1>3, <1>4, <1>5, <3>1 DEF Hand, PlacedOnce
    <3>2. CASE \E k \in DOMAIN d.ready : q = d.ready[k]
      <4>1. PICK k \in DOMAIN c.ready : k # 1 /\ q = c.ready[k]
        BY <1>3, <1>5, <3>2
      <4> QED BY <1>4, <1>5, <4>1 DEF Hand, PlacedOnce
    <3> QED BY <3>1, <3>2 DEF Hand
  <2>2. \A q \in Hand(c) : q # p => q \in Hand(d)
    <3> TAKE q \in Hand(c)
    <3> HAVE q # p
    <3>1. CASE \E k \in DOMAIN c.pending : q = c.pending[k]
      BY <1>3, <3>1 DEF Hand
    <3>2. CASE \E k \in DOMAIN c.ready : q = c.ready[k]
      <4>1. PICK k \in DOMAIN c.ready : q = c.ready[k]
        BY <3>2
      <4>2. k # 1
        BY <1>5, <4>1
      <4>3. k - 1 \in DOMAIN d.ready /\ d.ready[k - 1] = q
        BY <1>3, <1>5, <4>1, <4>2
      <4> QED BY <4>3 DEF Hand
    <3> QED BY <3>1, <3>2 DEF Hand
  <2> QED BY <2>1, <2>2
<1>8. /\ InHand(t) = Hand(c)
      /\ \A x, y \in Hand(c) : x.op = y.op => x = y
      /\ \A x \in Hand(c) :
            /\ x.op \in 1 .. submits
            /\ x.map = "late" => x.op \in givenUp
            /\ \A k \in DOMAIN deviceQueue : deviceQueue[k] = x.op => x.map \in {"waiting", "late"}
  <2>1. InHand(t) = Hand(c)
    BY DEF InHand, c
  <2> QED BY <2>1 DEF TrueBatchInv, BatchesNumbered
<1>9. /\ p.scratch \in DOMAIN scratches
      /\ \A i \in DOMAIN truePool : truePool[i] # p.scratch
      /\ scratches[p.scratch].op = p.op
      /\ scratches[p.scratch].holds = [i \in DOMAIN p.jobs |-> p.jobs[i].chunk]
      /\ p.map = "map" => scratches[p.scratch].buffer = "unmapped"
  BY <1>6, <1>8 DEF TrueBatchInv, ScratchesHeld
<1>10. PlacedOnce(d)
  <2>1. \A k, m \in DOMAIN d.ready : d.ready[k] = d.ready[m] => k = m
    <3> TAKE k, m \in DOMAIN d.ready
    <3> HAVE d.ready[k] = d.ready[m]
    <3>1. k + 1 \in DOMAIN c.ready /\ m + 1 \in DOMAIN c.ready /\ c.ready[k + 1] = c.ready[m + 1]
          /\ k \in Int /\ m \in Int
      BY <1>3, <1>5
    <3>2. k + 1 = m + 1
      BY <1>4, <3>1 DEF PlacedOnce
    <3> QED BY <3>1, <3>2
  <2>2. \A k \in DOMAIN d.pending : \A m \in DOMAIN d.ready : d.pending[k] # d.ready[m]
    BY <1>3, <1>4, <1>5 DEF PlacedOnce
  <2>3. \A k \in DOMAIN d.ready : d.ready[k].map # "waiting"
    BY <1>3, <1>4, <1>5 DEF PlacedOnce
  <2>4. /\ \A k, m \in DOMAIN d.pending : d.pending[k] = d.pending[m] => k = m
        /\ \A k \in DOMAIN d.pending : d.pending[k].map # "late"
    BY <1>3, <1>4 DEF PlacedOnce
  <2> QED BY <2>1, <2>2, <2>3, <2>4 DEF PlacedOnce
<1>11. JobsApart(c) /\ RoundsSettled(c.rounds, JobsOf(c), c.out, RoundsOf(t))
  BY RoundsHeld DEF c
<1>12. p.jobs \in Seq(PreparedJobs) /\ p.jobs \in JobsOf(c) /\ \A i \in DOMAIN p.jobs : p.jobs[i].chunk \in Nat
  <2>1. p.jobs \in Seq(PreparedJobs) /\ p.jobs \in JobsOf(c)
    BY <1>5, <1>6 DEF BatchesSent, JobsOf
  <2>2. \A i \in DOMAIN p.jobs : p.jobs[i] \in PreparedJobs
    BY <2>1, LenProperties
  <2> QED BY <2>1, <2>2 DEF PreparedJobs
<1>13. /\ answers = [i \in DOMAIN p.jobs |-> answers[i]]
       /\ \A i \in DOMAIN p.jobs : /\ answers[i] \in BatchAnswers
                                   /\ answers[i].chunk = p.jobs[i].chunk
                                   /\ answers[i].gpu \in {0, answers[i].chunk}
  <2>1. answers = [i \in DOMAIN p.jobs |->
           [chunk |-> p.jobs[i].chunk,
            gpu |-> IF p.map = "ok" /\ p.jobs[i].chunk \notin p.bad
                    THEN scratches[p.scratch].holds[i] ELSE 0]]
    BY DEF answers, BatchResults
  <2>2. \A i \in DOMAIN p.jobs : scratches[p.scratch].holds[i] = p.jobs[i].chunk
    BY <1>9
  <2>3. \A i \in DOMAIN p.jobs :
           answers[i] = [chunk |-> p.jobs[i].chunk,
                         gpu |-> IF p.map = "ok" /\ p.jobs[i].chunk \notin p.bad
                                 THEN p.jobs[i].chunk ELSE 0]
    BY <2>1, <2>2
  <2>4. answers = [i \in DOMAIN p.jobs |-> answers[i]]
    BY <2>1
  <2>5. \A i \in DOMAIN p.jobs : /\ answers[i] \in BatchAnswers
                                 /\ answers[i].chunk = p.jobs[i].chunk
                                 /\ answers[i].gpu \in {0, answers[i].chunk}
    <3> TAKE i \in DOMAIN p.jobs
    <3> DEFINE chunk == p.jobs[i].chunk
    <3>1. chunk \in Nat
      BY <1>12
    <3>2. \/ answers[i] = [chunk |-> chunk, gpu |-> chunk]
          \/ answers[i] = [chunk |-> chunk, gpu |-> 0]
      BY <2>3
    <3> HIDE DEF chunk
    <3>3. /\ answers[i] \in BatchAnswers /\ answers[i].chunk = chunk
          /\ answers[i].gpu \in {0, answers[i].chunk}
      BY <3>1, <3>2 DEF BatchAnswers
    <3> QED BY <3>3 DEF chunk
  <2> QED BY <2>4, <2>5
<1>14. /\ RoundsSettled(c.rounds, JobsOf(c) \ {p.jobs}, c.out \o answers, RoundsOf(t))
       /\ c.out \o answers \in Seq(BatchAnswers)
  <2> DEFINE part == p.jobs  rounds == c.rounds  out == c.out  hand == JobsOf(c)
  <2>1. /\ rounds \in Seq(Seq(PreparedJobs)) /\ out \in Seq(BatchAnswers) /\ part \in hand
        /\ RoundsSettled(rounds, hand, out, RoundsOf(t))
        /\ answers = [i \in DOMAIN part |-> answers[i]]
        /\ \A i \in DOMAIN part : /\ answers[i] \in BatchAnswers
                                  /\ answers[i].chunk = part[i].chunk
                                  /\ answers[i].gpu \in {0, answers[i].chunk}
    BY <1>4, <1>11, <1>12, <1>13
  <2> HIDE DEF part, rounds, out, hand
  <2>2. /\ RoundsSettled(rounds, hand \ {part}, out \o answers, RoundsOf(t))
        /\ out \o answers \in Seq(BatchAnswers)
    BY <2>1, RoundAnswered
  <2> QED BY <2>2 DEF part, rounds, out, hand
<1>15. CallerKind(d)
  BY <1>2, <1>3, <1>5, <1>14 DEF CallerKind
<1>16. QueueGoesOn /\ givenUp \subseteq givenUp'
  BY <1>1 DEF QueueGoesOn
<1>17. /\ scratches \in Seq(ScratchKind) /\ Len(scratches) \in Nat
       /\ DOMAIN scratches = 1 .. Len(scratches)
       /\ \A i \in DOMAIN scratches : scratches[i] \in ScratchKind
  BY LenProperties DEF TrueBatchInv, TrueBatchTypes
<1>18. /\ DOMAIN scratches' = DOMAIN scratches /\ scratches' \in Seq(ScratchKind)
       /\ \A i \in DOMAIN scratches :
            /\ scratches'[i].op = scratches[i].op /\ scratches'[i].holds = scratches[i].holds
            /\ i # p.scratch => scratches'[i] = scratches[i]
            /\ scratches'[i].buffer = IF i = p.scratch /\ p.map = "ok" THEN "unmapped"
                                      ELSE scratches[i].buffer
  <2>1. /\ DOMAIN scratches' = DOMAIN scratches
        /\ \A i \in DOMAIN scratches :
            /\ scratches'[i].op = scratches[i].op /\ scratches'[i].holds = scratches[i].holds
            /\ i # p.scratch => scratches'[i] = scratches[i]
            /\ scratches'[i].buffer = IF i = p.scratch /\ p.map = "ok" THEN "unmapped"
                                      ELSE scratches[i].buffer
            /\ scratches'[i] \in ScratchKind
    <3> DEFINE id == p.scratch
               empty == [scratches[id] EXCEPT !.buffer = "unmapped"]
    <3>1. /\ scratches[id] \in ScratchKind /\ id \in DOMAIN scratches
      BY <1>9, <1>17
    <3>2. /\ empty \in ScratchKind /\ empty.op = scratches[id].op
          /\ empty.holds = scratches[id].holds /\ empty.buffer = "unmapped"
      BY <3>1 DEF ScratchKind
    <3>3. scratches' = IF p.map = "ok" THEN [scratches EXCEPT ![id] = empty] ELSE scratches
      BY <1>1
    <3> HIDE DEF empty, id
    <3>4. CASE p.map = "ok"
      BY <1>17, <3>1, <3>2, <3>3, <3>4 DEF id
    <3>5. CASE p.map # "ok"
      BY <1>17, <3>3, <3>5 DEF id
    <3> QED BY <3>4, <3>5
  <2>2. scratches' \in Seq(ScratchKind)
    <3>1. scratches' = [i \in DOMAIN scratches |-> scratches'[i]]
      <4>1. scratches \in [1 .. Len(scratches) -> ScratchKind]
        BY <1>17, LenProperties
      <4>2. CASE p.map = "ok"
        <5>1. scratches' = [scratches EXCEPT ![p.scratch].buffer = "unmapped"]
          BY <1>1, <4>2
        <5> QED BY <4>1, <5>1
      <4>3. CASE p.map # "ok"
        BY <1>1, <4>1, <4>3
      <4> QED BY <4>2, <4>3
    <3>2. scratches' \in [1 .. Len(scratches) -> ScratchKind]
      BY <1>17, <2>1, <3>1
    <3> QED BY <1>17, <3>2, SeqDef
  <2> QED BY <2>1, <2>2
<1>19. /\ truePool' \in Seq(Nat) /\ Len(truePool') <= TruePoolLimit
       /\ \A i, k \in DOMAIN truePool' : truePool'[i] = truePool'[k] => i = k
       /\ \A i \in DOMAIN truePool' :
            truePool'[i] = p.scratch \/ \E k \in DOMAIN truePool : truePool'[i] = truePool[k]
  BY <1>1, <1>9, Released
<1>20. TrueBatchTypes'
  <2>1. deviceQueue' \in Seq(Nat) /\ submits' \in Nat
    BY <1>1, CallerKinds
  <2> QED BY <1>3, <1>15, <1>18, <1>19, <2>1, BatchTypesStep
<1>21. BatchesNumbered'
  <2>1. \A x, y \in Hand(d) : x.op = y.op => x = y
    BY <1>7, <1>8
  <2>2. \A q \in Hand(d) :
          /\ q.op \in 1 .. submits'
          /\ q.map = "late" => q.op \in givenUp'
          /\ \A k \in DOMAIN deviceQueue' : deviceQueue'[k] = q.op => q.map \in {"waiting", "late"}
          /\ (\E x \in InHand(t) : x.op = q.op) \/ q.op = submits + 1
    BY <1>1, <1>7, <1>8
  <2> QED BY <1>3, <1>10, <1>16, <2>1, <2>2, NumbersStep
<1>22. ScratchesHeld'
  <2>1. ASSUME NEW i \in DOMAIN truePool'
        PROVE  /\ truePool'[i] \in DOMAIN scratches'
               /\ \/ scratches'[truePool'[i]].op \in givenUp'
                  \/ /\ scratches'[truePool'[i]].buffer = "unmapped"
                     /\ \A k \in DOMAIN deviceQueue' : deviceQueue'[k] # scratches'[truePool'[i]].op
    <3>1. CASE truePool'[i] = p.scratch
      <4>1. \A k \in DOMAIN deviceQueue' : deviceQueue'[k] # p.op
        BY <1>1 DEF ToSet
      <4>2. p.map \in {"ok", "map", "late"}
        BY <1>5, <1>6 DEF BatchesSent
      <4>3. p.map = "late" => p.op \in givenUp'
        BY <1>1, <1>6, <1>8
      <4>4. p.map # "late" => scratches'[p.scratch].buffer = "unmapped"
        BY <1>9, <1>18, <4>2
      <4> QED BY <1>9, <1>18, <3>1, <4>1, <4>3, <4>4
    <3>2. CASE \E k \in DOMAIN truePool : truePool'[i] = truePool[k]
      <4>1. PICK k \in DOMAIN truePool : truePool'[i] = truePool[k]
        BY <3>2
      <4> DEFINE id == truePool[k]
      <4>2. /\ id \in DOMAIN scratches /\ id # p.scratch
            /\ \/ scratches[id].op \in givenUp
               \/ /\ scratches[id].buffer = "unmapped"
                  /\ \A m \in DOMAIN deviceQueue : deviceQueue[m] # scratches[id].op
        BY <1>9 DEF TrueBatchInv, ScratchesHeld
      <4> HIDE DEF id
      <4>3. scratches'[id] = scratches[id]
        BY <1>18, <4>2
      <4>4. truePool'[i] = id
        BY <4>1 DEF id
      <4> QED BY <1>1, <1>18, <4>2, <4>3, <4>4
    <3> QED BY <1>19, <3>1, <3>2
  <2>2. ASSUME NEW u \in BatchCallers, NEW q \in InHand(u)'
        PROVE  q \in InHand(u) /\ q.op # p.op
    <3>1. CASE u = t
      <4>1. q \in Hand(d)
        BY <1>3, <3>1, OneCaller
      <4> QED BY <1>6, <1>7, <1>8, <3>1, <4>1
    <3>2. CASE u # t
      <4>1. q \in InHand(u)
        BY <1>3, <3>2, OneCaller
      <4>2. q.op = p.op => u = t
        BY <1>6, <1>8, <4>1 DEF TrueBatchInv, BatchesNumbered
      <4> QED BY <3>2, <4>1, <4>2
    <3> QED BY <3>1, <3>2
  <2>3. ASSUME NEW u \in BatchCallers, NEW q \in InHand(u)'
        PROVE  /\ q.scratch \in DOMAIN scratches'
               /\ \A i \in DOMAIN truePool' : truePool'[i] # q.scratch
               /\ scratches'[q.scratch].op = q.op
               /\ scratches'[q.scratch].holds = [i \in DOMAIN q.jobs |-> q.jobs[i].chunk]
               /\ q.map = "map" => scratches'[q.scratch].buffer = "unmapped"
    <3>1. /\ q.scratch \in DOMAIN scratches
          /\ \A i \in DOMAIN truePool : truePool[i] # q.scratch
          /\ scratches[q.scratch].op = q.op
          /\ scratches[q.scratch].holds = [i \in DOMAIN q.jobs |-> q.jobs[i].chunk]
          /\ q.map = "map" => scratches[q.scratch].buffer = "unmapped"
      BY <2>2 DEF TrueBatchInv, ScratchesHeld
    <3>2. q.scratch # p.scratch
      BY <1>9, <2>2, <3>1
    <3> QED BY <1>18, <1>19, <3>1, <3>2
  <2>4. \A i \in DOMAIN scratches' : scratches'[i].op \in 0 .. submits'
    <3>1. \A i \in DOMAIN scratches : scratches[i].op \in 0 .. submits
      BY DEF TrueBatchInv, ScratchesHeld
    <3> QED BY <1>1, <1>18, <3>1
  <2>5. \A u \in BatchCallers : caller'[u].stage = "panicked" => givenUp' # {}
    <3>1. \A u \in BatchCallers : caller[u].stage = "panicked" => givenUp # {}
      BY DEF TrueBatchInv, ScratchesHeld
    <3>2. \A u \in BatchCallers : caller'[u].stage = caller[u].stage
      BY <1>3, OneCaller DEF c
    <3> QED BY <1>1, <3>1, <3>2
  <2> QED BY <1>19, <2>1, <2>3, <2>4, <2>5 DEF ScratchesHeld
<1>23. RoundsInOrder'
  <2>1. JobsApart(d)
    BY <1>7, <1>11 DEF JobsApart
  <2>2. JobsOf(d) = JobsOf(c) \ {p.jobs}
    <3>1. \A q \in Hand(d) : q \in Hand(c) /\ q.jobs # p.jobs
      BY <1>6, <1>7, <1>11 DEF JobsApart
    <3>2. \A x \in JobsOf(d) : x \in JobsOf(c) \ {p.jobs}
      BY <3>1 DEF JobsOf
    <3>3. \A x \in JobsOf(c) \ {p.jobs} : x \in JobsOf(d)
      BY <1>7 DEF JobsOf
    <3> QED BY <3>2, <3>3
  <2>3. RoundsSettled(d.rounds, JobsOf(d), d.out, RoundsOf(t))
    BY <1>3, <1>14, <2>2
  <2> QED BY <1>3, <2>1, <2>3, RoundsStep
<1>24. TrueBatchExact'
  BY <1>3, ExactStep DEF c
<1> QED BY <1>20, <1>21, <1>22, <1>23, <1>24 DEF TrueBatchInv

--------------------------------------------------------------------------------
(* A scratch is taken for a submission.                                         *)

LEMMA NeedIsNat ==
    ASSUME NEW part \in Seq(PreparedJobs), part # <<>>
    PROVE  NeedOf(part) \in Nat
<1> DEFINE n == Len(part)
           needs == {part[i].need : i \in DOMAIN part}
           bounded == {k \in 0 .. n : \E b \in Nat : \A i \in 1 .. k : part[i].need <= b}
<1>1. /\ n \in Nat /\ DOMAIN part = 1 .. n /\ 1 \in DOMAIN part
      /\ \A i \in 1 .. n : part[i] \in PreparedJobs
  BY LenProperties, HeadLeaves
<1>2. \A i \in 1 .. n : part[i].need \in Nat
  BY <1>1 DEF PreparedJobs
<1> HIDE DEF n
<1>3. bounded \in SUBSET Nat /\ 0 \in bounded /\ \A k \in bounded : k <= n
  BY <1>1
<1>4. PICK k \in bounded : \A m \in bounded : m <= k
  <2> HIDE DEF bounded
  <2> QED BY <1>1, <1>3, GreatestNat
<1>5. k = n
  <2> SUFFICES ASSUME k # n PROVE FALSE
    OBVIOUS
  <2>1. k + 1 \in 1 .. n /\ k \in 0 .. n /\ 1 .. k + 1 = (1 .. k) \cup {k + 1}
    BY <1>1, <1>4
  <2>2. PICK b \in Nat : \A i \in 1 .. k : part[i].need <= b
    BY <1>4
  <2> DEFINE e == IF part[k + 1].need <= b THEN b ELSE part[k + 1].need
  <2>3. part[k + 1].need \in Nat
    BY <1>2, <2>1
  <2>4. e \in Nat /\ part[k + 1].need <= e /\ b <= e
    BY <2>3
  <2> HIDE DEF e, bounded, needs
  <2>5. \A i \in 1 .. k + 1 : part[i].need <= e
    <3>1. \A i \in 1 .. k : i \in 1 .. n
      BY <1>1, <2>1
    <3>2. \A i \in 1 .. k : part[i].need <= b /\ part[i].need \in Nat
      BY <1>2, <2>2, <3>1
    <3>3. \A i \in 1 .. k : part[i].need <= e
      BY <2>4, <3>2
    <3> QED BY <2>1, <2>4, <3>3
  <2>6. k + 1 \in bounded
    BY <1>1, <2>1, <2>4, <2>5 DEF bounded
  <2> QED BY <1>4, <2>1, <2>6
<1>6. PICK b \in Nat : \A i \in 1 .. n : part[i].need <= b
  BY <1>4, <1>5
<1>7. needs \in SUBSET Nat /\ needs # {} /\ \A m \in needs : m <= b
  BY <1>1, <1>2, <1>6
<1> HIDE DEF needs
<1>8. \E m \in needs : \A x \in needs : x <= m
  BY <1>7, GreatestNat
<1>9. NeedOf(part) = CHOOSE m \in needs : \A x \in needs : x <= m
  BY DEF NeedOf, needs
<1> QED BY <1>7, <1>8, <1>9

LEMMA Acquired ==
    ASSUME TrueBatchInv, NEW part \in Seq(PreparedJobs), part # <<>>
    PROVE  LET got == acquire_true_batch_scratch(part) IN
           /\ got.pool \in Seq(Nat) /\ Len(got.pool) <= TruePoolLimit
           /\ \A i, k \in DOMAIN got.pool : got.pool[i] = got.pool[k] => i = k
           /\ \A i \in DOMAIN got.pool :
                 got.pool[i] # got.id /\ \E k \in DOMAIN truePool : got.pool[i] = truePool[k]
           /\ got.all \in Seq(ScratchKind) /\ got.id \in DOMAIN got.all
           /\ \A i \in DOMAIN scratches : i \in DOMAIN got.all /\ got.all[i] = scratches[i]
           /\ \A i \in DOMAIN got.all : i \in DOMAIN scratches \/ i = got.id
           /\ \/ /\ got.all = scratches /\ \E k \in DOMAIN truePool : got.id = truePool[k]
              \/ /\ got.id \notin DOMAIN scratches /\ got.all[got.id].buffer = "unmapped"
<1> DEFINE got == acquire_true_batch_scratch(part)
<1>1. /\ truePool \in Seq(Nat) /\ Len(truePool) <= TruePoolLimit
      /\ \A i, k \in DOMAIN truePool : truePool[i] = truePool[k] => i = k
      /\ Len(truePool) \in Nat /\ DOMAIN truePool = 1 .. Len(truePool) /\ TruePoolLimit \in Nat
      /\ \A i \in DOMAIN truePool : truePool[i] \in DOMAIN scratches
  BY LenProperties, TrueBatchAssumption DEF TrueBatchInv, TrueBatchTypes, ScratchesHeld
<1>2. scratches \in Seq(ScratchKind) /\ Len(scratches) \in Nat /\ DOMAIN scratches = 1 .. Len(scratches)
  BY LenProperties DEF TrueBatchInv, TrueBatchTypes
<1>3. CASE FitIn(part) # {}
  <2> DEFINE at == CHOOSE k \in FitIn(part) : \A n \in FitIn(part) : k <= n
  <2>1. got = [id |-> truePool[at], pool |-> WithoutAt(truePool, at), all |-> scratches]
    BY <1>3 DEF acquire_true_batch_scratch
  <2>2. at \in DOMAIN truePool
    <3>1. FitIn(part) \in SUBSET Nat /\ FitIn(part) \subseteq DOMAIN truePool
      BY <1>1 DEF FitIn
    <3>2. \E i \in FitIn(part) : \A k \in FitIn(part) : i <= k
      BY <1>3, <3>1, LeastNat
    <3> QED BY <3>1, <3>2
  <2> HIDE DEF at, got
  <2>3. got.id = truePool[at] /\ got.pool = WithoutAt(truePool, at) /\ got.all = scratches
    BY <2>1
  <2>4. /\ WithoutAt(truePool, at) \in Seq(Nat) /\ Len(WithoutAt(truePool, at)) = Len(truePool) - 1
        /\ \A k \in DOMAIN WithoutAt(truePool, at) :
              \E m \in DOMAIN truePool : m # at /\ WithoutAt(truePool, at)[k] = truePool[m]
        /\ \A k, m \in DOMAIN WithoutAt(truePool, at) :
              WithoutAt(truePool, at)[k] = WithoutAt(truePool, at)[m] => k = m
    BY <1>1, <2>2, SwappedOut
  <2>5. /\ got.pool \in Seq(Nat) /\ Len(got.pool) <= TruePoolLimit
        /\ \A i, k \in DOMAIN got.pool : got.pool[i] = got.pool[k] => i = k
    BY <1>1, <2>3, <2>4
  <2>6. \A i \in DOMAIN got.pool :
                 got.pool[i] # got.id /\ \E k \in DOMAIN truePool : got.pool[i] = truePool[k]
    BY <1>1, <2>2, <2>3, <2>4
  <2>7. /\ got.all \in Seq(ScratchKind) /\ got.id \in DOMAIN got.all
        /\ \A i \in DOMAIN scratches : i \in DOMAIN got.all /\ got.all[i] = scratches[i]
        /\ \A i \in DOMAIN got.all : i \in DOMAIN scratches \/ i = got.id
        /\ got.all = scratches /\ \E k \in DOMAIN truePool : got.id = truePool[k]
    BY <1>1, <1>2, <2>2, <2>3
  <2> QED BY <2>5, <2>6, <2>7, Zenon DEF got
<1>4. CASE FitIn(part) = {}
  <2> DEFINE new == [cap |-> NeedOf(part), holds |-> <<>>, op |-> 0, buffer |-> "unmapped"]
             id == Len(scratches) + 1
             all == Append(scratches, new)
  <2>1. got = [id |-> id, pool |-> truePool, all |-> all]
    BY <1>4 DEF acquire_true_batch_scratch
  <2>2. new \in ScratchKind /\ new.buffer = "unmapped"
    <3>1. NeedOf(part) \in Nat /\ <<>> \in Seq(Nat)
      BY NeedIsNat, EmptySeq
    <3> QED BY <3>1 DEF ScratchKind
  <2> HIDE DEF new
  <2>3. /\ all \in Seq(ScratchKind) /\ Len(all) = Len(scratches) + 1
        /\ \A k \in DOMAIN all : \/ k \in DOMAIN scratches /\ all[k] = scratches[k]
                                 \/ k = Len(scratches) + 1 /\ all[k] = new
        /\ \A k \in DOMAIN scratches : k \in DOMAIN all /\ all[k] = scratches[k]
        /\ id \in DOMAIN all /\ all[id] = new /\ id \notin DOMAIN scratches
    BY <1>2, <2>2, Appended
  <2> HIDE DEF all, id, got
  <2>4. got.id = id /\ got.pool = truePool /\ got.all = all
    BY <2>1
  <2>5. \A i \in DOMAIN all : i \in DOMAIN scratches \/ i = id
    BY <2>3 DEF id
  <2>6. /\ got.pool \in Seq(Nat) /\ Len(got.pool) <= TruePoolLimit
        /\ \A i, k \in DOMAIN got.pool : got.pool[i] = got.pool[k] => i = k
    BY <1>1, <2>4
  <2>7. \A i \in DOMAIN got.pool :
                 got.pool[i] # got.id /\ \E k \in DOMAIN truePool : got.pool[i] = truePool[k]
    BY <1>1, <2>3, <2>4
  <2>8. /\ got.all \in Seq(ScratchKind) /\ got.id \in DOMAIN got.all
        /\ \A i \in DOMAIN scratches : i \in DOMAIN got.all /\ got.all[i] = scratches[i]
        /\ \A i \in DOMAIN got.all : i \in DOMAIN scratches \/ i = got.id
        /\ got.id \notin DOMAIN scratches /\ got.all[got.id].buffer = "unmapped"
    BY <2>2, <2>3, <2>4, <2>5
  <2> QED BY <2>6, <2>7, <2>8, Zenon DEF got
<1> QED BY <1>3, <1>4

LEMMA BatchGoesOut ==
    ASSUME TrueBatchInv, NEW t \in BatchCallers, SubmitRound(t),
           ~\E i \in DOMAIN Head(caller[t].rounds) : ~Head(caller[t].rounds)[i].sound
    PROVE  TrueBatchInv'
<1> DEFINE c == caller[t]
           part == Head(c.rounds)
           got == acquire_true_batch_scratch(part)
           id == got.id
           holds == [i \in DOMAIN part |-> part[i].chunk]
           new == SubmittedBatch(part, id)
           panics == [c EXCEPT !.stage = "panicked"]
           goes == [[c EXCEPT !.rounds = Tail(@)] EXCEPT !.stage = "room", !.pending = Append(@, new)]
<1>1. /\ c.stage = "round" /\ c.rounds # <<>> /\ truePool' = got.pool /\ UNCHANGED givenUp
      /\ \/ /\ got.all[id].buffer # "unmapped"
            /\ caller' = [caller EXCEPT ![t].stage = "panicked"]
            /\ UNCHANGED <<scratches, deviceQueue, submits>>
         \/ /\ got.all[id].buffer = "unmapped"
            /\ scratches' = [got.all EXCEPT ![id] =
                  [@ EXCEPT !.holds = holds, !.op = submits + 1, !.buffer = "pending"]]
            /\ submits' = submits + 1
            /\ deviceQueue' = Append(deviceQueue, submits + 1)
            /\ caller' = [caller EXCEPT ![t] = goes]
  BY DEF SubmitRound
<1>2. CallerKind(c) /\ DOMAIN caller = BatchCallers /\ c.stage # "returned"
  BY <1>1, CallerKinds DEF TrueBatchInv, TrueBatchTypes
<1>3. /\ c.pending \in Seq(BatchesSent) /\ c.ready \in Seq(BatchesSent) /\ PlacedOnce(c)
      /\ c.out \in Seq(BatchAnswers) /\ c.rounds \in Seq(Seq(PreparedJobs))
      /\ JobsApart(c) /\ RoundsSettled(c.rounds, JobsOf(c), c.out, RoundsOf(t))
  BY <1>2, RoundsHeld DEF CallerKind, TrueBatchInv, BatchesNumbered
<1>4. /\ InHand(t) = Hand(c)
      /\ \A x, y \in Hand(c) : x.op = y.op => x = y
      /\ \A x \in Hand(c) :
            /\ x.op \in 1 .. submits
            /\ x.map = "late" => x.op \in givenUp
            /\ \A k \in DOMAIN deviceQueue : deviceQueue[k] = x.op => x.map \in {"waiting", "late"}
  <2>1. InHand(t) = Hand(c)
    BY DEF InHand
  <2> QED BY <2>1 DEF TrueBatchInv, BatchesNumbered
<1>5. /\ RoundsSettled(Tail(c.rounds), JobsOf(c) \cup {part}, c.out, RoundsOf(t))
      /\ part \notin JobsOf(c) /\ Tail(c.rounds) \in Seq(Seq(PreparedJobs))
      /\ part \in Seq(PreparedJobs) /\ part # <<>>
  <2> DEFINE hand == JobsOf(c)  rounds == c.rounds  out == c.out
  <2>1. /\ rounds \in Seq(Seq(PreparedJobs)) /\ rounds # <<>> /\ out \in Seq(BatchAnswers)
        /\ RoundsSettled(rounds, hand, out, RoundsOf(t))
    BY <1>1, <1>3
  <2> HIDE DEF hand, rounds, out
  <2>2. /\ RoundsSettled(Tail(rounds), hand \cup {Head(rounds)}, out, RoundsOf(t))
        /\ Head(rounds) \notin hand
        /\ \E k \in DOMAIN RoundsOf(t) : Head(rounds) = RoundsOf(t)[k]
    BY <2>1, RoundTaken
  <2>3. Tail(rounds) \in Seq(Seq(PreparedJobs)) /\ Head(rounds) \in Seq(PreparedJobs)
    BY <2>1, HeadLeaves
  <2>4. hand = JobsOf(c) /\ rounds = c.rounds /\ out = c.out /\ Head(rounds) = part
    BY DEF hand, rounds, out
  <2>5. Head(rounds) # <<>>
    BY <2>2, BatchOfCaller
  <2> HIDE DEF c, part
  <2> QED BY <2>2, <2>3, <2>4, <2>5, ZenonT(40)
<1> HIDE DEF part
<1>6. /\ got.pool \in Seq(Nat) /\ Len(got.pool) <= TruePoolLimit
      /\ \A i, k \in DOMAIN got.pool : got.pool[i] = got.pool[k] => i = k
      /\ \A i \in DOMAIN got.pool :
            got.pool[i] # id /\ \E k \in DOMAIN truePool : got.pool[i] = truePool[k]
      /\ got.all \in Seq(ScratchKind) /\ id \in DOMAIN got.all
      /\ \A i \in DOMAIN scratches : i \in DOMAIN got.all /\ got.all[i] = scratches[i]
      /\ \A i \in DOMAIN got.all : i \in DOMAIN scratches \/ i = id
      /\ \/ /\ got.all = scratches /\ \E k \in DOMAIN truePool : id = truePool[k]
         \/ /\ id \notin DOMAIN scratches /\ got.all[id].buffer = "unmapped"
  BY <1>5, Acquired, Zenon
<1> DEFINE idle == got.pool  all == got.all
<1> HIDE DEF got, id, idle, all, holds, new, panics, goes
<1>7. /\ idle \in Seq(Nat) /\ Len(idle) <= TruePoolLimit /\ truePool' = idle
      /\ \A i, k \in DOMAIN idle : idle[i] = idle[k] => i = k
      /\ \A i \in DOMAIN idle : idle[i] # id /\ \E k \in DOMAIN truePool : idle[i] = truePool[k]
      /\ all \in Seq(ScratchKind) /\ id \in DOMAIN all
      /\ \A i \in DOMAIN scratches : i \in DOMAIN all /\ all[i] = scratches[i]
      /\ \A i \in DOMAIN all : i \in DOMAIN scratches \/ i = id
      /\ \/ /\ all = scratches /\ \E k \in DOMAIN truePool : id = truePool[k]
         \/ /\ id \notin DOMAIN scratches /\ all[id].buffer = "unmapped"
  BY <1>1, <1>6, Zenon DEF idle, all
<1>8. /\ \A i \in DOMAIN truePool :
           /\ truePool[i] \in DOMAIN scratches
           /\ \/ scratches[truePool[i]].op \in givenUp
              \/ /\ scratches[truePool[i]].buffer = "unmapped"
                 /\ \A k \in DOMAIN deviceQueue : deviceQueue[k] # scratches[truePool[i]].op
      /\ \A u \in BatchCallers : \A q \in InHand(u) :
           /\ q.scratch \in DOMAIN scratches
           /\ \A i \in DOMAIN truePool : truePool[i] # q.scratch
           /\ scratches[q.scratch].op = q.op
           /\ scratches[q.scratch].holds = [i \in DOMAIN q.jobs |-> q.jobs[i].chunk]
           /\ q.map = "map" => scratches[q.scratch].buffer = "unmapped"
      /\ \A i \in DOMAIN scratches : scratches[i].op \in 0 .. submits
      /\ \A u \in BatchCallers : caller[u].stage = "panicked" => givenUp # {}
  BY DEF TrueBatchInv, ScratchesHeld
\* What is in somebody's hands is not what was taken.
<1>9. \A u \in BatchCallers : \A q \in InHand(u) : q.scratch # id
  <2> TAKE u \in BatchCallers
  <2> TAKE q \in InHand(u)
  <2>1. q.scratch \in DOMAIN scratches /\ \A i \in DOMAIN truePool : truePool[i] # q.scratch
    BY <1>8
  <2>2. id \notin DOMAIN scratches \/ \E k \in DOMAIN truePool : id = truePool[k]
    BY <1>7
  <2> QED BY <2>1, <2>2
<1>10. c = [stage |-> c.stage, rounds |-> c.rounds, pending |-> c.pending,
            ready |-> c.ready, out |-> c.out]
  BY <1>2 DEF CallerKind
<1>11. /\ truePool \in Seq(Nat) /\ scratches \in Seq(ScratchKind)
       /\ deviceQueue \in Seq(Nat) /\ submits \in Nat
  BY CallerKinds
<1>12. CASE /\ all[id].buffer # "unmapped"
            /\ caller' = [caller EXCEPT ![t].stage = "panicked"]
            /\ UNCHANGED <<scratches, deviceQueue, submits>>
  <2>1. caller' = [caller EXCEPT ![t] = panics]
    BY <1>12 DEF panics
  <2> HIDE DEF c
  <2>2. panics = [stage |-> "panicked", rounds |-> c.rounds, pending |-> c.pending,
                  ready |-> c.ready, out |-> c.out]
    BY <1>10 DEF panics
  <2>3. /\ panics.stage = "panicked" /\ panics.rounds = c.rounds /\ panics.pending = c.pending
        /\ panics.ready = c.ready /\ panics.out = c.out
    BY <2>2
  <2>4. CallerKind(panics)
    BY <1>2, <2>2, <2>3 DEF CallerKind
  <2>5. Hand(panics) = Hand(c) /\ PlacedOnce(panics)
    BY <1>3, <2>3 DEF Hand, PlacedOnce
  <2>6. QueueGoesOn /\ givenUp \subseteq givenUp'
    BY <1>1, <1>12 DEF QueueGoesOn
  <2>7. TrueBatchTypes'
    <3>1. truePool' \in Seq(Nat) /\ scratches' \in Seq(ScratchKind) /\ deviceQueue' \in Seq(Nat) /\ submits' \in Nat
      BY <1>7, <1>11, <1>12
    <3> QED BY <2>1, <2>4, <3>1, BatchTypesStep
  <2>8. BatchesNumbered'
    <3>1. \A q \in Hand(panics) :
          /\ q.op \in 1 .. submits'
          /\ q.map = "late" => q.op \in givenUp'
          /\ \A k \in DOMAIN deviceQueue' : deviceQueue'[k] = q.op => q.map \in {"waiting", "late"}
          /\ (\E p \in InHand(t) : p.op = q.op) \/ q.op = submits + 1
      BY <1>1, <1>4, <1>12, <2>5
    <3>2. \A p, q \in Hand(panics) : p.op = q.op => p = q
      BY <1>4, <2>5
    <3> QED BY <2>1, <2>5, <2>6, <3>1, <3>2, NumbersStep
  <2>9. ScratchesHeld'
    <3>1. givenUp # {}
      <4>1. PICK k \in DOMAIN truePool : id = truePool[k]
        BY <1>7, <1>12
      <4>2. scratches[id].op \in givenUp
        BY <1>7, <1>8, <1>12, <4>1
      <4> QED BY <4>2
    <3>2. /\ Len(truePool') <= TruePoolLimit
          /\ \A i, k \in DOMAIN truePool' : truePool'[i] = truePool'[k] => i = k
      BY <1>7
    <3>3. \A i \in DOMAIN truePool' :
           /\ truePool'[i] \in DOMAIN scratches'
           /\ \/ scratches'[truePool'[i]].op \in givenUp'
              \/ /\ scratches'[truePool'[i]].buffer = "unmapped"
                 /\ \A k \in DOMAIN deviceQueue' : deviceQueue'[k] # scratches'[truePool'[i]].op
      <4> TAKE i \in DOMAIN truePool'
      <4>1. PICK k \in DOMAIN truePool : truePool'[i] = truePool[k]
        BY <1>7
      <4> QED BY <1>1, <1>8, <1>12, <4>1
    <3>4. \A u \in BatchCallers : InHand(u)' = InHand(u)
      BY <1>4, <2>1, <2>5, OneCaller
    <3>5. \A u \in BatchCallers : \A q \in InHand(u)' :
           /\ q.scratch \in DOMAIN scratches'
           /\ \A i \in DOMAIN truePool' : truePool'[i] # q.scratch
           /\ scratches'[q.scratch].op = q.op
           /\ scratches'[q.scratch].holds = [i \in DOMAIN q.jobs |-> q.jobs[i].chunk]
           /\ q.map = "map" => scratches'[q.scratch].buffer = "unmapped"
      <4> TAKE u \in BatchCallers
      <4> TAKE q \in InHand(u)'
      <4>1. q \in InHand(u)
        BY <3>4
      <4>2. /\ q.scratch \in DOMAIN scratches
            /\ \A i \in DOMAIN truePool : truePool[i] # q.scratch
            /\ scratches[q.scratch].op = q.op
            /\ scratches[q.scratch].holds = [i \in DOMAIN q.jobs |-> q.jobs[i].chunk]
            /\ q.map = "map" => scratches[q.scratch].buffer = "unmapped"
        BY <1>8, <4>1
      <4>3. \A i \in DOMAIN truePool' : truePool'[i] # q.scratch
        BY <1>7, <4>2
      <4>4. scratches' = scratches
        BY <1>12
      <4> QED BY <4>2, <4>3, <4>4
    <3>6. givenUp' # {} /\ \A i \in DOMAIN scratches' : scratches'[i].op \in 0 .. submits'
      BY <1>1, <1>8, <1>12, <3>1
    <3> QED BY <3>2, <3>3, <3>5, <3>6 DEF ScratchesHeld
  <2>10. RoundsInOrder'
    <3>1. JobsApart(panics) /\ JobsOf(panics) = JobsOf(c)
      BY <1>3, <2>5 DEF JobsApart, JobsOf
    <3> QED BY <1>3, <2>1, <2>3, <3>1, RoundsStep
  <2>11. TrueBatchExact'
    BY <2>1, <2>3, ExactStep
  <2> QED BY <2>7, <2>8, <2>9, <2>10, <2>11 DEF TrueBatchInv
<1>13. CASE /\ scratches' = [all EXCEPT ![id] =
                  [@ EXCEPT !.holds = holds, !.op = submits + 1, !.buffer = "pending"]]
            /\ submits' = submits + 1
            /\ deviceQueue' = Append(deviceQueue, submits + 1)
            /\ caller' = [caller EXCEPT ![t] = goes]
  <2> HIDE DEF c
  <2>1. goes = [stage |-> "room", rounds |-> Tail(c.rounds), pending |-> Append(c.pending, new),
                ready |-> c.ready, out |-> c.out]
    <3> DEFINE r == Tail(c.rounds)  p == Append(c.pending, new)
    <3>1. goes = [[c EXCEPT !.rounds = r] EXCEPT !.stage = "room", !.pending = Append(@, new)]
      BY DEF goes
    <3> HIDE DEF r
    <3> DEFINE e == [c EXCEPT !.rounds = r]
               f == [e EXCEPT !.stage = "room"]
    <3>2. goes = [f EXCEPT !.pending = Append(@, new)]
      BY <3>1
    <3>3. e = [stage |-> c.stage, rounds |-> r, pending |-> c.pending,
               ready |-> c.ready, out |-> c.out]
      BY <1>10
    <3> HIDE DEF e
    <3>4. f = [stage |-> "room", rounds |-> r, pending |-> c.pending,
               ready |-> c.ready, out |-> c.out]
      BY <3>3
    <3> HIDE DEF f
    <3>5. f.pending = c.pending
      BY <3>4
    <3>6. goes = [f EXCEPT !.pending = p]
      BY <3>2, <3>5
    <3> HIDE DEF p
    <3>7. goes = [stage |-> "room", rounds |-> r, pending |-> p, ready |-> c.ready, out |-> c.out]
      BY <3>4, <3>6
    <3> QED BY <3>7 DEF r, p
  <2>2. /\ goes.stage = "room" /\ goes.rounds = Tail(c.rounds)
        /\ goes.pending = Append(c.pending, new)
        /\ goes.ready = c.ready /\ goes.out = c.out
    BY <2>1
  <2>3. id \in Nat
    BY <1>7, LenProperties
  <2>4. /\ new \in BatchesSent /\ new.op = submits + 1 /\ new.jobs = part /\ new.scratch = id
        /\ new.map = "waiting"
    BY <1>5, <1>11, <2>3 DEF new, SubmittedBatch, BatchesSent
  <2>5. /\ Append(c.pending, new) \in Seq(BatchesSent)
        /\ \A k \in DOMAIN Append(c.pending, new) :
              \/ k \in DOMAIN c.pending /\ Append(c.pending, new)[k] = c.pending[k]
              \/ k = Len(c.pending) + 1 /\ Append(c.pending, new)[k] = new
        /\ \A k \in DOMAIN c.pending : k \in DOMAIN Append(c.pending, new)
                                       /\ Append(c.pending, new)[k] = c.pending[k]
        /\ Len(c.pending) + 1 \in DOMAIN Append(c.pending, new)
        /\ Append(c.pending, new)[Len(c.pending) + 1] = new
    BY <1>3, <2>4, Appended
  <2>6. CallerKind(goes)
    <3>1. goes = [stage |-> goes.stage, rounds |-> goes.rounds, pending |-> goes.pending,
                  ready |-> goes.ready, out |-> goes.out]
      BY <2>1, <2>2
    <3> QED BY <1>3, <1>5, <2>2, <2>5, <3>1 DEF CallerKind
  <2>7. /\ \A q \in Hand(goes) : q = new \/ q \in Hand(c)
        /\ new \in Hand(goes) /\ \A q \in Hand(c) : q \in Hand(goes)
    <3>1. \A q \in Hand(goes) : q = new \/ q \in Hand(c)
      BY <2>2, <2>5 DEF Hand
    <3>2. new \in Hand(goes)
      BY <2>2, <2>5 DEF Hand
    <3>3. \A q \in Hand(c) : q \in Hand(goes)
      BY <2>2, <2>5 DEF Hand
    <3> QED BY <3>1, <3>2, <3>3
  <2>8. \A q \in Hand(c) : q.op # new.op
    BY <1>4, <1>11, <2>4
  <2>9. PlacedOnce(goes)
    <3>1. /\ \A k \in DOMAIN c.pending : c.pending[k] # new
          /\ \A k \in DOMAIN c.ready : c.ready[k] # new
      BY <2>8 DEF Hand
    <3>2. \A i, k \in DOMAIN goes.pending : goes.pending[i] = goes.pending[k] => i = k
      BY <1>3, <2>2, <2>5, <3>1 DEF PlacedOnce
    <3>3. \A i \in DOMAIN goes.pending : \A k \in DOMAIN goes.ready : goes.pending[i] # goes.ready[k]
      BY <1>3, <2>2, <2>5, <3>1 DEF PlacedOnce
    <3>4. \A i \in DOMAIN goes.pending : goes.pending[i].map # "late"
      BY <1>3, <2>2, <2>4, <2>5 DEF PlacedOnce
    <3> QED BY <1>3, <2>2, <3>2, <3>3, <3>4 DEF PlacedOnce
  <2>10. QueueGoesOn /\ givenUp \subseteq givenUp'
    BY <1>1, <1>13 DEF QueueGoesOn
  <2>11. /\ DOMAIN scratches' = DOMAIN all /\ scratches' \in Seq(ScratchKind)
         /\ \A i \in DOMAIN scratches : i # id => i \in DOMAIN scratches' /\ scratches'[i] = scratches[i]
         /\ scratches'[id].op = submits + 1 /\ scratches'[id].holds = holds
    <3> DEFINE full == [all[id] EXCEPT !.holds = holds, !.op = submits + 1, !.buffer = "pending"]
    <3>1. scratches' = [all EXCEPT ![id] = full]
      BY <1>13
    <3>2. holds \in Seq(Nat)
      <4>1. DOMAIN part = 1 .. Len(part) /\ Len(part) \in Nat /\ \A i \in DOMAIN part : part[i] \in PreparedJobs
        BY <1>5, LenProperties
      <4>2. \A i \in DOMAIN part : part[i].chunk \in Nat
        BY <4>1 DEF PreparedJobs
      <4>3. holds \in [1 .. Len(part) -> Nat] /\ Len(part) \in Nat
        BY <4>1, <4>2 DEF holds
      <4> QED BY <4>3, SeqDef
    <3>3. all[id] \in ScratchKind /\ Len(all) \in Nat /\ DOMAIN all = 1 .. Len(all)
          /\ all \in [1 .. Len(all) -> ScratchKind]
      BY <1>7, LenProperties
    <3>4. full \in ScratchKind /\ full.op = submits + 1 /\ full.holds = holds
      <4> DEFINE e == [all[id] EXCEPT !.holds = holds]
                 f == [e EXCEPT !.op = submits + 1]
      <4>1. full = [f EXCEPT !.buffer = "pending"]
        OBVIOUS
      <4>2. e \in ScratchKind /\ e.holds = holds
        BY <3>2, <3>3 DEF ScratchKind
      <4> HIDE DEF e
      <4>3. f \in ScratchKind /\ f.holds = holds /\ f.op = submits + 1
        <5>1. submits + 1 \in Nat
          BY <1>11
        <5> DEFINE op == submits + 1
        <5> HIDE DEF op
        <5>2. f = [e EXCEPT !.op = op] /\ op \in Nat
          BY <5>1 DEF op
        <5> HIDE DEF f
        <5>3. f \in ScratchKind /\ f.holds = holds /\ f.op = op
          BY <4>2, <5>2 DEF ScratchKind
        <5> QED BY <5>3 DEF op
      <4> HIDE DEF f
      <4> QED BY <4>1, <4>3 DEF ScratchKind
    <3> HIDE DEF full
    <3>5. DOMAIN scratches' = DOMAIN all /\ scratches'[id] = full
          /\ \A i \in DOMAIN all : i # id => scratches'[i] = all[i]
      BY <1>7, <3>1
    <3>6. scratches' \in Seq(ScratchKind)
      <4>1. scratches' \in [1 .. Len(all) -> ScratchKind] /\ Len(all) \in Nat
        BY <3>1, <3>3, <3>4
      <4> QED BY <4>1, SeqDef
    <3> QED BY <1>7, <3>4, <3>5, <3>6
  <2>12. TrueBatchTypes'
    <3>1. truePool' \in Seq(Nat) /\ deviceQueue' \in Seq(Nat) /\ submits' \in Nat
      BY <1>7, <2>10, QueueKept
    <3> QED BY <1>13, <2>6, <2>11, <3>1, BatchTypesStep
  <2>13. /\ submits' = submits + 1 /\ givenUp' = givenUp
         /\ \A k \in DOMAIN deviceQueue' :
               \/ \E i \in DOMAIN deviceQueue : deviceQueue'[k] = deviceQueue[i]
               \/ deviceQueue'[k] = submits + 1
    BY <1>1, <1>13, <2>10, QueueKept
  <2>14. BatchesNumbered'
    <3>1. \A x, y \in Hand(goes) : x.op = y.op => x = y
      BY <1>4, <2>7, <2>8
    <3>2. \A q \in Hand(goes) :
          /\ q.op \in 1 .. submits'
          /\ q.map = "late" => q.op \in givenUp'
          /\ \A k \in DOMAIN deviceQueue' : deviceQueue'[k] = q.op => q.map \in {"waiting", "late"}
          /\ (\E p \in InHand(t) : p.op = q.op) \/ q.op = submits + 1
      <4> TAKE q \in Hand(goes)
      <4>1. CASE q = new
        BY <1>11, <2>4, <2>13, <4>1
      <4>2. CASE q \in Hand(c)
        <5>1. q.op \in 1 .. submits /\ (q.map = "late" => q.op \in givenUp) /\ q \in InHand(t)
          BY <1>4, <4>2
        <5>2. q.op # submits + 1 /\ q.op \in 1 .. submits'
          BY <1>11, <2>13, <5>1
        <5>3. \A k \in DOMAIN deviceQueue' : deviceQueue'[k] = q.op => q.map \in {"waiting", "late"}
          BY <1>4, <2>13, <4>2, <5>2
        <5> QED BY <2>13, <5>1, <5>2, <5>3
      <4> QED BY <2>7, <4>1, <4>2
    <3> QED BY <1>13, <2>9, <2>10, <3>1, <3>2, NumbersStep
  <2>15. ScratchesHeld'
    <3>1. /\ Len(truePool') <= TruePoolLimit
          /\ \A i, k \in DOMAIN truePool' : truePool'[i] = truePool'[k] => i = k
      BY <1>7
    <3>2. \A i \in DOMAIN truePool' :
           /\ truePool'[i] \in DOMAIN scratches'
           /\ \/ scratches'[truePool'[i]].op \in givenUp'
              \/ /\ scratches'[truePool'[i]].buffer = "unmapped"
                 /\ \A k \in DOMAIN deviceQueue' : deviceQueue'[k] # scratches'[truePool'[i]].op
      <4> TAKE i \in DOMAIN truePool'
      <4>1. PICK k \in DOMAIN truePool : truePool'[i] = truePool[k] /\ truePool[k] # id
        BY <1>7
      <4> DEFINE s == truePool[k]
      <4>2. /\ s \in DOMAIN scratches /\ s # id /\ truePool'[i] = s
            /\ \/ scratches[s].op \in givenUp
               \/ /\ scratches[s].buffer = "unmapped"
                  /\ \A m \in DOMAIN deviceQueue : deviceQueue[m] # scratches[s].op
        BY <1>8, <4>1
      <4> HIDE DEF s
      <4>3. scratches'[s] = scratches[s] /\ s \in DOMAIN scratches'
        BY <2>11, <4>2
      <4>4. scratches[s].op # submits + 1
        BY <1>8, <1>11, <4>2
      <4> QED BY <2>13, <4>2, <4>3, <4>4
    <3>3. ASSUME NEW u \in BatchCallers, NEW q \in InHand(u)'
          PROVE  /\ q.scratch \in DOMAIN scratches'
                 /\ \A i \in DOMAIN truePool' : truePool'[i] # q.scratch
                 /\ scratches'[q.scratch].op = q.op
                 /\ scratches'[q.scratch].holds = [i \in DOMAIN q.jobs |-> q.jobs[i].chunk]
                 /\ q.map = "map" => scratches'[q.scratch].buffer = "unmapped"
      <4>1. (u = t /\ q = new) \/ q \in InHand(u)
        <5>1. InHand(t)' = Hand(goes) /\ \A x \in BatchCallers \ {t} : InHand(x)' = InHand(x)
          BY <1>13, OneCaller
        <5>2. CASE u = t
          BY <1>4, <2>7, <5>1, <5>2
        <5>3. CASE u # t
          BY <5>1, <5>3
        <5> QED BY <5>2, <5>3
      <4>2. CASE u = t /\ q = new
        <5>1. holds = [i \in DOMAIN q.jobs |-> q.jobs[i].chunk]
          BY <2>4, <4>2 DEF holds
        <5> QED BY <1>7, <2>4, <2>11, <4>2, <5>1
      <4>3. CASE q \in InHand(u)
        <5>1. /\ q.scratch \in DOMAIN scratches /\ q.scratch # id
              /\ \A i \in DOMAIN truePool : truePool[i] # q.scratch
              /\ scratches[q.scratch].op = q.op
              /\ scratches[q.scratch].holds = [i \in DOMAIN q.jobs |-> q.jobs[i].chunk]
              /\ q.map = "map" => scratches[q.scratch].buffer = "unmapped"
          BY <1>8, <1>9, <4>3
        <5>2. scratches'[q.scratch] = scratches[q.scratch] /\ q.scratch \in DOMAIN scratches'
          BY <2>11, <5>1
        <5>3. \A i \in DOMAIN truePool' : truePool'[i] # q.scratch
          BY <1>7, <5>1
        <5> QED BY <5>1, <5>2, <5>3
      <4> QED BY <4>1, <4>2, <4>3
    <3>4. \A i \in DOMAIN scratches' : scratches'[i].op \in 0 .. submits'
      <4> TAKE i \in DOMAIN scratches'
      <4>1. CASE i = id
        BY <1>11, <2>11, <2>13, <4>1
      <4>2. CASE i # id
        <5>1. scratches[i].op \in 0 .. submits /\ scratches'[i] = scratches[i]
          BY <1>7, <1>8, <2>11, <4>2
        <5> QED BY <1>11, <2>13, <5>1
      <4> QED BY <4>1, <4>2
    <3>5. \A u \in BatchCallers : caller'[u].stage = "panicked" => givenUp' # {}
      <4>1. \A u \in BatchCallers : caller'[u].stage = "panicked" => caller[u].stage = "panicked"
        BY <1>13, <2>2, OneCaller
      <4> QED BY <1>8, <2>13, <4>1
    <3> QED BY <3>1, <3>2, <3>3, <3>4, <3>5 DEF ScratchesHeld
  <2>16. RoundsInOrder'
    <3>1. \A q \in Hand(c) : q.jobs # part
      BY <1>5 DEF JobsOf
    <3>2. JobsApart(goes)
      BY <1>3, <2>4, <2>7, <3>1 DEF JobsApart
    <3>3. JobsOf(goes) = JobsOf(c) \cup {part}
      <4>1. \A x \in JobsOf(goes) : x \in JobsOf(c) \cup {part}
        BY <2>4, <2>7 DEF JobsOf
      <4>2. \A x \in JobsOf(c) \cup {part} : x \in JobsOf(goes)
        BY <2>4, <2>7 DEF JobsOf
      <4> QED BY <4>1, <4>2
    <3>4. RoundsSettled(goes.rounds, JobsOf(goes), goes.out, RoundsOf(t))
      BY <1>5, <2>2, <3>3
    <3> QED BY <1>13, <3>2, <3>4, RoundsStep
  <2>17. TrueBatchExact'
    BY <1>13, <2>2, ExactStep
  <2> QED BY <2>12, <2>14, <2>15, <2>16, <2>17 DEF TrueBatchInv
<1> QED BY <1>1, <1>12, <1>13, Zenon DEF all

--------------------------------------------------------------------------------
(* A call returns.                                                              *)

LEMMA ReturnStep ==
    ASSUME TrueBatchInv, NEW t \in BatchCallers, TrueBatchReturns(t)
    PROVE  TrueBatchInv'
<1> DEFINE c == caller[t]
           sorted == ByChunk(c.out)
           d == [c EXCEPT !.stage = "returned", !.out = sorted]
<1>1. /\ c.stage = "round" /\ c.rounds = <<>> /\ c.pending = <<>> /\ c.ready = <<>>
      /\ caller' = [caller EXCEPT ![t].stage = "returned", ![t].out = ByChunk(@)]
      /\ UNCHANGED <<truePool, scratches, deviceQueue, submits, givenUp>>
  BY DEF TrueBatchReturns, Outstanding
<1>2. CallerKind(c) /\ DOMAIN caller = BatchCallers /\ c.stage # "returned"
  BY <1>1, CallerKinds DEF TrueBatchInv, TrueBatchTypes
<1>3. /\ caller' = [caller EXCEPT ![t] = d]
      /\ d.stage = "returned" /\ d.rounds = c.rounds /\ d.pending = c.pending
      /\ d.ready = c.ready /\ d.out = sorted
      /\ d = [stage |-> d.stage, rounds |-> d.rounds, pending |-> d.pending,
              ready |-> d.ready, out |-> d.out]
  <2>1. c = [stage |-> c.stage, rounds |-> c.rounds, pending |-> c.pending,
              ready |-> c.ready, out |-> c.out]
    BY <1>2 DEF CallerKind
  <2> DEFINE first == [caller EXCEPT ![t].stage = "returned"]
             e == [c EXCEPT !.stage = "returned"]
  <2>2. first = [caller EXCEPT ![t] = e]
    OBVIOUS
  <2>3. caller' = [first EXCEPT ![t].out = ByChunk(@)]
    BY <1>1
  <2>4. d = [e EXCEPT !.out = sorted]
    OBVIOUS
  <2> HIDE DEF first, d
  <2>5. e.out = c.out
    BY <2>1
  <2>6. first[t] = e /\ DOMAIN first = BatchCallers
    BY <1>2, <2>2
  <2>7. ByChunk(first[t].out) = sorted
    BY <2>5, <2>6
  <2>8. caller' = [first EXCEPT ![t] = d]
    <3> HIDE DEF e, sorted
    <3> QED BY <2>3, <2>4, <2>6, <2>7
  <2> HIDE DEF sorted
  <2>9. caller' = [caller EXCEPT ![t] = d]
    <3> HIDE DEF c, e
    <3> QED BY <1>2, <2>2, <2>8
  <2> HIDE DEF c
  <2>10. e = [stage |-> "returned", rounds |-> c.rounds, pending |-> c.pending,
              ready |-> c.ready, out |-> c.out]
    BY <2>1
  <2> HIDE DEF e
  <2>11. d = [stage |-> "returned", rounds |-> c.rounds, pending |-> c.pending,
              ready |-> c.ready, out |-> sorted]
    BY <2>4, <2>10
  <2>12. /\ d.stage = "returned" /\ d.rounds = c.rounds /\ d.pending = c.pending
         /\ d.ready = c.ready /\ d.out = sorted
    BY <2>11
  <2> QED BY <2>9, <2>11, <2>12
<1> HIDE DEF d, sorted
<1>4. /\ c.pending \in Seq(BatchesSent) /\ c.ready \in Seq(BatchesSent) /\ PlacedOnce(c)
      /\ c.out \in Seq(BatchAnswers) /\ c.rounds \in Seq(Seq(PreparedJobs))
      /\ RoundsSettled(c.rounds, JobsOf(c), c.out, RoundsOf(t))
  BY <1>2, RoundsHeld DEF CallerKind, TrueBatchInv, BatchesNumbered
<1>5. Hand(c) = {} /\ JobsOf(c) = {}
  <2>1. DOMAIN c.pending = {} /\ DOMAIN c.ready = {}
    BY <1>1
  <2>2. Hand(c) = {}
    BY <2>1 DEF Hand
  <2> QED BY <2>2 DEF JobsOf
<1> DEFINE out == c.out  R == RoundsOf(t)  asked == BatchJobs[t]
<1>6. /\ asked \in Seq(PreparedJobs) /\ Increasing(asked)
      /\ Len(R) \in Nat /\ DOMAIN R = 1 .. Len(R)
      /\ \A k \in DOMAIN R : \A i \in DOMAIN R[k] :
            \E p \in DOMAIN asked : asked[p].chunk = R[k][i].chunk
      /\ \A p \in DOMAIN asked : \E k \in DOMAIN R :
            \E i \in DOMAIN R[k] : R[k][i].chunk = asked[p].chunk
  BY BatchOfCaller, Zenon
<1>7. /\ \A i, k \in DOMAIN out : out[i].chunk = out[k].chunk => i = k
      /\ \A i \in DOMAIN out : \E k \in DOMAIN R : \E j \in DOMAIN R[k] : R[k][j].chunk = out[i].chunk
      /\ \A k \in DOMAIN R : \A j \in DOMAIN R[k] : AnsweredIn(out, R[k][j].chunk)
      /\ \A i \in DOMAIN out : out[i].gpu \in {0, out[i].chunk}
  <2>1. RoundsSettled(<<>>, {}, out, R)
    BY <1>1, <1>4, <1>5
  <2> HIDE DEF out, R
  <2>2. Len(<<>>) = 0
    OBVIOUS
  <2>3. Len(R) - Len(<<>>) = Len(R)
    BY <1>6, <2>2
  <2>4. /\ \A i, k \in DOMAIN out : out[i].chunk = out[k].chunk => i = k
        /\ \A i \in DOMAIN out : \E k \in 1 .. Len(R) : \E j \in DOMAIN R[k] : R[k][j].chunk = out[i].chunk
        /\ \A k \in 1 .. Len(R) : \A j \in DOMAIN R[k] : AnsweredIn(out, R[k][j].chunk) <=> R[k] \notin {}
        /\ \A i \in DOMAIN out : out[i].gpu \in {0, out[i].chunk}
    BY <2>1, <2>3, Zenon DEF RoundsSettled
  <2> QED BY <1>6, <2>4
<1> HIDE DEF out, R, asked
<1>8. \A i \in DOMAIN out : \E p \in DOMAIN asked : asked[p].chunk = out[i].chunk
  <2> TAKE i \in DOMAIN out
  <2>1. PICK k \in DOMAIN R : \E j \in DOMAIN R[k] : R[k][j].chunk = out[i].chunk
    BY <1>7
  <2>2. PICK j \in DOMAIN R[k] : R[k][j].chunk = out[i].chunk
    BY <2>1
  <2>3. \E p \in DOMAIN asked : asked[p].chunk = R[k][j].chunk
    BY <1>6
  <2> QED BY <2>2, <2>3
<1>9. \A p \in DOMAIN asked : \E i \in DOMAIN out : asked[p].chunk = out[i].chunk
  <2> TAKE p \in DOMAIN asked
  <2>1. PICK k \in DOMAIN R : \E j \in DOMAIN R[k] : R[k][j].chunk = asked[p].chunk
    BY <1>6
  <2>2. PICK j \in DOMAIN R[k] : R[k][j].chunk = asked[p].chunk
    BY <2>1
  <2>3. AnsweredIn(out, R[k][j].chunk)
    BY <1>7
  <2> QED BY <2>2, <2>3 DEF AnsweredIn
<1>10. /\ sorted \in Seq(BatchAnswers)
       /\ [i \in DOMAIN sorted |-> sorted[i].chunk] = [i \in DOMAIN asked |-> asked[i].chunk]
       /\ \A i \in DOMAIN sorted : \E k \in DOMAIN out : sorted[i] = out[k]
  <2>1. out \in Seq(BatchAnswers) /\ sorted = ByChunk(out)
    BY <1>4 DEF out, sorted
  <2>2. (\A a \in BatchAnswers : a.chunk \in Nat) /\ (\A a \in PreparedJobs : a.chunk \in Nat)
    BY DEF BatchAnswers, PreparedJobs
  <2>4. \A i, k \in DOMAIN out : out[i].chunk = out[k].chunk => i = k
    BY <1>7
  <2>5. out \in Seq(BatchAnswers) /\ asked \in Seq(PreparedJobs) /\ Increasing(asked)
    BY <1>6, <2>1
  <2>6. /\ ByChunk(out) \in Seq(BatchAnswers)
        /\ [i \in DOMAIN ByChunk(out) |-> ByChunk(out)[i].chunk]
              = [i \in DOMAIN asked |-> asked[i].chunk]
        /\ \A i \in DOMAIN ByChunk(out) : \E k \in DOMAIN out : ByChunk(out)[i] = out[k]
    BY <1>8, <1>9, <2>2, <2>4, <2>5, SortedAnswers, ZenonT(60)
  <2> QED BY <2>1, <2>6
<1>11. CallerKind(d)
  BY <1>2, <1>3, <1>4, <1>10 DEF CallerKind
<1>12. Hand(d) = {} /\ PlacedOnce(d)
  <2>1. d.pending = c.pending /\ d.ready = c.ready
    BY <1>3
  <2>2. Hand(c) = {} /\ PlacedOnce(c)
    BY <1>4, <1>5
  <2> HIDE DEF c
  <2>3. Hand(d) = Hand(c)
    BY <2>1 DEF Hand
  <2>4. PlacedOnce(d)
    BY <2>1, <2>2 DEF PlacedOnce
  <2> QED BY <2>2, <2>3, <2>4
<1>13. QueueGoesOn /\ givenUp \subseteq givenUp'
  BY <1>1 DEF QueueGoesOn
<1>14. TrueBatchTypes'
  <2>1. truePool' \in Seq(Nat) /\ scratches' \in Seq(ScratchKind) /\ deviceQueue' \in Seq(Nat) /\ submits' \in Nat
    BY <1>1, CallerKinds
  <2> QED BY <1>3, <1>11, <2>1, BatchTypesStep
<1>15. BatchesNumbered'
  BY <1>3, <1>12, <1>13, NumbersStep
<1>16. ScratchesHeld'
  <2>1. UNCHANGED <<truePool, scratches, deviceQueue, submits>> /\ d.stage # "panicked"
    BY <1>1, <1>3
  <2> QED BY <1>3, <1>12, <1>13, <2>1, SameScratches
<1>17. RoundsInOrder'
  BY <1>3, RoundsStep
<1>18. TrueBatchExact'
  <2>1. TrueBatchExact
    BY DEF TrueBatchInv
  <2>2. caller'[t] = d /\ \A u \in BatchCallers \ {t} : caller'[u] = caller[u]
    BY <1>3, OneCaller
  <2>3. /\ [i \in DOMAIN d.out |-> d.out[i].chunk] = [i \in DOMAIN BatchJobs[t] |-> BatchJobs[t][i].chunk]
        /\ \A i \in DOMAIN d.out : d.out[i].gpu \in {0, d.out[i].chunk}
    <3>1. \A i \in DOMAIN sorted : sorted[i].gpu \in {0, sorted[i].chunk}
      BY <1>7, <1>10
    <3> QED BY <1>3, <1>10, <3>1 DEF asked
  <2>4. ASSUME NEW u \in BatchCallers, caller'[u].stage = "returned"
        PROVE  /\ [i \in DOMAIN caller'[u].out |-> caller'[u].out[i].chunk]
                     = [i \in DOMAIN BatchJobs[u] |-> BatchJobs[u][i].chunk]
               /\ \A i \in DOMAIN caller'[u].out : caller'[u].out[i].gpu \in {0, caller'[u].out[i].chunk}
    <3>1. CASE u = t
      BY <2>2, <2>3, <3>1
    <3>2. CASE u # t
      <4>1. caller'[u] = caller[u] /\ caller[u].stage = "returned"
        BY <2>2, <2>4, <3>2
      <4>2. /\ [i \in DOMAIN caller[u].out |-> caller[u].out[i].chunk]
                     = [i \in DOMAIN BatchJobs[u] |-> BatchJobs[u][i].chunk]
            /\ \A i \in DOMAIN caller[u].out : caller[u].out[i].gpu \in {0, caller[u].out[i].chunk}
        BY <2>1, <4>1 DEF TrueBatchExact
      <4> QED BY <4>1, <4>2
    <3> QED BY <3>1, <3>2
  <2> QED BY <2>4 DEF TrueBatchExact
<1> QED BY <1>14, <1>15, <1>16, <1>17, <1>18 DEF TrueBatchInv

LEMMA TrueBatchKeepsInv ==
    ASSUME TrueBatchInv, TrueBatchNext \/ UNCHANGED trueVars
    PROVE  TrueBatchInv'
<1>1. CASE UNCHANGED trueVars
  BY <1>1, TrueRests
<1>2. CASE BatchFinishes
  BY <1>2, BatchDeviceStep
<1>3. CASE TrueBatchEnded
  BY <1>3, TrueRests DEF TrueBatchEnded
<1>4. ASSUME NEW t \in BatchCallers, TrueBatchStep(t)
      PROVE  TrueBatchInv'
  <2>1. CASE SubmitRound(t)
    BY <2>1, BatchFallsBack, BatchGoesOut
  <2>2. CASE MakeRoom(t)
    <3>1. caller[t].stage # "returned" /\ (Drain(t) \/ Promote(t))
      BY <2>2 DEF MakeRoom
    <3> QED BY <3>1, DrainStep, PromoteStep
  <2>3. CASE RoomMade(t)
    BY <2>3, RoomStep
  <2>4. CASE FinishRounds(t)
    <3>1. caller[t].stage # "returned" /\ (Drain(t) \/ Promote(t))
      BY <2>4 DEF FinishRounds
    <3> QED BY <3>1, DrainStep, PromoteStep
  <2>5. CASE TrueBatchReturns(t)
    BY <2>5, ReturnStep
  <2> QED BY <1>4, <2>5, <2>1, <2>2, <2>3, <2>4 DEF TrueBatchStep
<1> QED BY <1>1, <1>2, <1>3, <1>4 DEF TrueBatchNext

LEMMA TrueBatchInvSound == TrueBatchInv => ScratchesSound /\ TrueBatchExact
<1> SUFFICES ASSUME TrueBatchInv PROVE ScratchesSound
  BY DEF TrueBatchInv
<1>1. /\ Len(truePool) <= TruePoolLimit
      /\ \A i, k \in DOMAIN truePool : truePool[i] = truePool[k] => i = k
      /\ \A t \in BatchCallers : \A p \in InHand(t) :
            /\ \A i \in DOMAIN truePool : truePool[i] # p.scratch
            /\ scratches[p.scratch].op = p.op
      /\ \A t \in BatchCallers : caller[t].stage = "panicked" => givenUp # {}
  BY DEF TrueBatchInv, ScratchesHeld
<1>2. ASSUME NEW t \in BatchCallers, NEW i \in DOMAIN HandsOf(t)
      PROVE  HandsOf(t)[i] \in InHand(t)
  <2> DEFINE s == caller[t].pending  r == caller[t].ready
  <2>1. s \in Seq(BatchesSent) /\ r \in Seq(BatchesSent)
    BY CallerKinds DEF CallerKind
  <2>2. InHand(t) = {s[k] : k \in DOMAIN s} \cup {r[k] : k \in DOMAIN r}
    BY DEF InHand, Hand
  <2>3. HandsOf(t) = s \o r
    BY DEF HandsOf
  <2> HIDE DEF s, r
  <2>4. \/ i \in DOMAIN s /\ (s \o r)[i] = s[i]
        \/ \E j \in DOMAIN r : (s \o r)[i] = r[j]
    BY <1>2, <2>1, <2>3, JoinedBatch
  <2> QED BY <2>2, <2>3, <2>4
<1>3. \A t \in BatchCallers : \A i \in DOMAIN HandsOf(t) :
          /\ HandsOf(t)[i].scratch \notin ToSet(truePool)
          /\ scratches[HandsOf(t)[i].scratch].op = HandsOf(t)[i].op
  <2> TAKE t \in BatchCallers
  <2> TAKE i \in DOMAIN HandsOf(t)
  <2>1. HandsOf(t)[i] \in InHand(t)
    BY <1>2
  <2> DEFINE p == HandsOf(t)[i]
  <2> HIDE DEF p
  <2>2. (\A k \in DOMAIN truePool : truePool[k] # p.scratch) /\ scratches[p.scratch].op = p.op
    BY <1>1, <2>1 DEF p
  <2> QED BY <2>2 DEF p, ToSet
<1> QED BY <1>1, <1>3 DEF ScratchesSound
================================================================================
