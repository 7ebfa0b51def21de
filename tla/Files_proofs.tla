------------------------------ MODULE Files_proofs ------------------------------
(* What is written to files and read from them.  The file writer, used as its  *)
(* callers use it: its gate counts exactly what passed it, and it is the       *)
(* barrier that FileWriteBarrier promises.  The decoders over it and over the  *)
(* reader that reads ahead: a decode that returns without an error is whole,   *)
(* whatever the number of workers, the order in which they finish and what     *)
(* fails.  And the extraction of a ZIP file: whatever the workers do and       *)
(* wherever they fail, the totals and the progress say what was extracted.     *)
EXTENDS Readers, ZipDirectoryExtract, ChunkBytes_proofs, FunctionTheorems, SequenceTheorems

--------------------------------------------------------------------------------
(* The file writer (ParallelFileWriter).                                     *)

(* The inductive invariant.                                                    *)

\* An error was stored, and is there or was returned to somebody.
Failed == slot \/ told \/ drainer \in {"ok", "failed"}

\* A client in a call has one write of its own, which is accepted when the call
\* succeeds; nobody is in a call when the drain begins.
Requests ==
    /\ \A t \in Clients :
          /\ client[t] = "out" => request[t] = {}
          /\ client[t] # "out" => drainer = "out" /\ \E r \in Writes : request[t] = {r}
          /\ client[t] = "ok" => request[t] \subseteq accepted
          /\ client[t] # "ok" => request[t] \intersect accepted = {}
          /\ client[t] = "send" => Backend # "pool"
    /\ \A t, u \in Clients : t # u => request[t] \intersect request[u] = {}

\* What each backend has of the state.
Machinery ==
    /\ Backend = "ring" => packets = 0 /\ (engine = "idle" => retry = <<>>)
    /\ Backend = "iocp" => inbox = <<>> /\ retry = <<>> /\ engine \in {"reap", "gone"}
    /\ Backend = "pool" => retry = <<>> /\ kernel = {} /\ engine = "reap"
    /\ \A w \in PoolWorkers :
          /\ Backend # "pool" => crew[w] = "loop"
          /\ IF crew[w] = "write" THEN \E r \in Writes : task[w] = {r} ELSE task[w] = {}

\* A write that the backend has is in one place there.
Places ==
    /\ \A i, j \in 1 .. Len(inbox) : inbox[i] = inbox[j] => i = j
    /\ \A i, j \in 1 .. Len(retry) : retry[i] = retry[j] => i = j
    /\ Elements(inbox) \intersect (Elements(retry) \union kernel \union Tasks) = {}
    /\ Elements(retry) \intersect kernel = {}
    /\ \A v, w \in PoolWorkers : v # w => task[v] \intersect task[w] = {}
    /\ Pending \subseteq accepted

\* What is not accepted is untouched, what the backend has is not complete, and what
\* was accepted and is neither was lost to an error.
Contents ==
    /\ \A r \in Writes :
          /\ left[r] <= Size[r]
          /\ r \notin accepted => left[r] = Size[r]
          /\ r \in Pending => left[r] > 0 /\ (~MayFail("short") => left[r] = Size[r])
    /\ \A r \in accepted \ Pending : left[r] = 0 \/ Failed

\* The message that ends the ring's thread is the last one.
Closing ==
    /\ ~sender \/ closed \/ closing => drainer \notin {"out", "close"}
    /\ closing => inbox = <<>>
    /\ \A k \in 1 .. Len(inbox) :
          inbox[k] = Close =>
             k = Len(inbox) /\ Backend = "ring" /\ drainer \notin {"out", "close"}

\* A backend that has stopped did so on an error or has nothing left, and a drain that
\* returned Ok left nothing behind unless an error was told before.
Stopping ==
    /\ stopped \/ engine = "fail" => Failed
    /\ engine = "gone" => Failed \/ (Counted = {} /\ drainer \notin {"out", "close"})
    /\ drainer \in {"join", "check"} => Failed \/ Counted = {}
    /\ drainer = "ok" => told \/ \A r \in accepted : left[r] = 0

Exact ==
    /\ ~stopped /\ engine \notin {"fail", "gone"} =>
         /\ Backend # "pool" => inflight_ops = Cardinality(Counted)
         /\ ~MayFail("short") => pending_bytes = Load(Counted)
    /\ Backend # "pool" => inflight_ops <= MaxInflight
    /\ pending_bytes >= BacklogLimit =>
         \E r \in Writes : pending_bytes < BacklogLimit + Size[r]

WInv ==
    /\ WriterTypeOK /\ Requests /\ Machinery /\ Places /\ Contents /\ Closing /\ Stopping
    /\ Exact

--------------------------------------------------------------------------------
(* Sequences, as the sets of what is in them.                                  *)

LEMMA ElementsOfNone == Elements(<<>>) = {}
BY DEF Elements

\* What is appended.
LEMMA ElementsOfAppend ==
    ASSUME NEW S, NEW s \in Seq(S), NEW x \in S
    PROVE  /\ s \o <<x>> \in Seq(S) /\ Append(s, x) = s \o <<x>>
           /\ Elements(s \o <<x>>) = Elements(s) \union {x}
           /\ Len(s \o <<x>>) = Len(s) + 1
           /\ (s \o <<x>>)[Len(s) + 1] = x
           /\ \A k \in 1 .. Len(s) : (s \o <<x>>)[k] = s[k]
<1> DEFINE u == s \o <<x>>
<1>1. u \in Seq(S) /\ Append(s, x) = u /\ Len(u) = Len(s) + 1 /\ u[Len(s) + 1] = x
      /\ \A k \in 1 .. Len(s) : u[k] = s[k]
  OBVIOUS
<1>2. Elements(u) = Elements(s) \union {x}
  <2>1. Len(s) \in Nat /\ 1 .. Len(u) = (1 .. Len(s)) \union {Len(s) + 1}
    BY <1>1
  <2> HIDE DEF u
  <2> QED BY <1>1, <2>1 DEF Elements
<1> QED BY <1>1, <1>2

\* What is put in front.
LEMMA ElementsOfCons ==
    ASSUME NEW S, NEW s \in Seq(S), NEW x \in S
    PROVE  /\ <<x>> \o s \in Seq(S)
           /\ Elements(<<x>> \o s) = Elements(s) \union {x}
           /\ Len(<<x>> \o s) = Len(s) + 1
           /\ (<<x>> \o s)[1] = x
           /\ \A k \in 1 .. Len(s) : (<<x>> \o s)[k + 1] = s[k]
<1> DEFINE u == <<x>> \o s
<1>1. u \in Seq(S) /\ Len(u) = Len(s) + 1 /\ u[1] = x /\ Len(s) \in Nat
  OBVIOUS
<1>2. \A k \in 1 .. Len(s) : u[k + 1] = s[k]
  OBVIOUS
<1> HIDE DEF u
<1>3. \A k \in 1 .. Len(u) : k = 1 \/ (k - 1 \in 1 .. Len(s) /\ u[k] = s[k - 1])
  <2> TAKE k \in 1 .. Len(u)
  <2>1. k # 1 => k - 1 \in 1 .. Len(s) /\ u[(k - 1) + 1] = s[k - 1]
    BY <1>1, <1>2
  <2> QED BY <2>1, <1>1
<1>4. Elements(u) \subseteq Elements(s) \union {x}
  BY <1>1, <1>3 DEF Elements
<1>5. Elements(s) \union {x} \subseteq Elements(u)
  <2>1. \A k \in 1 .. Len(s) : k + 1 \in 1 .. Len(u) /\ 1 \in 1 .. Len(u)
    BY <1>1
  <2>2. 1 \in 1 .. Len(u)
    BY <1>1
  <2> QED BY <1>1, <1>2, <2>1, <2>2 DEF Elements
<1>6. Elements(u) = Elements(s) \union {x}
  BY <1>4, <1>5
<1> QED BY <1>1, <1>2, <1>6 DEF u

\* What is taken from the front.
LEMMA ElementsOfTail ==
    ASSUME NEW S, NEW s \in Seq(S), s # <<>>
    PROVE  /\ Head(s) = s[1] /\ Head(s) \in S /\ Head(s) \in Elements(s)
           /\ Tail(s) \in Seq(S) /\ Len(Tail(s)) = Len(s) - 1 /\ Len(s) \in Nat \ {0}
           /\ \A k \in 1 .. Len(Tail(s)) : k + 1 \in 1 .. Len(s) /\ Tail(s)[k] = s[k + 1]
           /\ Elements(s) = Elements(Tail(s)) \union {Head(s)}
<1> DEFINE u == Tail(s)
<1>1. Len(s) \in Nat \ {0} /\ Head(s) = s[1] /\ Head(s) \in S /\ u \in Seq(S) /\ Len(u) = Len(s) - 1
  OBVIOUS
<1>2. \A k \in 1 .. Len(u) : k + 1 \in 1 .. Len(s) /\ u[k] = s[k + 1]
  OBVIOUS
<1> HIDE DEF u
<1>3. 1 \in 1 .. Len(s)
  BY <1>1
<1>4. \A k \in 1 .. Len(s) : k = 1 \/ (k - 1 \in 1 .. Len(u) /\ s[k] = u[k - 1])
  <2> TAKE k \in 1 .. Len(s)
  <2>1. k # 1 => k - 1 \in 1 .. Len(u) /\ u[k - 1] = s[(k - 1) + 1]
    BY <1>1, <1>2
  <2> QED BY <2>1, <1>1
<1>5. Elements(s) = Elements(u) \union {Head(s)}
  BY <1>1, <1>2, <1>3, <1>4 DEF Elements
<1>6. Head(s) \in Elements(s)
  BY <1>5
<1> QED BY <1>1, <1>2, <1>5, <1>6 DEF u

\* Without repetitions what is taken is no longer there.
LEMMA TailDistinct ==
    ASSUME NEW S, NEW s \in Seq(S), s # <<>>,
           \A i, j \in 1 .. Len(s) : s[i] = s[j] => i = j
    PROVE  /\ Head(s) \notin Elements(Tail(s))
           /\ Elements(Tail(s)) = Elements(s) \ {Head(s)}
           /\ \A i, j \in 1 .. Len(Tail(s)) : Tail(s)[i] = Tail(s)[j] => i = j
<1> DEFINE u == Tail(s)
<1>1. /\ Head(s) = s[1] /\ Len(s) \in Nat \ {0} /\ u \in Seq(S) /\ Len(u) = Len(s) - 1
      /\ \A k \in 1 .. Len(u) : k + 1 \in 1 .. Len(s) /\ u[k] = s[k + 1]
      /\ Elements(s) = Elements(u) \union {Head(s)}
  BY ElementsOfTail
<1> HIDE DEF u
<1>2. 1 \in 1 .. Len(s)
  BY <1>1
<1>3. \A k \in 1 .. Len(u) : u[k] # s[1]
  BY <1>1, <1>2
<1>4. Head(s) \notin Elements(u)
  BY <1>1, <1>3 DEF Elements
<1>5. ASSUME NEW i \in 1 .. Len(u), NEW j \in 1 .. Len(u), u[i] = u[j]
      PROVE  i = j
  <2>1. s[i + 1] = s[j + 1] /\ i + 1 \in 1 .. Len(s) /\ j + 1 \in 1 .. Len(s)
    BY <1>1, <1>5
  <2> QED BY <2>1
<1> QED BY <1>1, <1>4, <1>5 DEF u

\* The member of a set with one.
LEMMA TheMember ==
    ASSUME NEW r, NEW S, S = {r}
    PROVE  (CHOOSE x \in S : TRUE) = r
OBVIOUS

--------------------------------------------------------------------------------
(* Types.                                                                      *)

\* A client's request is one write, wherever the steps choose it.
LEMMA TheRequest ==
    ASSUME WInv, NEW t \in Clients, client[t] # "out"
    PROVE  \E r \in Writes :
              /\ request[t] = {r} /\ (CHOOSE x \in request[t] : TRUE) = r
              /\ SizeOf(request[t]) = Size[r]
<1>1. PICK r \in Writes : request[t] = {r}
  BY DEF WInv, Requests
<1>2. (CHOOSE x \in request[t] : TRUE) = r
  BY <1>1, TheMember
<1> QED BY <1>1, <1>2 DEF SizeOf

LEMMA TheTask ==
    ASSUME WInv, NEW w \in PoolWorkers, crew[w] = "write"
    PROVE  \E r \in Writes : task[w] = {r} /\ SizeOf(task[w]) = Size[r]
<1>1. PICK r \in Writes : task[w] = {r}
  BY DEF WInv, Machinery
<1>2. (CHOOSE x \in task[w] : TRUE) = r
  BY <1>1, TheMember
<1> QED BY <1>1, <1>2 DEF SizeOf

\* Each write has a length, and what is left of a counter is a number.
LEMMA SizeType == \A r \in Writes : Size[r] \in Nat /\ Size[r] > 0
BY WriterAssumption

LEMMA MinusType ==
    ASSUME NEW a \in Nat, NEW b \in Nat
    PROVE  /\ Minus(a, b) \in Nat /\ Minus(a, b) <= a
           /\ b <= a => Minus(a, b) = a - b
BY DEF Minus

LEMMA TypeStep ==
    ASSUME WInv, WriterNext
    PROVE  WriterTypeOK'
<1>0. WriterTypeOK
  BY DEF WInv
<1> USE <1>0 DEF WriterTypeOK, gateVars, ringVars, engineVars, poolVars, clientVars
<1>1. ASSUME NEW t \in Clients, SubmitFresh(t)
      PROVE  WriterTypeOK'
  BY <1>1 DEF SubmitFresh, Submit
<1>2. ASSUME NEW t \in Clients, TakeError(t)
      PROVE  WriterTypeOK'
  BY <1>2 DEF TakeError
<1>3. ASSUME NEW t \in Clients, SubmitCheck(t)
      PROVE  WriterTypeOK'
  BY <1>2, <1>3 DEF SubmitCheck
<1>4. ASSUME NEW t \in Clients, client[t] \in {"gate", "woken"}, Count(t)
      PROVE  WriterTypeOK'
  <2>1. PICK r \in Writes : request[t] = {r} /\ (CHOOSE x \in request[t] : TRUE) = r
                            /\ SizeOf(request[t]) = Size[r]
    BY <1>4, TheRequest
  <2>2. inbox \o <<r>> \in Seq(Writes \union {Close})
    BY ElementsOfAppend
  <2>3. CASE Backend = "pool"
    <3>1. inbox' = inbox \o <<r>> /\ accepted' = accepted \union {r}
      BY <1>4, <2>1, <2>3 DEF Count
    <3>2. pending_bytes' = pending_bytes + Size[r] /\ pending_bytes' \in Nat
      BY <1>4, <2>1, SizeType DEF Count
    <3>3. client' \in [Clients -> {"out", "check", "gate", "woken", "send", "ok", "failed"}]
      BY <1>4, <2>3 DEF Count
    <3>4. asleep' = {} /\ inflight_ops' = inflight_ops
      BY <1>4, <2>3 DEF Count
    <3>5. UNCHANGED <<setup, closed, stopped, slot, sender, retry, closing, engineVars,
                      poolVars, request, told, drainer>>
      BY <1>4 DEF Count
    <3> QED BY <2>2, <3>1, <3>2, <3>3, <3>4, <3>5
  <2>4. CASE Backend # "pool"
    BY <1>4, <2>1, <2>4, SizeType DEF Count
  <2> QED BY <2>3, <2>4
<1>5. ASSUME NEW t \in Clients, SubmitGate(t)
      PROVE  WriterTypeOK'
  BY <1>2, <1>4, <1>5 DEF SubmitGate
<1>6. ASSUME NEW t \in Clients, RingSend(t)
      PROVE  WriterTypeOK'
  <2>1. PICK r \in Writes : request[t] = {r} /\ (CHOOSE x \in request[t] : TRUE) = r
    BY <1>6, TheRequest DEF RingSend
  <2>2. inbox \o <<r>> \in Seq(Writes \union {Close})
    BY ElementsOfAppend
  <2>3. CASE sender /\ engine # "gone"
    <3>1. inbox' = inbox \o <<r>> /\ accepted' = accepted \union {r}
      BY <1>6, <2>1, <2>3 DEF RingSend
    <3> QED BY <1>6, <2>2, <2>3, <3>1, ZenonT(40) DEF RingSend
  <2>4. CASE ~(sender /\ engine # "gone")
    BY <1>6, <2>4, ZenonT(40) DEF RingSend
  <2> QED BY <2>3, <2>4
<1>7. ASSUME NEW t \in Clients, IocpSend(t)
      PROVE  WriterTypeOK'
  <2>1. PICK r \in Writes : request[t] = {r} /\ SizeOf(request[t]) = Size[r]
    BY <1>7, TheRequest DEF IocpSend
  <2>2. Minus(pending_bytes, Size[r]) \in Nat /\ Minus(inflight_ops, 1) \in Nat
    BY SizeType, MinusType
  <2>3. client' \in [Clients -> {"out", "check", "gate", "woken", "send", "ok", "failed"}]
    BY <1>7 DEF IocpSend
  <2>4. UNCHANGED <<setup, slot, ringVars, engine, packets, left, poolVars, request, drainer>>
    BY <1>7 DEF IocpSend
  <2>5. CASE kernel' = kernel \union request[t] /\ accepted' = accepted \union request[t]
             /\ UNCHANGED <<gateVars, asleep, told>>
    BY <2>1, <2>3, <2>4, <2>5
  <2>6. CASE Uncount(SizeOf(request[t])) /\ told' = TRUE /\ UNCHANGED <<kernel, accepted>>
    <3>1. pending_bytes' \in Nat /\ inflight_ops' \in Nat /\ asleep' = {}
          /\ UNCHANGED <<closed, stopped>>
      BY <2>1, <2>2, <2>6 DEF Uncount
    <3> QED BY <2>3, <2>4, <2>6, <3>1
  <2> QED BY <1>7, <2>5, <2>6 DEF IocpSend
<1>8. ASSUME NEW t \in Clients, Return(t)
      PROVE  WriterTypeOK'
  BY <1>8 DEF Return
<1>9. CASE RingCreate
  BY <1>9, ZenonT(40) DEF RingCreate
<1>10. CASE RingFill
  <2>1. retry # <<>> => Head(retry) \in Writes /\ Tail(retry) \in Seq(Writes)
    BY ElementsOfTail
  <2>2. inbox # <<>> => Head(inbox) \in Writes \union {Close}
                        /\ Tail(inbox) \in Seq(Writes \union {Close})
    BY ElementsOfTail
  <2> QED BY <1>10, <2>1, <2>2, ZenonT(40) DEF RingFill
<1>11. CASE RingFull
  BY <1>11 DEF RingFull
<1>12. CASE RingIdle
  <2>1. Head(inbox) \in Writes \union {Close} /\ Tail(inbox) \in Seq(Writes \union {Close})
    BY <1>12, ElementsOfTail DEF RingIdle
  <2>2. Head(inbox) # Close => Append(retry, Head(inbox)) \in Seq(Writes)
    BY <2>1, ElementsOfAppend
  <2> QED BY <1>12, <2>1, <2>2, ZenonT(40) DEF RingIdle
<1>13. CASE RingFails
  BY <1>13 DEF RingFails
<1>14. CASE RingStops
  BY <1>14 DEF RingStops
<1>15. ASSUME NEW r \in Writes, RingComplete(r)
       PROVE  WriterTypeOK'
  <2>1. <<r>> \o retry \in Seq(Writes)
    BY ElementsOfCons
  <2>2. PICK n \in 1 .. left[r] : Complete(r, n) /\ left' = [left EXCEPT ![r] = @ - n]
    BY <1>15 DEF RingComplete
  <2>3. left' \in [Writes -> Nat] /\ n \in Nat
    BY <2>2
  <2>4. CASE n = left[r]
    <3>1. Minus(pending_bytes, n) \in Nat /\ Minus(inflight_ops, 1) \in Nat
      BY <2>3, MinusType
    <3> QED BY <1>15, <2>2, <2>3, <2>4, <3>1 DEF RingComplete, Complete, Uncount
  <2>5. CASE n # left[r]
    BY <1>15, <2>1, <2>2, <2>3, <2>5, ZenonT(40) DEF RingComplete, Complete
  <2> QED BY <2>4, <2>5
<1>16. ASSUME NEW r \in Writes, IocpComplete(r)
       PROVE  WriterTypeOK'
  <2>1. Minus(pending_bytes, Size[r]) \in Nat /\ Minus(inflight_ops, 1) \in Nat
    BY SizeType, MinusType
  <2>2. pending_bytes' \in Nat /\ inflight_ops' \in Nat
    BY <1>16, <2>1 DEF IocpComplete
  <2>3. left' \in [Writes -> Nat]
    BY <1>16 DEF IocpComplete
  <2> QED BY <1>16, <2>2, <2>3 DEF IocpComplete
<1>17. CASE IocpPacket
  BY <1>17 DEF IocpPacket
<1>18. ASSUME NEW w \in PoolWorkers, Pool(w)
       PROVE  WriterTypeOK'
  <2>1. CASE PoolPop(w)
    <3>1. Head(inbox) \in Writes \union {Close} /\ Tail(inbox) \in Seq(Writes \union {Close})
      BY <2>1, ElementsOfTail DEF PoolPop
    <3>2. Head(inbox) # Close
      <4>1. Head(inbox) = inbox[1] /\ 1 \in 1 .. Len(inbox)
        BY <2>1, ElementsOfTail DEF PoolPop
      <4>2. Backend # "ring"
        BY <1>18 DEF Pool
      <4> QED BY <4>1, <4>2 DEF WInv, Closing
    <3> QED BY <2>1, <3>1, <3>2 DEF PoolPop
  <2>2. CASE PoolLeave(w)
    BY <2>2 DEF PoolLeave
  <2>3. CASE PoolSleep(w)
    BY <2>3 DEF PoolSleep
  <2>4. CASE PoolWrite(w)
    <3>1. PICK r \in Writes : task[w] = {r} /\ SizeOf(task[w]) = Size[r]
      BY <2>4, TheTask DEF PoolWrite
    <3>2. Minus(pending_bytes, Size[r]) \in Nat
      BY SizeType, MinusType
    <3>3. [q \in Writes |-> IF q \in task[w] THEN 0 ELSE left[q]] \in [Writes -> Nat]
      OBVIOUS
    <3>4. pending_bytes' \in Nat /\ left' \in [Writes -> Nat]
      BY <2>4, <3>1, <3>2, <3>3 DEF PoolWrite
    <3>5. task' \in [PoolWorkers -> SUBSET Writes]
      BY <2>4 DEF PoolWrite
    <3>6. crew' \in [PoolWorkers -> {"loop", "write", "gone"}]
      BY <2>4 DEF PoolWrite
    <3>7. asleep' = {} /\ stopped' \in BOOLEAN /\ slot' \in BOOLEAN
      BY <2>4 DEF PoolWrite
    <3>8. UNCHANGED <<setup, inflight_ops, closed, ringVars, kernel, engine, packets,
                      clientVars, drainer>>
      BY <2>4 DEF PoolWrite
    <3> QED BY <3>4, <3>5, <3>6, <3>7, <3>8
  <2> QED BY <1>18, <2>1, <2>2, <2>3, <2>4 DEF Pool
<1>19. CASE DrainQuiet
  BY <1>19 DEF DrainQuiet, Drain
<1>20. CASE RingClose
  <2>1. Append(inbox, Close) \in Seq(Writes \union {Close})
    BY ElementsOfAppend
  <2> QED BY <1>20, <2>1 DEF RingClose
<1>21. CASE IocpClose
  BY <1>21 DEF IocpClose
<1>22. CASE PoolClose
  BY <1>22 DEF PoolClose
<1>23. CASE DrainWait
  BY <1>23 DEF DrainWait
<1>24. CASE DrainJoin
  BY <1>24 DEF DrainJoin
<1>25. CASE DrainCheck
  BY <1>25 DEF DrainCheck
<1>26. CASE WriterSpurious
  BY <1>26 DEF WriterSpurious
<1> QED
  BY <1>1, <1>3, <1>5, <1>6, <1>7, <1>8, <1>9, <1>10, <1>11, <1>12, <1>13, <1>14, <1>15,
     <1>16, <1>17, <1>18, <1>19, <1>20, <1>21, <1>22, <1>23, <1>24, <1>25, <1>26
  DEF WriterNext, WriterInternal, Client, Ring, Iocp, Draining

--------------------------------------------------------------------------------
(* The steps, one conjunct of the invariant after the other.                   *)

\* What the clients, the backends and the drain leave alone.
LEMMA InternalFrame ==
    ASSUME WriterInternal
    PROVE  UNCHANGED <<client, request, accepted, setup>>
BY DEF WriterInternal, Ring, Iocp, Pool, Draining, RingCreate, RingFill, RingFull, RingIdle,
   RingFails, RingStops, RingComplete, IocpComplete, IocpPacket, PoolPop, PoolLeave,
   PoolSleep, PoolWrite, RingClose, IocpClose, PoolClose, DrainWait, DrainJoin, DrainCheck,
   WriterSpurious, clientVars

LEMMA DrainerFrame ==
    ASSUME WriterInternal
    PROVE  drainer' = drainer \/ (drainer # "out" /\ drainer' # "out")
BY DEF WriterInternal, Ring, Iocp, Pool, Draining, RingCreate, RingFill, RingFull, RingIdle,
   RingFails, RingStops, RingComplete, IocpComplete, IocpPacket, PoolPop, PoolLeave,
   PoolSleep, PoolWrite, RingClose, IocpClose, PoolClose, DrainWait, DrainJoin, DrainCheck,
   WriterSpurious

LEMMA SetupFrame ==
    ASSUME WriterNext
    PROVE  setup' = setup
BY InternalFrame DEF WriterNext, SubmitFresh, Submit, Client, SubmitCheck, SubmitGate, TakeError,
   Count, RingSend, IocpSend, Return, DrainQuiet, Drain

\* A client's own step, by what it does to its call: it goes on within the call, or
\* its write is accepted.
LEMMA ClientMoves ==
    ASSUME WInv, NEW t \in Clients, Client(t)
    PROVE  /\ client[t] \notin {"out", "ok", "failed"}
           /\ UNCHANGED <<request, drainer, setup>>
           /\ \/ accepted' = accepted /\ client' = [client EXCEPT ![t] = "failed"]
              \/ accepted' = accepted /\ client' = [client EXCEPT ![t] = "gate"]
              \/ accepted' = accepted /\ client' = [client EXCEPT ![t] = "woken"]
              \/ accepted' = accepted /\ client' = [client EXCEPT ![t] = "send"] /\ Backend # "pool"
              \/ accepted' = accepted \union request[t] /\ client' = [client EXCEPT ![t] = "ok"]
<1>1. CASE SubmitCheck(t)
  BY <1>1 DEF SubmitCheck, TakeError
<1>2. CASE SubmitGate(t)
  <2>1. CASE Count(t)
    <3>1. CASE Backend = "pool"
      BY <1>2, <2>1, <3>1 DEF SubmitGate, Count
    <3>2. CASE Backend # "pool"
      BY <1>2, <2>1, <3>2 DEF SubmitGate, Count
    <3> QED BY <3>1, <3>2
  <2>2. CASE ~Count(t)
    BY <1>2, <2>2 DEF SubmitGate, TakeError
  <2> QED BY <2>1, <2>2
<1>3. CASE RingSend(t)
  <2>1. CASE sender /\ engine # "gone"
    BY <1>3, <2>1 DEF RingSend
  <2>2. CASE ~(sender /\ engine # "gone")
    BY <1>3, <2>2 DEF RingSend
  <2> QED BY <2>1, <2>2
<1>4. CASE IocpSend(t)
  BY <1>4 DEF IocpSend
<1> QED BY <1>1, <1>2, <1>3, <1>4 DEF Client

LEMMA RequestsStep ==
    ASSUME WInv, WriterNext
    PROVE  Requests'
<1>0. Requests /\ client \in [Clients -> {"out", "check", "gate", "woken", "send", "ok", "failed"}]
      /\ request \in [Clients -> SUBSET Writes]
  BY DEF WInv, WriterTypeOK
<1> USE <1>0
<1>1. ASSUME NEW t \in Clients, SubmitFresh(t)
      PROVE  Requests'
  <2>1. PICK r \in Writes : Fresh(r) /\ Submit(t, r) /\ drainer = "out"
    BY <1>1 DEF SubmitFresh
  <2>2. /\ client' = [client EXCEPT ![t] = "check"] /\ request' = [request EXCEPT ![t] = {r}]
        /\ UNCHANGED <<accepted, drainer, setup>>
        /\ r \notin accepted /\ \A u \in Clients : r \notin request[u]
    BY <2>1 DEF Submit, Fresh
  <2> QED BY <2>1, <2>2 DEF Requests, Backend
<1>2. ASSUME NEW t \in Clients, Return(t)
      PROVE  Requests'
  <2>1. /\ client' = [client EXCEPT ![t] = "out"] /\ request' = [request EXCEPT ![t] = {}]
        /\ UNCHANGED <<accepted, drainer, setup>>
    BY <1>2 DEF Return, clientVars
  <2> QED BY <2>1 DEF Requests, Backend
<1>3. ASSUME NEW t \in Clients, Client(t)
      PROVE  Requests'
  <2>1. /\ client[t] \notin {"out", "ok", "failed"}
        /\ UNCHANGED <<request, drainer, setup>> /\ Backend' = Backend
    BY <1>3, ClientMoves DEF Backend
  <2>2. CASE accepted' = accepted
    <3>1. \E x \in {"failed", "gate", "woken", "send"} :
             client' = [client EXCEPT ![t] = x] /\ (x = "send" => Backend # "pool")
      <4>1. client' # [client EXCEPT ![t] = "ok"] \/ accepted' = accepted \union request[t]
        BY <1>3, ClientMoves
      <4>2. request[t] # {} /\ request[t] \intersect accepted = {}
        BY <2>1 DEF Requests
      <4> QED BY <1>3, <2>2, <4>1, <4>2, ClientMoves
    <3> QED BY <2>1, <2>2, <3>1 DEF Requests
  <2>3. CASE accepted' = accepted \union request[t] /\ client' = [client EXCEPT ![t] = "ok"]
    BY <2>1, <2>3 DEF Requests
  <2> QED BY <1>3, <2>2, <2>3, ClientMoves
<1>4. CASE WriterInternal
  BY <1>4, InternalFrame, DrainerFrame DEF Requests, Backend
<1>5. CASE DrainQuiet
  BY <1>5 DEF DrainQuiet, Drain, Requests, Backend, clientVars
<1> QED BY <1>1, <1>2, <1>3, <1>4, <1>5 DEF WriterNext

\* Once an error is there, it stays or is told.
LEMMA FailedStep ==
    ASSUME WInv, WriterNext, Failed
    PROVE  Failed'
<1>1. ASSUME NEW t \in Clients, SubmitFresh(t) \/ Client(t) \/ Return(t)
      PROVE  Failed'
  <2>1. told' = TRUE \/ (slot' = slot /\ told' = told /\ drainer' = drainer)
    BY <1>1 DEF SubmitFresh, Submit, Return, Client, SubmitCheck, SubmitGate, TakeError, Count,
       RingSend, IocpSend, clientVars
  <2> QED BY <2>1 DEF Failed
<1>2. CASE DrainQuiet
  BY <1>2 DEF DrainQuiet, Drain, Failed, clientVars
<1>3. CASE Ring \/ Iocp
  <2>1. (slot' = TRUE \/ slot' = slot) /\ told' = told /\ drainer' = drainer
    BY <1>3 DEF Ring, Iocp, RingCreate, RingFill, RingFull, RingIdle, RingFails, RingStops,
       RingComplete, IocpComplete, IocpPacket, clientVars
  <2> QED BY <2>1 DEF Failed
<1>4. ASSUME NEW w \in PoolWorkers, Pool(w)
      PROVE  Failed'
  <2>1. (slot' = TRUE \/ slot' = slot) /\ told' = told /\ drainer' = drainer
    BY <1>4 DEF Pool, PoolPop, PoolLeave, PoolSleep, PoolWrite, clientVars
  <2> QED BY <2>1 DEF Failed
<1>5. CASE Draining
  <2>1. drainer' \in {"ok", "failed"}
        \/ (slot' = slot /\ told' = told /\ drainer \notin {"ok", "failed"})
    BY <1>5 DEF Draining, RingClose, IocpClose, PoolClose, DrainWait, DrainJoin, DrainCheck,
       clientVars
  <2> QED BY <2>1 DEF Failed
<1>6. CASE WriterSpurious
  BY <1>6 DEF WriterSpurious, Failed, clientVars
<1> QED BY <1>1, <1>2, <1>3, <1>4, <1>5, <1>6 DEF WriterNext, WriterInternal


\* There are three backends.
LEMMA Backends ==
    ASSUME WInv
    PROVE  Backend \in {"ring", "iocp", "pool"}
BY WriterAssumption DEF WInv, WriterTypeOK, Setup, Backend

\* A step leaves alone what its backend does not have.
LEMMA MachineryStep ==
    ASSUME WInv, WriterNext
    PROVE  Machinery'
<1>0. Machinery /\ crew \in [PoolWorkers -> {"loop", "write", "gone"}] /\ packets \in Nat
      /\ task \in [PoolWorkers -> SUBSET Writes] /\ Backend' = Backend
      /\ engine \in {"create", "fill", "idle", "reap", "fail", "gone"}
  BY SetupFrame DEF WInv, WriterTypeOK, Backend
<1> USE <1>0
<1>1. CASE UNCHANGED <<packets, inbox, retry, kernel, engine, crew, task>>
  BY <1>1 DEF Machinery
<1>2. ASSUME NEW t \in Clients, SubmitFresh(t) \/ SubmitCheck(t) \/ Return(t)
      PROVE  Machinery'
  BY <1>1, <1>2 DEF SubmitFresh, Submit, SubmitCheck, TakeError, Return, ringVars, engineVars,
     poolVars
<1>3. ASSUME NEW t \in Clients, SubmitGate(t)
      PROVE  Machinery'
  <2>1. CASE Count(t) /\ Backend = "pool"
    BY <2>1 DEF Count, Machinery, engineVars, poolVars
  <2>2. CASE Count(t) /\ Backend # "pool"
    <3>1. UNCHANGED <<packets, inbox, retry, kernel, engine, crew, task>>
      BY <2>2 DEF Count, engineVars, poolVars
    <3> QED BY <1>1, <3>1
  <2>3. CASE ~Count(t)
    BY <1>1, <1>3, <2>3 DEF SubmitGate, TakeError, ringVars, engineVars, poolVars
  <2> QED BY <2>1, <2>2, <2>3
<1>4. ASSUME NEW t \in Clients, RingSend(t)
      PROVE  Machinery'
  <2>1. Backend = "ring" /\ UNCHANGED <<packets, retry, kernel, engine, crew, task>>
    BY <1>4 DEF RingSend, engineVars, poolVars
  <2> QED BY <2>1 DEF Machinery
<1>5. ASSUME NEW t \in Clients, IocpSend(t)
      PROVE  Machinery'
  <2>1. Backend = "iocp" /\ UNCHANGED <<packets, inbox, retry, engine, crew, task>>
    BY <1>5 DEF IocpSend, ringVars, poolVars
  <2> QED BY <2>1 DEF Machinery
<1>6. CASE DrainQuiet \/ WriterSpurious
  BY <1>1, <1>6 DEF DrainQuiet, Drain, WriterSpurious, ringVars, engineVars, poolVars
<1>7. CASE RingCreate \/ RingFill \/ RingFull \/ RingIdle \/ RingFails \/ RingStops
           \/ \E r \in Writes : RingComplete(r)
  <2>1. Backend = "ring"
    <3>1. engine \in {"create", "fill", "idle", "fail"} \/ Backend = "ring"
      BY <1>7 DEF RingCreate, RingFill, RingFull, RingIdle, RingFails, RingStops, RingComplete
    <3> QED BY <3>1, Backends DEF Machinery
  <2>2. UNCHANGED <<packets, crew, task>>
    BY <1>7 DEF RingCreate, RingFill, RingFull, RingIdle, RingFails, RingStops, RingComplete,
       poolVars
  <2>3. engine' = "idle" => retry' = <<>>
    BY <1>7, <2>1 DEF RingCreate, RingFill, RingFull, RingIdle, RingFails, RingStops,
       RingComplete, Machinery, ringVars
  <2> QED BY <2>1, <2>2, <2>3 DEF Machinery
<1>8. CASE Iocp
  <2>1. Backend = "iocp" /\ UNCHANGED <<inbox, retry, crew, task>> /\ engine' \in {engine, "gone"}
    BY <1>8 DEF Iocp, IocpPacket, IocpComplete, ringVars, poolVars
  <2> QED BY <2>1 DEF Machinery
<1>9. ASSUME NEW w \in PoolWorkers, Pool(w)
      PROVE  Machinery'
  <2>1. Backend = "pool"
    BY <1>9 DEF Pool
  <2>2. CASE PoolPop(w)
    <3>1. Head(inbox) \in Writes
      <4>1. Head(inbox) = inbox[1] /\ 1 \in 1 .. Len(inbox) /\ Head(inbox) \in Writes \union {Close}
        BY <2>2, ElementsOfTail DEF PoolPop, WInv, WriterTypeOK
      <4> QED BY <2>1, <4>1 DEF WInv, Closing
    <3>2. /\ task' = [task EXCEPT ![w] = {Head(inbox)}] /\ crew' = [crew EXCEPT ![w] = "write"]
          /\ UNCHANGED <<retry, kernel, engine>>
      BY <2>2 DEF PoolPop, engineVars
    <3> QED BY <2>1, <3>1, <3>2 DEF Machinery
  <2>3. CASE PoolLeave(w)
    BY <2>1, <2>3 DEF PoolLeave, Machinery, ringVars, engineVars
  <2>4. CASE PoolSleep(w)
    BY <1>1, <2>4 DEF PoolSleep, ringVars, engineVars, poolVars
  <2>5. CASE PoolWrite(w)
    <3>1. /\ task' = [task EXCEPT ![w] = {}] /\ crew' = [crew EXCEPT ![w] = "loop"]
          /\ UNCHANGED <<retry, kernel, engine>>
      BY <2>5 DEF PoolWrite, ringVars
    <3> QED BY <2>1, <3>1 DEF Machinery
  <2> QED BY <1>9, <2>2, <2>3, <2>4, <2>5 DEF Pool
<1>10. CASE Draining
  <2>1. CASE RingClose \/ IocpClose \/ PoolClose
    <3>1. UNCHANGED <<retry, kernel, engine, crew, task>>
          /\ (Backend = "ring" => packets' = packets) /\ (Backend = "iocp" => inbox' = inbox)
      BY <2>1 DEF RingClose, IocpClose, PoolClose, ringVars, engineVars, poolVars
    <3> QED BY <3>1 DEF Machinery
  <2>2. CASE DrainWait
    <3>1. UNCHANGED <<inbox, retry, kernel, engine, crew, task>>
          /\ (Backend # "iocp" => packets' = packets)
      BY <2>2 DEF DrainWait, ringVars, engineVars, poolVars
    <3> QED BY <3>1 DEF Machinery
  <2>3. CASE DrainJoin \/ DrainCheck
    BY <1>1, <2>3 DEF DrainJoin, DrainCheck, ringVars, engineVars, poolVars
  <2> QED BY <1>10, <2>1, <2>2, <2>3 DEF Draining
<1> QED BY <1>2, <1>3, <1>4, <1>5, <1>6, <1>7, <1>8, <1>9, <1>10
        DEF WriterNext, WriterInternal, Client, Ring, Iocp


\* What a step does to what the backend has: nothing, or one write comes in, is carried
\* out, is lost to an error, or is carried out in part.
Keeps     == Pending' = Pending /\ accepted' = accepted /\ left' = left
Adds(r)   == /\ r \notin accepted /\ Pending' = Pending \union {r}
             /\ accepted' = accepted \union {r} /\ left' = left
Finishes(r) == /\ r \in Pending /\ Pending' = Pending \ {r} /\ accepted' = accepted
               /\ left' = [left EXCEPT ![r] = 0]
Loses(r)  == /\ r \in Pending /\ Pending' = Pending \ {r} /\ accepted' = accepted
             /\ left' = left /\ Failed' /\ stopped' = TRUE
Parts(r)  == /\ r \in Pending /\ Pending' = Pending /\ accepted' = accepted /\ MayFail("short")
             /\ \E n \in 1 .. left[r] : n < left[r] /\ left' = [left EXCEPT ![r] = @ - n]

\* Where nothing moves.
LEMMA NothingMoves ==
    ASSUME Places, UNCHANGED <<inbox, retry, kernel, task, left, accepted>>
    PROVE  Places' /\ Keeps
<1>1. Elements(inbox)' = Elements(inbox) /\ Elements(retry)' = Elements(retry) /\ Tasks' = Tasks
  BY DEF Elements, Tasks
<1>2. Pending' = Pending
  BY <1>1 DEF Pending
<1>3. Places'
  BY <1>1, <1>2 DEF Places
<1> QED BY <1>2, <1>3 DEF Keeps

\* A write that comes in at the end of the inbox.
LEMMA ComesIn ==
    ASSUME WInv, NEW r \in Writes, r \notin accepted,
           inbox' = inbox \o <<r>>, accepted' = accepted \union {r},
           UNCHANGED <<retry, kernel, task, left>>
    PROVE  Places' /\ Adds(r)
<1>1. /\ Places /\ inbox \in Seq(Writes \union {Close}) /\ r # Close
      /\ r \notin Pending
  BY WriterAssumption DEF WInv, WriterTypeOK, Places
<1>2. /\ Elements(inbox') = Elements(inbox) \union {r} /\ Len(inbox') = Len(inbox) + 1
      /\ inbox'[Len(inbox) + 1] = r /\ \A k \in 1 .. Len(inbox) : inbox'[k] = inbox[k]
  BY <1>1, ElementsOfAppend
<1>3. Elements(inbox)' = Elements(inbox') /\ Elements(retry)' = Elements(retry) /\ Tasks' = Tasks
  BY DEF Elements, Tasks
<1>4. Pending' = Pending \union {r}
  BY <1>1, <1>2, <1>3 DEF Pending
<1>5. ASSUME NEW i \in 1 .. Len(inbox'), NEW j \in 1 .. Len(inbox'), inbox'[i] = inbox'[j]
      PROVE  i = j
  <2>1. Len(inbox) \in Nat
    BY <1>1
  <2>2. \A k \in 1 .. Len(inbox) : inbox[k] # r
    BY <1>1 DEF Pending, Elements
  <2>3. \A k \in 1 .. Len(inbox') : k \in 1 .. Len(inbox) \/ k = Len(inbox) + 1
    BY <1>2, <2>1
  <2> HIDE DEF Places
  <2>4. i \in 1 .. Len(inbox) /\ j \in 1 .. Len(inbox) => i = j
    BY <1>1, <1>2, <1>5 DEF Places
  <2> QED BY <1>2, <1>5, <2>2, <2>3, <2>4
<1>6. Elements(inbox') \intersect (Elements(retry) \union kernel \union Tasks) = {}
  BY <1>1, <1>2 DEF Places, Pending
<1>7. Places'
  BY <1>1, <1>3, <1>4, <1>5, <1>6 DEF Places
<1> QED BY <1>4, <1>7 DEF Adds

\* The first of the inbox goes elsewhere in the backend, or is the closing message.
LEMMA HeadMoves ==
    ASSUME WInv, inbox # <<>>, inbox' = Tail(inbox), UNCHANGED <<left, accepted>>,
           NEW x, x = Head(inbox),
           \/ x = Close /\ UNCHANGED <<retry, kernel, task>>
           \/ x # Close /\ kernel' = kernel \union {x} /\ UNCHANGED <<retry, task>>
           \/ x # Close /\ retry = <<>> /\ retry' = <<x>> /\ UNCHANGED <<kernel, task>>
           \/ /\ x # Close /\ UNCHANGED <<kernel, retry>>
              /\ \E w \in PoolWorkers : task[w] = {} /\ task' = [task EXCEPT ![w] = {x}]
    PROVE  Places' /\ Keeps
<1>1. /\ Places /\ inbox \in Seq(Writes \union {Close}) /\ retry \in Seq(Writes)
      /\ task \in [PoolWorkers -> SUBSET Writes]
  BY DEF WInv, WriterTypeOK
<1>2. /\ x \notin Elements(inbox') /\ Elements(inbox') = Elements(inbox) \ {x}
      /\ \A i, j \in 1 .. Len(inbox') : inbox'[i] = inbox'[j] => i = j
  BY <1>1, TailDistinct DEF Places
<1>3. x \in Elements(inbox) /\ x \in Writes \union {Close}
  BY <1>1, ElementsOfTail
<1>4. Elements(inbox)' = Elements(inbox') /\ Elements(retry)' = Elements(retry')
  BY DEF Elements
<1>5. CASE x = Close /\ UNCHANGED <<retry, kernel, task>>
  <2>1. Elements(retry') = Elements(retry) /\ Tasks' = Tasks
    BY <1>5 DEF Elements, Tasks
  <2>2. Pending' = Pending
    BY <1>2, <1>4, <1>5, <2>1 DEF Pending
  <2>3. Places'
    BY <1>1, <1>2, <1>4, <1>5, <2>1, <2>2 DEF Places
  <2> QED BY <2>2, <2>3 DEF Keeps
<1>6. CASE x # Close /\ kernel' = kernel \union {x} /\ UNCHANGED <<retry, task>>
  <2>1. Elements(retry') = Elements(retry) /\ Tasks' = Tasks
    BY <1>6 DEF Elements, Tasks
  <2>2. Pending' = Pending
    BY <1>2, <1>3, <1>4, <1>6, <2>1 DEF Pending
  <2>3. Elements(inbox') \intersect (Elements(retry) \union kernel' \union Tasks) = {}
        /\ Elements(retry) \intersect kernel' = {}
    BY <1>1, <1>2, <1>3, <1>6 DEF Places
  <2>4. Places'
    BY <1>1, <1>2, <1>4, <1>6, <2>1, <2>2, <2>3 DEF Places
  <2> QED BY <2>2, <2>4 DEF Keeps
<1>7. CASE x # Close /\ retry = <<>> /\ retry' = <<x>> /\ UNCHANGED <<kernel, task>>
  <2>1. Elements(retry') = {x} /\ Elements(retry) = {} /\ Tasks' = Tasks
        /\ Len(retry') = 1
    BY <1>7 DEF Elements, Tasks
  <2>2. Pending' = Pending
    BY <1>2, <1>3, <1>4, <1>7, <2>1 DEF Pending
  <2>3. Elements(inbox') \intersect (Elements(retry') \union kernel \union Tasks) = {}
        /\ Elements(retry') \intersect kernel = {}
    BY <1>1, <1>2, <1>3, <2>1 DEF Places
  <2>4. \A i, j \in 1 .. Len(retry') : i = j
    BY <2>1
  <2>5. Places'
    BY <1>1, <1>2, <1>4, <1>7, <2>1, <2>2, <2>3, <2>4 DEF Places
  <2> QED BY <2>2, <2>5 DEF Keeps
<1>8. ASSUME x # Close, UNCHANGED <<kernel, retry>>, NEW w \in PoolWorkers, task[w] = {},
             task' = [task EXCEPT ![w] = {x}]
      PROVE  Places' /\ Keeps
  <2>1. Elements(retry') = Elements(retry)
    BY <1>8 DEF Elements
  <2>2. Tasks' = Tasks \union {x}
    <3>1. task'[w] = {x} /\ \A v \in PoolWorkers : v # w => task'[v] = task[v]
      BY <1>1, <1>8
    <3> QED BY <1>8, <3>1 DEF Tasks
  <2>3. Pending' = Pending
    BY <1>2, <1>3, <1>4, <1>8, <2>1, <2>2 DEF Pending
  <2>4. Elements(inbox') \intersect (Elements(retry) \union kernel \union Tasks') = {}
    BY <1>1, <1>2, <1>3, <2>2 DEF Places
  <2>5. x \notin Tasks
    BY <1>1, <1>3 DEF Places
  <2>6. \A v, u \in PoolWorkers : v # u => task'[v] \intersect task'[u] = {}
    BY <1>1, <1>8, <2>5 DEF Places, Tasks
  <2>7. Places'
    BY <1>1, <1>2, <1>4, <1>8, <2>1, <2>3, <2>4, <2>6 DEF Places
  <2> QED BY <2>3, <2>7 DEF Keeps
<1> QED BY <1>5, <1>6, <1>7, <1>8


\* A completion port gets the write at once.
LEMMA StartsAtOnce ==
    ASSUME WInv, NEW r \in Writes, r \notin accepted,
           kernel' = kernel \union {r}, accepted' = accepted \union {r},
           UNCHANGED <<inbox, retry, task, left>>
    PROVE  Places' /\ Adds(r)
<1>1. Places /\ r \notin Pending /\ r # Close
  BY WriterAssumption DEF WInv, Places
<1>2. Elements(inbox)' = Elements(inbox) /\ Elements(retry)' = Elements(retry) /\ Tasks' = Tasks
  BY DEF Elements, Tasks
<1>3. Pending' = Pending \union {r}
  BY <1>2 DEF Pending
<1>4. Elements(inbox) \intersect kernel' = {} /\ Elements(retry) \intersect kernel' = {}
  BY <1>1 DEF Places, Pending
<1>5. Places'
  BY <1>1, <1>2, <1>3, <1>4 DEF Places
<1> QED BY <1>3, <1>5 DEF Adds

\* The first of those to be handed in again goes to the kernel.
LEMMA GoesAgain ==
    ASSUME WInv, retry # <<>>, kernel' = kernel \union {Head(retry)}, retry' = Tail(retry),
           UNCHANGED <<inbox, task, left, accepted>>
    PROVE  Places' /\ Keeps
<1> DEFINE x == Head(retry)
<1>1. Places /\ retry \in Seq(Writes) /\ x \in Elements(retry)
  BY ElementsOfTail DEF WInv, WriterTypeOK
<1>2. /\ x \notin Elements(retry') /\ Elements(retry') = Elements(retry) \ {x}
      /\ \A i, j \in 1 .. Len(retry') : retry'[i] = retry'[j] => i = j
  BY <1>1, TailDistinct DEF Places
<1> HIDE DEF x
<1>3. kernel' = kernel \union {x}
  BY DEF x
<1>4. Elements(inbox)' = Elements(inbox) /\ Elements(retry)' = Elements(retry') /\ Tasks' = Tasks
  BY DEF Elements, Tasks
<1>5. Pending' = Pending
  BY <1>1, <1>2, <1>3, <1>4 DEF Pending
<1>6. Elements(inbox) \intersect (Elements(retry') \union kernel' \union Tasks) = {}
      /\ Elements(retry') \intersect kernel' = {}
  BY <1>1, <1>2, <1>3 DEF Places
<1>7. Places'
  BY <1>1, <1>2, <1>4, <1>5, <1>6 DEF Places
<1> QED BY <1>5, <1>7 DEF Keeps

\* A write leaves the kernel.
LEMMA LeavesKernel ==
    ASSUME WInv, NEW r \in kernel, kernel' = kernel \ {r},
           UNCHANGED <<inbox, retry, task, accepted>>
    PROVE  Places' /\ Pending' = Pending \ {r} /\ r \in Pending
<1>1. Places /\ kernel \subseteq Writes
  BY DEF WInv, WriterTypeOK
<1>2. Elements(inbox)' = Elements(inbox) /\ Elements(retry)' = Elements(retry) /\ Tasks' = Tasks
  BY DEF Elements, Tasks
<1>3. r \notin Elements(inbox) /\ r \notin Elements(retry)
  BY <1>1 DEF Places
<1>4. r \notin Tasks
  <2>1. Backend # "pool"
    BY DEF WInv, Machinery
  <2>2. \A w \in PoolWorkers : task[w] = {}
    BY <2>1 DEF WInv, Machinery
  <2> QED BY <2>2 DEF Tasks
<1>5. Pending' = Pending \ {r} /\ r \in Pending
  BY <1>2, <1>3, <1>4 DEF Pending
<1>6. Places'
  BY <1>1, <1>2, <1>5 DEF Places
<1> QED BY <1>5, <1>6

\* A write that came short is to be handed in again.
LEMMA ComesBack ==
    ASSUME WInv, NEW r \in kernel, kernel' = kernel \ {r}, retry' = <<r>> \o retry,
           UNCHANGED <<inbox, task, accepted>>
    PROVE  Places' /\ Pending' = Pending /\ r \in Pending
<1>1. Places /\ kernel \subseteq Writes /\ retry \in Seq(Writes) /\ r \in Writes
  BY DEF WInv, WriterTypeOK
<1>2. /\ Elements(retry') = Elements(retry) \union {r} /\ Len(retry') = Len(retry) + 1
      /\ retry'[1] = r /\ \A k \in 1 .. Len(retry) : retry'[k + 1] = retry[k]
      /\ Len(retry) \in Nat
  BY <1>1, ElementsOfCons
<1>3. Elements(inbox)' = Elements(inbox) /\ Elements(retry)' = Elements(retry') /\ Tasks' = Tasks
  BY DEF Elements, Tasks
<1>4. r \notin Elements(inbox) /\ r \notin Elements(retry)
  BY <1>1 DEF Places
<1>5. Pending' = Pending /\ r \in Pending
  BY <1>2, <1>3 DEF Pending
<1>6. \A i, j \in 1 .. Len(retry') : retry'[i] = retry'[j] => i = j
  <2>1. \A k \in 1 .. Len(retry') : k # 1 => k - 1 \in 1 .. Len(retry) /\ retry'[k] = retry[k - 1]
    <3> TAKE k \in 1 .. Len(retry')
    <3>1. k # 1 => k - 1 \in 1 .. Len(retry) /\ retry'[(k - 1) + 1] = retry[k - 1]
      BY <1>2
    <3> QED BY <3>1, <1>2
  <2>2. \A k \in 1 .. Len(retry) : retry[k] # r
    BY <1>4 DEF Elements
  <2> TAKE i, j \in 1 .. Len(retry')
  <2> HAVE retry'[i] = retry'[j]
  <2>3. CASE i = 1 \/ j = 1
    BY <1>2, <2>1, <2>2, <2>3
  <2>4. CASE i # 1 /\ j # 1
    <3>1. retry[i - 1] = retry[j - 1] /\ i - 1 \in 1 .. Len(retry) /\ j - 1 \in 1 .. Len(retry)
      BY <2>1, <2>4
    <3>2. i - 1 = j - 1
      BY <1>1, <3>1 DEF Places
    <3> QED BY <3>2, <1>2
  <2> QED BY <2>3, <2>4
<1>7. Elements(inbox) \intersect (Elements(retry') \union kernel' \union Tasks) = {}
      /\ Elements(retry') \intersect kernel' = {}
  BY <1>1, <1>2, <1>4 DEF Places
<1>8. Places'
  BY <1>1, <1>3, <1>5, <1>6, <1>7 DEF Places
<1> QED BY <1>5, <1>8

\* A thread of the pool is done with its write.
LEMMA LeavesTask ==
    ASSUME WInv, NEW w \in PoolWorkers, NEW r \in Writes, task[w] = {r},
           task' = [task EXCEPT ![w] = {}],
           UNCHANGED <<inbox, retry, kernel, accepted>>
    PROVE  Places' /\ Pending' = Pending \ {r} /\ r \in Pending
<1>1. Places /\ task \in [PoolWorkers -> SUBSET Writes] /\ r # Close
  BY WriterAssumption DEF WInv, WriterTypeOK
<1>2. Elements(inbox)' = Elements(inbox) /\ Elements(retry)' = Elements(retry)
  BY DEF Elements
<1>3. kernel = {} /\ retry = <<>> /\ r \in Tasks
  <2>1. Backend = "pool"
    <3>1. crew[w] = "write"
      BY DEF WInv, Machinery
    <3> QED BY <3>1 DEF WInv, Machinery
  <2> QED BY <2>1 DEF WInv, Machinery, Tasks
<1>4. Tasks' = Tasks \ {r}
  <2>1. task'[w] = {} /\ \A v \in PoolWorkers : v # w => task'[v] = task[v] /\ r \notin task[v]
    BY <1>1 DEF Places
  <2> QED BY <2>1 DEF Tasks
<1>5. r \notin Elements(inbox) /\ Elements(retry) = {}
  BY <1>1, <1>3, ElementsOfNone DEF Places
<1>6. Pending' = Pending \ {r} /\ r \in Pending
  BY <1>2, <1>3, <1>4, <1>5 DEF Pending
<1>7. \A v, u \in PoolWorkers : v # u => task'[v] \intersect task'[u] = {}
  BY <1>1 DEF Places
<1>8. Places'
  BY <1>1, <1>2, <1>4, <1>6, <1>7 DEF Places
<1> QED BY <1>6, <1>8


\* The closing message comes in last.
LEMMA CloseComesIn ==
    ASSUME WInv, drainer = "close", inbox' = Append(inbox, Close),
           UNCHANGED <<retry, kernel, task, left, accepted>>
    PROVE  Places' /\ Keeps
<1>1. /\ Places /\ inbox \in Seq(Writes \union {Close}) /\ retry \in Seq(Writes)
      /\ kernel \subseteq Writes /\ Close \notin Writes /\ Tasks \subseteq Writes
  BY WriterAssumption DEF WInv, WriterTypeOK, Tasks
<1>2. /\ Elements(inbox') = Elements(inbox) \union {Close} /\ Len(inbox') = Len(inbox) + 1
      /\ inbox'[Len(inbox) + 1] = Close /\ \A k \in 1 .. Len(inbox) : inbox'[k] = inbox[k]
      /\ Len(inbox) \in Nat
  <2>1. Close \in Writes \union {Close} /\ Len(inbox) \in Nat
    BY <1>1
  <2>2. inbox' = inbox \o <<Close>>
    BY <1>1, <2>1, ElementsOfAppend
  <2> QED BY <1>1, <2>1, <2>2, ElementsOfAppend
<1>3. Elements(inbox)' = Elements(inbox') /\ Elements(retry)' = Elements(retry) /\ Tasks' = Tasks
  BY DEF Elements, Tasks
<1>4. \A k \in 1 .. Len(inbox) : inbox[k] # Close
  BY DEF WInv, Closing
<1>5. Pending' = Pending
  BY <1>2, <1>3 DEF Pending
<1>6. \A i, j \in 1 .. Len(inbox') : inbox'[i] = inbox'[j] => i = j
  <2>1. \A k \in 1 .. Len(inbox') : k \in 1 .. Len(inbox) \/ k = Len(inbox) + 1
    BY <1>2
  <2>2. \A i, j \in 1 .. Len(inbox) : inbox[i] = inbox[j] => i = j
    BY <1>1 DEF Places
  <2> QED BY <1>2, <1>4, <2>1, <2>2
<1>7. Elements(retry) \subseteq Writes
  BY <1>1 DEF Elements
<1>8. Elements(inbox') \intersect (Elements(retry) \union kernel \union Tasks) = {}
  BY <1>1, <1>2, <1>7 DEF Places
<1>9. Places'
  BY <1>1, <1>3, <1>5, <1>6, <1>8 DEF Places
<1> QED BY <1>5, <1>9 DEF Keeps

Flow == Keeps \/ \E r \in Writes : Adds(r) \/ Finishes(r) \/ Loses(r) \/ Parts(r)

LEMMA PlacesStep ==
    ASSUME WInv, WriterNext
    PROVE  Places' /\ Flow
<1>0. /\ Places /\ inbox \in Seq(Writes \union {Close}) /\ left \in [Writes -> Nat]
      /\ kernel \subseteq Writes /\ retry \in Seq(Writes)
  BY DEF WInv, WriterTypeOK
<1>1. CASE UNCHANGED <<inbox, retry, kernel, task, left, accepted>>
  BY <1>0, <1>1, NothingMoves DEF Flow
<1> DEFINE Same == UNCHANGED <<inbox, retry, kernel, task, left, accepted>>
<1>2. ASSUME NEW t \in Clients, SubmitFresh(t) \/ SubmitCheck(t) \/ Return(t)
      PROVE  Same
  BY <1>2 DEF SubmitFresh, Submit, SubmitCheck, TakeError, Return, ringVars, engineVars,
     poolVars, clientVars
<1>3. ASSUME NEW t \in Clients, SubmitGate(t)
      PROVE  Same \/ (Places' /\ Flow)
  <2>1. CASE Count(t) /\ Backend = "pool"
    <3>1. PICK r \in Writes : request[t] = {r} /\ (CHOOSE x \in request[t] : TRUE) = r
      BY <1>3, TheRequest DEF SubmitGate
    <3>2. r \notin accepted
      BY <1>3, <3>1 DEF SubmitGate, WInv, Requests
    <3>3. inbox' = inbox \o <<r>> /\ accepted' = accepted \union {r}
      BY <2>1, <3>1 DEF Count
    <3>4. UNCHANGED <<retry, kernel, task, left>>
      BY <2>1 DEF Count, engineVars, poolVars
    <3> QED BY <3>2, <3>3, <3>4, ComesIn DEF Flow
  <2>2. CASE Count(t) /\ Backend # "pool"
    BY <2>2 DEF Count, engineVars, poolVars
  <2>3. CASE ~Count(t)
    BY <1>3, <2>3 DEF SubmitGate, TakeError, ringVars, engineVars, poolVars, clientVars
  <2> QED BY <2>1, <2>2, <2>3
<1>4. ASSUME NEW t \in Clients, RingSend(t)
      PROVE  Same \/ (Places' /\ Flow)
  <2>1. CASE sender /\ engine # "gone"
    <3>1. PICK r \in Writes : request[t] = {r} /\ (CHOOSE x \in request[t] : TRUE) = r
      BY <1>4, TheRequest DEF RingSend
    <3>2. r \notin accepted
      BY <1>4, <3>1 DEF RingSend, WInv, Requests
    <3>3. inbox' = inbox \o <<r>> /\ accepted' = accepted \union {r}
      BY <1>4, <2>1, <3>1 DEF RingSend
    <3>4. UNCHANGED <<retry, kernel, task, left>>
      BY <1>4 DEF RingSend, engineVars, poolVars
    <3> QED BY <3>2, <3>3, <3>4, ComesIn DEF Flow
  <2>2. CASE ~(sender /\ engine # "gone")
    BY <1>4, <2>2 DEF RingSend, engineVars, poolVars
  <2> QED BY <2>1, <2>2
<1>5. ASSUME NEW t \in Clients, IocpSend(t)
      PROVE  Same \/ (Places' /\ Flow)
  <2>1. CASE kernel' = kernel \union request[t] /\ accepted' = accepted \union request[t]
    <3>1. PICK r \in Writes : request[t] = {r}
      BY <1>5, TheRequest DEF IocpSend
    <3>2. r \notin accepted
      BY <1>5, <3>1 DEF IocpSend, WInv, Requests
    <3>3. UNCHANGED <<inbox, retry, task, left>>
      BY <1>5 DEF IocpSend, ringVars, poolVars
    <3> QED BY <2>1, <3>1, <3>2, <3>3, StartsAtOnce DEF Flow
  <2>2. CASE UNCHANGED <<kernel, accepted>>
    BY <1>5, <2>2 DEF IocpSend, ringVars, poolVars
  <2> QED BY <1>5, <2>1, <2>2 DEF IocpSend
<1>6. CASE DrainQuiet \/ WriterSpurious \/ RingCreate \/ RingFull \/ RingFails \/ RingStops
           \/ IocpPacket \/ IocpClose \/ PoolClose \/ DrainWait \/ DrainJoin \/ DrainCheck
  <2>1. Same
    BY <1>6 DEF DrainQuiet, Drain, WriterSpurious, RingCreate, RingFull, RingFails, RingStops,
       IocpPacket, IocpClose, PoolClose, DrainWait, DrainJoin, DrainCheck, ringVars, engineVars,
       poolVars, clientVars
  <2> QED BY <1>1, <2>1
<1>7. CASE RingFill
  <2>0. UNCHANGED <<task, left, accepted>>
    BY <1>7 DEF RingFill, poolVars, clientVars
  <2>1. CASE retry # <<>>
    <3>1. kernel' = kernel \union {Head(retry)} /\ retry' = Tail(retry) /\ inbox' = inbox
      BY <1>7, <2>1 DEF RingFill
    <3> QED BY <2>0, <2>1, <3>1, GoesAgain DEF Flow
  <2>2. CASE /\ inbox # <<>> /\ inbox' = Tail(inbox) /\ retry' = retry
             /\ IF Head(inbox) = Close THEN kernel' = kernel
                ELSE kernel' = kernel \union {Head(inbox)}
    BY <2>0, <2>2, HeadMoves DEF Flow
  <2>3. CASE UNCHANGED <<inbox, retry, kernel>>
    BY <1>1, <2>0, <2>3
  <2> QED BY <1>7, <2>1, <2>2, <2>3 DEF RingFill
<1>8. CASE RingIdle
  <2>1. inbox # <<>> /\ inbox' = Tail(inbox) /\ UNCHANGED <<kernel, task, left, accepted>>
    BY <1>8 DEF RingIdle, poolVars, clientVars
  <2>2. retry = <<>>
    BY <1>8, Backends DEF RingIdle, WInv, Machinery
  <2>3. IF Head(inbox) = Close THEN retry' = retry ELSE retry' = <<Head(inbox)>>
    <3>1. Head(inbox) # Close => retry' = Append(retry, Head(inbox))
      BY <1>8 DEF RingIdle
    <3>2. Append(<<>>, Head(inbox)) = <<Head(inbox)>>
      OBVIOUS
    <3> QED BY <1>8, <2>2, <3>1, <3>2 DEF RingIdle
  <2> QED BY <2>1, <2>2, <2>3, HeadMoves DEF Flow
<1>9. ASSUME NEW r \in Writes, RingComplete(r)
      PROVE  Places' /\ Flow
  <2>1. r \in kernel /\ kernel' = kernel \ {r} /\ UNCHANGED <<inbox, task, accepted>>
    BY <1>9 DEF RingComplete, poolVars, clientVars
  <2>2. PICK n \in 1 .. left[r] : /\ n < left[r] => MayFail("short")
                                  /\ Complete(r, n) /\ left' = [left EXCEPT ![r] = @ - n]
    BY <1>9 DEF RingComplete
  <2>3. CASE n = left[r]
    <3>1. retry' = retry
      BY <2>2, <2>3 DEF Complete
    <3>2. Places' /\ Pending' = Pending \ {r} /\ r \in Pending
      BY <2>1, <3>1, LeavesKernel
    <3>3. left[r] - n = 0
      BY <1>0, <2>3
    <3>4. left' = [left EXCEPT ![r] = 0]
      BY <2>2, <3>3
    <3> QED BY <2>1, <3>2, <3>4 DEF Flow, Finishes
  <2>4. CASE n # left[r]
    <3>1. retry' = <<r>> \o retry /\ n < left[r]
      BY <1>0, <2>2, <2>4 DEF Complete
    <3>2. Places' /\ Pending' = Pending /\ r \in Pending
      BY <2>1, <3>1, ComesBack
    <3> QED BY <2>1, <2>2, <3>1, <3>2 DEF Flow, Parts
  <2> QED BY <2>3, <2>4
<1>10. ASSUME NEW r \in Writes, IocpComplete(r)
       PROVE  Places' /\ Flow
  <2>1. r \in kernel /\ kernel' = kernel \ {r} /\ UNCHANGED <<inbox, retry, task, accepted>>
    BY <1>10 DEF IocpComplete, ringVars, poolVars, clientVars
  <2>2. Places' /\ Pending' = Pending \ {r} /\ r \in Pending
    BY <2>1, LeavesKernel
  <2>3. left' = [left EXCEPT ![r] = 0] \/ (left' = left /\ slot' = TRUE /\ stopped' = TRUE)
    BY <1>10 DEF IocpComplete
  <2> QED BY <2>1, <2>2, <2>3 DEF Flow, Finishes, Loses, Failed
<1>11. ASSUME NEW w \in PoolWorkers, Pool(w)
       PROVE  Places' /\ Flow
  <2>1. CASE PoolPop(w)
    <3>1. /\ inbox # <<>> /\ inbox' = Tail(inbox) /\ task' = [task EXCEPT ![w] = {Head(inbox)}]
          /\ UNCHANGED <<retry, kernel, left, accepted>> /\ crew[w] = "loop"
      BY <2>1 DEF PoolPop, engineVars, clientVars
    <3>2. task[w] = {}
      BY <3>1 DEF WInv, Machinery
    <3>3. Head(inbox) # Close
      <4>1. Head(inbox) = inbox[1] /\ 1 \in 1 .. Len(inbox)
        BY <1>0, <3>1, ElementsOfTail
      <4>2. Backend = "pool"
        BY <1>11 DEF Pool
      <4> QED BY <4>1, <4>2 DEF WInv, Closing
    <3> QED BY <3>1, <3>2, <3>3, HeadMoves DEF Flow
  <2>2. CASE PoolLeave(w) \/ PoolSleep(w)
    <3>1. Same
      BY <2>2 DEF PoolLeave, PoolSleep, ringVars, engineVars, poolVars, clientVars
    <3> QED BY <1>1, <3>1
  <2>3. CASE PoolWrite(w)
    <3>1. PICK r \in Writes : task[w] = {r}
      BY <2>3, TheTask DEF PoolWrite
    <3>2. task' = [task EXCEPT ![w] = {}] /\ UNCHANGED <<inbox, retry, kernel, accepted>>
      BY <2>3 DEF PoolWrite, ringVars, clientVars
    <3>3. Places' /\ Pending' = Pending \ {r} /\ r \in Pending
      BY <3>1, <3>2, LeavesTask
    <3>4. CASE left' = left /\ slot' = TRUE /\ stopped' = TRUE
      BY <3>2, <3>3, <3>4 DEF Flow, Loses, Failed
    <3>5. CASE left' = [q \in Writes |-> IF q \in task[w] THEN 0 ELSE left[q]]
      <4>1. left' = [left EXCEPT ![r] = 0]
        BY <1>0, <3>1, <3>5
      <4> QED BY <3>2, <3>3, <4>1 DEF Flow, Finishes
    <3> QED BY <2>3, <3>4, <3>5 DEF PoolWrite
  <2> QED BY <1>11, <2>1, <2>2, <2>3 DEF Pool
<1>12. CASE RingClose
  <2>1. drainer = "close" /\ UNCHANGED <<retry, kernel, task, left, accepted>>
        /\ (inbox' = inbox \/ inbox' = Append(inbox, Close))
    BY <1>12 DEF RingClose, engineVars, poolVars, clientVars
  <2>2. CASE inbox' = inbox
    BY <1>1, <2>1, <2>2
  <2>3. CASE inbox' = Append(inbox, Close)
    BY <2>1, <2>3, CloseComesIn DEF Flow
  <2> QED BY <2>1, <2>2, <2>3
<1> HIDE DEF Same
<1>13. Same => Places' /\ Flow
  BY <1>1 DEF Same
<1> QED BY <1>2, <1>3, <1>4, <1>5, <1>6, <1>7, <1>8, <1>9, <1>10, <1>11, <1>12, <1>13
        DEF WriterNext, WriterInternal, Client, Ring, Iocp, Draining


LEMMA ContentsStep ==
    ASSUME WInv, WriterNext
    PROVE  Contents'
<1>0. /\ Contents /\ left \in [Writes -> Nat] /\ accepted \subseteq Writes /\ Pending \subseteq accepted
      /\ (MayFail("short"))' = MayFail("short") /\ (Failed => Failed')
      /\ \A r \in Writes : Size[r] \in Nat /\ Size[r] > 0
  BY SetupFrame, FailedStep, SizeType DEF WInv, WriterTypeOK, Places, MayFail
<1>1. Flow
  BY PlacesStep
<1>2. CASE Keeps
  BY <1>0, <1>2 DEF Keeps, Contents
<1>3. ASSUME NEW r \in Writes, Adds(r)
      PROVE  Contents'
  <2>1. left[r] = Size[r]
    BY <1>0, <1>3 DEF Adds, Contents
  <2> QED BY <1>0, <1>3, <2>1 DEF Adds, Contents
<1>4. ASSUME NEW r \in Writes, Finishes(r)
      PROVE  Contents'
  <2>1. /\ Pending' = Pending \ {r} /\ accepted' = accepted /\ r \in accepted
        /\ left'[r] = 0 /\ \A q \in Writes : q # r => left'[q] = left[q]
    BY <1>0, <1>4 DEF Finishes
  <2> QED BY <1>0, <2>1 DEF Contents
<1>5. ASSUME NEW r \in Writes, Loses(r)
      PROVE  Contents'
  <2>1. Pending' = Pending \ {r} /\ accepted' = accepted /\ r \in accepted /\ left' = left /\ Failed'
    BY <1>0, <1>5 DEF Loses
  <2> QED BY <1>0, <2>1 DEF Contents
<1>6. ASSUME NEW r \in Writes, Parts(r)
      PROVE  Contents'
  <2>1. PICK n \in 1 .. left[r] : n < left[r] /\ left' = [left EXCEPT ![r] = @ - n]
    BY <1>6 DEF Parts
  <2>2. /\ Pending' = Pending /\ accepted' = accepted /\ r \in accepted /\ MayFail("short")
        /\ \A q \in Writes : q # r => left'[q] = left[q]
    BY <1>0, <1>6, <2>1 DEF Parts
  <2>3. left'[r] = left[r] - n /\ left'[r] > 0 /\ left'[r] <= left[r] /\ left[r] <= Size[r]
        /\ left[r] \in Nat /\ left'[r] \in Nat
    BY <1>0, <2>1 DEF Contents
  <2>4. \A q \in Writes : left'[q] <= Size[q]
    BY <1>0, <2>2, <2>3 DEF Contents
  <2>5. \A q \in accepted \ Pending : q # r
    BY <1>6 DEF Parts
  <2>6. \A q \in accepted' \ Pending' : left'[q] = 0 \/ Failed'
    BY <1>0, <2>2, <2>5 DEF Contents
  <2>7. \A q \in Writes : q \notin accepted' => left'[q] = Size[q]
    BY <1>0, <2>2 DEF Contents
  <2>8. \A q \in Pending' : left'[q] > 0
    BY <1>0, <2>2, <2>3 DEF Contents
  <2> QED BY <1>0, <2>2, <2>4, <2>6, <2>7, <2>8 DEF Contents
<1> QED BY <1>1, <1>2, <1>3, <1>4, <1>5, <1>6 DEF Flow

\* While a drain is on its way nothing comes in.
LEMMA DrainFrame ==
    ASSUME WInv, WriterNext, drainer # "out"
    PROVE  /\ WriterInternal /\ \A t \in Clients : client[t] = "out"
           /\ Sending = {} /\ Counted = Pending /\ Counted' = Pending'
           /\ Pending' \subseteq Pending /\ drainer' # "out"
           /\ drainer # "close" => drainer' # "close"
<1>1. \A t \in Clients : client[t] = "out"
  BY DEF WInv, Requests
<1>2. WriterInternal
  BY <1>1 DEF WriterNext, SubmitFresh, Client, SubmitCheck, SubmitGate, RingSend, IocpSend, Return,
     DrainQuiet, Drain
<1>3. UNCHANGED <<client, request, accepted>> /\ drainer' # "out"
  BY <1>2, InternalFrame, DrainerFrame
<1>4. Pending' \subseteq Pending
  BY <1>3, PlacesStep DEF Flow, Keeps, Adds, Finishes, Loses, Parts
<1>5. Sending = {} /\ Sending' = {}
  BY <1>1, <1>3 DEF Sending
<1>6. drainer # "close" => drainer' # "close"
  BY <1>2 DEF WriterInternal, Ring, Iocp, Pool, Draining, RingCreate, RingFill, RingFull,
     RingIdle, RingFails, RingStops, RingComplete, IocpComplete, IocpPacket, PoolPop, PoolLeave,
     PoolSleep, PoolWrite, RingClose, IocpClose, PoolClose, DrainWait, DrainJoin, DrainCheck,
     WriterSpurious
<1> QED BY <1>1, <1>2, <1>3, <1>4, <1>5, <1>6 DEF Counted

LEMMA ClosingStep ==
    ASSUME WInv, WriterNext
    PROVE  Closing'
<1>0. /\ Closing /\ inbox \in Seq(Writes \union {Close}) /\ Close \notin Writes /\ Backend' = Backend
      /\ (drainer \notin {"out", "close"} => drainer' \notin {"out", "close"})
  <2>1. drainer \notin {"out", "close"} => drainer' \notin {"out", "close"}
    BY DrainFrame
  <2> QED BY <2>1, SetupFrame, WriterAssumption DEF WInv, WriterTypeOK, Backend
<1>1. ASSUME UNCHANGED <<sender, closed, closing, inbox>>
      PROVE  Closing'
  BY <1>0, <1>1 DEF Closing
<1>2. ASSUME NEW r \in Writes, inbox' = inbox \o <<r>>, drainer = "out",
             UNCHANGED <<sender, closed, closing, drainer>>
      PROVE  Closing'
  <2>1. \A k \in 1 .. Len(inbox) : inbox[k] # Close
    BY <1>0, <1>2 DEF Closing
  <2>2. /\ Len(inbox') = Len(inbox) + 1 /\ inbox'[Len(inbox) + 1] = r
        /\ \A k \in 1 .. Len(inbox) : inbox'[k] = inbox[k]
        /\ Len(inbox) \in Nat
    BY <1>0, <1>2, ElementsOfAppend
  <2>3. \A k \in 1 .. Len(inbox') : inbox'[k] # Close
    BY <1>0, <2>1, <2>2
  <2> QED BY <1>0, <1>2, <2>3 DEF Closing
<1>3. ASSUME inbox # <<>>, inbox' = Tail(inbox), UNCHANGED <<sender, closed, drainer>>,
             IF Head(inbox) = Close THEN closing' = TRUE ELSE closing' = closing
      PROVE  Closing'
  <2>1. /\ Head(inbox) = inbox[1] /\ Len(inbox') = Len(inbox) - 1 /\ Len(inbox) \in Nat \ {0}
        /\ \A k \in 1 .. Len(inbox') : k + 1 \in 1 .. Len(inbox) /\ inbox'[k] = inbox[k + 1]
        /\ inbox' \in Seq(Writes \union {Close})
    BY <1>0, <1>3, ElementsOfTail
  <2>2. ~closing
    BY <1>0, <1>3 DEF Closing
  <2>3. \A k \in 1 .. Len(inbox') : inbox'[k] = Close =>
           k = Len(inbox') /\ Backend = "ring" /\ drainer \notin {"out", "close"}
    <3> TAKE k \in 1 .. Len(inbox')
    <3> HAVE inbox'[k] = Close
    <3>1. k + 1 \in 1 .. Len(inbox) /\ inbox[k + 1] = Close /\ k \in Nat
      BY <2>1
    <3>2. k + 1 = Len(inbox) /\ Backend = "ring" /\ drainer \notin {"out", "close"}
      BY <1>0, <3>1 DEF Closing
    <3> QED BY <2>1, <3>1, <3>2
  <2>4. CASE Head(inbox) = Close
    <3>1. 1 \in 1 .. Len(inbox) /\ inbox[1] = Close
      BY <2>1, <2>4
    <3>2. 1 = Len(inbox) /\ drainer \notin {"out", "close"}
      BY <1>0, <3>1 DEF Closing
    <3>3. inbox' = <<>>
      BY <2>1, <3>2
    <3> QED BY <1>0, <1>3, <2>3, <2>4, <3>2, <3>3 DEF Closing
  <2>5. CASE Head(inbox) # Close
    BY <1>0, <1>3, <2>2, <2>3, <2>5 DEF Closing
  <2> QED BY <2>4, <2>5
<1>4. ASSUME NEW t \in Clients, SubmitFresh(t) \/ Client(t) \/ Return(t)
      PROVE  Closing'
  <2>1. CASE inbox' = inbox
    <3>1. UNCHANGED <<sender, closed, closing>>
      BY <1>4 DEF SubmitFresh, Submit, Client, SubmitCheck, SubmitGate, TakeError, Count, RingSend,
         IocpSend, Uncount, Return, gateVars, ringVars
    <3> QED BY <1>1, <2>1, <3>1
  <2>2. CASE inbox' # inbox
    <3>1. /\ Client(t) /\ inbox' = inbox \o <<CHOOSE r \in request[t] : TRUE>>
          /\ UNCHANGED <<sender, closed, closing, drainer>> /\ client[t] # "out"
      <4>1. CASE RingSend(t)
        BY <2>2, <4>1 DEF Client, RingSend, gateVars
      <4>2. CASE SubmitGate(t)
        BY <2>2, <4>2 DEF Client, SubmitGate, TakeError, Count, gateVars, ringVars
      <4>3. CASE SubmitFresh(t) \/ SubmitCheck(t) \/ IocpSend(t) \/ Return(t)
        BY <2>2, <4>3 DEF SubmitFresh, Submit, SubmitCheck, TakeError, IocpSend, Return, ringVars
      <4> QED BY <1>4, <4>1, <4>2, <4>3 DEF Client
    <3>2. PICK r \in Writes : (CHOOSE x \in request[t] : TRUE) = r
      BY <3>1, TheRequest
    <3>3. drainer = "out"
      BY <3>1 DEF WInv, Requests
    <3> QED BY <1>2, <3>1, <3>2, <3>3
  <2> QED BY <2>1, <2>2
<1>5. CASE DrainQuiet
  <2>1. drainer = "out" /\ drainer' = "close" /\ UNCHANGED <<sender, closed, closing, inbox>>
    BY <1>5 DEF DrainQuiet, Drain, gateVars, ringVars
  <2> QED BY <1>1, <2>1
<1>6. CASE RingCreate \/ RingFull \/ RingFails \/ RingStops \/ Iocp \/ WriterSpurious
           \/ DrainWait \/ DrainJoin \/ DrainCheck \/ \E r \in Writes : RingComplete(r)
  <2>1. UNCHANGED <<sender, closed, closing, inbox>>
    BY <1>6 DEF RingCreate, RingFull, RingFails, RingStops, Iocp, IocpPacket, IocpComplete,
       WriterSpurious, DrainWait, DrainJoin, DrainCheck, RingComplete, Complete, Uncount,
       gateVars, ringVars
  <2> QED BY <1>1, <2>1
<1>7. CASE RingFill
  <2>1. UNCHANGED <<sender, closed, drainer>>
    BY <1>7 DEF RingFill, gateVars
  <2>2. CASE inbox' = inbox /\ closing' = closing
    BY <1>1, <2>1, <2>2
  <2>3. CASE /\ inbox # <<>> /\ inbox' = Tail(inbox)
             /\ IF Head(inbox) = Close THEN closing' = TRUE ELSE closing' = closing
    BY <1>3, <2>1, <2>3
  <2> QED BY <1>7, <2>2, <2>3 DEF RingFill
<1>8. CASE RingIdle
  BY <1>3, <1>8 DEF RingIdle, gateVars
<1>9. ASSUME NEW w \in PoolWorkers, Pool(w)
      PROVE  Closing'
  <2>1. CASE PoolPop(w)
    <3>1. inbox # <<>> /\ inbox' = Tail(inbox) /\ UNCHANGED <<sender, closed, closing, drainer>>
      BY <2>1 DEF PoolPop, gateVars
    <3>2. Head(inbox) # Close
      <4>1. Head(inbox) = inbox[1] /\ 1 \in 1 .. Len(inbox)
        BY <1>0, <3>1, ElementsOfTail
      <4>2. Backend = "pool"
        BY <1>9 DEF Pool
      <4> QED BY <1>0, <4>1, <4>2 DEF Closing
    <3> QED BY <1>3, <3>1, <3>2
  <2>2. CASE PoolLeave(w) \/ PoolSleep(w) \/ PoolWrite(w)
    <3>1. UNCHANGED <<sender, closed, closing, inbox>>
      BY <2>2 DEF PoolLeave, PoolSleep, PoolWrite, gateVars, ringVars
    <3> QED BY <1>1, <3>1
  <2> QED BY <1>9, <2>1, <2>2 DEF Pool
<1>10. CASE RingClose
  <2>1. drainer = "close" /\ drainer' = "wait" /\ Backend = "ring" /\ closing' = closing
    BY <1>10 DEF RingClose
  <2>2. \A k \in 1 .. Len(inbox) : inbox[k] # Close
    BY <1>0, <2>1 DEF Closing
  <2>3. ~closing
    BY <1>0, <2>1 DEF Closing
  <2>4. CASE inbox' = inbox
    BY <1>0, <2>1, <2>2, <2>3, <2>4 DEF Closing
  <2>5. CASE inbox' = Append(inbox, Close)
    <3>1. /\ Len(inbox') = Len(inbox) + 1 /\ Len(inbox) \in Nat
          /\ \A k \in 1 .. Len(inbox) : inbox'[k] = inbox[k]
      <4>1. Close \in Writes \union {Close}
        OBVIOUS
      <4>2. Append(inbox, Close) = inbox \o <<Close>> /\ Len(inbox) \in Nat
        BY <1>0, <4>1, ElementsOfAppend
      <4> QED BY <1>0, <2>5, <4>1, <4>2, ElementsOfAppend
    <3>2. \A k \in 1 .. Len(inbox') : inbox'[k] = Close => k = Len(inbox')
      <4>1. \A k \in 1 .. Len(inbox') : k \in 1 .. Len(inbox) \/ k = Len(inbox')
        BY <3>1
      <4> QED BY <2>2, <3>1, <4>1
    <3> QED BY <1>0, <2>1, <2>3, <3>2 DEF Closing
  <2> QED BY <1>10, <2>4, <2>5 DEF RingClose
<1>11. CASE IocpClose \/ PoolClose
  <2>1. drainer = "close" /\ drainer' = "wait" /\ UNCHANGED <<sender, closing, inbox>>
    BY <1>11 DEF IocpClose, PoolClose, ringVars
  <2> QED BY <1>0, <2>1 DEF Closing
<1> QED BY <1>4, <1>5, <1>6, <1>7, <1>8, <1>9, <1>10, <1>11
        DEF WriterNext, WriterInternal, Ring, Draining

--------------------------------------------------------------------------------
(* What is counted.                                                            *)

\* The writes that are counted are some of the writes.
LEMMA CountedFinite ==
    ASSUME WInv
    PROVE  /\ Counted \in SUBSET Writes /\ IsFiniteSet(Counted)
           /\ Cardinality(Counted) \in Nat /\ (Cardinality(Counted) = 0 <=> Counted = {})
           /\ Sending \intersect accepted = {} /\ Sending \intersect Pending = {}
<1>1. WriterTypeOK
  BY DEF WInv
<1>2. Sending \subseteq Writes /\ Tasks \subseteq Writes
  BY <1>1 DEF Sending, Tasks, WriterTypeOK
<1>3. Pending \subseteq accepted /\ accepted \subseteq Writes
  BY <1>1 DEF WInv, Places, WriterTypeOK
<1>4. Counted \in SUBSET Writes
  BY <1>2, <1>3 DEF Counted
<1>5. IsFiniteSet(Counted)
  BY <1>4, FS_Subset, WriterAssumption
<1>6. Sending \intersect accepted = {}
  BY DEF WInv, Requests, Sending
<1> QED BY <1>3, <1>4, <1>5, <1>6, FS_CardinalityType, FS_EmptySet

LEMMA StoppingStep ==
    ASSUME WInv, WriterNext
    PROVE  Stopping'
<1>0. Stopping /\ (Failed => Failed') /\ engine \in {"create", "fill", "idle", "reap", "fail", "gone"}
      /\ stopped \in BOOLEAN
  BY FailedStep DEF WInv, WriterTypeOK
<1>1. stopped' => stopped \/ Failed'
  <2>1. stopped' = stopped \/ engine = "fail" \/ slot' = TRUE
    <3>1. ASSUME NEW t \in Clients, SubmitFresh(t) \/ Client(t) \/ Return(t)
          PROVE  stopped' = stopped
      BY <3>1 DEF SubmitFresh, Submit, Client, SubmitCheck, SubmitGate, TakeError, Count, RingSend,
         IocpSend, Uncount, Return, gateVars
    <3>2. CASE DrainQuiet \/ WriterSpurious \/ Draining
      BY <3>2 DEF DrainQuiet, Drain, WriterSpurious, Draining, RingClose, IocpClose, PoolClose,
         DrainWait, DrainJoin, DrainCheck, gateVars
    <3>3. CASE Ring \/ Iocp
      BY <3>3 DEF Ring, Iocp, RingCreate, RingFill, RingFull, RingIdle, RingFails, RingStops,
         RingComplete, Complete, Uncount, IocpComplete, IocpPacket, gateVars
    <3>4. ASSUME NEW w \in PoolWorkers, Pool(w)
          PROVE  stopped' = stopped \/ slot' = TRUE
      BY <3>4 DEF Pool, PoolPop, PoolLeave, PoolSleep, PoolWrite, gateVars
    <3> QED BY <3>1, <3>2, <3>3, <3>4 DEF WriterNext, WriterInternal
  <2>2. slot' = TRUE => Failed'
    BY DEF Failed
  <2> QED BY <1>0, <2>1, <2>2 DEF Stopping
<1>2. ASSUME engine' # engine, engine' \in {"fail", "gone"}
      PROVE  RingCreate \/ RingFill \/ RingFails \/ RingStops \/ IocpPacket
  <2>1. ASSUME NEW t \in Clients, SubmitFresh(t) \/ Client(t) \/ Return(t)
        PROVE  engine' = engine
    BY <2>1 DEF SubmitFresh, Submit, Client, SubmitCheck, SubmitGate, TakeError, Count, RingSend,
       IocpSend, Return, engineVars
  <2>2. CASE DrainQuiet \/ WriterSpurious \/ Draining
    BY <1>2, <2>2 DEF DrainQuiet, Drain, WriterSpurious, Draining, RingClose, IocpClose, PoolClose,
       DrainWait, DrainJoin, DrainCheck, engineVars
  <2>3. CASE Ring \/ Iocp
    BY <1>2, <2>3 DEF Ring, Iocp, RingFull, RingIdle, RingComplete, IocpComplete
  <2>4. ASSUME NEW w \in PoolWorkers, Pool(w)
        PROVE  engine' = engine
    BY <2>4 DEF Pool, PoolPop, PoolLeave, PoolSleep, PoolWrite, engineVars
  <2> QED BY <1>2, <2>1, <2>2, <2>3, <2>4 DEF WriterNext, WriterInternal
<1>3. engine' = "fail" => Failed'
  <2>1. engine' = "fail" /\ engine # "fail" => slot' = TRUE
    BY <1>2 DEF RingCreate, RingFill, RingFails, RingStops, IocpPacket
  <2> QED BY <1>0, <2>1 DEF Stopping, Failed
<1>4. ASSUME drainer \notin {"out", "close"}, Counted = {}
      PROVE  Counted' = {} /\ drainer' \notin {"out", "close"}
  BY <1>4, DrainFrame
<1>5. ~stopped /\ engine \notin {"fail", "gone"} /\ Backend # "pool" /\ inflight_ops = 0 =>
         Counted = {}
  BY CountedFinite DEF WInv, Exact
<1>6. ASSUME engine' = "gone"
      PROVE  Failed' \/ (Counted' = {} /\ drainer' \notin {"out", "close"})
  <2>1. CASE engine = "gone"
    BY <1>0, <1>4, <2>1 DEF Stopping
  <2>2. CASE engine # "gone" /\ RingCreate
    BY <1>6, <2>2 DEF RingCreate, Failed
  <2>3. CASE engine # "gone" /\ RingFill
    <3>1. engine = "fill" /\ retry = <<>> /\ closing /\ kernel = {}
      BY <1>6, <2>3 DEF RingFill
    <3>2. drainer \notin {"out", "close"} /\ inbox = <<>>
      BY <3>1 DEF WInv, Closing
    <3>3. Tasks = {}
      BY <3>1, Backends DEF WInv, Machinery, Tasks
    <3>4. Pending = {}
      BY <3>1, <3>2, <3>3, ElementsOfNone DEF Pending
    <3>5. Counted = {}
      BY <3>2, <3>4, DrainFrame
    <3> QED BY <1>4, <3>2, <3>5
  <2>4. CASE engine # "gone" /\ RingFails
    BY <1>6, <2>4 DEF RingFails
  <2>5. CASE engine # "gone" /\ RingStops
    BY <1>0, <2>5 DEF RingStops, Stopping
  <2>6. CASE engine # "gone" /\ IocpPacket
    <3>1. Backend = "iocp" /\ closed /\ inflight_ops = 0 /\ engine = "reap"
      BY <1>6, <2>6 DEF IocpPacket
    <3>2. drainer \notin {"out", "close"}
      BY <3>1 DEF WInv, Closing
    <3>3. CASE stopped
      BY <1>0, <3>3 DEF Stopping
    <3>4. CASE ~stopped
      BY <1>0, <1>4, <1>5, <3>1, <3>2, <3>4
    <3> QED BY <3>3, <3>4
  <2> QED BY <1>2, <1>6, <2>1, <2>2, <2>3, <2>4, <2>5, <2>6
<1>7. ASSUME drainer' \in {"join", "check"}
      PROVE  Failed' \/ Counted' = {}
  <2>1. CASE drainer \in {"join", "check"}
    BY <1>0, <1>4, <2>1 DEF Stopping
  <2>2. CASE drainer \notin {"join", "check"}
    <3>1. DrainWait
      <4>1. drainer' # drainer
        BY <1>7, <2>2
      <4>2. drainer # "out"
        BY <1>7, <4>1, DrainerFrame, InternalFrame DEF WriterNext, SubmitFresh, Submit, Client,
           SubmitCheck, SubmitGate, TakeError, Count, RingSend, IocpSend, Return, DrainQuiet, Drain
      <4>3. WriterInternal
        BY <4>2, DrainFrame
      <4> QED BY <1>7, <2>2, <4>1, <4>3 DEF WriterInternal, Ring, Iocp, Pool, Draining, RingCreate,
         RingFill, RingFull, RingIdle, RingFails, RingStops, RingComplete, IocpComplete, IocpPacket,
         PoolPop, PoolLeave, PoolSleep, PoolWrite, RingClose, IocpClose, PoolClose, DrainJoin,
         DrainCheck, WriterSpurious
    <3>2. drainer = "wait" /\ (Drained \/ stopped)
      BY <1>7, <3>1 DEF DrainWait
    <3>3. CASE stopped
      BY <1>0, <3>3 DEF Stopping
    <3>4. CASE ~stopped /\ Drained /\ Backend = "pool"
      <4>1. inbox = <<>> /\ \A w \in PoolWorkers : crew[w] = "gone"
        BY <3>4 DEF Drained
      <4>2. Tasks = {} /\ retry = <<>> /\ kernel = {}
        BY <3>4, <4>1 DEF WInv, Machinery, Tasks
      <4>3. Pending = {}
        BY <4>1, <4>2, ElementsOfNone DEF Pending
      <4>4. Counted = {}
        BY <3>2, <4>3, DrainFrame
      <4> QED BY <1>4, <3>2, <4>4
    <3>5. CASE ~stopped /\ Drained /\ Backend # "pool"
      <4>1. inflight_ops = 0
        BY <3>5 DEF Drained
      <4>2. engine \in {"fail", "gone"} => Failed \/ Counted = {}
        BY <1>0 DEF Stopping
      <4> QED BY <1>0, <1>4, <1>5, <3>2, <3>5, <4>1, <4>2
    <3> QED BY <3>2, <3>3, <3>4, <3>5
  <2> QED BY <2>1, <2>2
<1>8. ASSUME drainer' = "ok"
      PROVE  told' \/ \A r \in accepted' : left'[r] = 0
  <2>0. Contents /\ left \in [Writes -> Nat] /\ accepted \subseteq Writes /\ Pending \subseteq accepted
    BY DEF WInv, WriterTypeOK, Places
  <2>1. CASE drainer = "ok"
    <3>1. accepted' = accepted /\ told' = told
      <4>1. WriterInternal
        BY <2>1, DrainFrame
      <4> QED BY <4>1 DEF WriterInternal, Ring, Iocp, Pool, Draining, RingCreate, RingFill, RingFull,
         RingIdle, RingFails, RingStops, RingComplete, IocpComplete, IocpPacket, PoolPop, PoolLeave,
         PoolSleep, PoolWrite, RingClose, IocpClose, PoolClose, DrainWait, DrainJoin, DrainCheck,
         WriterSpurious, clientVars
    <3>2. CASE told
      BY <3>1, <3>2
    <3>3. CASE \A r \in accepted : left[r] = 0
      <4>1. Pending = {}
        BY <2>0, <3>3 DEF Contents
      <4>2. Keeps
        BY <3>1, <4>1, PlacesStep DEF Flow, Adds, Finishes, Loses, Parts
      <4> QED BY <3>1, <3>3, <4>2 DEF Keeps
    <3> QED BY <1>0, <2>1, <3>2, <3>3 DEF Stopping
  <2>2. CASE drainer # "ok"
    <3>1. drainer # "out"
      BY <1>8, DrainerFrame, InternalFrame DEF WriterNext, SubmitFresh, Submit, Client,
         SubmitCheck, SubmitGate, TakeError, Count, RingSend, IocpSend, Return, DrainQuiet, Drain
    <3>2. WriterInternal
      BY <3>1, DrainFrame
    <3>3. DrainCheck
      BY <1>8, <2>2, <3>2 DEF WriterInternal, Ring, Iocp, Pool, Draining, RingCreate,
         RingFill, RingFull, RingIdle, RingFails, RingStops, RingComplete, IocpComplete, IocpPacket,
         PoolPop, PoolLeave, PoolSleep, PoolWrite, RingClose, IocpClose, PoolClose, DrainWait,
         DrainJoin, WriterSpurious
    <3>4. drainer = "check" /\ ~slot /\ UNCHANGED <<accepted, left, told>>
      BY <1>8, <3>3 DEF DrainCheck, engineVars, clientVars
    <3>5. told \/ (~Failed /\ Counted = {})
      BY <1>0, <3>4 DEF Stopping, Failed
    <3>6. CASE ~told
      <4>1. ~Failed /\ accepted \ Pending = accepted
        BY <3>5, <3>6 DEF Counted
      <4> QED BY <2>0, <3>4, <4>1 DEF Contents
    <3> QED BY <3>4, <3>6
  <2> QED BY <2>1, <2>2
<1> QED BY <1>0, <1>1, <1>3, <1>6, <1>7, <1>8 DEF Stopping

--------------------------------------------------------------------------------
(* The gate.                                                                   *)

\* The bytes that are counted, with a write more and one less.
LEMMA LoadIs == \A S \in SUBSET Writes : Load(S) = SumOf(Size, S)
BY DEF Load, SumOf, MapThenSumSet, MapThenFoldSet

LEMMA LoadType == \A S \in SUBSET Writes : Load(S) \in Nat /\ Load({}) = 0
<1> TAKE S \in SUBSET Writes
<1> DEFINE W == Writes  f == Size
<1>1. /\ IsFiniteSet(W) /\ f \in [W -> Nat] /\ S \in SUBSET W /\ {} \in SUBSET W
      /\ \A T \in SUBSET W : Load(T) = SumOf(f, T)
  BY LoadIs, WriterAssumption
<1> HIDE DEF W, f
<1>2. SumOf(f, S) \in Nat /\ SumOf(f, {}) = 0
  BY <1>1, SumOfType
<1> QED BY <1>1, <1>2

LEMMA LoadMoves ==
    ASSUME NEW S \in SUBSET Writes, NEW r \in Writes
    PROVE  /\ Load(S) \in Nat /\ Load({}) = 0
           /\ r \notin S => Load(S \union {r}) = Load(S) + Size[r]
           /\ r \in S => Load(S \ {r}) = Load(S) - Size[r] /\ Size[r] <= Load(S)
<1> DEFINE W == Writes  f == Size
<1>1. IsFiniteSet(W) /\ f \in [W -> Nat] /\ S \in SUBSET W /\ r \in W
  BY WriterAssumption
<1>2. S \union {r} \in SUBSET W /\ S \ {r} \in SUBSET W
  OBVIOUS
<1>3. \A T \in SUBSET W : Load(T) = SumOf(f, T)
  BY LoadIs
<1> HIDE DEF W, f
<1>4. /\ r \notin S => SumOf(f, S \union {r}) = SumOf(f, S) + f[r]
      /\ r \in S => SumOf(f, S \ {r}) = SumOf(f, S) - f[r] /\ f[r] <= SumOf(f, S)
  BY <1>1, SumOfMoves
<1>5. /\ r \notin S => Load(S \union {r}) = Load(S) + f[r]
      /\ r \in S => Load(S \ {r}) = Load(S) - f[r] /\ f[r] <= Load(S)
  BY <1>1, <1>2, <1>3, <1>4
<1> QED BY <1>5, LoadType DEF f

\* What a step does to the gate: nothing, or a write passes it, or one is counted out,
\* or the backend stops and the gate is no longer of use.
Alive == ~stopped /\ engine \notin {"fail", "gone"}

Rests      == Counted' = Counted /\ UNCHANGED <<pending_bytes, inflight_ops>>
Passes(r)  == /\ r \notin Counted /\ ~GateShut /\ Counted' = Counted \union {r}
              /\ pending_bytes' = pending_bytes + Size[r]
              /\ inflight_ops' = IF Backend = "pool" THEN inflight_ops ELSE inflight_ops + 1
Departs(r) == /\ r \in Counted /\ Counted' = Counted \ {r}
              /\ \E n \in Nat : pending_bytes' = Minus(pending_bytes, n)
                               /\ (~MayFail("short") => n = Size[r])
              /\ inflight_ops' = IF Backend = "pool" THEN inflight_ops ELSE Minus(inflight_ops, 1)
Breaks     == ~Alive' /\ UNCHANGED <<pending_bytes, inflight_ops>>
Gate       == Rests \/ Breaks \/ \E r \in Writes : Passes(r) \/ Departs(r)

\* A backend that has stopped does not start again.
LEMMA AliveStep ==
    ASSUME WInv, WriterNext, ~Alive
    PROVE  ~Alive'
<1>1. ASSUME NEW t \in Clients, SubmitFresh(t) \/ Client(t) \/ Return(t)
      PROVE  UNCHANGED <<stopped, engine>>
  BY <1>1 DEF SubmitFresh, Submit, Client, SubmitCheck, SubmitGate, TakeError, Count, RingSend,
     IocpSend, Uncount, Return, gateVars, engineVars
<1>2. CASE DrainQuiet \/ WriterSpurious \/ Draining
  BY <1>2 DEF DrainQuiet, Drain, WriterSpurious, Draining, RingClose, IocpClose, PoolClose,
     DrainWait, DrainJoin, DrainCheck, gateVars, engineVars, Alive
<1>3. CASE Ring
  BY <1>3 DEF Ring, RingCreate, RingFill, RingFull, RingIdle, RingFails, RingStops,
     RingComplete, Complete, Uncount, gateVars, Alive
<1>4. CASE Iocp
  BY <1>4 DEF Iocp, IocpComplete, IocpPacket, gateVars, Alive
<1>5. ASSUME NEW w \in PoolWorkers, Pool(w)
      PROVE  (stopped' = TRUE \/ stopped' = stopped) /\ engine' = engine
  BY <1>5 DEF Pool, PoolPop, PoolLeave, PoolSleep, PoolWrite, gateVars, engineVars
<1> QED BY <1>1, <1>2, <1>3, <1>4, <1>5 DEF WriterNext, WriterInternal, Alive

\* A client leaves its place before the backend with its write, or takes it.
LEMMA SendingMoves ==
    ASSUME WInv, NEW t \in Clients, NEW r \in Writes, request[t] = {r}, request' = request,
           NEW x, client' = [client EXCEPT ![t] = x]
    PROVE  /\ client[t] = "send" /\ x # "send" => r \in Sending /\ Sending' = Sending \ {r}
           /\ client[t] # "send" /\ x = "send" => r \notin Sending /\ Sending' = Sending \union {r}
           /\ client[t] # "send" /\ x # "send" => Sending' = Sending
           /\ client[t] # "send" => r \notin Sending
<1>1. /\ client \in [Clients -> {"out", "check", "gate", "woken", "send", "ok", "failed"}]
      /\ \A u \in Clients : u # t => r \notin request[u]
  BY DEF WInv, WriterTypeOK, Requests
<1>2. \A u \in Clients : client'[u] = IF u = t THEN x ELSE client[u]
  BY <1>1
<1>3. client[t] # "send" => r \notin Sending
  BY <1>1 DEF Sending
<1>4. client[t] # "send" /\ x # "send" => Sending' = Sending
  BY <1>2 DEF Sending
<1>5. client[t] # "send" /\ x = "send" => Sending' = Sending \union {r}
  BY <1>2 DEF Sending
<1>6. client[t] = "send" /\ x # "send" => r \in Sending /\ Sending' = Sending \ {r}
  BY <1>1, <1>2 DEF Sending
<1> QED BY <1>3, <1>4, <1>5, <1>6

\* The steps of the clients.
LEMMA ClientGate ==
    ASSUME WInv, NEW t \in Clients, SubmitFresh(t) \/ Client(t) \/ Return(t), WriterNext
    PROVE  Gate
<1>0. /\ client \in [Clients -> {"out", "check", "gate", "woken", "send", "ok", "failed"}]
      /\ Places /\ Sending \intersect accepted = {} /\ Sending \intersect Pending = {}
      /\ Pending \subseteq accepted
  BY CountedFinite DEF WInv, WriterTypeOK, Places
<1>1. ASSUME UNCHANGED <<inbox, retry, kernel, task, left, accepted, pending_bytes, inflight_ops>>,
             Sending' = Sending
      PROVE  Gate
  <2>1. Pending' = Pending
    BY <1>0, <1>1, NothingMoves DEF Keeps
  <2> QED BY <1>1, <2>1 DEF Gate, Rests, Counted
<1>2. CASE SubmitFresh(t)
  <2>1. PICK r \in Writes : Submit(t, r)
    BY <1>2 DEF SubmitFresh
  <2>2. UNCHANGED <<inbox, retry, kernel, task, left, accepted, pending_bytes, inflight_ops>>
    BY <2>1 DEF Submit, gateVars, ringVars, engineVars, poolVars
  <2>3. /\ client[t] = "out" /\ client' = [client EXCEPT ![t] = "check"]
        /\ request' = [request EXCEPT ![t] = {r}]
    BY <2>1 DEF Submit
  <2>4. Sending' = Sending
    <3>1. \A u \in Clients : (client'[u] = "send" <=> client[u] = "send")
                             /\ (client[u] = "send" => request'[u] = request[u])
      BY <1>0, <2>3
    <3> QED BY <3>1 DEF Sending
  <2> QED BY <1>1, <2>2, <2>4
<1>3. CASE Return(t)
  <2>2. UNCHANGED <<inbox, retry, kernel, task, left, accepted, pending_bytes, inflight_ops>>
    BY <1>3 DEF Return, gateVars, ringVars, engineVars, poolVars
  <2>3. /\ client[t] \in {"ok", "failed"} /\ client' = [client EXCEPT ![t] = "out"]
        /\ request' = [request EXCEPT ![t] = {}]
    BY <1>3 DEF Return
  <2>4. Sending' = Sending
    <3>1. \A u \in Clients : (client'[u] = "send" <=> client[u] = "send")
                             /\ (client[u] = "send" => request'[u] = request[u])
      BY <1>0, <2>3
    <3> QED BY <3>1 DEF Sending
  <2> QED BY <1>1, <2>2, <2>4
<1> SUFFICES ASSUME Client(t) PROVE Gate
  BY <1>2, <1>3
<1>4. client[t] # "out" /\ client[t] # "ok" /\ request' = request
  BY ClientMoves
<1>5. PICK r \in Writes : /\ request[t] = {r} /\ (CHOOSE x \in request[t] : TRUE) = r
                         /\ SizeOf(request[t]) = Size[r]
  BY <1>4, TheRequest
<1>5b. request[t] = {r} /\ request' = request /\ r \in Writes
  BY <1>4, <1>5
<1>5a. r \notin accepted /\ r \notin Pending
  BY <1>0, <1>4, <1>5 DEF WInv, Requests
<1>6. CASE SubmitCheck(t) \/ (SubmitGate(t) /\ ~Count(t))
  <2>1. UNCHANGED <<inbox, retry, kernel, task, left, accepted, pending_bytes, inflight_ops>>
    BY <1>6 DEF SubmitCheck, SubmitGate, TakeError, gateVars, ringVars, engineVars, poolVars
  <2>2. client[t] # "send" /\ \E x \in {"failed", "gate", "woken"} : client' = [client EXCEPT ![t] = x]
    BY <1>6 DEF SubmitCheck, SubmitGate, TakeError
  <2>3. Sending' = Sending
    BY <1>4, <1>5, <2>2, SendingMoves
  <2> QED BY <1>1, <2>1, <2>3
<1>7. CASE SubmitGate(t) /\ Count(t)
  <2>0. ~GateShut
    <3>1. pending_bytes' # pending_bytes
      <4>1. pending_bytes \in Nat
        BY DEF WInv, WriterTypeOK
      <4> QED BY <1>5, <1>7, <4>1, SizeType DEF Count
    <3> QED BY <1>7, <3>1 DEF SubmitGate, TakeError, gateVars
  <2>1. pending_bytes' = pending_bytes + Size[r] /\ client[t] # "send" /\ r \notin Sending
    <3>1. client[t] # "send"
      BY <1>7 DEF SubmitGate
    <3> QED BY <1>4, <1>5, <1>7, <3>1, SendingMoves, ClientMoves DEF Count
  <2>2. CASE Backend = "pool"
    <3>1. /\ inbox' = inbox \o <<r>> /\ accepted' = accepted \union {r}
          /\ inflight_ops' = inflight_ops /\ client' = [client EXCEPT ![t] = "ok"]
          /\ UNCHANGED <<retry, kernel, task, left>>
      BY <1>5, <1>7, <2>2 DEF Count, engineVars, poolVars
    <3>2. Pending' = Pending \union {r}
      BY <1>5a, <3>1, ComesIn DEF Adds
    <3>3. Sending' = Sending
      <4> DEFINE x == "ok"
      <4>1. client' = [client EXCEPT ![t] = x] /\ client[t] # "send" /\ x # "send"
        BY <2>1, <3>1
      <4> HIDE DEF x
      <4> QED BY <1>5b, <4>1, SendingMoves
    <3>4. ~GateShut
      BY <2>0
    <3> QED BY <1>5a, <2>1, <2>2, <3>1, <3>2, <3>3, <3>4 DEF Gate, Passes, Counted
  <2>3. CASE Backend # "pool"
    <3>1. /\ UNCHANGED <<inbox, retry, kernel, task, left, accepted>>
          /\ inflight_ops' = inflight_ops + 1 /\ client' = [client EXCEPT ![t] = "send"]
      BY <1>7, <2>3 DEF Count, engineVars, poolVars
    <3>2. Pending' = Pending
      BY <1>0, <3>1, NothingMoves DEF Keeps
    <3>3. Sending' = Sending \union {r} /\ r \notin Sending
      <4>1. client' = [client EXCEPT ![t] = "send"] /\ client[t] # "send"
        BY <2>1, <3>1
      <4> QED BY <1>5b, <4>1, SendingMoves
    <3>4. ~GateShut
      BY <2>0
    <3> QED BY <1>5a, <2>1, <2>3, <3>1, <3>2, <3>3, <3>4 DEF Gate, Passes, Counted
  <2> QED BY <2>2, <2>3
<1>8. CASE RingSend(t)
  <2>1. client[t] = "send" /\ UNCHANGED <<pending_bytes, inflight_ops, stopped, engine>>
    BY <1>8 DEF RingSend, gateVars, engineVars
  <2>2. CASE sender /\ engine # "gone"
    <3>1. /\ inbox' = inbox \o <<r>> /\ accepted' = accepted \union {r}
          /\ client' = [client EXCEPT ![t] = "ok"]
          /\ UNCHANGED <<retry, kernel, task, left>>
      BY <1>5, <1>8, <2>2 DEF RingSend, engineVars, poolVars
    <3>2. Pending' = Pending \union {r}
      BY <1>5a, <3>1, ComesIn DEF Adds
    <3>3. r \in Sending /\ Sending' = Sending \ {r}
      BY <1>4, <1>5, <2>1, <3>1, SendingMoves
    <3> QED BY <2>1, <3>2, <3>3 DEF Gate, Rests, Counted
  <2>3. CASE ~sender
    BY <1>4, <2>3 DEF WInv, Requests, Closing
  <2>4. CASE engine = "gone"
    BY <2>1, <2>4 DEF Gate, Breaks, Alive
  <2> QED BY <2>2, <2>3, <2>4, <1>0 DEF WInv, WriterTypeOK
<1>9. CASE IocpSend(t)
  <2>1. client[t] = "send" /\ Backend = "iocp" /\ UNCHANGED <<inbox, retry, task, left>>
    BY <1>9 DEF IocpSend, ringVars, poolVars
  <2>2. CASE /\ kernel' = kernel \union request[t] /\ accepted' = accepted \union request[t]
             /\ client' = [client EXCEPT ![t] = "ok"] /\ UNCHANGED <<gateVars, asleep, told>>
    <3>1. Pending' = Pending \union {r}
      <4>1. Elements(inbox)' = Elements(inbox) /\ Elements(retry)' = Elements(retry)
            /\ Tasks' = Tasks
        BY <2>1 DEF Elements, Tasks
      <4> QED BY <1>5, <2>2, <4>1 DEF Pending
    <3>2. r \in Sending /\ Sending' = Sending \ {r}
      BY <1>4, <1>5, <2>1, <2>2, SendingMoves
    <3> QED BY <2>2, <3>1, <3>2 DEF Gate, Rests, Counted, gateVars
  <2>3. CASE /\ Uncount(SizeOf(request[t])) /\ client' = [client EXCEPT ![t] = "failed"]
             /\ UNCHANGED <<kernel, accepted>>
    <3>1. Pending' = Pending
      BY <1>0, <2>1, <2>3, NothingMoves DEF Keeps
    <3>2. r \in Sending /\ Sending' = Sending \ {r}
      <4> DEFINE x == "failed"
      <4>1. client' = [client EXCEPT ![t] = x] /\ client[t] = "send" /\ x # "send"
        BY <2>1, <2>3
      <4> HIDE DEF x
      <4>2. client[t] = "send" /\ x # "send" => r \in Sending /\ Sending' = Sending \ {r}
        BY <1>5b, <4>1, SendingMoves, Zenon
      <4> QED BY <4>1, <4>2
    <3>3. pending_bytes' = Minus(pending_bytes, Size[r]) /\ inflight_ops' = Minus(inflight_ops, 1)
      BY <1>5, <2>3 DEF Uncount
    <3>4. r \in Counted /\ Counted' = Counted \ {r} /\ Size[r] \in Nat
      BY <1>5a, <3>1, <3>2, SizeType DEF Counted
    <3> QED BY <2>1, <3>3, <3>4 DEF Gate, Departs
  <2> QED BY <1>9, <2>2, <2>3 DEF IocpSend
<1> QED BY <1>6, <1>7, <1>8, <1>9 DEF Client

\* The steps of the backend and of whoever drains.
LEMMA InternalGate ==
    ASSUME WInv, WriterInternal
    PROVE  Gate
<1>0. /\ left \in [Writes -> Nat] /\ UNCHANGED <<client, request, accepted>> /\ WriterNext
      /\ Sending \intersect Pending = {} /\ pending_bytes \in Nat /\ inflight_ops \in Nat
      /\ \A r \in Pending : left[r] > 0 /\ (~MayFail("short") => left[r] = Size[r])
      /\ Pending \subseteq accepted /\ accepted \subseteq Writes
  BY InternalFrame, CountedFinite DEF WInv, WriterTypeOK, Places, Contents, WriterNext
<1>1. Sending' = Sending
  BY <1>0 DEF Sending
<1>2. ASSUME UNCHANGED <<pending_bytes, inflight_ops, left>>
      PROVE  Gate
  <2>1. Flow
    BY <1>0, PlacesStep
  <2>2. CASE Keeps
    BY <1>1, <1>2, <2>2 DEF Keeps, Gate, Rests, Counted
  <2>3. ASSUME NEW r \in Writes, Adds(r)
        PROVE  FALSE
    BY <1>0, <2>3 DEF Adds
  <2>4. ASSUME NEW r \in Writes, Finishes(r)
        PROVE  FALSE
    BY <1>0, <1>2, <2>4 DEF Finishes
  <2>5. ASSUME NEW r \in Writes, Loses(r)
        PROVE  Gate
    BY <1>2, <2>5 DEF Loses, Gate, Breaks, Alive
  <2>6. ASSUME NEW r \in Writes, Parts(r)
        PROVE  Gate
    BY <1>1, <1>2, <2>6 DEF Parts, Gate, Rests, Counted
  <2> QED BY <2>5, <2>1, <2>2, <2>3, <2>4, <2>6 DEF Flow
<1>3. ASSUME NEW r \in Writes, r \in Pending, Pending' = Pending \ {r}, NEW n \in Nat,
             ~MayFail("short") => n = Size[r], pending_bytes' = Minus(pending_bytes, n),
             inflight_ops' = IF Backend = "pool" THEN inflight_ops ELSE Minus(inflight_ops, 1)
      PROVE  Gate
  <2>1. r \in Counted /\ Counted' = Counted \ {r}
    BY <1>0, <1>1, <1>3 DEF Counted
  <2> QED BY <1>3, <2>1 DEF Gate, Departs
<1>4. ASSUME NEW r \in Writes, RingComplete(r)
      PROVE  Gate
  <2>1. /\ r \in kernel /\ kernel' = kernel \ {r} /\ UNCHANGED <<inbox, task, accepted>>
        /\ Backend = "ring"
    BY <1>4 DEF RingComplete, poolVars, clientVars
  <2>2. PICK n \in 1 .. left[r] : Complete(r, n)
    BY <1>4 DEF RingComplete
  <2>3. CASE n = left[r]
    <3>1. /\ retry' = retry /\ pending_bytes' = Minus(pending_bytes, n)
          /\ inflight_ops' = Minus(inflight_ops, 1)
      BY <2>2, <2>3 DEF Complete, Uncount
    <3>2. Pending' = Pending \ {r} /\ r \in Pending
      BY <2>1, <3>1, LeavesKernel
    <3>3. n \in Nat /\ (~MayFail("short") => n = Size[r])
      BY <1>0, <2>3, <3>2
    <3>4. Backend # "pool"
      BY <2>1
    <3> QED BY <1>3, <3>1, <3>2, <3>3, <3>4
  <2>4. CASE n # left[r]
    <3>1. retry' = <<r>> \o retry /\ UNCHANGED <<pending_bytes, inflight_ops>>
      BY <2>2, <2>4 DEF Complete, gateVars
    <3>2. Pending' = Pending
      BY <2>1, <3>1, ComesBack
    <3> QED BY <1>1, <3>1, <3>2 DEF Gate, Rests, Counted
  <2> QED BY <2>3, <2>4
<1>5. ASSUME NEW r \in Writes, IocpComplete(r)
      PROVE  Gate
  <2>1. /\ r \in kernel /\ kernel' = kernel \ {r} /\ UNCHANGED <<inbox, retry, task, accepted>>
        /\ Backend = "iocp" /\ pending_bytes' = Minus(pending_bytes, Size[r])
        /\ inflight_ops' = Minus(inflight_ops, 1)
    BY <1>5 DEF IocpComplete, ringVars, poolVars, clientVars
  <2>2. Pending' = Pending \ {r} /\ r \in Pending
    BY <2>1, LeavesKernel
  <2>3. Size[r] \in Nat /\ Backend # "pool"
    BY <2>1, SizeType
  <2> QED BY <1>3, <2>1, <2>2, <2>3
<1>6. ASSUME NEW w \in PoolWorkers, Backend = "pool", PoolWrite(w)
      PROVE  Gate
  <2>1. PICK r \in Writes : task[w] = {r} /\ SizeOf(task[w]) = Size[r]
    BY <1>6, TheTask DEF PoolWrite
  <2>2. /\ task' = [task EXCEPT ![w] = {}] /\ UNCHANGED <<inbox, retry, kernel, accepted>>
        /\ pending_bytes' = Minus(pending_bytes, Size[r]) /\ inflight_ops' = inflight_ops
    BY <1>6, <2>1 DEF PoolWrite, ringVars, clientVars
  <2>3. Pending' = Pending \ {r} /\ r \in Pending
    BY <2>1, <2>2, LeavesTask
  <2>4. Size[r] \in Nat
    BY SizeType
  <2> QED BY <1>3, <1>6, <2>2, <2>3, <2>4
<1>7. CASE RingCreate \/ RingFill \/ RingFull \/ RingIdle \/ RingFails \/ RingStops \/ IocpPacket
           \/ Draining \/ WriterSpurious
  <2>1. UNCHANGED <<pending_bytes, inflight_ops, left>>
    BY <1>7 DEF RingCreate, RingFill, RingFull, RingIdle, RingFails, RingStops, IocpPacket, Draining,
       RingClose, IocpClose, PoolClose, DrainWait, DrainJoin, DrainCheck, WriterSpurious, gateVars,
       engineVars
  <2> QED BY <1>2, <2>1
<1>8. ASSUME NEW w \in PoolWorkers, PoolPop(w) \/ PoolLeave(w) \/ PoolSleep(w)
      PROVE  Gate
  <2>1. UNCHANGED <<pending_bytes, inflight_ops, left>>
    BY <1>8 DEF PoolPop, PoolLeave, PoolSleep, gateVars, engineVars
  <2> QED BY <1>2, <2>1
<1> QED BY <1>4, <1>5, <1>6, <1>7, <1>8 DEF WriterInternal, Ring, Iocp, Pool

LEMMA GateStep ==
    ASSUME WInv, WriterNext
    PROVE  Gate
<1>1. CASE DrainQuiet
  <2>1. /\ UNCHANGED <<inbox, retry, kernel, task, left, accepted, client, request>>
        /\ UNCHANGED <<pending_bytes, inflight_ops>>
    BY <1>1 DEF DrainQuiet, Drain, gateVars, ringVars, engineVars, poolVars, clientVars
  <2>2. Pending' = Pending
    BY <2>1, NothingMoves DEF WInv, Keeps
  <2>3. Sending' = Sending
    BY <2>1 DEF Sending
  <2> QED BY <2>1, <2>2, <2>3 DEF Gate, Rests, Counted
<1> QED BY <1>1, ClientGate, InternalGate DEF WriterNext

\* The count of the gate, the limits that it keeps.
LEMMA ExactStep ==
    ASSUME WInv, WriterNext
    PROVE  Exact'
<1>0. /\ pending_bytes \in Nat /\ inflight_ops \in Nat /\ Backend' = Backend
      /\ (MayFail("short"))' = MayFail("short") /\ Exact
      /\ BacklogLimit \in Nat \ {0} /\ MaxInflight \in Nat \ {0} /\ (Alive' => Alive)
  BY SetupFrame, AliveStep, WriterAssumption DEF WInv, WriterTypeOK, Backend, MayFail
<1>1. /\ Counted \in SUBSET Writes /\ IsFiniteSet(Counted) /\ Cardinality(Counted) \in Nat
      /\ Load(Counted) \in Nat
  BY CountedFinite, LoadType
<1>2. /\ Alive => /\ Backend # "pool" => inflight_ops = Cardinality(Counted)
                  /\ ~MayFail("short") => pending_bytes = Load(Counted)
      /\ Backend # "pool" => inflight_ops <= MaxInflight
      /\ pending_bytes >= BacklogLimit =>
           \E r \in Writes : pending_bytes < BacklogLimit + Size[r]
  BY <1>0 DEF Exact, Alive
<1>3. SUFFICES
         /\ Alive' => /\ Backend # "pool" => inflight_ops' = Cardinality(Counted')
                      /\ ~MayFail("short") => pending_bytes' = Load(Counted')
         /\ Backend # "pool" => inflight_ops' <= MaxInflight
         /\ pending_bytes' >= BacklogLimit =>
              \E r \in Writes : pending_bytes' < BacklogLimit + Size[r]
  <2>1. Load(Counted)' = Load(Counted')
    OBVIOUS
  <2> QED BY <1>0, <2>1 DEF Exact, Alive
<1>4. CASE Rests
  BY <1>0, <1>2, <1>4 DEF Rests
<1>5. CASE Breaks
  BY <1>0, <1>2, <1>5 DEF Breaks
<1>6. ASSUME NEW r \in Writes, Passes(r)
      PROVE  /\ Alive' => /\ Backend # "pool" => inflight_ops' = Cardinality(Counted')
                          /\ ~MayFail("short") => pending_bytes' = Load(Counted')
             /\ Backend # "pool" => inflight_ops' <= MaxInflight
             /\ pending_bytes' >= BacklogLimit =>
                  \E q \in Writes : pending_bytes' < BacklogLimit + Size[q]
  <2>1. Cardinality(Counted') = Cardinality(Counted) + 1
    BY <1>1, <1>6, FS_AddElement DEF Passes
  <2>2. Load(Counted') = Load(Counted) + Size[r]
    BY <1>1, <1>6, LoadMoves DEF Passes
  <2>3. /\ pending_bytes < BacklogLimit /\ pending_bytes' = pending_bytes + Size[r]
        /\ Size[r] \in Nat /\ (Backend # "pool" => inflight_ops < MaxInflight)
        /\ (Backend # "pool" => inflight_ops' = inflight_ops + 1)
    BY <1>0, <1>6, SizeType DEF Passes, GateShut
  <2> QED BY <1>0, <1>2, <2>1, <2>2, <2>3
<1>7. ASSUME NEW r \in Writes, Departs(r)
      PROVE  /\ Alive' => /\ Backend # "pool" => inflight_ops' = Cardinality(Counted')
                          /\ ~MayFail("short") => pending_bytes' = Load(Counted')
             /\ Backend # "pool" => inflight_ops' <= MaxInflight
             /\ pending_bytes' >= BacklogLimit =>
                  \E q \in Writes : pending_bytes' < BacklogLimit + Size[q]
  <2>1. /\ Cardinality(Counted') = Cardinality(Counted) - 1 /\ Cardinality(Counted) > 0
    BY <1>1, <1>7, FS_RemoveElement, FS_EmptySet DEF Departs
  <2>2. Load(Counted') = Load(Counted) - Size[r] /\ Size[r] <= Load(Counted) /\ Size[r] \in Nat
    BY <1>1, <1>7, LoadMoves, SizeType DEF Departs
  <2>3. PICK n \in Nat : pending_bytes' = Minus(pending_bytes, n)
                         /\ (~MayFail("short") => n = Size[r])
    BY <1>7 DEF Departs
  <2>4. /\ pending_bytes' \in Nat /\ pending_bytes' <= pending_bytes
        /\ (n <= pending_bytes => pending_bytes' = pending_bytes - n)
    BY <1>0, <2>3, MinusType
  <2>5. Backend # "pool" => /\ inflight_ops' \in Nat /\ inflight_ops' <= inflight_ops
                            /\ (1 <= inflight_ops => inflight_ops' = inflight_ops - 1)
    BY <1>0, <1>7, MinusType DEF Departs
  <2>6. Alive' /\ Backend # "pool" => inflight_ops' = Cardinality(Counted')
    BY <1>0, <1>1, <1>2, <2>1, <2>5
  <2>7. Alive' /\ ~MayFail("short") => pending_bytes' = Load(Counted')
    BY <1>0, <1>1, <1>2, <2>2, <2>3, <2>4
  <2>8. Backend # "pool" => inflight_ops' <= MaxInflight
    BY <1>0, <1>2, <2>5
  <2>9. pending_bytes' >= BacklogLimit =>
           \E q \in Writes : pending_bytes' < BacklogLimit + Size[q]
    <3>1. pending_bytes' >= BacklogLimit => pending_bytes >= BacklogLimit
      BY <1>0, <2>4
    <3>2. \A q \in Writes : pending_bytes < BacklogLimit + Size[q] =>
             pending_bytes' < BacklogLimit + Size[q]
      BY <1>0, <2>4, SizeType
    <3> QED BY <1>2, <3>1, <3>2
  <2> QED BY <2>6, <2>7, <2>8, <2>9
<1> HIDE DEF Rests, Breaks
<1>8. Gate
  BY GateStep
<1> QED BY <1>4, <1>5, <1>6, <1>7, <1>8 DEF Gate

--------------------------------------------------------------------------------
(* The invariant holds.                                                        *)

LEMMA WriterStart == WriterInit => WInv
<1> SUFFICES ASSUME WriterInit PROVE WInv
  OBVIOUS
<1> USE DEF WriterInit
<1>1. Sending = {} /\ Tasks = {} /\ Elements(inbox) = {} /\ Elements(retry) = {} /\ kernel = {}
  BY ElementsOfNone DEF Sending, Tasks
<1>2. Pending = {} /\ Counted = {}
  BY <1>1 DEF Pending, Counted
<1>3. WriterTypeOK
  <2>1. left \in [Writes -> Nat] /\ setup \in Setups
    BY WriterAssumption
  <2>2. inbox \in Seq(Writes \union {Close}) /\ retry \in Seq(Writes)
    OBVIOUS
  <2>3. engine \in {"create", "fill", "idle", "reap", "fail", "gone"}
    OBVIOUS
  <2>4. /\ crew \in [PoolWorkers -> {"loop", "write", "gone"}]
        /\ task \in [PoolWorkers -> SUBSET Writes] /\ request \in [Clients -> SUBSET Writes]
        /\ client \in [Clients -> {"out", "check", "gate", "woken", "send", "ok", "failed"}]
    OBVIOUS
  <2>5. /\ pending_bytes \in Nat /\ inflight_ops \in Nat /\ packets \in Nat
        /\ closed \in BOOLEAN /\ stopped \in BOOLEAN /\ slot \in BOOLEAN
        /\ sender \in BOOLEAN /\ closing \in BOOLEAN /\ told \in BOOLEAN
    OBVIOUS
  <2>6. /\ asleep \subseteq Clients \union PoolWorkers \union {Drainer}
        /\ kernel \subseteq Writes /\ accepted \subseteq Writes
        /\ drainer \in {"out", "close", "wait", "join", "check", "ok", "failed"}
    OBVIOUS
  <2> QED BY <2>5, <2>1, <2>2, <2>3, <2>4, <2>6, Zenon DEF WriterTypeOK
<1>4. Requests /\ Machinery
  BY DEF Requests, Machinery
<1>5. Places
  BY <1>1, <1>2 DEF Places
<1>6. Contents
  <2>1. \A r \in Writes : left[r] = Size[r] /\ Size[r] \in Nat
    BY SizeType
  <2> QED BY <1>2, <2>1 DEF Contents
<1>7. Closing /\ Stopping
  BY DEF Closing, Stopping
<1>8. Exact
  <2>1. Load({}) = 0 /\ Cardinality({}) = 0
    BY LoadType, FS_EmptySet
  <2> QED BY <1>2, <2>1, WriterAssumption DEF Exact
<1> QED BY <1>3, <1>4, <1>5, <1>6, <1>7, <1>8 DEF WInv

LEMMA WriterStep ==
    ASSUME WInv, [WriterNext]_writerVars
    PROVE  WInv'
<1>1. CASE WriterNext
  BY <1>1, TypeStep, RequestsStep, MachineryStep, PlacesStep, ContentsStep, ClosingStep, StoppingStep,
     ExactStep DEF WInv
<1>2. CASE UNCHANGED writerVars
  <2>1. UNCHANGED <<setup, pending_bytes, inflight_ops, closed, stopped, slot, asleep, inbox, sender,
                    retry, closing, kernel, engine, packets, left, crew, task, client, request,
                    accepted, told, drainer>>
    BY <1>2 DEF writerVars, gateVars, ringVars, engineVars, poolVars, clientVars
  <2>2. /\ Elements(inbox)' = Elements(inbox) /\ Elements(retry)' = Elements(retry)
        /\ Tasks' = Tasks /\ Sending' = Sending
    BY <2>1 DEF Elements, Tasks, Sending
  <2>3. Pending' = Pending /\ Counted' = Counted
    BY <2>1, <2>2 DEF Pending, Counted
  <2>4. WriterTypeOK' /\ Requests' /\ Machinery'
    BY <2>1 DEF WInv, WriterTypeOK, Requests, Machinery, Backend
  <2>5. Places' /\ Contents' /\ Closing' /\ Stopping'
    BY <2>1, <2>2, <2>3 DEF WInv, Places, Contents, Closing, Stopping, Failed, Backend, MayFail
  <2>6. Exact'
    <3>1. Load(Counted)' = Load(Counted')
      OBVIOUS
    <3> QED BY <2>1, <2>3, <3>1 DEF WInv, Exact, Backend, MayFail
  <2> QED BY <2>4, <2>5, <2>6 DEF WInv
<1> QED BY <1>1, <1>2

THEOREM WriterInvariant == WriterSpec => []WInv
<1>1. WriterInit => WInv
  BY WriterStart
<1>2. WInv /\ [WriterNext]_writerVars => WInv'
  BY WriterStep
<1> QED BY <1>1, <1>2, PTL DEF WriterSpec

\* Every variable of the writer keeps its type, whatever its clients submit.
THEOREM WriterTypes == WriterSpec => []WriterTypeOK
<1>1. WInv => WriterTypeOK
  BY DEF WInv
<1> QED BY <1>1, WriterInvariant, PTL

\* For any number of clients, writes and threads, and any limits: while the backend
\* lives the gate counts exactly the writes that passed it and are not completed, and
\* their bytes, neither limit is passed by more than a write, and a drop of the count
\* below zero, which the code would hide, never happens.
THEOREM GateCounts == WriterSpec => []BacklogExact
<1>1. WInv => BacklogExact
  BY DEF WInv, Exact, BacklogExact
<1> QED BY <1>1, WriterInvariant, PTL

--------------------------------------------------------------------------------
(* The writer is a barrier.                                                    *)

InFile == {r \in Writes : left[r] = 0}
Verdict == IF drainer \in {"ok", "failed"} THEN drainer ELSE "none"

\* What was accepted and is not in the file was lost to an error, or is on its way.
LEMMA WhatIsWritten ==
    ASSUME WInv
    PROVE  /\ InFile \subseteq accepted /\ accepted \subseteq Writes
           /\ Counted = {} /\ ~Failed => InFile = accepted
<1>1. /\ Contents /\ accepted \subseteq Writes /\ Pending \subseteq Counted
      /\ \A r \in Writes : Size[r] > 0
  BY SizeType DEF WInv, WriterTypeOK, Counted
<1>2. InFile \subseteq accepted
  BY <1>1 DEF Contents, InFile
<1>3. Counted = {} /\ ~Failed => accepted \subseteq InFile
  BY <1>1 DEF Contents, InFile
<1> QED BY <1>1, <1>2, <1>3

LEMMA BarrierStep ==
    ASSUME WInv, [WriterNext]_writerVars
    PROVE  [Barrier!Next]_(Barrier!vars)
<1>0. /\ left \in [Writes -> Nat] /\ accepted \subseteq Writes
      /\ Pending \subseteq accepted /\ \A r \in Pending : left[r] > 0
  BY DEF WInv, WriterTypeOK, Places, Contents
<1> DEFINE Still == UNCHANGED <<accepted, InFile, told, Verdict>>
<1>1. Still => [Barrier!Next]_(Barrier!vars)
  BY DEF Barrier!vars, InFile, Verdict
<1>2. ASSUME NEW t \in Clients, SubmitFresh(t) \/ Return(t)
      PROVE  Still
  <2>1. UNCHANGED <<accepted, left, told, drainer>>
    BY <1>2 DEF SubmitFresh, Submit, Return, engineVars
  <2> QED BY <2>1 DEF InFile, Verdict
<1>3. ASSUME NEW t \in Clients, Client(t)
      PROVE  [Barrier!Next]_(Barrier!vars)
  <2>1. /\ left' = left /\ drainer' = drainer /\ client[t] # "out" /\ client[t] # "ok"
        /\ \/ accepted' = accepted /\ (told' = told \/ told' = TRUE)
           \/ accepted' = accepted \union request[t] /\ told' = told
    <3>1. left' = left
      BY <1>3 DEF Client, SubmitCheck, SubmitGate, TakeError, Count, RingSend, IocpSend, engineVars
    <3>2. drainer' = drainer /\ client[t] # "out" /\ client[t] # "ok"
      BY <1>3, ClientMoves
    <3>3. \/ accepted' = accepted /\ (told' = told \/ told' = TRUE)
          \/ accepted' = accepted \union request[t] /\ told' = told
      BY <1>3 DEF Client, SubmitCheck, SubmitGate, TakeError, Count, RingSend, IocpSend, clientVars
    <3> QED BY <3>1, <3>2, <3>3
  <2>2. InFile' = InFile /\ Verdict' = Verdict
    BY <2>1 DEF InFile, Verdict
  <2>3. PICK r \in Writes : request[t] = {r} /\ drainer = "out"
    BY <2>1 DEF WInv, Requests
  <2>4. r \notin accepted /\ Verdict = "none"
    BY <2>1, <2>3 DEF WInv, Requests, Verdict
  <2>5. CASE accepted' = accepted /\ told' = told
    BY <1>1, <2>2, <2>5
  <2>6. CASE accepted' = accepted /\ told' = TRUE
    <3>1. Barrier!Refuse
      BY <2>2, <2>6 DEF Barrier!Refuse, InFile, Verdict
    <3> QED BY <3>1 DEF Barrier!Next
  <2>7. CASE accepted' = accepted \union request[t] /\ told' = told
    <3>1. Barrier!Accept(r)
      BY <2>2, <2>3, <2>4, <2>7 DEF Barrier!Accept, InFile, Verdict
    <3> QED BY <3>1 DEF Barrier!Next
  <2> QED BY <2>1, <2>5, <2>6, <2>7
<1>4. CASE DrainQuiet
  <2>1. UNCHANGED <<accepted, left, told>> /\ drainer = "out" /\ drainer' = "close"
    BY <1>4 DEF DrainQuiet, Drain, engineVars, clientVars
  <2>2. Still
    BY <2>1 DEF InFile, Verdict
  <2> QED BY <1>1, <2>2
<1>5. CASE DrainCheck
  <2>1. /\ drainer = "check" /\ drainer' = IF slot THEN "failed" ELSE "ok"
        /\ UNCHANGED <<accepted, left, told>>
    BY <1>5 DEF DrainCheck, engineVars, clientVars
  <2>2. /\ Verdict = "none" /\ Verdict' = IF slot THEN "failed" ELSE "ok"
        /\ InFile' = InFile
    BY <2>1 DEF Verdict, InFile
  <2>3. CASE slot
    <3>1. Barrier!DrainFails
      BY <2>1, <2>2, <2>3 DEF Barrier!DrainFails, InFile, Verdict
    <3> QED BY <3>1 DEF Barrier!Next
  <2>4. CASE ~slot
    <3>1. accepted = InFile \/ told
      BY <2>1, <2>4, WhatIsWritten DEF WInv, Stopping, Failed
    <3>2. Barrier!DrainOk
      BY <2>1, <2>2, <2>4, <3>1 DEF Barrier!DrainOk, InFile, Verdict
    <3> QED BY <3>2 DEF Barrier!Next
  <2> QED BY <2>3, <2>4
<1>6. CASE WriterInternal /\ ~DrainCheck
  <2>1. /\ UNCHANGED <<accepted, told>> /\ WriterNext
        /\ (drainer' = drainer \/ (drainer' \notin {"ok", "failed"} /\ drainer \notin {"ok", "failed"}))
    BY <1>6 DEF WriterNext, WriterInternal, Ring, Iocp, Pool, Draining, RingCreate, RingFill, RingFull,
       RingIdle, RingFails, RingStops, RingComplete, IocpComplete, IocpPacket, PoolPop, PoolLeave,
       PoolSleep, PoolWrite, RingClose, IocpClose, PoolClose, DrainWait, DrainJoin, WriterSpurious,
       clientVars
  <2>2. Verdict' = Verdict
    BY <2>1 DEF Verdict
  <2>3. Flow
    BY <2>1, PlacesStep
  <2>4. CASE Keeps
    <3>1. Still
      BY <2>1, <2>2, <2>4 DEF Keeps, InFile
    <3> QED BY <1>1, <3>1
  <2>5. ASSUME NEW r \in Writes, Adds(r)
        PROVE  FALSE
    BY <2>1, <2>5 DEF Adds
  <2>6. ASSUME NEW r \in Writes, Finishes(r)
        PROVE  [Barrier!Next]_(Barrier!vars)
    <3>1. r \in accepted /\ r \notin InFile
      BY <1>0, <2>6 DEF Finishes, InFile
    <3>2. InFile' = InFile \union {r}
      BY <1>0, <2>6 DEF Finishes, InFile
    <3>3. Barrier!Write(r)
      BY <2>1, <2>2, <3>1, <3>2 DEF Barrier!Write, InFile, Verdict
    <3> QED BY <3>3 DEF Barrier!Next
  <2>7. ASSUME NEW r \in Writes, Loses(r)
        PROVE  [Barrier!Next]_(Barrier!vars)
    <3>1. Still
      BY <2>1, <2>2, <2>7 DEF Loses, InFile
    <3> QED BY <1>1, <3>1
  <2>8. ASSUME NEW r \in Writes, Parts(r)
        PROVE  [Barrier!Next]_(Barrier!vars)
    <3>1. PICK n \in 1 .. left[r] : n < left[r] /\ left' = [left EXCEPT ![r] = @ - n]
      BY <2>8 DEF Parts
    <3>2. left'[r] # 0 /\ left[r] # 0 /\ \A q \in Writes : q # r => left'[q] = left[q]
      BY <1>0, <3>1
    <3>3. Still
      BY <2>1, <2>2, <3>2 DEF InFile
    <3> QED BY <1>1, <3>3
  <2> QED BY <2>3, <2>4, <2>5, <2>6, <2>7, <2>8 DEF Flow
<1>7. CASE UNCHANGED writerVars
  <2>1. UNCHANGED <<accepted, left, told, drainer>>
    BY <1>7 DEF writerVars, engineVars, clientVars
  <2>2. Still
    BY <2>1 DEF InFile, Verdict
  <2> QED BY <1>1, <2>2
<1> HIDE DEF Still
<1> QED BY <1>1, <1>2, <1>3, <1>4, <1>5, <1>6, <1>7 DEF WriterNext

\* The writer implements the barrier: every write that was accepted is carried out
\* once, and drain returns Ok only when all of them are, unless an error was returned
\* to a client before.
THEOREM WriterIsBarrier == WriterSpec => BarrierSpec
<1>1. WriterInit => Barrier!Init
  BY SizeType DEF WriterInit, Barrier!Init
<1>2. WInv /\ [WriterNext]_writerVars => [Barrier!Next]_(Barrier!vars)
  BY BarrierStep
<1> QED BY <1>1, <1>2, WriterInvariant, PTL DEF WriterSpec, BarrierSpec, Barrier!Spec

--------------------------------------------------------------------------------
(* The decoders and what they read from (Readers).                           *)

(* The indexed decoder: its inductive invariant.                               *)

\* Where the producer, the workers and the calling thread are, and what that says.
Phases ==
    /\ producer = "push" => total_tasks < NumChunks
    /\ queue_closed => producer = "done"
    /\ producer \in {"close", "done"} =>
          (ToFile /\ Fault("size")) \/ (total_tasks = NumChunks /\ ~Fault("trailing"))
    /\ producer = "failed" => error \/ caller = "failed"
    /\ ToFile => caller \in {"join", "drain", "failed"} /\ (Fault("size") => caller = "failed")
    /\ ~ToFile => caller # "drain"
    /\ caller \in {"drain", "check"} =>
          ~error /\ producer \in {"done", "failed"} /\ \A w \in Workers : worker[w] = "done"

\* What was put out so far, and what a result means.
Outcome ==
    /\ Len(output) = next_index /\ \A k \in 1 .. Len(output) : output[k] = k - 1
    /\ caller \in {"join", "check"} /\ ~ToFile => next_index = NumChunks \/ error
    /\ result = "ok" =>
          \/ caller = "check" /\ ~Fault("size")
          \/ caller = "drain" /\ drainer = "ok" /\ decoded = Chunks

\* A chunk that was pushed and not put out is in one place.
OnTheWay == {c \in Chunks : next_index <= c /\ c < total_tasks}
Spread ==
    /\ next_index <= total_tasks
    /\ queue \subseteq OnTheWay /\ decoded \subseteq OnTheWay /\ queue \intersect decoded = {}
    /\ \A w \in Workers :
          /\ hand[w] \intersect (queue \union decoded) = {}
          /\ IF worker[w] \in {"decode", "submit", "submitting", "store"}
               THEN \E c \in OnTheWay : hand[w] = {c} ELSE hand[w] = {}
    /\ \A v, w \in Workers : v # w => hand[v] \intersect hand[w] = {}

\* The queue's level is what is in it.
Level ==
    /\ queued_bytes = Weight(queue)
    /\ queued_bytes >= QueueCap => \E c \in Chunks : queued_bytes < QueueCap + Packed[c]

\* The writer knows the chunks that workers submit, and those that were stored.
Linked ==
    /\ \A w \in Workers :
          /\ client[w] # "out" <=> worker[w] = "submitting"
          /\ worker[w] = "submitting" => request[w] = hand[w]
          /\ worker[w] \in {"submit", "submitting"} => ToFile
          /\ worker[w] = "store" /\ ToFile => hand[w] \subseteq accepted
    /\ ToFile => decoded \subseteq accepted
    /\ ~ToFile => accepted = {}
    /\ \A c \in accepted :
          c \in decoded \/ \E w \in Workers : c \in hand[w] /\ worker[w] \in {"submitting", "store"}
    /\ drainer # "out" => caller = "drain"
    /\ told => error \/ caller = "failed" \/ \E w \in Workers : client[w] = "failed"

\* Types of what only the decoder has.
IndexTypes ==
    /\ call \in Calls /\ queue \subseteq Chunks /\ queued_bytes \in Nat
    /\ queue_closed \in BOOLEAN /\ total_tasks \in 0 .. NumChunks
    /\ napping \subseteq Workers \union {"producer"} /\ error \in BOOLEAN
    /\ producer \in {"cut", "push", "close", "done", "failed"}
    /\ worker \in [Workers -> {"top", "pop", "decode", "store", "submit", "submitting", "done"}]
    /\ hand \in [Workers -> SUBSET Chunks] /\ decoded \subseteq Chunks
    /\ caller \in {"poll", "take", "join", "leave", "drain", "check", "failed"}
    /\ next_index \in 0 .. NumChunks /\ output \in Seq(Chunks)
    /\ result \in {"none", "ok", "error"}

IInv == IndexTypes /\ Phases /\ Outcome /\ Spread /\ Level /\ Linked

--------------------------------------------------------------------------------
(* Lemmas.                                                                     *)

\* The weight of what is queued, with a chunk more and one less.
LEMMA WeightIs == \A S \in SUBSET Chunks : Weight(S) = SumOf(Packed, S)
BY DEF Weight, SumOf, MapThenSumSet, MapThenFoldSet

LEMMA WeightMoves ==
    ASSUME NEW S \in SUBSET Chunks, NEW c \in Chunks
    PROVE  /\ Weight(S) \in Nat /\ Packed[c] \in Nat \ {0}
           /\ c \notin S => Weight(S \union {c}) = Weight(S) + Packed[c]
           /\ c \in S => Weight(S \ {c}) = Weight(S) - Packed[c] /\ Packed[c] <= Weight(S)
<1> DEFINE W == Chunks  f == Packed
<1>1. /\ IsFiniteSet(W) /\ f \in [W -> Nat] /\ S \in SUBSET W /\ c \in W
      /\ S \union {c} \in SUBSET W /\ S \ {c} \in SUBSET W
      /\ \A T \in SUBSET W : Weight(T) = SumOf(f, T)
      /\ f[c] \in Nat \ {0}
  <2>1. Packed \in [Chunks -> Nat \ {0}] /\ IsFiniteSet(Chunks)
    BY IndexedAssumption, WriterAssumption
  <2> QED BY <2>1, WeightIs
<1> HIDE DEF W, f
<1>2. /\ c \notin S => SumOf(f, S \union {c}) = SumOf(f, S) + f[c]
      /\ c \in S => SumOf(f, S \ {c}) = SumOf(f, S) - f[c] /\ f[c] <= SumOf(f, S)
  BY <1>1, SumOfMoves
<1>3. SumOf(f, S) \in Nat
  BY <1>1, SumOfType
<1>4. /\ Weight(S) \in Nat /\ f[c] \in Nat \ {0}
      /\ c \notin S => Weight(S \union {c}) = Weight(S) + f[c]
      /\ c \in S => Weight(S \ {c}) = Weight(S) - f[c] /\ f[c] <= Weight(S)
  BY <1>1, <1>2, <1>3
<1> QED BY <1>4 DEF f

--------------------------------------------------------------------------------
(* The indexed decoder uses the writer as WriterSpec says.                     *)

\* No chunk is submitted twice, and the drain begins when no submit is on its way.
LEMMA IndexedWrites ==
    ASSUME WInv, IInv, IndexedNext
    PROVE  [WriterNext]_writerVars
<1>1. ASSUME NEW w \in Workers, SubmitChunk(w)
      PROVE  WriterNext
  <2>1. worker[w] = "submit" /\ \E c \in hand[w] : Submit(w, c)
    BY <1>1 DEF SubmitChunk
  <2>2. PICK c \in Chunks : hand[w] = {c} /\ Submit(w, c)
    BY <2>1 DEF IInv, Spread, OnTheWay
  <2>3. drainer = "out"
    BY <2>1 DEF IInv, Phases, Linked
  <2>4. c \notin accepted
    BY <2>1, <2>2 DEF IInv, Spread, Linked
  <2>5. ASSUME NEW v \in Workers
        PROVE  c \notin request[v]
    <3>1. CASE worker[v] = "submitting"
      <4>1. v # w /\ request[v] = hand[v]
        BY <2>1, <3>1 DEF IInv, Linked
      <4> QED BY <2>2, <4>1 DEF IInv, Spread
    <3>2. CASE worker[v] # "submitting"
      BY <3>2 DEF IInv, Linked, WInv, Requests, Workers
    <3> QED BY <3>1, <3>2
  <2>6. Fresh(c) /\ c \in Writes
    BY <2>4, <2>5, IndexedAssumption DEF Fresh, Workers
  <2> QED BY <2>2, <2>3, <2>6 DEF WriterNext, SubmitFresh, Workers
<1>2. CASE CallerDrains
  <2>1. caller = "drain" /\ Drain
    BY <1>2 DEF CallerDrains
  <2>2. \A w \in Workers : client[w] = "out"
    BY <2>1 DEF IInv, Phases, Linked
  <2> QED BY <2>1, <2>2 DEF WriterNext, DrainQuiet, Workers
<1>3. ASSUME NEW w \in Workers, SubmitReturns(w) \/ Client(w)
      PROVE  WriterNext
  BY <1>3 DEF SubmitReturns, WriterNext, Workers
<1>4. CASE WriterInternal
  BY <1>4 DEF WriterNext
<1> QED BY <1>1, <1>2, <1>3, <1>4 DEF IndexedNext, Worker, Returned, allVars

--------------------------------------------------------------------------------
(* The indexed decoder: every step preserves the invariant.                    *)

\* What belongs to the decoder only changes in its own steps, and what belongs to the
\* writer in the others.
Own ==
    \/ Producer \/ Caller \/ Spurious
    \/ \E w \in Workers : \/ WorkerTop(w) \/ Pop(w) \/ PopNothing(w) \/ Decode(w) \/ Store(w)
                          \/ SubmitChunk(w) \/ SubmitReturns(w)

LEMMA OwnOrNot == IndexedNext => Own \/ UNCHANGED indexedVars
BY DEF IndexedNext, Own, Worker, CallerDrains, Returned, allVars

LEMMA NumChunksType == NumChunks \in Nat /\ IsFiniteSet(Chunks) /\ QueueCap \in Nat \ {0}
                       /\ \A c \in Chunks : c \in Nat /\ c < NumChunks
BY IndexedAssumption, WriterAssumption DEF Chunks

LEMMA IndexTypesStep ==
    ASSUME IInv, IndexedNext
    PROVE  IndexTypes'
<1>0. IndexTypes
  BY DEF IInv
<1>1. CASE UNCHANGED indexedVars
  BY <1>0, <1>1 DEF IndexTypes, indexedVars, queueVars, callerVars
<1>2. CASE Cut \/ WaitForRoom \/ CloseQueue
  BY <1>0, <1>2 DEF IndexTypes, Cut, WaitForRoom, CloseQueue, queueVars, callerVars
<1>3. CASE Push
  <2>1. total_tasks \in Chunks /\ total_tasks + 1 \in 0 .. NumChunks
    BY <1>0, <1>3, NumChunksType DEF IInv, Phases, IndexTypes, Push, Chunks
  <2>2. queued_bytes' \in Nat
    <3>1. Packed[total_tasks] \in Nat
      BY <2>1, IndexedAssumption
    <3> QED BY <1>0, <1>3, <3>1 DEF IndexTypes, Push
  <2> QED BY <1>0, <1>3, <2>1, <2>2 DEF IndexTypes, Push, callerVars
<1>4. ASSUME NEW w \in Workers, Pop(w)
      PROVE  IndexTypes'
  <2>1. PICK c \in queue : /\ queue' = queue \ {c} /\ hand' = [hand EXCEPT ![w] = {c}]
                           /\ queued_bytes' = Minus(queued_bytes, Packed[c])
    BY <1>4 DEF Pop
  <2>2. queued_bytes' \in Nat
    <3>1. Packed[c] \in Nat /\ queued_bytes \in Nat
      BY <1>0, <2>1, IndexedAssumption DEF IndexTypes
    <3> QED BY <2>1, <3>1, MinusType
  <2> QED BY <1>0, <1>4, <2>1, <2>2 DEF IndexTypes, Pop, callerVars
<1>5. ASSUME NEW w \in Workers, WorkerTop(w) \/ PopNothing(w) \/ Decode(w) \/ Store(w)
                                \/ SubmitChunk(w) \/ SubmitReturns(w)
      PROVE  IndexTypes'
  <2>1. /\ UNCHANGED <<call, queue, queued_bytes, queue_closed, total_tasks, producer, caller,
                       next_index, output, result>>
        /\ napping' = napping \/ napping' = napping \union {w}
        /\ error' = error \/ error' = TRUE
        /\ \E x \in {"top", "pop", "store", "submit", "submitting", "done"} :
              worker' = worker \/ worker' = [worker EXCEPT ![w] = x]
        /\ hand' = hand \/ hand' = [hand EXCEPT ![w] = {}]
        /\ decoded' = decoded \/ decoded' = decoded \union hand[w]
    BY <1>5 DEF WorkerTop, PopNothing, Decode, Store, SubmitChunk, SubmitReturns, queueVars,
       callerVars
  <2>2. decoded' \subseteq Chunks /\ hand' \in [Workers -> SUBSET Chunks]
    BY <1>0, <2>1 DEF IndexTypes
  <2>3. worker' \in [Workers -> {"top", "pop", "decode", "store", "submit", "submitting", "done"}]
    BY <1>0, <2>1 DEF IndexTypes
  <2>4. napping' \subseteq Workers \union {"producer"}
    BY <1>0, <2>1 DEF IndexTypes
  <2>5. error' \in BOOLEAN
    BY <1>0, <2>1, Zenon DEF IndexTypes
  <2> QED BY <1>0, <2>5, <2>1, <2>2, <2>3, <2>4 DEF IndexTypes
<1>6. CASE Poll \/ Join \/ CallerReturns \/ Spurious
  <2>1. /\ UNCHANGED <<call, queue, queued_bytes, queue_closed, total_tasks, producer, worker, hand,
                       decoded, next_index, output>>
        /\ napping' \subseteq napping /\ (error' = error \/ error' = FALSE)
        /\ caller' = caller \/ caller' \in {"join", "take", "failed", "drain", "check"}
        /\ result' = result \/ result' \in {"ok", "error"}
    BY <1>6 DEF Poll, Join, CallerReturns, Spurious, queueVars, callerVars
  <2> QED BY <1>0, <2>1, ZenonT(40) DEF IndexTypes
<1>7. CASE Take
  <2>1. ASSUME NEW c \in NextResult, output' = Append(output, c), next_index' = next_index + 1
        PROVE  output' \in Seq(Chunks) /\ next_index' \in 0 .. NumChunks
    <3>1. c \in Chunks /\ c = next_index
      BY <1>0, <2>1 DEF NextResult, IndexTypes
    <3> QED BY <1>0, <2>1, <3>1, NumChunksType DEF IndexTypes
  <2>2. output' \in Seq(Chunks) /\ next_index' \in 0 .. NumChunks
    BY <1>0, <1>7, <2>1 DEF Take, IndexTypes
  <2>3. decoded' \subseteq Chunks /\ caller' \in {"poll", "take", "leave"}
    BY <1>0, <1>7 DEF Take, IndexTypes
  <2> QED BY <1>0, <1>7, <2>2, <2>3 DEF IndexTypes, Take, queueVars
<1> QED BY <1>1, <1>2, <1>3, <1>4, <1>5, <1>6, <1>7, OwnOrNot DEF Own, Producer, Caller

LEMMA PhasesStep ==
    ASSUME IInv, IndexedNext
    PROVE  Phases'
<1>0. IndexTypes /\ Phases /\ Outcome /\ (ToFile)' = ToFile
      /\ \A what : (Fault(what))' = Fault(what)
  <2>1. call' = call
    BY OwnOrNot DEF Own, Producer, Caller, Cut, WaitForRoom, Push, CloseQueue, WorkerTop, Pop,
       PopNothing, Decode, Store, SubmitChunk, SubmitReturns, Poll, Take, Join, CallerReturns,
       Spurious, indexedVars
  <2> QED BY <2>1 DEF IInv, ToFile, Fault
<1>1. CASE UNCHANGED indexedVars
  BY <1>0, <1>1 DEF Phases, indexedVars, queueVars, callerVars
<1>2. CASE Cut \/ WaitForRoom \/ CloseQueue
  BY <1>0, <1>2 DEF IndexTypes, Phases, Cut, WaitForRoom, CloseQueue, queueVars, callerVars
<1>3. CASE Push
  BY <1>0, <1>3 DEF IndexTypes, Phases, Push, callerVars
<1>4. ASSUME NEW w \in Workers,
             \/ WorkerTop(w) \/ Pop(w) \/ PopNothing(w) \/ Decode(w) \/ Store(w)
             \/ SubmitChunk(w) \/ SubmitReturns(w)
      PROVE  Phases'
  <2>1. /\ UNCHANGED <<producer, total_tasks, queue_closed, caller>>
        /\ worker[w] # "done" /\ (error => error')
    BY <1>4 DEF WorkerTop, Pop, PopNothing, Decode, Store, SubmitChunk, SubmitReturns, queueVars,
       callerVars
  <2> QED BY <1>0, <2>1 DEF Phases
<1>5. CASE Poll \/ Take \/ CallerReturns \/ Spurious
  <2>1. /\ UNCHANGED <<producer, total_tasks, queue_closed, error, worker>>
        /\ \/ caller' = caller
           \/ caller \in {"poll", "take"} /\ caller' \in {"poll", "take", "join", "leave"}
    BY <1>5 DEF Poll, Take, CallerReturns, Spurious, queueVars, callerVars
  <2> QED BY <1>0, <2>1 DEF IndexTypes, Phases
<1>6. CASE Join
  BY <1>0, <1>6 DEF IndexTypes, Phases, Join, queueVars
<1> QED BY <1>1, <1>2, <1>3, <1>4, <1>5, <1>6, OwnOrNot DEF Own, Producer, Caller

\* A drain that has returned stays so, and errors are told to clients only.
LEMMA DrainerStays ==
    ASSUME [WriterNext]_writerVars, drainer \in {"ok", "failed"}
    PROVE  drainer' = drainer
<1>1. ASSUME NEW t \in Clients, SubmitFresh(t) \/ Client(t) \/ Return(t)
      PROVE  drainer' = drainer
  BY <1>1 DEF SubmitFresh, Submit, Client, SubmitCheck, SubmitGate, TakeError, Count, RingSend,
     IocpSend, Return
<1>2. CASE DrainQuiet
  BY <1>2 DEF DrainQuiet, Drain
<1>3. CASE WriterInternal
  BY <1>3 DEF WriterInternal, Ring, Iocp, Pool, Draining, RingCreate, RingFill, RingFull, RingIdle,
     RingFails, RingStops, RingComplete, IocpComplete, IocpPacket, PoolPop, PoolLeave,
     PoolSleep, PoolWrite, RingClose, IocpClose, PoolClose, DrainWait, DrainJoin, DrainCheck,
     WriterSpurious
<1> QED BY <1>1, <1>2, <1>3 DEF WriterNext, writerVars

LEMMA ToldFrame ==
    /\ WriterInternal => told' = told
    /\ \A t \in Clients : WInv /\ Client(t) => told' = told \/ client'[t] = "failed"
<1>1. WriterInternal => told' = told
  BY DEF WriterInternal, Ring, Iocp, Pool, Draining, RingCreate, RingFill, RingFull, RingIdle,
     RingFails, RingStops, RingComplete, IocpComplete, IocpPacket, PoolPop, PoolLeave,
     PoolSleep, PoolWrite, RingClose, IocpClose, PoolClose, DrainWait, DrainJoin, DrainCheck,
     WriterSpurious, clientVars
<1>2. ASSUME NEW t \in Clients, WInv, Client(t)
      PROVE  told' = told \/ client'[t] = "failed"
  <2>1. told' = told \/ client' = [client EXCEPT ![t] = "failed"]
    BY <1>2 DEF Client, SubmitCheck, SubmitGate, TakeError, Count, RingSend, IocpSend, clientVars
  <2> QED BY <1>2, <2>1 DEF WInv, WriterTypeOK
<1> QED BY <1>1, <1>2

LEMMA OutcomeStep ==
    ASSUME WInv, IInv, IndexedNext
    PROVE  Outcome'
<1>0. IndexTypes /\ Phases /\ Outcome /\ (ToFile)' = ToFile
      /\ \A what : (Fault(what))' = Fault(what)
  <2>1. call' = call
    BY OwnOrNot DEF Own, Producer, Caller, Cut, WaitForRoom, Push, CloseQueue, WorkerTop, Pop,
       PopNothing, Decode, Store, SubmitChunk, SubmitReturns, Poll, Take, Join, CallerReturns,
       Spurious, indexedVars
  <2> QED BY <2>1 DEF IInv, ToFile, Fault
<1>1. drainer = "ok" => drainer' = "ok"
  BY IndexedWrites, DrainerStays
<1>2. ASSUME UNCHANGED <<output, next_index, result>>, caller' = caller, error => error',
             caller = "drain" => decoded' = decoded
      PROVE  Outcome'
  BY <1>0, <1>1, <1>2 DEF Outcome
<1>3. CASE UNCHANGED indexedVars
  BY <1>2, <1>3 DEF indexedVars, callerVars
<1>4. CASE Producer \/ Spurious
  BY <1>2, <1>4 DEF Producer, Cut, WaitForRoom, Push, CloseQueue, Spurious, callerVars
<1>5. ASSUME NEW w \in Workers,
             \/ WorkerTop(w) \/ Pop(w) \/ PopNothing(w) \/ Decode(w) \/ Store(w)
             \/ SubmitChunk(w) \/ SubmitReturns(w)
      PROVE  Outcome'
  <2>1. UNCHANGED <<output, next_index, result, caller>> /\ (error => error') /\ worker[w] # "done"
    BY <1>5 DEF WorkerTop, Pop, PopNothing, Decode, Store, SubmitChunk, SubmitReturns, callerVars
  <2> QED BY <1>0, <1>2, <2>1 DEF Phases
<1>6. CASE Poll
  BY <1>0, <1>1, <1>6 DEF Outcome, Poll
<1>7. CASE Join
  BY <1>0, <1>1, <1>7 DEF Outcome, Join
<1>8. CASE CallerReturns
  <2>1. UNCHANGED <<output, next_index, caller, error, decoded>>
    BY <1>8 DEF CallerReturns
  <2>2. result' = "ok" => \/ caller = "check" /\ ~Fault("size")
                          \/ caller = "drain" /\ drainer = "ok" /\ decoded = Chunks
    BY <1>8 DEF CallerReturns
  <2> QED BY <1>0, <1>1, <2>1, <2>2 DEF Outcome
<1>9. CASE Take
  <2>1. caller = "take" /\ caller' \in {"poll", "take", "leave"} /\ result' = result
        /\ error' = error
    BY <1>9 DEF Take
  <2>2. CASE UNCHANGED <<output, next_index>>
    BY <1>0, <2>1, <2>2 DEF Outcome
  <2>3. CASE ~UNCHANGED <<output, next_index>>
    <3>1. PICK c \in NextResult : output' = Append(output, c) /\ next_index' = next_index + 1
      BY <1>9, <2>3 DEF Take
    <3>2. c = next_index /\ c \in Chunks /\ Len(output) = next_index /\ output \in Seq(Chunks)
      BY <1>0, <3>1 DEF NextResult, IndexTypes, Outcome
    <3>3. Len(output') = next_index' /\ \A k \in 1 .. Len(output') : output'[k] = k - 1
      <4>1. /\ output' = output \o <<c>> /\ Len(output') = Len(output) + 1
            /\ output'[Len(output) + 1] = c
            /\ \A k \in 1 .. Len(output) : output'[k] = output[k]
        <5> DEFINE S == Chunks
        <5>1. output \in Seq(S) /\ c \in S
          BY <3>2
        <5> HIDE DEF S
        <5> QED BY <3>1, <5>1, ElementsOfAppend
      <4>2. next_index \in Nat /\ \A k \in 1 .. Len(output) : output[k] = k - 1
        BY <1>0, NumChunksType DEF IndexTypes, Outcome
      <4>3. \A k \in 1 .. Len(output') : k \in 1 .. Len(output) \/ k = Len(output) + 1
        BY <4>1, <4>2, <3>2
      <4> QED BY <3>1, <3>2, <4>1, <4>2, <4>3
    <3> QED BY <1>0, <2>1, <3>3 DEF Outcome
  <2> QED BY <2>2, <2>3
<1> QED BY <1>3, <1>4, <1>5, <1>6, <1>7, <1>8, <1>9, OwnOrNot DEF Own, Caller

LEMMA LevelStep ==
    ASSUME IInv, IndexedNext
    PROVE  Level'
<1>0. /\ queue \subseteq Chunks /\ queued_bytes \in Nat /\ Level /\ IndexTypes
  BY DEF IInv, IndexTypes
<1>1. ASSUME UNCHANGED <<queue, queued_bytes>>
      PROVE  Level'
  BY <1>0, <1>1 DEF Level
<1>2. CASE Push
  <2>1. total_tasks \in Chunks /\ total_tasks \notin queue
    BY <1>2, NumChunksType DEF IInv, Phases, IndexTypes, Push, Chunks, Spread, OnTheWay
  <2>2. /\ Packed[total_tasks] \in Nat \ {0}
        /\ Weight(queue \union {total_tasks}) = Weight(queue) + Packed[total_tasks]
    BY <1>0, <2>1, WeightMoves
  <2>3. queued_bytes < QueueCap
    BY <1>0, <1>2, NumChunksType DEF IInv, Phases, Push, NoRoom
  <2>4. queued_bytes' = Weight(queue') /\ queued_bytes' < QueueCap + Packed[total_tasks]
    BY <1>0, <1>2, <2>2, <2>3, NumChunksType DEF Push, Level
  <2> QED BY <2>1, <2>4 DEF Level
<1>3. ASSUME NEW w \in Workers, Pop(w)
      PROVE  Level'
  <2>1. PICK c \in queue : queue' = queue \ {c} /\ queued_bytes' = Minus(queued_bytes, Packed[c])
    BY <1>3 DEF Pop
  <2>2. /\ Packed[c] \in Nat \ {0} /\ Packed[c] <= Weight(queue)
        /\ Weight(queue \ {c}) = Weight(queue) - Packed[c]
    BY <1>0, <2>1, WeightMoves
  <2>3. queued_bytes' = queued_bytes - Packed[c]
    BY <1>0, <2>1, <2>2, MinusType DEF Level
  <2>4. queued_bytes' \in Nat /\ queued_bytes' <= queued_bytes
    BY <1>0, <2>2, <2>3 DEF Level
  <2>5. \A d \in Chunks : Packed[d] \in Nat
    BY IndexedAssumption
  <2>6. queued_bytes' >= QueueCap => \E d \in Chunks : queued_bytes' < QueueCap + Packed[d]
    BY <1>0, <2>4, <2>5, NumChunksType DEF Level
  <2>7. queued_bytes' = Weight(queue')
    BY <1>0, <2>1, <2>2, <2>3 DEF Level
  <2> QED BY <2>6, <2>7 DEF Level
<1>4. CASE UNCHANGED indexedVars
  BY <1>1, <1>4 DEF indexedVars, queueVars
<1>5. CASE Cut \/ WaitForRoom \/ CloseQueue \/ Caller \/ Spurious
  BY <1>1, <1>5 DEF Cut, WaitForRoom, CloseQueue, Caller, Poll, Take, Join, CallerReturns, Spurious,
     queueVars
<1>6. ASSUME NEW w \in Workers,
             \/ WorkerTop(w) \/ PopNothing(w) \/ Decode(w) \/ Store(w)
             \/ SubmitChunk(w) \/ SubmitReturns(w)
      PROVE  Level'
  BY <1>1, <1>6 DEF WorkerTop, PopNothing, Decode, Store, SubmitChunk, SubmitReturns, queueVars
<1> QED BY <1>2, <1>3, <1>4, <1>5, <1>6, OwnOrNot DEF Own, Producer

LEMMA SpreadStep ==
    ASSUME IInv, IndexedNext
    PROVE  Spread'
<1> DEFINE Holding == {"decode", "submit", "submitting", "store"}
<1>0. /\ IndexTypes /\ Spread /\ Phases
      /\ worker \in [Workers -> {"top", "pop", "decode", "store", "submit", "submitting", "done"}]
      /\ hand \in [Workers -> SUBSET Chunks] /\ next_index \in Nat /\ total_tasks \in Nat
  BY NumChunksType DEF IInv, IndexTypes
\* Nothing moves, or a worker does something about what it holds.
<1>1. ASSUME UNCHANGED <<queue, decoded, next_index, total_tasks, hand>>,
             \A w \in Workers : worker'[w] \in Holding <=> worker[w] \in Holding
      PROVE  Spread'
  BY <1>0, <1>1 DEF Spread, OnTheWay
<1>2. ASSUME NEW w \in Workers, UNCHANGED <<next_index, total_tasks, queue>>,
             hand' = [hand EXCEPT ![w] = {}],
             \E x \in {"top", "done"} : worker' = [worker EXCEPT ![w] = x],
             \/ decoded' = decoded
             \/ decoded' = decoded \union hand[w] /\ worker[w] = "store"
      PROVE  Spread'
  <2>1. /\ \A v \in Workers : v # w => hand'[v] = hand[v] /\ worker'[v] = worker[v]
        /\ hand'[w] = {} /\ worker'[w] \notin Holding
    BY <1>0, <1>2
  <2>2. /\ decoded' \subseteq OnTheWay /\ queue \intersect decoded' = {}
        /\ \A v \in Workers : v # w => hand[v] \intersect decoded' = {}
    <3>1. CASE decoded' = decoded
      BY <1>0, <3>1 DEF Spread
    <3>2. CASE decoded' = decoded \union hand[w] /\ worker[w] = "store"
      BY <1>0, <3>2 DEF Spread
    <3> QED BY <1>2, <3>1, <3>2
  <2>3. OnTheWay' = OnTheWay
    BY <1>2 DEF OnTheWay
  <2>4. ASSUME NEW v \in Workers
        PROVE  /\ hand'[v] \intersect (queue' \union decoded') = {}
               /\ IF worker'[v] \in Holding
                    THEN \E c \in OnTheWay' : hand'[v] = {c} ELSE hand'[v] = {}
               /\ \A u \in Workers : u # v => hand'[u] \intersect hand'[v] = {}
    <3>1. CASE v = w
      BY <2>1, <3>1
    <3>2. CASE v # w
      BY <1>0, <1>2, <2>1, <2>2, <2>3, <3>2 DEF Spread
    <3> QED BY <3>1, <3>2
  <2> HIDE DEF Holding
  <2>5. next_index' <= total_tasks' /\ queue' \subseteq OnTheWay'
    BY <1>0, <1>2, <2>3 DEF Spread
  <2> QED BY <1>2, <2>2, <2>3, <2>4, <2>5 DEF Spread, Holding
<1>3. CASE UNCHANGED indexedVars
  BY <1>1, <1>3 DEF indexedVars, queueVars, callerVars
<1>4. CASE Cut \/ WaitForRoom \/ CloseQueue \/ Poll \/ Join \/ CallerReturns \/ Spurious
  BY <1>1, <1>4 DEF Cut, WaitForRoom, CloseQueue, Poll, Join, CallerReturns, Spurious, queueVars,
     callerVars
<1>5. CASE Push
  <2>1. /\ queue' = queue \union {total_tasks} /\ total_tasks' = total_tasks + 1
        /\ UNCHANGED <<decoded, next_index, hand, worker>>
        /\ total_tasks \in Chunks
    BY <1>0, <1>5, NumChunksType DEF Push, callerVars, Phases, IndexTypes, Chunks
  <2>2. /\ total_tasks \notin OnTheWay /\ total_tasks \in OnTheWay' /\ OnTheWay \subseteq OnTheWay'
        /\ next_index' <= total_tasks'
    <3>1. next_index <= total_tasks /\ \A c \in Chunks : c \in Nat
      BY <1>0, NumChunksType DEF Spread
    <3>2. \A c \in Chunks : c < total_tasks => c < total_tasks + 1
      BY <1>0, <3>1
    <3>3. total_tasks < total_tasks + 1 /\ next_index <= total_tasks + 1 /\ ~(total_tasks < total_tasks)
      BY <1>0, <3>1
    <3> QED BY <1>0, <2>1, <3>1, <3>2, <3>3 DEF OnTheWay
  <2>3. /\ queue' \subseteq OnTheWay' /\ decoded' \subseteq OnTheWay' /\ queue' \intersect decoded' = {}
    BY <1>0, <2>1, <2>2 DEF Spread
  <2>4. ASSUME NEW v \in Workers
        PROVE  /\ hand'[v] \intersect (queue' \union decoded') = {}
               /\ IF worker'[v] \in Holding
                    THEN \E c \in OnTheWay' : hand'[v] = {c} ELSE hand'[v] = {}
               /\ \A u \in Workers : u # v => hand'[u] \intersect hand'[v] = {}
    BY <1>0, <2>1, <2>2 DEF Spread
  <2> QED BY <2>2, <2>3, <2>4 DEF Spread
<1>6. ASSUME NEW w \in Workers, Pop(w)
      PROVE  Spread'
  <2>1. PICK c \in queue : queue' = queue \ {c} /\ hand' = [hand EXCEPT ![w] = {c}]
    BY <1>6 DEF Pop
  <2>2. /\ UNCHANGED <<decoded, next_index, total_tasks>> /\ worker[w] = "pop"
        /\ worker' = [worker EXCEPT ![w] = "decode"]
    BY <1>6 DEF Pop, callerVars
  <2>3. OnTheWay' = OnTheWay /\ c \in OnTheWay /\ c \notin decoded
        /\ \A v \in Workers : c \notin hand[v]
    BY <1>0, <2>1, <2>2 DEF OnTheWay, Spread
  <2>4. /\ \A v \in Workers : v # w => hand'[v] = hand[v] /\ worker'[v] = worker[v]
        /\ hand'[w] = {c} /\ worker'[w] = "decode"
    BY <1>0, <2>1, <2>2
  <2>5. ASSUME NEW v \in Workers
        PROVE  /\ hand'[v] \intersect (queue' \union decoded') = {}
               /\ IF worker'[v] \in Holding
                    THEN \E d \in OnTheWay' : hand'[v] = {d} ELSE hand'[v] = {}
               /\ \A u \in Workers : u # v => hand'[u] \intersect hand'[v] = {}
    <3>1. CASE v = w
      BY <1>0, <2>1, <2>2, <2>3, <2>4, <3>1 DEF Spread
    <3>2. CASE v # w
      BY <1>0, <2>1, <2>2, <2>3, <2>4, <3>2 DEF Spread
    <3> QED BY <3>1, <3>2
  <2> QED BY <1>0, <2>1, <2>2, <2>3, <2>5 DEF Spread
<1>7. ASSUME NEW w \in Workers,
             WorkerTop(w) \/ PopNothing(w) \/ SubmitChunk(w)
      PROVE  Spread'
  <2>1. /\ UNCHANGED <<queue, decoded, next_index, total_tasks, hand>>
        /\ \/ worker' = worker
           \/ /\ worker[w] \notin Holding
              /\ \E x \in {"done", "pop"} : worker' = [worker EXCEPT ![w] = x]
           \/ worker[w] \in Holding /\ worker' = [worker EXCEPT ![w] = "submitting"]
    BY <1>7 DEF WorkerTop, PopNothing, SubmitChunk, queueVars, callerVars
  <2>2. \A v \in Workers : worker'[v] \in Holding <=> worker[v] \in Holding
    BY <1>0, <2>1
  <2> QED BY <1>1, <2>1, <2>2
<1>8. ASSUME NEW w \in Workers, Decode(w)
      PROVE  Spread'
  <2>1. CASE hand' = hand
    <3>1. /\ UNCHANGED <<queue, decoded, next_index, total_tasks, hand>> /\ worker[w] = "decode"
          /\ hand[w] # {} => worker' = [worker EXCEPT ![w] = IF ToFile THEN "submit" ELSE "store"]
      <4>1. hand[w] # {} => hand' # [hand EXCEPT ![w] = {}]
        BY <1>0, <2>1
      <4> QED BY <1>8, <2>1, <4>1 DEF Decode, queueVars, callerVars
    <3>2. hand[w] # {}
      BY <1>0, <3>1 DEF Spread
    <3>3. \A v \in Workers : worker'[v] \in Holding <=> worker[v] \in Holding
      BY <1>0, <3>1, <3>2
    <3> QED BY <1>1, <3>1, <3>3
  <2>2. CASE hand' = [hand EXCEPT ![w] = {}] /\ worker' = [worker EXCEPT ![w] = "done"]
    BY <1>2, <1>8, <2>2 DEF Decode, queueVars, callerVars
  <2> QED BY <1>8, <2>1, <2>2 DEF Decode
<1>9. ASSUME NEW w \in Workers, Store(w)
      PROVE  Spread'
  BY <1>2, <1>9 DEF Store, queueVars, callerVars
<1>10. ASSUME NEW w \in Workers, SubmitReturns(w)
       PROVE  Spread'
  <2>1. /\ UNCHANGED <<queue, decoded, next_index, total_tasks>> /\ worker[w] = "submitting"
        /\ \/ worker' = [worker EXCEPT ![w] = "store"] /\ hand' = hand
           \/ worker' = [worker EXCEPT ![w] = "done"] /\ hand' = [hand EXCEPT ![w] = {}]
    BY <1>10 DEF SubmitReturns, queueVars, callerVars
  <2>2. CASE worker' = [worker EXCEPT ![w] = "store"] /\ hand' = hand
    <3>1. \A v \in Workers : worker'[v] \in Holding <=> worker[v] \in Holding
      BY <1>0, <2>1, <2>2
    <3> QED BY <1>1, <2>1, <2>2, <3>1
  <2> QED BY <1>2, <2>1, <2>2
<1>11. CASE Take
  <2>1. UNCHANGED <<queue, total_tasks, hand, worker>>
    BY <1>11 DEF Take, queueVars
  <2>2. \/ UNCHANGED <<decoded, next_index>>
        \/ \E c \in NextResult : decoded' = decoded \ {c} /\ next_index' \in {next_index, next_index + 1}
    BY <1>11 DEF Take
  <2>3. CASE UNCHANGED <<decoded, next_index>>
    BY <1>1, <2>1, <2>3
  <2>4. ASSUME NEW c \in NextResult, decoded' = decoded \ {c},
               next_index' \in {next_index, next_index + 1}
        PROVE  Spread'
    <3>1. c = next_index /\ c \in decoded
      BY <2>4 DEF NextResult
    <3>2. /\ \A d \in OnTheWay : d # c => d \in OnTheWay'
          /\ next_index' <= total_tasks'
      BY <1>0, <2>1, <2>4, <3>1, NumChunksType DEF OnTheWay, Spread
    <3>3. queue' \subseteq OnTheWay' /\ decoded' \subseteq OnTheWay' /\ queue' \intersect decoded' = {}
      BY <1>0, <2>1, <2>4, <3>1, <3>2 DEF Spread
    <3>4. ASSUME NEW v \in Workers
          PROVE  /\ hand'[v] \intersect (queue' \union decoded') = {}
                 /\ IF worker'[v] \in Holding
                      THEN \E d \in OnTheWay' : hand'[v] = {d} ELSE hand'[v] = {}
                 /\ \A u \in Workers : u # v => hand'[u] \intersect hand'[v] = {}
      <4>1. c \notin hand[v]
        BY <1>0, <3>1 DEF Spread
      <4> QED BY <1>0, <2>1, <2>4, <3>2, <4>1 DEF Spread
    <3> QED BY <3>2, <3>3, <3>4 DEF Spread
  <2> QED BY <2>2, <2>3, <2>4
<1> QED BY <1>3, <1>4, <1>5, <1>6, <1>7, <1>8, <1>9, <1>10, <1>11, OwnOrNot DEF Own, Producer, Caller

LEMMA LinkedStep ==
    ASSUME WInv, IInv, IndexedNext
    PROVE  Linked'
<1>0. /\ IndexTypes /\ Spread /\ Phases /\ Linked /\ Requests /\ (ToFile)' = ToFile
      /\ worker \in [Workers -> {"top", "pop", "decode", "store", "submit", "submitting", "done"}]
      /\ hand \in [Workers -> SUBSET Chunks]
      /\ client \in [Workers -> {"out", "check", "gate", "woken", "send", "ok", "failed"}]
      /\ request \in [Workers -> SUBSET Writes]
  <2>1. call' = call
    BY OwnOrNot DEF Own, Producer, Caller, Cut, WaitForRoom, Push, CloseQueue, WorkerTop, Pop,
       PopNothing, Decode, Store, SubmitChunk, SubmitReturns, Poll, Take, Join, CallerReturns,
       Spurious, indexedVars
  <2> QED BY <2>1 DEF IInv, IndexTypes, WInv, WriterTypeOK, Workers, ToFile
\* Steps that touch neither the writer nor what links it.
<1>1. ASSUME UNCHANGED <<client, request, accepted, drainer, told>>,
             UNCHANGED <<worker, hand, decoded>>,
             error => error' \/ caller' = "failed",
             caller \in {"failed", "drain"} => caller' = caller
      PROVE  Linked'
  BY <1>0, <1>1 DEF Linked
<1>2. CASE (Producer \/ Caller \/ Spurious) /\ UNCHANGED writerVars
  <2>1. UNCHANGED <<client, request, accepted, drainer, told>>
    BY <1>2 DEF writerVars, clientVars
  <2>2. CASE Producer \/ Spurious
    BY <1>1, <2>1, <2>2 DEF Producer, Cut, WaitForRoom, Push, CloseQueue, Spurious, callerVars
  <2>3. CASE Poll \/ CallerReturns
    BY <1>1, <2>1, <2>3 DEF Poll, CallerReturns
  <2>4. CASE Join
    BY <1>1, <2>1, <2>4 DEF Join
  <2>5. CASE Take
    <3>1. UNCHANGED <<worker, hand, error>> /\ caller = "take" /\ decoded' \subseteq decoded
      BY <2>5 DEF Take
    <3>2. ~ToFile /\ accepted = {}
      BY <1>0, <3>1 DEF Phases, Linked
    <3> QED BY <1>0, <2>1, <3>1, <3>2 DEF Linked
  <2> QED BY <1>2, <2>2, <2>3, <2>4, <2>5 DEF Caller
<1>3. ASSUME NEW w \in Workers,
             WorkerTop(w) \/ Pop(w) \/ PopNothing(w) \/ Decode(w) \/ Store(w),
             UNCHANGED writerVars
      PROVE  Linked'
  <2>1. UNCHANGED <<client, request, accepted, drainer, told, caller>> /\ (error => error')
    BY <1>3 DEF writerVars, clientVars, WorkerTop, Pop, PopNothing, Decode, Store, callerVars
  <2>2. CASE WorkerTop(w) \/ Pop(w) \/ PopNothing(w) \/ Decode(w)
    <3>1. /\ decoded' = decoded /\ worker[w] \in {"top", "pop", "decode"}
          /\ \A v \in Workers : v # w => worker'[v] = worker[v] /\ hand'[v] = hand[v]
          /\ worker'[w] \in {"done", "top", "pop", "decode", "store", "submit"}
          /\ worker'[w] = "submit" => ToFile
          /\ worker'[w] = "store" => ~ToFile
      BY <1>0, <2>2 DEF WorkerTop, Pop, PopNothing, Decode, callerVars
    <3> QED BY <1>0, <2>1, <3>1 DEF Linked
  <2>3. CASE Store(w)
    <3>1. /\ decoded' = decoded \union hand[w] /\ worker[w] = "store"
          /\ worker' = [worker EXCEPT ![w] = "top"] /\ hand' = [hand EXCEPT ![w] = {}]
      BY <1>0, <2>3 DEF Store, Spread
    <3>2. /\ \A v \in Workers : v # w => worker'[v] = worker[v] /\ hand'[v] = hand[v]
          /\ worker'[w] = "top"
      BY <1>0, <3>1
    <3> QED BY <1>0, <2>1, <3>1, <3>2 DEF Linked
  <2> QED BY <1>3, <2>2, <2>3
<1>4. ASSUME NEW w \in Workers, SubmitChunk(w)
      PROVE  Linked'
  <2>1. /\ worker[w] = "submit" /\ worker' = [worker EXCEPT ![w] = "submitting"]
        /\ UNCHANGED <<error, hand, decoded, caller>>
    BY <1>4 DEF SubmitChunk, callerVars
  <2>2. PICK c \in hand[w] : Submit(w, c)
    BY <1>4 DEF SubmitChunk
  <2>3. /\ client[w] = "out" /\ client' = [client EXCEPT ![w] = "check"]
        /\ request' = [request EXCEPT ![w] = {c}]
        /\ UNCHANGED <<accepted, told, drainer>>
    BY <2>2 DEF Submit
  <2>4. hand[w] = {c}
    BY <1>0, <2>1, <2>2 DEF Spread
  <2>5. /\ \A v \in Workers : v # w => /\ worker'[v] = worker[v] /\ client'[v] = client[v]
                                       /\ request'[v] = request[v]
        /\ worker'[w] = "submitting" /\ client'[w] = "check" /\ request'[w] = {c}
    BY <1>0, <2>1, <2>3
  <2> QED BY <1>0, <2>1, <2>3, <2>4, <2>5 DEF Linked
<1>5. ASSUME NEW w \in Workers, SubmitReturns(w)
      PROVE  Linked'
  <2>1. /\ worker[w] = "submitting" /\ UNCHANGED <<decoded, caller>>
        /\ client[w] \in {"ok", "failed"} /\ client' = [client EXCEPT ![w] = "out"]
        /\ request' = [request EXCEPT ![w] = {}]
        /\ UNCHANGED <<accepted, told, drainer>>
        /\ \/ /\ client[w] = "ok" /\ worker' = [worker EXCEPT ![w] = "store"]
              /\ UNCHANGED <<error, hand>>
           \/ /\ client[w] = "failed" /\ error' = TRUE
              /\ worker' = [worker EXCEPT ![w] = "done"] /\ hand' = [hand EXCEPT ![w] = {}]
    BY <1>5 DEF SubmitReturns, Return, callerVars
  <2>2. /\ \A v \in Workers : v # w => /\ worker'[v] = worker[v] /\ client'[v] = client[v]
                                       /\ request'[v] = request[v] /\ hand'[v] = hand[v]
        /\ worker'[w] \in {"store", "done"} /\ client'[w] = "out"
    BY <1>0, <2>1
  <2>3. request[w] = hand[w]
    BY <1>0, <2>1 DEF Linked
  <2>4. client[w] = "ok" => hand[w] \subseteq accepted /\ hand'[w] = hand[w] /\ worker'[w] = "store"
                            /\ error' = error
    BY <1>0, <2>1, <2>3 DEF Requests, Workers
  <2>5. client[w] = "failed" => hand[w] \intersect accepted = {} /\ worker'[w] = "done" /\ error' = TRUE
    BY <1>0, <2>1, <2>3 DEF Requests, Workers
  <2>6. CASE client[w] = "ok"
    BY <1>0, <2>1, <2>2, <2>4, <2>6 DEF Linked
  <2>7. CASE client[w] = "failed"
    BY <1>0, <2>1, <2>2, <2>5, <2>7 DEF Linked
  <2> QED BY <2>1, <2>6, <2>7
<1>6. ASSUME NEW w \in Workers, Client(w), UNCHANGED indexedVars
      PROVE  Linked'
  <2>1. UNCHANGED <<error, worker, hand, decoded, caller>>
    BY <1>6 DEF indexedVars, callerVars
  <2>2. /\ client[w] \notin {"out", "ok", "failed"} /\ UNCHANGED <<request, drainer>>
        /\ \E x \in {"gate", "woken", "send", "ok", "failed"} : client' = [client EXCEPT ![w] = x]
        /\ accepted' = accepted \/ accepted' = accepted \union request[w]
    <3>1. w \in Clients
      BY DEF Workers
    <3> QED BY <1>6, <3>1, ClientMoves
  <2>3. told' = told \/ client'[w] = "failed"
    BY <1>6, ToldFrame DEF Workers
  <2>4. /\ \A v \in Workers : v # w => client'[v] = client[v]
        /\ client'[w] # "out"
    BY <1>0, <2>2
  <2>5. worker[w] = "submitting" /\ request[w] = hand[w] /\ ToFile
    BY <1>0, <2>2 DEF Linked
  <2>6. /\ told' => error \/ caller = "failed" \/ \E v \in Workers : client'[v] = "failed"
    BY <1>0, <2>2, <2>3, <2>4 DEF Linked
  <2> QED BY <1>0, <2>1, <2>2, <2>4, <2>5, <2>6 DEF Linked
<1>7. CASE CallerDrains
  <2>1. /\ caller = "drain" /\ UNCHANGED <<error, worker, hand, decoded, caller>>
        /\ UNCHANGED <<client, request, accepted, told>>
    BY <1>7 DEF CallerDrains, Drain, indexedVars, callerVars, clientVars
  <2> QED BY <1>0, <2>1 DEF Linked
<1>8. CASE WriterInternal /\ UNCHANGED indexedVars
  <2>1. /\ UNCHANGED <<error, worker, hand, decoded, caller>>
        /\ UNCHANGED <<client, request, accepted, told>>
        /\ drainer = "out" => drainer' = "out"
    BY <1>8, InternalFrame, ToldFrame, DrainerFrame DEF indexedVars, callerVars
  <2> QED BY <1>0, <2>1 DEF Linked
<1>9. CASE Returned
  BY <1>1, <1>9 DEF Returned, allVars, writerVars, clientVars, indexedVars, callerVars
<1> QED BY <1>2, <1>3, <1>4, <1>5, <1>6, <1>7, <1>8, <1>9 DEF IndexedNext, Worker

\* The invariant holds at the start, and every step of the decoder preserves it.
LEMMA IndexedStart ==
    ASSUME IndexedInit
    PROVE  WInv /\ IInv
<1>1. WInv
  BY WriterStart DEF IndexedInit
<1>2. IndexTypes
  <2>1. /\ producer \in {"cut", "done"} /\ caller \in {"join", "failed", "poll"}
        /\ worker \in [Workers -> {"top", "done"}]
    BY DEF IndexedInit
  <2>2. hand \in [Workers -> SUBSET Chunks] /\ output = <<>>
    BY DEF IndexedInit
  <2>3. worker \in [Workers -> {"top", "pop", "decode", "store", "submit", "submitting", "done"}]
    BY <2>1
  <2>4. output \in Seq(Chunks)
    BY <2>2
  <2>5. /\ call \in Calls /\ queue = {} /\ queued_bytes = 0 /\ queue_closed = FALSE
        /\ total_tasks = 0 /\ napping = {} /\ error = FALSE /\ decoded = {} /\ next_index = 0
        /\ result = "none"
    BY DEF IndexedInit
  <2>6. /\ producer \in {"cut", "push", "close", "done", "failed"}
        /\ caller \in {"poll", "take", "join", "leave", "drain", "check", "failed"}
    BY <2>1
  <2>7. 0 \in Nat /\ total_tasks \in 0 .. NumChunks /\ next_index \in 0 .. NumChunks
    BY <2>5, NumChunksType
  <2> QED BY <2>2, <2>3, <2>4, <2>5, <2>6, <2>7, Zenon DEF IndexTypes
<1>3. Phases /\ Outcome
  BY <1>2, NumChunksType DEF IndexedInit, IndexTypes, Phases, Outcome
<1>4. Spread
  BY NumChunksType DEF IndexedInit, Spread, OnTheWay
<1>5. Level
  <2> DEFINE W == Chunks  f == Packed
  <2>1. IsFiniteSet(W) /\ f \in [W -> Nat] /\ {} \in SUBSET W /\ Weight({}) = SumOf(f, {})
    BY WeightIs, NumChunksType, IndexedAssumption
  <2> HIDE DEF W, f
  <2>2. Weight({}) = 0
    BY <2>1, SumOfType
  <2> QED BY <2>2, NumChunksType DEF IndexedInit, Level
<1>6. Linked
  BY DEF IndexedInit, WriterInit, Linked, Workers
<1> QED BY <1>1, <1>2, <1>3, <1>4, <1>5, <1>6 DEF IInv

LEMMA IndexedStep ==
    ASSUME WInv, IInv, IndexedNext
    PROVE  WInv' /\ IInv'
<1>1. WInv'
  BY IndexedWrites, WriterStep
<1>2. IndexTypes' /\ Phases'
  BY IndexTypesStep, PhasesStep
<1>3. Outcome' /\ Level'
  BY OutcomeStep, LevelStep
<1>4. Spread' /\ Linked'
  BY SpreadStep, LinkedStep
<1> QED BY <1>1, <1>2, <1>3, <1>4 DEF IInv

\* What the invariant says of a call that returns.
LEMMA IndexedMeaning ==
    ASSUME WInv, IInv
    PROVE  IndexedOkIsWhole
<1>1. QueueExact
  <2>1. IndexedTypes
    BY DEF IInv, IndexTypes, IndexedTypes, WInv
  <2>2. \A w \in Workers : /\ hand[w] \intersect (queue \union decoded) = {}
                           /\ \A v \in Workers \ {w} : hand[w] \intersect hand[v] = {}
    BY DEF IInv, Spread
  <2> QED BY <2>1, <2>2 DEF IInv, Level, Spread, QueueExact
<1>2. \A k \in 1 .. Len(output) : output[k] = k - 1
  BY DEF IInv, Outcome
<1>3. ASSUME result = "ok"
      PROVE  /\ IF ToFile THEN \A c \in Chunks : left[c] = 0 ELSE Len(output) = NumChunks
             /\ producer = "done" /\ ~Fault("trailing") /\ ~Fault("size")
  <2>1. CASE caller = "check" /\ ~Fault("size")
    <3>1. ~ToFile /\ ~error /\ producer \in {"done", "failed"}
      BY <2>1 DEF IInv, Phases
    <3> QED BY <2>1, <3>1 DEF IInv, Phases, Outcome
  <2>2. CASE caller = "drain" /\ drainer = "ok" /\ decoded = Chunks
    <3>1. /\ ToFile /\ ~error /\ producer \in {"done", "failed"} /\ ~Fault("size")
          /\ \A w \in Workers : worker[w] = "done"
      BY <2>2 DEF IInv, Phases
    <3>2. producer = "done" /\ ~Fault("trailing")
      BY <2>2, <3>1 DEF IInv, Phases
    <3>3. ~told
      BY <2>2, <3>1 DEF IInv, Linked
    <3>4. Chunks \subseteq accepted
      BY <2>2, <3>1 DEF IInv, Linked
    <3>5. \A c \in accepted : left[c] = 0
      BY <2>2, <3>3 DEF WInv, Stopping
    <3> QED BY <3>1, <3>2, <3>4, <3>5
  <2> QED BY <1>3, <2>1, <2>2 DEF IInv, Outcome
<1> QED BY <1>1, <1>2, <1>3 DEF IndexedOkIsWhole

--------------------------------------------------------------------------------
(* The parallel-write decoder: its inductive invariant.                        *)

DecoderTypes ==
    /\ call \in ParallelCalls /\ queued \subseteq Chunks /\ produced \in 0 .. NumChunks
    /\ eof \in BOOLEAN /\ halted \in BOOLEAN /\ dozing \subseteq Clients
    /\ err_slot \in BOOLEAN /\ err_flag \in BOOLEAN
    /\ producer \in {"read", "fail", "done"}
    /\ worker \in [Clients -> {"top", "pop", "decode", "submit", "submitting", "fail", "done"}]
    /\ batch \in [Clients -> SUBSET Chunks]
    /\ result \in {"none", "ok", "error"}

\* A chunk that was read is queued, held by one worker or submitted.
Shared ==
    /\ queued \subseteq 0 .. produced - 1 /\ Parallel!Submitted \subseteq 0 .. produced - 1
    /\ queued \intersect Parallel!Submitted = {}
    /\ \A w \in Clients :
          /\ batch[w] \subseteq 0 .. produced - 1
          /\ batch[w] \intersect (queued \union Parallel!Submitted) = {}
          /\ worker[w] \in {"top", "pop"} => batch[w] = {}
          /\ worker[w] = "done" /\ ~err_flag => batch[w] = {}
    /\ \A v, w \in Clients : v # w => batch[v] \intersect batch[w] = {}
    /\ ~err_flag => \A c \in 0 .. produced - 1 :
          c \in queued \union Parallel!Submitted \/ \E w \in Clients : c \in batch[w]

\* The error slot and its flag; who stops has recorded an error.
Errors ==
    /\ err_slot => err_flag
    /\ result = "none" => (err_flag => err_slot)
    /\ halted \/ producer = "fail" => err_flag
    /\ \A w \in Clients : worker[w] = "fail" => err_flag
    /\ told => err_flag \/ \E w \in Clients : client[w] = "failed"

\* What the end of the stream says, and what a worker saw that left without an error.
Ends ==
    /\ producer = "read" => ~eof /\ \A c \in call.final : produced <= c
    /\ producer = "done" => eof \/ err_flag
    /\ eof => produced = NumChunks /\ call.final = {c \in Chunks : c + 1 = NumChunks}
    /\ \A w \in call.workers :
          worker[w] = "done" /\ ~err_flag => eof /\ Parallel!QueueOf(w) = {}

\* The calls of submit, the drain, and the result.
Calling ==
    /\ \A w \in Clients : client[w] # "out" <=> worker[w] = "submitting"
    /\ drainer # "out" => producer = "done" /\ \A w \in Clients : worker[w] = "done"
    /\ result # "none" => drainer \in {"ok", "failed"}
    /\ result = "ok" => drainer = "ok" /\ ~err_flag

PInv == DecoderTypes /\ Shared /\ Errors /\ Ends /\ Calling

--------------------------------------------------------------------------------
(* The parallel-write decoder over the same writer: what it calls by the names *)
(* of its instance is the writer's.                                            *)

LEMMA SameStart == Parallel!WriterInit <=> WriterInit
BY DEF Parallel!WriterInit, WriterInit, Parallel!Backend, Backend

LEMMA SameVars == UNCHANGED Parallel!writerVars <=> UNCHANGED writerVars
BY DEF Parallel!writerVars, writerVars, Parallel!gateVars, gateVars, Parallel!ringVars, ringVars,
   Parallel!engineVars, engineVars, Parallel!poolVars, poolVars, Parallel!clientVars, clientVars

LEMMA SameCalls ==
    /\ \A t, r : Parallel!Submit(t, r) <=> Submit(t, r)
    /\ \A t : Parallel!Return(t) <=> Return(t)
    /\ Parallel!Drain <=> Drain
BY DEF Parallel!Submit, Submit, Parallel!Return, Return, Parallel!Drain, Drain, Parallel!gateVars,
   gateVars, Parallel!ringVars, ringVars, Parallel!engineVars, engineVars, Parallel!poolVars,
   poolVars, Parallel!clientVars, clientVars

LEMMA SameUncount == \A n : Parallel!Uncount(n) <=> Uncount(n)
BY DEF Parallel!Uncount, Uncount, Parallel!Minus, Minus

LEMMA SameClient == \A t : Parallel!Client(t) <=> Client(t)
<1> TAKE t
<1>1. Parallel!SubmitCheck(t) <=> SubmitCheck(t)
  BY DEF Parallel!SubmitCheck, SubmitCheck, Parallel!TakeError, TakeError, Parallel!gateVars,
     gateVars, Parallel!ringVars, ringVars, Parallel!engineVars, engineVars, Parallel!poolVars,
     poolVars
<1>2. Parallel!SubmitGate(t) <=> SubmitGate(t)
  BY DEF Parallel!SubmitGate, SubmitGate, Parallel!Count, Count, Parallel!TakeError, TakeError,
     Parallel!GateShut, GateShut, Parallel!Backend, Backend, Parallel!gateVars, gateVars,
     Parallel!ringVars, ringVars, Parallel!engineVars, engineVars, Parallel!poolVars, poolVars,
     Parallel!clientVars, clientVars, Parallel!SizeOf, SizeOf
<1>3. Parallel!RingSend(t) <=> RingSend(t)
  BY DEF Parallel!RingSend, RingSend, Parallel!Backend, Backend, Parallel!gateVars, gateVars,
     Parallel!engineVars, engineVars, Parallel!poolVars, poolVars
<1>4. Parallel!IocpSend(t) <=> IocpSend(t)
  BY SameUncount DEF Parallel!IocpSend, IocpSend, Parallel!Backend, Backend, Parallel!MayFail,
     MayFail, Parallel!SizeOf, SizeOf, Parallel!gateVars, gateVars, Parallel!ringVars, ringVars,
     Parallel!poolVars, poolVars
<1> QED BY <1>1, <1>2, <1>3, <1>4 DEF Parallel!Client, Client

LEMMA SameInternal == Parallel!WriterInternal <=> WriterInternal
<1>1. Parallel!Ring <=> Ring
  <2>1. /\ Parallel!RingCreate <=> RingCreate
        /\ Parallel!RingFill <=> RingFill
        /\ Parallel!RingFull <=> RingFull
    BY DEF Parallel!RingCreate, RingCreate, Parallel!RingFill, RingFill, Parallel!RingFull, RingFull,
       Parallel!MayFail, MayFail, Parallel!gateVars, gateVars, Parallel!ringVars, ringVars,
       Parallel!poolVars, poolVars, Parallel!clientVars, clientVars, Parallel!Cardinality,
       Cardinality
  <2>2. /\ Parallel!RingIdle <=> RingIdle
        /\ Parallel!RingFails <=> RingFails
        /\ Parallel!RingStops <=> RingStops
    BY DEF Parallel!RingIdle, RingIdle, Parallel!RingFails, RingFails, Parallel!RingStops, RingStops,
       Parallel!Backend, Backend, Parallel!MayFail, MayFail, Parallel!gateVars, gateVars,
       Parallel!ringVars, ringVars, Parallel!poolVars, poolVars, Parallel!clientVars, clientVars
  <2>3. \A r : Parallel!RingComplete(r) <=> RingComplete(r)
    BY SameUncount DEF Parallel!RingComplete, RingComplete, Parallel!Complete, Complete,
       Parallel!Backend, Backend, Parallel!MayFail, MayFail, Parallel!gateVars, gateVars,
       Parallel!poolVars, poolVars, Parallel!clientVars, clientVars
  <2> QED BY <2>1, <2>2, <2>3 DEF Parallel!Ring, Ring
<1>2. Parallel!Iocp <=> Iocp
  <2>1. \A r : Parallel!IocpComplete(r) <=> IocpComplete(r)
    BY DEF Parallel!IocpComplete, IocpComplete, Parallel!Backend, Backend, Parallel!MayFail, MayFail,
       Parallel!Minus, Minus, Parallel!ringVars, ringVars, Parallel!poolVars, poolVars,
       Parallel!clientVars, clientVars
  <2>2. Parallel!IocpPacket <=> IocpPacket
    BY DEF Parallel!IocpPacket, IocpPacket, Parallel!Backend, Backend, Parallel!gateVars, gateVars,
       Parallel!ringVars, ringVars, Parallel!poolVars, poolVars, Parallel!clientVars, clientVars
  <2> QED BY <2>1, <2>2 DEF Parallel!Iocp, Iocp
<1>3. \A w : Parallel!Pool(w) <=> Pool(w)
  <2> TAKE w
  <2>1. /\ Parallel!PoolPop(w) <=> PoolPop(w)
        /\ Parallel!PoolLeave(w) <=> PoolLeave(w)
        /\ Parallel!PoolSleep(w) <=> PoolSleep(w)
    BY DEF Parallel!PoolPop, PoolPop, Parallel!PoolLeave, PoolLeave, Parallel!PoolSleep, PoolSleep,
       Parallel!gateVars, gateVars, Parallel!ringVars, ringVars, Parallel!engineVars, engineVars,
       Parallel!poolVars, poolVars, Parallel!clientVars, clientVars
  <2>2. Parallel!PoolWrite(w) <=> PoolWrite(w)
    BY DEF Parallel!PoolWrite, PoolWrite, Parallel!MayFail, MayFail, Parallel!SizeOf, SizeOf,
       Parallel!Minus, Minus, Parallel!gateVars, gateVars, Parallel!ringVars, ringVars,
       Parallel!clientVars, clientVars
  <2> QED BY <2>1, <2>2 DEF Parallel!Pool, Pool, Parallel!Backend, Backend
<1>4. Parallel!Draining <=> Draining
  <2>1. /\ Parallel!RingClose <=> RingClose
        /\ Parallel!IocpClose <=> IocpClose
        /\ Parallel!PoolClose <=> PoolClose
    BY DEF Parallel!RingClose, RingClose, Parallel!IocpClose, IocpClose, Parallel!PoolClose, PoolClose,
       Parallel!Backend, Backend, Parallel!ringVars, ringVars, Parallel!engineVars, engineVars,
       Parallel!poolVars, poolVars, Parallel!clientVars, clientVars
  <2>2. /\ Parallel!DrainWait <=> DrainWait
        /\ Parallel!DrainJoin <=> DrainJoin
        /\ Parallel!DrainCheck <=> DrainCheck
    BY DEF Parallel!DrainWait, DrainWait, Parallel!DrainJoin, DrainJoin, Parallel!DrainCheck,
       DrainCheck, Parallel!Drained, Drained, Parallel!Backend, Backend, Parallel!gateVars, gateVars,
       Parallel!ringVars, ringVars, Parallel!engineVars, engineVars, Parallel!poolVars, poolVars,
       Parallel!clientVars, clientVars
  <2> QED BY <2>1, <2>2 DEF Parallel!Draining, Draining
<1>5. Parallel!WriterSpurious <=> WriterSpurious
  BY DEF Parallel!WriterSpurious, WriterSpurious, Parallel!gateVars, gateVars, Parallel!ringVars,
     ringVars, Parallel!engineVars, engineVars, Parallel!poolVars, poolVars, Parallel!clientVars,
     clientVars
<1> QED BY <1>1, <1>2, <1>3, <1>4, <1>5 DEF Parallel!WriterInternal, WriterInternal

LEMMA SameTypes == Parallel!WriterTypeOK <=> WriterTypeOK
BY DEF Parallel!WriterTypeOK, WriterTypeOK


--------------------------------------------------------------------------------
(* The parallel-write decoder: every step preserves the invariant.             *)

LEMMA ParallelConstants ==
    /\ Parallel!Chunks = Chunks /\ Clients = CpuWorkers \union GpuWorkers
    /\ CpuWorkers \intersect GpuWorkers = {}
    /\ \A x \in ParallelCalls : x.final \subseteq Chunks /\ x.workers \subseteq Clients
<1>1. Parallel!Chunks = Chunks
  BY DEF Parallel!Chunks, Chunks
<1>2. Parallel!DecodeAssumption
  BY ReadersAssumption
<1> QED BY <1>1, <1>2 DEF Parallel!DecodeAssumption, Parallel!Call

\* What a worker takes is queued.
LEMMA TakenIsQueued ==
    \A w : Parallel!Taken(w) \subseteq Parallel!QueueOf(w) /\ Parallel!QueueOf(w) \subseteq queued
BY DEF Parallel!Taken, Parallel!QueueOf

\* A queue that nothing is pushed to does not grow.
LEMMA QueueShrinks ==
    ASSUME call' = call, queued' \subseteq queued
    PROVE  \A w : (Parallel!QueueOf(w))' \subseteq Parallel!QueueOf(w)
BY DEF Parallel!QueueOf, Parallel!Shared, Parallel!Eligible, Parallel!GpuSized

LEMMA ErrorIsKept ==
    ASSUME Errors, Parallel!RecordError, DecoderTypes
    PROVE  err_slot' = TRUE /\ err_flag' = TRUE
BY DEF Errors, Parallel!RecordError, DecoderTypes

\* The decoder's own steps, and those of the writer.
ParallelOwn ==
    \/ Parallel!Producer /\ UNCHANGED writerVars
    \/ \E w \in Clients :
          \/ /\ \/ Parallel!WorkerTop(w) \/ Parallel!Pop(w) \/ Parallel!PopNothing(w)
                \/ Parallel!Decode(w) \/ Parallel!FallbackFails(w) \/ Parallel!StopDecode(w)
             /\ UNCHANGED writerVars
          \/ Parallel!SubmitNext(w) \/ Parallel!SubmitReturns(w)
    \/ Parallel!CallerReturns

ParallelRest ==
    \/ \E w \in Clients : Client(w)
    \/ Drain /\ producer = "done" /\ \A w \in Clients : worker[w] = "done"
    \/ WriterInternal \/ UNCHANGED writerVars

LEMMA ParallelSteps ==
    Parallel!ParallelNext =>
       \/ ParallelOwn
       \/ /\ ParallelRest
          /\ UNCHANGED <<call, queued, produced, eof, halted, err_slot, err_flag, producer, worker,
                         batch, result>>
          /\ dozing' \subseteq dozing
<1> DEFINE Decoder == /\ UNCHANGED <<call, queued, produced, eof, halted, err_slot, err_flag, producer,
                                     worker, batch, result>>
                      /\ dozing' \subseteq dozing
<1> SUFFICES ASSUME Parallel!ParallelNext
             PROVE  ParallelOwn \/ (ParallelRest /\ Decoder)
  OBVIOUS
<1>1. UNCHANGED Parallel!decodeVars => Decoder
  BY DEF Parallel!decodeVars, Parallel!queueVars, Parallel!errVars
<1>3. CASE Parallel!CallerDrains
  BY <1>1, <1>3, SameCalls DEF ParallelRest, Parallel!CallerDrains
<1>4. CASE Parallel!WriterInternal /\ UNCHANGED Parallel!decodeVars
  BY <1>1, <1>4, SameInternal DEF ParallelRest
<1>5. CASE Parallel!Spurious
           /\ UNCHANGED <<call, Parallel!queueVars, halted, Parallel!errVars, producer, worker, batch, result>>
           /\ UNCHANGED Parallel!writerVars
  <2>1. Decoder
    BY <1>5 DEF Parallel!Spurious, Parallel!queueVars, Parallel!errVars
  <2> QED BY <1>5, <2>1, SameVars DEF ParallelRest
<1>6. CASE Parallel!Returned
  <2>1. UNCHANGED Parallel!writerVars /\ UNCHANGED Parallel!decodeVars
    BY <1>6 DEF Parallel!Returned, Parallel!parallelVars
  <2> QED BY <1>1, <2>1, SameVars DEF ParallelRest
<1>7. CASE Parallel!Producer /\ UNCHANGED Parallel!writerVars
  BY <1>7, SameVars DEF ParallelOwn
<1>8. ASSUME NEW w \in Clients, Parallel!Worker(w)
      PROVE  ParallelOwn \/ (ParallelRest /\ Decoder)
  <2>1. CASE Parallel!SubmitNext(w) \/ Parallel!SubmitReturns(w)
    BY <2>1 DEF ParallelOwn
  <2>2. CASE Parallel!Client(w) /\ UNCHANGED Parallel!decodeVars
    BY <1>1, <2>2, SameClient DEF ParallelRest
  <2>3. CASE /\ \/ Parallel!WorkerTop(w) \/ Parallel!Pop(w) \/ Parallel!PopNothing(w)
                \/ Parallel!Decode(w) \/ Parallel!FallbackFails(w) \/ Parallel!StopDecode(w)
             /\ UNCHANGED Parallel!writerVars
    BY <2>3, SameVars DEF ParallelOwn
  <2> QED BY <1>8, <2>1, <2>2, <2>3 DEF Parallel!Worker
<1>9. CASE Parallel!CallerReturns
  BY <1>9 DEF ParallelOwn
<1> HIDE DEF Decoder
<1> QED BY <1>3, <1>4, <1>5, <1>6, <1>7, <1>8, <1>9 DEF Parallel!ParallelNext

\* No chunk is submitted twice, and the drain begins when no submit is on its way.
LEMMA ParallelWrites ==
    ASSUME WInv, PInv, Parallel!ParallelNext
    PROVE  [WriterNext]_writerVars
<1>1. ASSUME NEW w \in Clients, Parallel!SubmitNext(w)
      PROVE  WriterNext
  <2>1. PICK c \in batch[w] : Submit(w, c) /\ worker[w] = "submit"
    BY <1>1, SameCalls DEF Parallel!SubmitNext
  <2>2. drainer = "out"
    BY <2>1 DEF PInv, Calling
  <2>3. c \notin Parallel!Submitted
    BY <2>1 DEF PInv, Shared
  <2>4. c \in Writes
    BY <2>1, IndexedAssumption DEF PInv, DecoderTypes
  <2>5. Fresh(c)
    <3>1. c \notin accepted /\ c \notin UNION {request[t] : t \in Clients}
      BY <2>3 DEF Parallel!Submitted
    <3> QED BY <3>1 DEF Fresh
  <2> QED BY <2>1, <2>2, <2>4, <2>5 DEF WriterNext, SubmitFresh
<1>2. ASSUME NEW w \in Clients, Parallel!SubmitReturns(w) \/ Client(w)
      PROVE  WriterNext
  BY <1>2, SameCalls DEF Parallel!SubmitReturns, WriterNext
<1>3. CASE Drain /\ \A w \in Clients : worker[w] = "done"
  <2>1. \A w \in Clients : client[w] = "out"
    BY <1>3 DEF PInv, Calling
  <2> QED BY <1>3, <2>1 DEF WriterNext, DrainQuiet
<1>4. CASE WriterInternal
  BY <1>4 DEF WriterNext
<1>5. CASE Parallel!CallerReturns
  BY <1>5, SameVars DEF Parallel!CallerReturns
<1> QED BY <1>1, <1>2, <1>3, <1>4, <1>5, ParallelSteps DEF ParallelOwn, ParallelRest

LEMMA DecoderTypesStep ==
    ASSUME PInv, Parallel!ParallelNext
    PROVE  DecoderTypes'
<1>0. DecoderTypes /\ Errors /\ \A c \in Chunks : c \in Nat /\ c < NumChunks
  BY NumChunksType DEF PInv
<1>1. CASE UNCHANGED <<call, queued, produced, eof, halted, err_slot, err_flag, producer, worker,
                       batch, result>> /\ dozing' \subseteq dozing
  BY <1>0, <1>1 DEF DecoderTypes
<1>2. CASE Parallel!ReadFails \/ Parallel!ProducerStops
  <2>1. /\ UNCHANGED <<call, queued, produced, eof, worker, batch, result>>
        /\ producer' \in {"fail", "done"} /\ dozing' \subseteq dozing
        /\ (halted' = halted \/ halted' = TRUE)
        /\ (UNCHANGED <<err_slot, err_flag>> \/ (err_slot' = TRUE /\ err_flag' = TRUE))
    BY <1>0, <1>2, ErrorIsKept DEF Parallel!ReadFails, Parallel!ProducerStops, Parallel!Halt,
       Parallel!queueVars, Parallel!errVars
  <2> QED BY <1>0, <2>1, Zenon DEF DecoderTypes
<1>3. CASE Parallel!StreamEnds
  <2>1. /\ UNCHANGED <<call, queued, produced, worker, batch, result>>
        /\ producer' = "done" /\ dozing' = {} /\ eof' \in BOOLEAN
        /\ (halted' = halted \/ halted' = TRUE)
        /\ (UNCHANGED <<err_slot, err_flag>> \/ (err_slot' = TRUE /\ err_flag' = TRUE))
    BY <1>0, <1>3, ErrorIsKept DEF Parallel!StreamEnds, Parallel!errVars
  <2> QED BY <1>0, <2>1, Zenon DEF DecoderTypes
<1>4. CASE Parallel!ReadFrame
  <2>1. /\ UNCHANGED <<call, worker, batch, result>>
        /\ producer' \in {"read", "done"} /\ dozing' = {} /\ (eof' = eof \/ eof' = TRUE)
        /\ (halted' = halted \/ halted' = TRUE)
        /\ (UNCHANGED <<err_slot, err_flag>> \/ (err_slot' = TRUE /\ err_flag' = TRUE))
    BY <1>0, <1>4, ErrorIsKept DEF Parallel!ReadFrame, Parallel!Halt, Parallel!errVars, DecoderTypes
  <2>2. queued' \subseteq Chunks /\ produced' \in 0 .. NumChunks
    <3>1. /\ queued' = queued \union {produced} /\ produced' = produced + 1
          /\ produced < NumChunks /\ produced \in 0 .. NumChunks /\ queued \subseteq Chunks
      BY <1>0, <1>4 DEF Parallel!ReadFrame, DecoderTypes
    <3>2. produced \in Chunks /\ produced + 1 \in 0 .. NumChunks
      BY <3>1, NumChunksType DEF Chunks
    <3> QED BY <3>1, <3>2
  <2> QED BY <1>0, <2>1, <2>2, Zenon DEF DecoderTypes
<1>5. ASSUME NEW w \in Clients,
             \/ Parallel!WorkerTop(w) \/ Parallel!Pop(w) \/ Parallel!PopNothing(w)
             \/ Parallel!Decode(w) \/ Parallel!FallbackFails(w) \/ Parallel!StopDecode(w)
             \/ Parallel!SubmitNext(w) \/ Parallel!SubmitReturns(w)
      PROVE  DecoderTypes'
  <2>1. /\ UNCHANGED <<call, produced, eof, producer, result>>
        /\ queued' \subseteq queued
        /\ dozing' = dozing \/ dozing' = dozing \union {w} \/ dozing' = {}
        /\ (halted' = halted \/ halted' = TRUE)
        /\ (UNCHANGED <<err_slot, err_flag>> \/ (err_slot' = TRUE /\ err_flag' = TRUE))
        /\ \E x \in {"top", "pop", "decode", "submit", "submitting", "fail", "done"} :
              worker' = worker \/ worker' = [worker EXCEPT ![w] = x]
    BY <1>0, <1>5, ErrorIsKept DEF Parallel!WorkerTop, Parallel!Pop, Parallel!PopNothing,
       Parallel!Decode, Parallel!FallbackFails, Parallel!StopDecode, Parallel!SubmitNext,
       Parallel!SubmitReturns, Parallel!Halt, Parallel!queueVars, Parallel!errVars
  <2>2. batch' \in [Clients -> SUBSET Chunks]
    <3>1. \/ batch' = batch
          \/ batch' = [batch EXCEPT ![w] = Parallel!Taken(w)]
          \/ \E c \in batch[w] : batch' = [batch EXCEPT ![w] = @ \ {c}]
      BY <1>5 DEF Parallel!WorkerTop, Parallel!Pop, Parallel!PopNothing,
         Parallel!Decode, Parallel!FallbackFails, Parallel!StopDecode, Parallel!SubmitNext,
         Parallel!SubmitReturns
    <3>2. Parallel!Taken(w) \subseteq Chunks
      BY <1>0, TakenIsQueued DEF DecoderTypes
    <3> QED BY <1>0, <3>1, <3>2 DEF DecoderTypes
  <2>3. worker' \in [Clients -> {"top", "pop", "decode", "submit", "submitting", "fail", "done"}]
    BY <1>0, <2>1 DEF DecoderTypes
  <2> QED BY <1>0, <2>1, <2>2, <2>3, Zenon DEF DecoderTypes
<1>6. CASE Parallel!CallerReturns
  <2>1. /\ UNCHANGED <<call, queued, produced, eof, halted, dozing, err_flag, producer, worker, batch>>
        /\ result' \in {"ok", "error"} /\ err_slot' \in BOOLEAN
    BY <1>6 DEF Parallel!CallerReturns, Parallel!queueVars
  <2> QED BY <1>0, <2>1 DEF DecoderTypes
<1> QED BY <1>1, <1>2, <1>3, <1>4, <1>5, <1>6, ParallelSteps DEF ParallelOwn, Parallel!Producer


\* Where what was submitted changes.
LEMMA RestKeeps ==
    ASSUME WInv, ParallelRest
    PROVE  Parallel!Submitted' = Parallel!Submitted
<1>1. ASSUME NEW w \in Clients, Client(w)
      PROVE  Parallel!Submitted' = Parallel!Submitted
  <2>1. request' = request /\ (accepted' = accepted \/ accepted' = accepted \union request[w])
    BY <1>1, ClientMoves
  <2> QED BY <2>1 DEF Parallel!Submitted
<1>2. CASE Drain \/ WriterInternal \/ UNCHANGED writerVars
  <2>1. UNCHANGED <<request, accepted>>
    BY <1>2, InternalFrame DEF Drain, writerVars, clientVars
  <2> QED BY <2>1 DEF Parallel!Submitted
<1> QED BY <1>1, <1>2 DEF ParallelRest

LEMMA WriterKeeps ==
    ASSUME UNCHANGED writerVars
    PROVE  Parallel!Submitted' = Parallel!Submitted /\ UNCHANGED <<client, told, drainer>>
BY DEF Parallel!Submitted, writerVars, clientVars

LEMMA SharedStep ==
    ASSUME WInv, PInv, Parallel!ParallelNext
    PROVE  Shared'
<1> DEFINE Sent == Parallel!Submitted
<1>0. /\ DecoderTypes /\ Errors /\ Shared /\ Requests
      /\ worker \in [Clients -> {"top", "pop", "decode", "submit", "submitting", "fail", "done"}]
      /\ batch \in [Clients -> SUBSET Chunks] /\ produced \in Nat
      /\ request \in [Clients -> SUBSET Writes]
  <2>1. 0 .. NumChunks \subseteq Nat
    OBVIOUS
  <2> QED BY <2>1 DEF PInv, DecoderTypes, WInv, WriterTypeOK
<1>1. ASSUME Sent' = Sent, UNCHANGED <<queued, produced, batch>>, err_flag => err_flag',
             \A w \in Clients : \/ worker'[w] = worker[w]
                                \/ /\ worker'[w] \in {"top", "pop"} => batch[w] = {}
                                   /\ worker'[w] = "done" /\ ~err_flag' => batch[w] = {}
      PROVE  Shared'
  <2> HIDE DEF Sent
  <2> QED BY <1>0, <1>1 DEF Shared, Sent
<1>2. CASE ParallelRest /\ UNCHANGED <<queued, produced, batch, worker, err_flag>>
  BY <1>1, <1>2, RestKeeps
<1>3. CASE UNCHANGED writerVars /\ (Parallel!Producer \/ Parallel!CallerReturns)
  <2>1. Sent' = Sent
    BY <1>3, WriterKeeps
  <2>2. CASE Parallel!ReadFails \/ Parallel!ProducerStops \/ Parallel!StreamEnds
             \/ Parallel!CallerReturns
    <3>1. UNCHANGED <<queued, produced, batch, worker>>
      BY <2>2 DEF Parallel!ReadFails, Parallel!ProducerStops, Parallel!StreamEnds, Parallel!CallerReturns,
         Parallel!queueVars
    <3>2. err_flag => err_flag'
      BY <2>2 DEF Parallel!ReadFails, Parallel!ProducerStops, Parallel!StreamEnds, Parallel!CallerReturns,
         Parallel!RecordError, Parallel!errVars
    <3> QED BY <1>1, <2>1, <3>1, <3>2
  <2>3. CASE Parallel!ReadFrame
    <3>1. /\ queued' = queued \union {produced} /\ produced' = produced + 1
          /\ UNCHANGED <<worker, batch>>
      BY <2>3 DEF Parallel!ReadFrame
    <3>2. err_flag => err_flag'
      BY <2>3 DEF Parallel!ReadFrame, Parallel!RecordError, Parallel!errVars
    <3>3. /\ 0 .. produced' - 1 = (0 .. produced - 1) \union {produced}
          /\ produced \notin 0 .. produced - 1
      BY <1>0, <3>1
    <3> HIDE DEF Sent
    <3>4. /\ queued' \subseteq 0 .. produced' - 1 /\ Sent' \subseteq 0 .. produced' - 1
          /\ queued' \intersect Sent' = {}
      BY <1>0, <2>1, <3>1, <3>3 DEF Shared, Sent
    <3>5. \A w \in Clients : /\ batch'[w] \subseteq 0 .. produced' - 1
                             /\ batch'[w] \intersect (queued' \union Sent') = {}
      BY <1>0, <2>1, <3>1, <3>3 DEF Shared, Sent
    <3>6. ~err_flag' => \A c \in 0 .. produced' - 1 :
             c \in queued' \union Sent' \/ \E w \in Clients : c \in batch'[w]
      BY <1>0, <2>1, <3>1, <3>2, <3>3 DEF Shared, Sent
    <3> QED BY <1>0, <3>1, <3>2, <3>4, <3>5, <3>6 DEF Shared, Sent
  <2> QED BY <1>3, <2>2, <2>3 DEF Parallel!Producer
<1>4. ASSUME NEW w \in Clients, UNCHANGED writerVars,
             \/ Parallel!WorkerTop(w) \/ Parallel!PopNothing(w) \/ Parallel!Decode(w)
             \/ Parallel!FallbackFails(w) \/ Parallel!StopDecode(w)
      PROVE  Shared'
  <2>1. UNCHANGED <<queued, produced, batch>>
    BY <1>4 DEF Parallel!WorkerTop, Parallel!PopNothing, Parallel!Decode, Parallel!FallbackFails,
       Parallel!StopDecode, Parallel!queueVars
  <2>2. err_flag => err_flag'
    BY <1>4 DEF Parallel!WorkerTop, Parallel!PopNothing, Parallel!Decode, Parallel!FallbackFails,
       Parallel!StopDecode, Parallel!RecordError, Parallel!errVars
  <2>3. \A v \in Clients : v # w => worker'[v] = worker[v]
    BY <1>0, <1>4 DEF Parallel!WorkerTop, Parallel!PopNothing, Parallel!Decode, Parallel!FallbackFails,
       Parallel!StopDecode
  <2>4. \/ worker[w] \in {"top", "pop"}
        \/ worker'[w] \in {"submit", "fail"}
        \/ worker'[w] = "done" /\ err_flag
    BY <1>0, <1>4 DEF Parallel!WorkerTop, Parallel!PopNothing, Parallel!Decode, Parallel!FallbackFails,
       Parallel!StopDecode, Errors
  <2>5. worker[w] \in {"top", "pop"} => batch[w] = {}
    BY <1>0 DEF Shared
  <2>6. Sent' = Sent
    BY <1>4, WriterKeeps
  <2> QED BY <1>1, <2>1, <2>2, <2>3, <2>4, <2>5, <2>6
<1>5. ASSUME NEW w \in Clients, UNCHANGED writerVars, Parallel!Pop(w)
      PROVE  Shared'
  <2>1. /\ queued' = queued \ Parallel!Taken(w) /\ produced' = produced /\ err_flag' = err_flag
        /\ batch' = [batch EXCEPT ![w] = Parallel!Taken(w)] /\ worker[w] = "pop"
        /\ worker' = [worker EXCEPT ![w] = "decode"]
    BY <1>5 DEF Parallel!Pop, Parallel!errVars
  <2>2. Sent' = Sent
    BY <1>5, WriterKeeps
  <2>3. Parallel!Taken(w) \subseteq queued
    BY TakenIsQueued
  <2> DEFINE T == Parallel!Taken(w)
  <2>4. /\ batch[w] = {} /\ batch'[w] = T /\ worker'[w] = "decode"
        /\ \A v \in Clients : v # w => batch'[v] = batch[v] /\ worker'[v] = worker[v]
    BY <1>0, <2>1 DEF Shared
  <2> HIDE DEF T, Sent
  <2>5. queued' = queued \ T /\ T \subseteq queued
    BY <2>1, <2>3 DEF T
  <2>6. /\ queued' \subseteq 0 .. produced' - 1 /\ Sent' \subseteq 0 .. produced' - 1
        /\ queued' \intersect Sent' = {}
    BY <1>0, <2>1, <2>2, <2>5 DEF Shared, Sent
  <2>7. \A v \in Clients : /\ batch'[v] \subseteq 0 .. produced' - 1
                           /\ batch'[v] \intersect (queued' \union Sent') = {}
    BY <1>0, <2>1, <2>2, <2>4, <2>5 DEF Shared, Sent
  <2>8. \A v, u \in Clients : v # u => batch'[v] \intersect batch'[u] = {}
    BY <1>0, <2>4, <2>5 DEF Shared
  <2>9. ~err_flag' => \A c \in 0 .. produced' - 1 :
           c \in queued' \union Sent' \/ \E v \in Clients : c \in batch'[v]
    BY <1>0, <2>1, <2>2, <2>4, <2>5 DEF Shared, Sent
  <2> QED BY <1>0, <2>1, <2>4, <2>6, <2>7, <2>8, <2>9 DEF Shared, Sent
<1>6. ASSUME NEW w \in Clients, Parallel!SubmitNext(w)
      PROVE  Shared'
  <2>1. PICK c \in batch[w] : Submit(w, c) /\ batch' = [batch EXCEPT ![w] = @ \ {c}]
    BY <1>6, SameCalls DEF Parallel!SubmitNext
  <2>2. /\ UNCHANGED <<queued, produced, err_flag>>
        /\ worker' = [worker EXCEPT ![w] = "submitting"]
    BY <1>6 DEF Parallel!SubmitNext, Parallel!queueVars, Parallel!errVars
  <2>3. Sent' = Sent \union {c}
    <3>1. request' = [request EXCEPT ![w] = {c}] /\ accepted' = accepted /\ request[w] = {}
      BY <1>0, <2>1 DEF Submit, Requests
    <3>2. request'[w] = {c} /\ \A v \in Clients : v # w => request'[v] = request[v]
      BY <1>0, <3>1
    <3> QED BY <3>1, <3>2 DEF Parallel!Submitted
  <2>4. /\ batch'[w] = batch[w] \ {c} /\ worker'[w] = "submitting"
        /\ \A v \in Clients : v # w => batch'[v] = batch[v] /\ worker'[v] = worker[v]
    BY <1>0, <2>1, <2>2
  <2> HIDE DEF Sent
  <2>5. \A v \in Clients : v # w => c \notin batch[v]
    BY <1>0, <2>1 DEF Shared
  <2>6. c \in 0 .. produced - 1 /\ c \notin queued
    BY <1>0, <2>1 DEF Shared
  <2>7. Sent' \subseteq 0 .. produced' - 1 /\ queued' \intersect Sent' = {}
    BY <1>0, <2>2, <2>3, <2>6 DEF Shared, Sent
  <2>8. \A v \in Clients : /\ batch'[v] \subseteq 0 .. produced' - 1
                           /\ batch'[v] \intersect (queued' \union Sent') = {}
    BY <1>0, <2>2, <2>3, <2>4, <2>5 DEF Shared, Sent
  <2>9. \A v, u \in Clients : v # u => batch'[v] \intersect batch'[u] = {}
    BY <1>0, <2>4 DEF Shared
  <2>10. ~err_flag' => \A d \in 0 .. produced' - 1 :
           d \in queued' \union Sent' \/ \E v \in Clients : d \in batch'[v]
    BY <1>0, <2>2, <2>3, <2>4 DEF Shared, Sent
  <2>11. \A v \in Clients : /\ worker'[v] \in {"top", "pop"} => batch'[v] = {}
                            /\ worker'[v] = "done" /\ ~err_flag' => batch'[v] = {}
    BY <1>0, <2>2, <2>4 DEF Shared
  <2> QED BY <1>0, <2>2, <2>7, <2>8, <2>9, <2>10, <2>11 DEF Shared, Sent
<1>7. ASSUME NEW w \in Clients, Parallel!SubmitReturns(w)
      PROVE  Shared'
  <2>1. /\ UNCHANGED <<queued, produced, batch, accepted>> /\ request' = [request EXCEPT ![w] = {}]
        /\ client[w] \in {"ok", "failed"}
    BY <1>7, SameCalls DEF Parallel!SubmitReturns, Return, Parallel!queueVars
  <2>2. Sent' \subseteq Sent
    BY <1>0, <2>1 DEF Parallel!Submitted
  <2>3. CASE client[w] = "failed"
    <3>1. err_flag' = TRUE /\ worker' = [worker EXCEPT ![w] = "fail"]
      BY <1>0, <1>7, <2>3, ErrorIsKept DEF Parallel!SubmitReturns
    <3>2. worker'[w] = "fail" /\ \A v \in Clients : v # w => worker'[v] = worker[v]
      BY <1>0, <3>1
    <3> HIDE DEF Sent
    <3> QED BY <1>0, <2>1, <2>2, <3>1, <3>2 DEF Shared, Sent
  <2>4. CASE client[w] = "ok"
    <3>1. request[w] \subseteq accepted
      BY <1>0, <2>4 DEF Requests
    <3>2. Sent' = Sent
      BY <1>0, <2>1, <3>1 DEF Parallel!Submitted
    <3>3. err_flag' = err_flag
          /\ worker' = [worker EXCEPT ![w] = IF batch[w] = {} THEN "top" ELSE "submit"]
      BY <1>7, <2>4 DEF Parallel!SubmitReturns, Parallel!errVars
    <3>4. /\ \A v \in Clients : v # w => worker'[v] = worker[v]
          /\ worker'[w] # "done" /\ (worker'[w] \in {"top", "pop"} => batch[w] = {})
      BY <1>0, <3>3
    <3> QED BY <1>1, <2>1, <3>2, <3>3, <3>4
  <2> QED BY <2>1, <2>3, <2>4
<1>8. Parallel!CallerReturns => UNCHANGED writerVars
  BY SameVars DEF Parallel!CallerReturns
<1> QED BY <1>2, <1>3, <1>4, <1>5, <1>6, <1>7, <1>8, ParallelSteps DEF ParallelOwn


LEMMA ErrorsStep ==
    ASSUME WInv, PInv, Parallel!ParallelNext
    PROVE  Errors'
<1>0. /\ DecoderTypes /\ Errors /\ Calling
      /\ worker \in [Clients -> {"top", "pop", "decode", "submit", "submitting", "fail", "done"}]
      /\ client \in [Clients -> {"out", "check", "gate", "woken", "send", "ok", "failed"}]
  BY DEF PInv, DecoderTypes, WInv, WriterTypeOK
<1>1. [WriterNext]_writerVars
  BY ParallelWrites
<1>2. CASE ParallelRest /\ UNCHANGED <<halted, err_slot, err_flag, producer, worker, result>>
  <2>1. ASSUME NEW w \in Clients, Client(w)
        PROVE  Errors'
    <3>1. /\ client[w] # "failed" /\ client'[w] # "out"
          /\ \A v \in Clients : v # w => client'[v] = client[v]
      BY <1>0, <2>1, ClientMoves
    <3>2. told' = told \/ client'[w] = "failed"
      BY <2>1, ToldFrame
    <3> QED BY <1>0, <1>2, <3>1, <3>2 DEF Errors
  <2>2. CASE Drain \/ WriterInternal \/ UNCHANGED writerVars
    <3>1. UNCHANGED <<client, told>>
      BY <2>2, InternalFrame, ToldFrame DEF Drain, writerVars, clientVars
    <3> QED BY <1>0, <1>2, <3>1 DEF Errors
  <2> QED BY <1>2, <2>1, <2>2 DEF ParallelRest
<1>3. CASE UNCHANGED writerVars /\ Parallel!Producer
  <2>0. UNCHANGED <<client, told>>
    BY <1>3, WriterKeeps
  <2>1. UNCHANGED <<worker, result>>
    BY <1>3 DEF Parallel!Producer, Parallel!ReadFails, Parallel!ProducerStops, Parallel!StreamEnds,
       Parallel!ReadFrame
  <2>2. \/ err_slot' = TRUE /\ err_flag' = TRUE
        \/ UNCHANGED <<err_slot, err_flag>> /\ (halted' \/ producer' = "fail" => err_flag)
    BY <1>0, <1>3, ErrorIsKept DEF Parallel!Producer, Parallel!ReadFails, Parallel!ProducerStops,
       Parallel!StreamEnds, Parallel!ReadFrame, Parallel!Halt, Parallel!errVars, Errors
  <2> QED BY <1>0, <2>0, <2>1, <2>2 DEF Errors
<1>4. CASE Parallel!CallerReturns
  <2>1. UNCHANGED <<client, told>>
    BY <1>4, SameVars, WriterKeeps DEF Parallel!CallerReturns
  <2>2. /\ UNCHANGED <<halted, err_flag, producer, worker>> /\ result' # "none"
        /\ err_slot' => err_slot
    BY <1>4 DEF Parallel!CallerReturns
  <2> QED BY <1>0, <2>1, <2>2 DEF Errors
<1>5. ASSUME NEW w \in Clients, UNCHANGED writerVars,
             \/ Parallel!WorkerTop(w) \/ Parallel!Pop(w) \/ Parallel!PopNothing(w)
             \/ Parallel!Decode(w) \/ Parallel!FallbackFails(w) \/ Parallel!StopDecode(w)
      PROVE  Errors'
  <2>0. UNCHANGED <<client, told>>
    BY <1>5, WriterKeeps
  <2>1. UNCHANGED <<producer, result>>
    BY <1>5 DEF Parallel!WorkerTop, Parallel!Pop, Parallel!PopNothing, Parallel!Decode,
       Parallel!FallbackFails, Parallel!StopDecode
  <2>2. \A v \in Clients : v # w => worker'[v] = worker[v]
    BY <1>0, <1>5 DEF Parallel!WorkerTop, Parallel!Pop, Parallel!PopNothing, Parallel!Decode,
       Parallel!FallbackFails, Parallel!StopDecode
  <2>3. \/ err_slot' = TRUE /\ err_flag' = TRUE
        \/ UNCHANGED <<err_slot, err_flag>> /\ (halted' \/ worker'[w] = "fail" => err_flag)
    BY <1>0, <1>5, ErrorIsKept DEF Parallel!WorkerTop, Parallel!Pop, Parallel!PopNothing,
       Parallel!Decode, Parallel!FallbackFails, Parallel!StopDecode, Parallel!Halt,
       Parallel!errVars, Errors
  <2> QED BY <1>0, <2>0, <2>1, <2>2, <2>3 DEF Errors
<1>6. ASSUME NEW w \in Clients, Parallel!SubmitNext(w)
      PROVE  Errors'
  <2>1. /\ UNCHANGED <<halted, err_slot, err_flag, producer, result>>
        /\ worker' = [worker EXCEPT ![w] = "submitting"]
    BY <1>6 DEF Parallel!SubmitNext, Parallel!errVars
  <2>2. /\ told' = told /\ client[w] = "out" /\ client' = [client EXCEPT ![w] = "check"]
    BY <1>6, SameCalls DEF Parallel!SubmitNext, Submit
  <2> QED BY <1>0, <2>1, <2>2 DEF Errors
<1>7. ASSUME NEW w \in Clients, Parallel!SubmitReturns(w)
      PROVE  Errors'
  <2>1. UNCHANGED <<halted, producer, result>>
    BY <1>7 DEF Parallel!SubmitReturns
  <2>2. /\ told' = told /\ client[w] \in {"ok", "failed"} /\ client' = [client EXCEPT ![w] = "out"]
    BY <1>7, SameCalls DEF Parallel!SubmitReturns, Return
  <2>3. CASE client[w] = "failed"
    <3>1. err_slot' = TRUE /\ err_flag' = TRUE
      BY <1>0, <1>7, <2>3, ErrorIsKept DEF Parallel!SubmitReturns
    <3> QED BY <1>0, <2>1, <3>1 DEF Errors
  <2>4. CASE client[w] = "ok"
    <3>1. /\ UNCHANGED <<err_slot, err_flag>>
          /\ worker' = [worker EXCEPT ![w] = IF batch[w] = {} THEN "top" ELSE "submit"]
      BY <1>7, <2>4 DEF Parallel!SubmitReturns, Parallel!errVars
    <3> QED BY <1>0, <2>1, <2>2, <2>4, <3>1 DEF Errors
  <2> QED BY <2>2, <2>3, <2>4
<1> QED BY <1>2, <1>3, <1>4, <1>5, <1>6, <1>7, ParallelSteps DEF ParallelOwn

LEMMA CallingStep ==
    ASSUME WInv, PInv, Parallel!ParallelNext
    PROVE  Calling'
<1>0. /\ DecoderTypes /\ Errors /\ Calling
      /\ worker \in [Clients -> {"top", "pop", "decode", "submit", "submitting", "fail", "done"}]
      /\ client \in [Clients -> {"out", "check", "gate", "woken", "send", "ok", "failed"}]
  BY DEF PInv, DecoderTypes, WInv, WriterTypeOK
<1>1. [WriterNext]_writerVars
  BY ParallelWrites
<1>2. drainer \in {"ok", "failed"} => drainer' = drainer
  BY <1>1, DrainerStays
\* Once the drain has begun nobody records an error any more.
<1>3. ASSUME UNCHANGED <<client, worker, producer, result>>, err_flag' = err_flag,
             drainer' # "out" =>
                drainer # "out" \/ (producer = "done" /\ \A w \in Clients : worker[w] = "done")
      PROVE  Calling'
  BY <1>0, <1>2, <1>3 DEF Calling
<1>4. CASE ParallelRest /\ UNCHANGED <<halted, err_slot, err_flag, producer, worker, result>>
  <2>1. ASSUME NEW w \in Clients, Client(w)
        PROVE  Calling'
    <3>1. /\ client[w] # "out" /\ client'[w] # "out" /\ drainer' = drainer
          /\ \A v \in Clients : v # w => client'[v] = client[v]
      BY <1>0, <2>1, ClientMoves
    <3> QED BY <1>0, <1>4, <3>1 DEF Calling
  <2>2. CASE Drain /\ producer = "done" /\ \A w \in Clients : worker[w] = "done"
    <3>1. client' = client
      BY <2>2 DEF Drain, clientVars
    <3> QED BY <1>3, <1>4, <2>2, <3>1
  <2>3. CASE WriterInternal \/ UNCHANGED writerVars
    <3>1. client' = client /\ (drainer' # "out" => drainer # "out")
      BY <2>3, InternalFrame, DrainerFrame, WriterKeeps
    <3> QED BY <1>3, <1>4, <3>1
  <2> QED BY <1>4, <2>1, <2>2, <2>3 DEF ParallelRest
<1>5. CASE UNCHANGED writerVars /\ Parallel!Producer
  <2>0. UNCHANGED <<client, drainer>>
    BY <1>5, WriterKeeps
  <2>1. UNCHANGED <<worker, result>> /\ producer # "done"
    BY <1>5 DEF Parallel!Producer, Parallel!ReadFails, Parallel!ProducerStops, Parallel!StreamEnds,
       Parallel!ReadFrame
  <2> QED BY <1>0, <2>0, <2>1 DEF Calling
<1>6. CASE Parallel!CallerReturns
  <2>1. UNCHANGED <<client, drainer>>
    BY <1>6, SameVars, WriterKeeps DEF Parallel!CallerReturns
  <2>2. /\ UNCHANGED <<err_flag, producer, worker>> /\ result = "none"
        /\ drainer \in {"ok", "failed"}
        /\ result' = "ok" => drainer # "failed" /\ ~err_slot
    BY <1>6 DEF Parallel!CallerReturns
  <2>3. result' = "ok" => drainer = "ok" /\ ~err_flag
    BY <1>0, <2>2 DEF Errors
  <2> QED BY <1>0, <2>1, <2>2, <2>3 DEF Calling
<1>7. ASSUME NEW w \in Clients, UNCHANGED writerVars,
             \/ Parallel!WorkerTop(w) \/ Parallel!Pop(w) \/ Parallel!PopNothing(w)
             \/ Parallel!Decode(w) \/ Parallel!FallbackFails(w) \/ Parallel!StopDecode(w)
      PROVE  Calling'
  <2>0. UNCHANGED <<client, drainer>>
    BY <1>7, WriterKeeps
  <2>1. /\ UNCHANGED <<producer, result>> /\ worker[w] \notin {"done", "submitting"}
        /\ worker'[w] # "submitting" /\ \A v \in Clients : v # w => worker'[v] = worker[v]
    BY <1>0, <1>7 DEF Parallel!WorkerTop, Parallel!Pop, Parallel!PopNothing, Parallel!Decode,
       Parallel!FallbackFails, Parallel!StopDecode
  <2>2. drainer = "out"
    BY <1>0, <2>1 DEF Calling
  <2> QED BY <1>0, <2>0, <2>1, <2>2 DEF Calling
<1>8. ASSUME NEW w \in Clients, Parallel!SubmitNext(w) \/ Parallel!SubmitReturns(w)
      PROVE  Calling'
  <2>1. /\ UNCHANGED <<producer, result>> /\ worker[w] \in {"submit", "submitting"}
        /\ drainer' = drainer
        /\ \/ client' = [client EXCEPT ![w] = "check"] /\ worker' = [worker EXCEPT ![w] = "submitting"]
           \/ /\ client' = [client EXCEPT ![w] = "out"]
              /\ \E x \in {"fail", "top", "submit"} : worker' = [worker EXCEPT ![w] = x]
    BY <1>8, SameCalls DEF Parallel!SubmitNext, Parallel!SubmitReturns, Submit, Return
  <2>2. drainer = "out"
    BY <1>0, <2>1 DEF Calling
  <2> QED BY <1>0, <2>1, <2>2 DEF Calling
<1> QED BY <1>4, <1>5, <1>6, <1>7, <1>8, ParallelSteps DEF ParallelOwn

LEMMA EndsStep ==
    ASSUME WInv, PInv, Parallel!ParallelNext
    PROVE  Ends'
<1>0. /\ DecoderTypes /\ Errors /\ Ends /\ Shared
      /\ worker \in [Clients -> {"top", "pop", "decode", "submit", "submitting", "fail", "done"}]
      /\ produced \in Nat /\ call.final \subseteq Chunks /\ call.workers \subseteq Clients
      /\ NumChunks \in Nat
  <2>1. 0 .. NumChunks \subseteq Nat
    OBVIOUS
  <2> QED BY <2>1, ParallelConstants, NumChunksType DEF PInv, DecoderTypes
<1>1. ASSUME UNCHANGED <<call, queued, produced, eof, producer>>, err_flag => err_flag',
             \A w \in Clients : worker'[w] = "done" /\ ~err_flag' =>
                worker[w] = "done" \/ (eof /\ Parallel!QueueOf(w) = {})
      PROVE  Ends'
  <2>1. \A w : (Parallel!QueueOf(w))' \subseteq Parallel!QueueOf(w)
    BY <1>1, QueueShrinks
  <2> QED BY <1>0, <1>1, <2>1 DEF Ends
<1>2. CASE UNCHANGED <<call, queued, produced, eof, halted, err_slot, err_flag, producer, worker,
                       batch, result>>
  BY <1>1, <1>2
<1>3. CASE Parallel!CallerReturns
  BY <1>1, <1>3 DEF Parallel!CallerReturns, Parallel!queueVars
<1>4. ASSUME NEW w \in Clients,
             \/ Parallel!WorkerTop(w) \/ Parallel!PopNothing(w)
             \/ Parallel!Decode(w) \/ Parallel!FallbackFails(w) \/ Parallel!StopDecode(w)
             \/ Parallel!SubmitNext(w) \/ Parallel!SubmitReturns(w)
      PROVE  Ends'
  <2>1. UNCHANGED <<call, queued, produced, eof, producer>>
    BY <1>4 DEF Parallel!WorkerTop, Parallel!PopNothing, Parallel!Decode,
       Parallel!FallbackFails, Parallel!StopDecode, Parallel!SubmitNext, Parallel!SubmitReturns,
       Parallel!queueVars
  <2>2. err_flag => err_flag'
    BY <1>4 DEF Parallel!WorkerTop, Parallel!PopNothing, Parallel!Decode,
       Parallel!FallbackFails, Parallel!StopDecode, Parallel!SubmitNext, Parallel!SubmitReturns,
       Parallel!RecordError, Parallel!errVars
  <2>3. /\ \A v \in Clients : v # w => worker'[v] = worker[v]
        /\ worker'[w] = "done" => err_flag \/ halted \/ (eof /\ Parallel!QueueOf(w) = {})
    BY <1>0, <1>4 DEF Parallel!WorkerTop, Parallel!PopNothing, Parallel!NoMoreWork, Parallel!Decode,
       Parallel!FallbackFails, Parallel!StopDecode, Parallel!SubmitNext, Parallel!SubmitReturns,
       Errors
  <2>4. halted => err_flag
    BY <1>0 DEF Errors
  <2> QED BY <1>1, <2>1, <2>2, <2>3, <2>4
<1>5. ASSUME NEW w \in Clients, Parallel!Pop(w)
      PROVE  Ends'
  <2>1. /\ UNCHANGED <<call, produced, eof, producer, err_flag>> /\ queued' \subseteq queued
        /\ worker' = [worker EXCEPT ![w] = "decode"]
    BY <1>5 DEF Parallel!Pop, Parallel!errVars
  <2>2. \A v : (Parallel!QueueOf(v))' \subseteq Parallel!QueueOf(v)
    BY <2>1, QueueShrinks
  <2> QED BY <1>0, <2>1, <2>2 DEF Ends
<1>6. CASE Parallel!ReadFails \/ Parallel!ProducerStops
  <2>1. /\ UNCHANGED <<call, queued, produced, eof, worker>> /\ producer' # "read"
        /\ err_flag' = TRUE
    BY <1>0, <1>6, ErrorIsKept DEF Parallel!ReadFails, Parallel!ProducerStops, Parallel!queueVars,
       Parallel!errVars, Errors
  <2> QED BY <1>0, <2>1 DEF Ends
<1>7. CASE Parallel!StreamEnds
  <2>1. /\ UNCHANGED <<call, queued, produced, worker>> /\ producer' = "done"
        /\ producer = "read" /\ produced = NumChunks /\ eof' = (produced = 0)
        /\ produced # 0 => err_flag' = TRUE
        /\ err_flag => err_flag'
    BY <1>0, <1>7, ErrorIsKept DEF Parallel!StreamEnds, Parallel!errVars
  <2>2. ~eof /\ \A w \in call.workers : ~(worker[w] = "done" /\ ~err_flag)
    BY <1>0, <2>1 DEF Ends
  <2>3. produced = 0 => call.final = {c \in Chunks : c + 1 = NumChunks}
    <3>1. produced = 0 => Chunks = {}
      BY <1>0, <2>1 DEF Chunks
    <3> QED BY <1>0, <3>1
  <2> QED BY <1>0, <2>1, <2>2, <2>3 DEF Ends
<1>8. CASE Parallel!ReadFrame
  <2>1. /\ call' = call /\ produced' = produced + 1 /\ worker' = worker
        /\ producer = "read" /\ produced < NumChunks
        /\ \/ /\ produced \notin call.final /\ UNCHANGED <<eof, err_flag, producer>>
           \/ /\ produced \in call.final /\ produced + 1 = NumChunks
              /\ eof' = TRUE /\ producer' = "done" /\ UNCHANGED err_flag
           \/ /\ err_flag' = TRUE /\ producer' = "done" /\ UNCHANGED eof
    BY <1>0, <1>8, ErrorIsKept DEF Parallel!ReadFrame, Parallel!errVars
  <2>2. /\ ~eof /\ \A w \in call.workers : ~(worker[w] = "done" /\ ~err_flag)
        /\ \A c \in call.final : c \in Nat /\ c < NumChunks /\ produced <= c
    BY <1>0, <2>1, NumChunksType DEF Ends
  <2>3. CASE produced \notin call.final /\ UNCHANGED <<eof, err_flag, producer>>
    <3>1. \A c \in call.final : produced + 1 <= c
      BY <1>0, <2>2, <2>3
    <3> QED BY <1>0, <2>1, <2>2, <2>3, <3>1 DEF Ends
  <2>4. CASE /\ produced \in call.final /\ produced + 1 = NumChunks
             /\ eof' = TRUE /\ producer' = "done" /\ UNCHANGED err_flag
    <3>1. call.final = {c \in Chunks : c + 1 = NumChunks}
      BY <1>0, <2>2, <2>4, NumChunksType
    <3> QED BY <1>0, <2>1, <2>2, <2>4, <3>1 DEF Ends
  <2>5. CASE err_flag' = TRUE /\ producer' = "done" /\ UNCHANGED eof
    BY <1>0, <2>1, <2>2, <2>5 DEF Ends
  <2> QED BY <2>1, <2>3, <2>4, <2>5
<1> QED BY <1>2, <1>3, <1>4, <1>5, <1>6, <1>7, <1>8, ParallelSteps DEF ParallelOwn, Parallel!Producer


\* The invariant holds at the start, and every step of the decoder preserves it.
LEMMA ParallelStart ==
    ASSUME Parallel!ParallelInit
    PROVE  WInv /\ PInv
<1>0. /\ WriterInit /\ call \in ParallelCalls
      /\ queued = {} /\ produced = 0 /\ eof = FALSE /\ halted = FALSE /\ dozing = {}
      /\ err_slot = FALSE /\ err_flag = FALSE /\ producer = "read" /\ result = "none"
      /\ worker = [w \in Clients |-> IF w \in call.workers THEN "top" ELSE "done"]
      /\ batch = [w \in Clients |-> {}]
  BY SameStart DEF Parallel!ParallelInit
<1>1. WInv
  BY <1>0, WriterStart
<1>2. Parallel!Submitted = {} /\ 0 .. produced - 1 = {}
  <2>1. accepted = {} /\ \A w \in Clients : request[w] = {}
    BY <1>0 DEF WriterInit
  <2> QED BY <1>0, <2>1 DEF Parallel!Submitted
<1>3. DecoderTypes
  <2>1. /\ worker \in [Clients -> {"top", "pop", "decode", "submit", "submitting", "fail", "done"}]
        /\ batch \in [Clients -> SUBSET Chunks] /\ produced \in 0 .. NumChunks
    BY <1>0, NumChunksType
  <2> QED BY <1>0, <2>1, Zenon DEF DecoderTypes
<1>4. Shared
  BY <1>0, <1>2 DEF Shared
<1>5. Errors /\ Calling
  BY <1>0 DEF WriterInit, Errors, Calling
<1>6. Ends
  <2>1. /\ call.final \subseteq Chunks /\ call.workers \subseteq Clients
        /\ \A w \in call.workers : worker[w] = "top"
    BY <1>0, ParallelConstants
  <2> QED BY <1>0, <2>1, NumChunksType DEF Ends
<1> QED BY <1>1, <1>3, <1>4, <1>5, <1>6 DEF PInv

LEMMA ParallelStep ==
    ASSUME WInv, PInv, Parallel!ParallelNext
    PROVE  WInv' /\ PInv'
<1>1. WInv'
  BY ParallelWrites, WriterStep
<1>2. DecoderTypes' /\ Shared'
  BY DecoderTypesStep, SharedStep
<1>3. Errors' /\ Ends' /\ Calling'
  BY ErrorsStep, EndsStep, CallingStep
<1> QED BY <1>1, <1>2, <1>3 DEF PInv

\* A chunk that one of the call's workers may take is in the queue of one of them.
LEMMA SomebodyTakes ==
    ASSUME PInv, NEW c \in queued, c \notin Parallel!Orphans
    PROVE  \E w \in call.workers : c \in Parallel!QueueOf(w)
<1>1. /\ call.workers \subseteq CpuWorkers \union GpuWorkers
      /\ CpuWorkers \intersect GpuWorkers = {} /\ c \in Parallel!Chunks
  BY ParallelConstants DEF PInv, DecoderTypes
<1>2. \/ \E w \in call.workers : w \in CpuWorkers
      \/ (\E w \in call.workers : w \in GpuWorkers) /\ Parallel!GpuSized(c)
  BY <1>1 DEF Parallel!Orphans
<1>3. ASSUME NEW w \in call.workers, w \in GpuWorkers, Parallel!GpuSized(c)
      PROVE  c \in Parallel!QueueOf(w)
  BY <1>3 DEF Parallel!QueueOf, Parallel!Eligible
<1>4. ASSUME NEW w \in call.workers, w \in CpuWorkers, c \notin Parallel!QueueOf(w)
      PROVE  Parallel!Eligible(c)
  BY <1>1, <1>4 DEF Parallel!QueueOf
<1>5. Parallel!Eligible(c) =>
         Parallel!GpuSized(c) /\ \E w \in call.workers : w \in GpuWorkers
  BY DEF Parallel!Eligible
<1> QED BY <1>2, <1>3, <1>4, <1>5

\* What the invariant says of a call that returns.
LEMMA ParallelMeaning ==
    ASSUME WInv, PInv
    PROVE  Parallel!OkMeansWholeFile
<1>1. Parallel!ChunkAccounting
  <2>1. Parallel!ParallelTypes
    <3>1. Parallel!WriterTypeOK
      BY SameTypes DEF WInv
    <3> QED BY <3>1, ParallelConstants, Zenon DEF PInv, DecoderTypes, Parallel!ParallelTypes
  <2>2. \A w \in Clients :
           /\ batch[w] \intersect (queued \union Parallel!Submitted) = {}
           /\ \A v \in Clients \ {w} : /\ batch[w] \intersect batch[v] = {}
                                       /\ request[w] \intersect request[v] = {}
    BY DEF PInv, Shared, WInv, Requests
  <2>3. ~err_flag => 0 .. produced - 1 =
           queued \union Parallel!Submitted \union UNION {batch[w] : w \in Clients}
    <3> DEFINE Sent == Parallel!Submitted
               Held == UNION {batch[w] : w \in Clients}
               Made == 0 .. produced - 1
    <3>1. \A c : c \in Held <=> \E w \in Clients : c \in batch[w]
      OBVIOUS
    <3>2. /\ queued \subseteq Made /\ Sent \subseteq Made
          /\ \A w \in Clients : batch[w] \subseteq Made
          /\ ~err_flag => \A c \in Made :
                c \in queued \union Sent \/ \E w \in Clients : c \in batch[w]
      BY DEF PInv, Shared
    <3> HIDE DEF Sent, Held, Made
    <3>3. ~err_flag => Made = queued \union Sent \union Held
      BY <3>1, <3>2
    <3> QED BY <3>3 DEF Sent, Held, Made
  <2> QED BY <2>1, <2>2, <2>3 DEF Parallel!ChunkAccounting, PInv, Shared
<1>2. ASSUME result = "ok"
      PROVE  /\ \A c \in Parallel!Chunks \ Parallel!Orphans : left[c] = 0
             /\ call.final = {c \in Parallel!Chunks : c + 1 = NumChunks}
  <2>1. /\ drainer = "ok" /\ ~err_flag /\ producer = "done"
        /\ \A w \in Clients : worker[w] = "done" /\ client[w] = "out"
    BY <1>2 DEF PInv, Calling
  <2>2. /\ produced = NumChunks /\ call.final = {c \in Chunks : c + 1 = NumChunks}
        /\ \A w \in call.workers : Parallel!QueueOf(w) = {}
    BY <2>1, ParallelConstants DEF PInv, Ends, DecoderTypes
  <2>3. ~told
    BY <2>1 DEF PInv, Errors
  <2>4. \A c \in accepted : left[c] = 0
    BY <2>1, <2>3 DEF WInv, Stopping
  <2>5. ASSUME NEW c \in Chunks, c \notin Parallel!Orphans
        PROVE  left[c] = 0
    <3>1. c \notin queued
      BY <2>2, <2>5, SomebodyTakes
    <3>2. c \in Parallel!Submitted
      <4>1. c \in 0 .. produced - 1
        BY <2>2 DEF Chunks
      <4>2. \A w \in Clients : batch[w] = {}
        BY <2>1 DEF PInv, Shared
      <4> QED BY <2>1, <3>1, <4>1, <4>2 DEF PInv, Shared
    <3>3. \A w \in Clients : request[w] = {}
      BY <2>1 DEF WInv, Requests
    <3>4. c \in accepted
      BY <3>2, <3>3 DEF Parallel!Submitted
    <3> QED BY <2>4, <3>4
  <2> QED BY <2>2, <2>5, ParallelConstants
<1> QED BY <1>1, <1>2 DEF Parallel!OkMeansWholeFile

--------------------------------------------------------------------------------
(* The reader that reads ahead: its inductive invariant.                       *)

PrefetchTypes ==
    /\ handles \in Seq(PrefetchRequests)
    /\ inflight_bytes \in Int /\ next_submit_offset \in 0 .. FileLen /\ consumed \in Nat
    /\ reading \in {"fill", "filling", "read", "finish", "draining", "ok", "failed"}
    /\ request \in [{Reader} -> SUBSET PrefetchRequests]

\* The handles follow one another, from what was consumed to what is asked for next.
Chain ==
    /\ \A k \in 1 .. Len(handles) - 1 : handles[k + 1].off = handles[k].off + handles[k].len
    /\ reading # "failed" =>
          IF handles = <<>> THEN next_submit_offset = consumed
          ELSE /\ handles[1].off = consumed
               /\ next_submit_offset = handles[Len(handles)].off + handles[Len(handles)].len

Room ==
    /\ Len(handles) <= PrefetchOps /\ inflight_bytes <= PrefetchBytes
    /\ reading # "failed" => inflight_bytes = next_submit_offset - consumed
    /\ reading = "filling" =>
          /\ Prefetch!NextLen > 0
          /\ request[Reader] = {[off |-> next_submit_offset, len |-> Prefetch!NextLen]}
    /\ reading = "read" => Prefetch!NextLen <= 0
    /\ reading \in {"finish", "draining", "ok"} => consumed = FileLen

RInv == PrefetchTypes /\ Chain /\ Room


--------------------------------------------------------------------------------
(* The reader that reads ahead: every step preserves the invariant.            *)

LEMMA PrefetchConstants ==
    /\ FileLen \in Nat /\ RequestSize \in Nat /\ RequestSize > 0
    /\ PrefetchOps \in Nat /\ PrefetchOps > 0 /\ PrefetchBytes \in Nat /\ PrefetchBytes > 0
    /\ Prefetch!Requests = PrefetchRequests
    /\ \A r \in PrefetchRequests : r.off \in Nat /\ r.len \in Nat /\ r.len > 0
<1>1. Prefetch!PrefetchAssumption
  BY ReadersAssumption
<1>2. Prefetch!Requests = PrefetchRequests
  BY DEF Prefetch!Requests, PrefetchRequests
<1> QED BY <1>1, <1>2 DEF Prefetch!PrefetchAssumption, PrefetchRequests

\* What the next request asks for fits in, and is nothing only where there is no room.
LEMMA NextLenFits ==
    ASSUME RInv
    PROVE  /\ Prefetch!NextLen \in Int
           /\ Prefetch!NextLen > 0 =>
                 /\ Len(handles) < PrefetchOps
                 /\ Prefetch!NextLen <= PrefetchBytes - inflight_bytes
                 /\ next_submit_offset + Prefetch!NextLen <= FileLen
                 /\ [off |-> next_submit_offset, len |-> Prefetch!NextLen] \in PrefetchRequests
           /\ Prefetch!NextLen <= 0 /\ handles = <<>> /\ inflight_bytes = 0 =>
                 next_submit_offset = FileLen
<1> DEFINE n == Prefetch!NextLen
<1>1. /\ FileLen \in Nat /\ RequestSize \in Nat /\ RequestSize > 0
      /\ PrefetchOps \in Nat /\ PrefetchOps > 0 /\ PrefetchBytes \in Nat /\ PrefetchBytes > 0
      /\ inflight_bytes \in Int /\ next_submit_offset \in 0 .. FileLen
      /\ Len(handles) \in Nat /\ Len(<<>>) = 0
  BY PrefetchConstants DEF RInv, PrefetchTypes
<1>2. n = IF Len(handles) < PrefetchOps /\ inflight_bytes < PrefetchBytes
            THEN Prefetch!MinOf(Prefetch!MinOf(FileLen - next_submit_offset, RequestSize),
                                PrefetchBytes - inflight_bytes)
            ELSE 0
  BY DEF Prefetch!NextLen
<1>3. \A a, b \in Int : /\ Prefetch!MinOf(a, b) \in Int
                        /\ Prefetch!MinOf(a, b) <= a /\ Prefetch!MinOf(a, b) <= b
                        /\ Prefetch!MinOf(a, b) = a \/ Prefetch!MinOf(a, b) = b
  BY DEF Prefetch!MinOf
<1> DEFINE x == FileLen - next_submit_offset
           y == PrefetchBytes - inflight_bytes
           m == Prefetch!MinOf(x, RequestSize)
           z == Prefetch!MinOf(m, y)
<1>4. /\ x \in Int /\ y \in Int /\ m \in Int /\ m <= x /\ m <= RequestSize
      /\ m = x \/ m = RequestSize
  <2>1. x \in Int /\ y \in Int /\ RequestSize \in Int
    BY <1>1
  <2> HIDE DEF x, y
  <2> QED BY <1>3, <2>1
<1>5. z \in Int /\ z <= m /\ z <= y /\ (z = m \/ z = y)
  <2> HIDE DEF m, y
  <2> QED BY <1>3, <1>4
<1> HIDE DEF m, z
<1>6. /\ n \in Int
      /\ n > 0 => /\ Len(handles) < PrefetchOps /\ n <= PrefetchBytes - inflight_bytes
                  /\ n <= FileLen - next_submit_offset /\ n <= RequestSize
      /\ n <= 0 /\ handles = <<>> /\ inflight_bytes = 0 => FileLen - next_submit_offset <= 0
  <2> HIDE DEF n
  <2>1. n = IF Len(handles) < PrefetchOps /\ inflight_bytes < PrefetchBytes THEN z ELSE 0
    BY <1>2 DEF z, m
  <2> QED BY <1>1, <1>4, <1>5, <2>1
<1> HIDE DEF n
<1>7. /\ n > 0 => next_submit_offset + n <= FileLen /\ next_submit_offset \in 0 .. FileLen - 1
                  /\ n \in 1 .. RequestSize
      /\ n <= 0 /\ handles = <<>> /\ inflight_bytes = 0 => next_submit_offset = FileLen
  BY <1>1, <1>6
<1>8. n > 0 => [off |-> next_submit_offset, len |-> n] \in PrefetchRequests
  BY <1>7 DEF PrefetchRequests
<1> QED BY <1>6, <1>7, <1>8 DEF n

\* What is not the reading thread's own step leaves its state alone.
LEMMA PrefetchFrame ==
    ASSUME Prefetch!PrefetchNext, ~Prefetch!Reading
    PROVE  UNCHANGED <<request, handles, inflight_bytes, next_submit_offset, reading, consumed>>
<1> DEFINE Rest == UNCHANGED <<handles, inflight_bytes, next_submit_offset, reading, consumed>>
<1> USE DEF Prefetch!prefetchVars, Prefetch!clientVars
<1>1. CASE Prefetch!ReaderSubmit(Reader)
  BY <1>1 DEF Prefetch!ReaderSubmit, Prefetch!Client, Prefetch!SubmitCheck, Prefetch!SubmitGate,
     Prefetch!TakeError, Prefetch!Count, Prefetch!RingSend, Prefetch!IocpSend
<1>2. CASE Prefetch!ReaderDraining
  BY <1>2 DEF Prefetch!ReaderDraining, Prefetch!Draining, Prefetch!RingClose, Prefetch!IocpClose,
     Prefetch!PoolClose, Prefetch!DrainWait, Prefetch!DrainJoin, Prefetch!DrainCheck
<1>3. CASE Prefetch!Engine
  BY <1>3 DEF Prefetch!Engine, Prefetch!RingLoop, Prefetch!RingCreate, Prefetch!RingFill,
     Prefetch!RingFull, Prefetch!RingIdle, Prefetch!RingStops, Prefetch!ReadFails,
     Prefetch!ReadAnswered, Prefetch!CompleteRead, Prefetch!ReadPacket, Prefetch!IocpPacket
<1>4. ASSUME NEW w \in PoolWorkers, Prefetch!ReadWorker(w)
      PROVE  Rest /\ request' = request
  BY <1>4 DEF Prefetch!ReadWorker, Prefetch!PoolPop, Prefetch!PoolLeave, Prefetch!PoolSleep,
     Prefetch!PoolAnswered, Prefetch!PoolCompleteRead
<1>5. CASE Prefetch!ReaderSpurious
  BY <1>5 DEF Prefetch!ReaderSpurious, Prefetch!WriterSpurious
<1>6. CASE UNCHANGED Prefetch!readerVars
  BY <1>6 DEF Prefetch!readerVars, Prefetch!writerVars
<1> QED BY <1>1, <1>2, <1>3, <1>4, <1>5, <1>6 DEF Prefetch!PrefetchNext

\* The first handle leaves.
LEMMA FirstLeaves ==
    ASSUME NEW s \in Seq(PrefetchRequests), NEW k \in {1} \intersect DOMAIN s,
           NEW t, t = SubSeq(s, 1, k - 1) \o SubSeq(s, k + 1, Len(s))
    PROVE  /\ t \in Seq(PrefetchRequests) /\ Len(t) = Len(s) - 1 /\ Len(s) >= 1 /\ k = 1
           /\ s[1] \in PrefetchRequests
           /\ \A i \in 1 .. Len(t) : i + 1 \in 1 .. Len(s) /\ t[i] = s[i + 1]
<1>1. k = 1 /\ s # <<>> /\ Len(s) \in Nat /\ Len(s) >= 1 /\ s[1] \in PrefetchRequests
  OBVIOUS
<1>2. SubSeq(s, 1, k - 1) = <<>> /\ Len(SubSeq(s, 1, k - 1)) = 0
  BY <1>1
<1> DEFINE u == SubSeq(s, 2, Len(s))
<1>3. /\ u \in Seq(PrefetchRequests) /\ Len(u) = Len(s) - 1
      /\ \A i \in 1 .. Len(u) : i + 1 \in 1 .. Len(s) /\ u[i] = s[i + 1]
  <2>1. u = Tail(s)
    BY <1>1, TailIsSubSeq
  <2> HIDE DEF u
  <2>2. /\ Tail(s) \in Seq(PrefetchRequests) /\ Len(Tail(s)) = Len(s) - 1
        /\ \A i \in 1 .. Len(Tail(s)) : i + 1 \in 1 .. Len(s) /\ Tail(s)[i] = s[i + 1]
    BY <1>1, ElementsOfTail
  <2> QED BY <2>1, <2>2
<1> HIDE DEF u
<1>4. <<>> \o u = u
  BY <1>3
<1>5. t = u
  BY <1>1, <1>2, <1>4 DEF u
<1> QED BY <1>1, <1>3, <1>5

LEMMA ReadStep ==
    ASSUME RInv, Prefetch!Read
    PROVE  RInv'
<1>0. /\ FileLen \in Nat /\ inflight_bytes \in Int /\ next_submit_offset \in 0 .. FileLen
      /\ handles \in Seq(PrefetchRequests) /\ consumed \in Nat /\ PrefetchOps \in Nat
      /\ PrefetchBytes \in Nat /\ Len(handles) \in Nat
      /\ \A r \in PrefetchRequests : r.off \in Nat /\ r.len \in Nat /\ r.len > 0
      /\ PrefetchTypes /\ Chain /\ Room
  BY PrefetchConstants DEF RInv, PrefetchTypes
<1>1. reading = "read" /\ UNCHANGED <<next_submit_offset, request>>
  BY DEF Prefetch!Read, Prefetch!writerVars, Prefetch!clientVars
<1>2. Prefetch!NextLen <= 0 /\ inflight_bytes = next_submit_offset - consumed
  BY <1>0, <1>1 DEF Room
<1>3. CASE handles = <<>> /\ reading' = "finish" /\ UNCHANGED <<handles, inflight_bytes, consumed>>
  <2>1. next_submit_offset = consumed
    BY <1>0, <1>1, <1>3 DEF Chain
  <2>2. inflight_bytes = 0
    BY <1>0, <1>2, <2>1
  <2>3. consumed = FileLen
    BY <1>2, <1>3, <2>1, <2>2, NextLenFits
  <2>4. PrefetchTypes'
    BY <1>0, <1>1, <1>3 DEF PrefetchTypes
  <2>5. Chain'
    BY <1>0, <1>1, <1>3, <2>1 DEF Chain
  <2>6. Room'
    BY <1>0, <1>1, <1>2, <1>3, <2>3 DEF Room
  <2> QED BY <2>4, <2>5, <2>6 DEF RInv
<1>4. ASSUME NEW k \in Prefetch!NextHandle,
             handles' = SubSeq(handles, 1, k - 1) \o SubSeq(handles, k + 1, Len(handles)),
             inflight_bytes' = inflight_bytes - handles[k].len,
             \/ /\ reading' = "fill"
                /\ consumed' = consumed +
                     (IF handles[k].off = consumed THEN handles[k].len ELSE 0)
             \/ reading' = "failed" /\ consumed' = consumed
      PROVE  RInv'
  <2>1. /\ handles' \in Seq(PrefetchRequests) /\ Len(handles') = Len(handles) - 1
        /\ Len(handles) >= 1 /\ k = 1 /\ handles[1] \in PrefetchRequests
        /\ \A i \in 1 .. Len(handles') : i + 1 \in 1 .. Len(handles) /\ handles'[i] = handles[i + 1]
    BY <1>0, <1>4, FirstLeaves DEF Prefetch!NextHandle
  <2> DEFINE len == handles[1].len
  <2>2. /\ handles # <<>> /\ handles[1].off = consumed /\ len \in Nat /\ len > 0
        /\ next_submit_offset = handles[Len(handles)].off + handles[Len(handles)].len
    BY <1>0, <1>1, <2>1 DEF Chain
  <2>3. /\ inflight_bytes' = inflight_bytes - len
        /\ \/ reading' = "fill" /\ consumed' = consumed + len
           \/ reading' = "failed" /\ consumed' = consumed
    BY <1>4, <2>1, <2>2
  <2>4. PrefetchTypes'
    <3> HIDE DEF len
    <3>1. inflight_bytes' \in Int /\ consumed' \in Nat /\ reading' \in {"fill", "failed"}
      BY <1>0, <2>2, <2>3
    <3> QED BY <1>0, <1>1, <2>1, <3>1 DEF PrefetchTypes
  <2>5. \A i \in 1 .. Len(handles') - 1 :
           handles'[i + 1].off = handles'[i].off + handles'[i].len
    <3> TAKE i \in 1 .. Len(handles') - 1
    <3>1. /\ i \in 1 .. Len(handles') /\ i + 1 \in 1 .. Len(handles')
          /\ i + 1 \in 1 .. Len(handles) - 1
      BY <1>0, <2>1
    <3>2. handles'[i] = handles[i + 1] /\ handles'[i + 1] = handles[(i + 1) + 1]
      BY <2>1, <3>1
    <3> QED BY <1>0, <3>1, <3>2 DEF Chain
  <2>6. reading' # "failed" =>
           IF handles' = <<>> THEN next_submit_offset' = consumed'
           ELSE /\ handles'[1].off = consumed'
                /\ next_submit_offset' = handles'[Len(handles')].off + handles'[Len(handles')].len
    <3> SUFFICES ASSUME reading' # "failed"
                 PROVE  IF handles' = <<>> THEN next_submit_offset' = consumed'
           ELSE /\ handles'[1].off = consumed'
                /\ next_submit_offset' = handles'[Len(handles')].off + handles'[Len(handles')].len
      OBVIOUS
    <3>1. consumed' = handles[1].off + handles[1].len
      BY <2>2, <2>3
    <3>2. CASE handles' = <<>>
      <4>1. Len(handles) = 1
        BY <1>0, <2>1, <3>2
      <4> QED BY <1>1, <2>2, <3>1, <3>2, <4>1
    <3>3. CASE handles' # <<>>
      <4>1. Len(handles') \in Nat /\ Len(handles') >= 1
        BY <2>1, <3>3
      <4>2. /\ 1 \in 1 .. Len(handles') /\ Len(handles') \in 1 .. Len(handles')
            /\ Len(handles') + 1 = Len(handles) /\ 1 \in 1 .. Len(handles) - 1
        BY <1>0, <2>1, <4>1
      <4>3. handles'[1] = handles[1 + 1] /\ handles'[Len(handles')] = handles[Len(handles)]
        BY <2>1, <4>2
      <4>4. handles[1 + 1].off = handles[1].off + handles[1].len
        BY <1>0, <4>2 DEF Chain
      <4> QED BY <1>1, <2>2, <3>1, <3>3, <4>3, <4>4
    <3> QED BY <3>2, <3>3
  <2>7. Chain'
    BY <2>5, <2>6 DEF Chain
  <2>8. Room'
    <3> HIDE DEF len
    <3>1. Len(handles) <= PrefetchOps /\ inflight_bytes <= PrefetchBytes
      BY <1>0 DEF Room
    <3>2. Len(handles') <= PrefetchOps
      BY <1>0, <2>1, <3>1
    <3>3. inflight_bytes' <= PrefetchBytes
      BY <1>0, <2>2, <2>3, <3>1
    <3>4. reading' # "failed" => inflight_bytes' = next_submit_offset' - consumed'
      BY <1>0, <1>1, <1>2, <2>2, <2>3
    <3> QED BY <2>3, <3>2, <3>3, <3>4 DEF Room
  <2> QED BY <2>4, <2>7, <2>8 DEF RInv
<1> QED BY <1>3, <1>4 DEF Prefetch!Read

LEMMA FillStep ==
    ASSUME RInv, Prefetch!Fill \/ Prefetch!Filled
    PROVE  RInv'
<1>0. /\ FileLen \in Nat /\ inflight_bytes \in Int /\ next_submit_offset \in 0 .. FileLen
      /\ handles \in Seq(PrefetchRequests) /\ consumed \in Nat /\ PrefetchOps \in Nat
      /\ PrefetchBytes \in Nat /\ Len(handles) \in Nat
      /\ request \in [{Reader} -> SUBSET PrefetchRequests]
      /\ \A r \in PrefetchRequests : r.off \in Nat /\ r.len \in Nat /\ r.len > 0
      /\ PrefetchTypes /\ Chain /\ Room
  BY PrefetchConstants DEF RInv, PrefetchTypes
<1>1. CASE Prefetch!Fill
  <2>1. /\ reading = "fill" /\ UNCHANGED <<handles, inflight_bytes, next_submit_offset, consumed>>
        /\ \/ /\ Prefetch!NextLen > 0 /\ reading' = "filling"
              /\ request' = [request EXCEPT ![Reader] =
                               {[off |-> next_submit_offset, len |-> Prefetch!NextLen]}]
           \/ ~(Prefetch!NextLen > 0) /\ reading' = "read" /\ request' = request
    BY <1>1 DEF Prefetch!Fill, Prefetch!Submit, Prefetch!writerVars, Prefetch!clientVars
  <2>2. (Prefetch!NextLen)' = Prefetch!NextLen
    BY <2>1 DEF Prefetch!NextLen
  <2> DEFINE n == Prefetch!NextLen
  <2>3. n \in Int /\ (n > 0 => [off |-> next_submit_offset, len |-> n] \in PrefetchRequests)
    BY NextLenFits DEF RInv
  <2>4. n' = n
    BY <2>2
  <2> HIDE DEF n
  <2>5. \/ /\ n > 0 /\ reading' = "filling"
           /\ request' = [request EXCEPT ![Reader] = {[off |-> next_submit_offset, len |-> n]}]
        \/ n <= 0 /\ reading' = "read" /\ request' = request
    BY <2>1, <2>3 DEF n
  <2>6. request' \in [{Reader} -> SUBSET PrefetchRequests]
    BY <1>0, <2>3, <2>5
  <2>7. PrefetchTypes'
    BY <1>0, <2>1, <2>5, <2>6 DEF PrefetchTypes
  <2>8. Chain'
    BY <1>0, <2>1, <2>5 DEF Chain
  <2>9. Room'
    <3>1. reading' = "filling" => n > 0 /\ request'[Reader] = {[off |-> next_submit_offset, len |-> n]}
      BY <1>0, <2>5
    <3>2. reading' = "read" => n <= 0
      BY <2>5
    <3>3. reading' \in {"filling", "read"}
      BY <2>5
    <3>4. /\ reading' = "filling" =>
              /\ (Prefetch!NextLen)' > 0
              /\ request'[Reader] = {[off |-> next_submit_offset', len |-> (Prefetch!NextLen)']}
          /\ reading' = "read" => (Prefetch!NextLen)' <= 0
      BY <2>1, <2>2, <3>1, <3>2 DEF n
    <3> QED BY <1>0, <2>1, <3>3, <3>4 DEF Room
  <2> QED BY <2>7, <2>8, <2>9 DEF RInv
<1>2. CASE Prefetch!Filled
  <2> DEFINE n == Prefetch!NextLen
             r == [off |-> next_submit_offset, len |-> n]
  <2>1. reading = "filling" /\ consumed' = consumed /\ request' = [request EXCEPT ![Reader] = {}]
    BY <1>2 DEF Prefetch!Filled, Prefetch!Return
  <2>2. /\ n \in Int /\ n > 0 /\ Len(handles) < PrefetchOps /\ n <= PrefetchBytes - inflight_bytes
        /\ next_submit_offset + n <= FileLen /\ r \in PrefetchRequests
        /\ request[Reader] = {r}
    BY <1>0, <2>1, NextLenFits DEF RInv, Room
  <2>3. r.off = next_submit_offset /\ r.len = n
    OBVIOUS
  <2> HIDE DEF n, r
  <2>4. \/ reading' = "failed" /\ UNCHANGED <<handles, inflight_bytes, next_submit_offset>>
        \/ /\ reading' = "fill" /\ handles' = Append(handles, r)
           /\ inflight_bytes' = inflight_bytes + n
           /\ next_submit_offset' = next_submit_offset + n
    BY <1>2, <2>2, <2>3 DEF Prefetch!Filled
  <2>5. request' \in [{Reader} -> SUBSET PrefetchRequests]
    BY <1>0, <2>1
  <2>6. CASE reading' = "failed" /\ UNCHANGED <<handles, inflight_bytes, next_submit_offset>>
    <3>1. PrefetchTypes' /\ Chain'
      BY <1>0, <2>1, <2>5, <2>6 DEF PrefetchTypes, Chain
    <3>2. Room'
      BY <1>0, <2>1, <2>6 DEF Room
    <3> QED BY <3>1, <3>2 DEF RInv
  <2>7. CASE /\ reading' = "fill" /\ handles' = Append(handles, r)
             /\ inflight_bytes' = inflight_bytes + n
             /\ next_submit_offset' = next_submit_offset + n
    <3>1. /\ handles' \in Seq(PrefetchRequests) /\ Len(handles') = Len(handles) + 1
          /\ handles'[Len(handles) + 1] = r /\ handles' # <<>>
          /\ \A i \in 1 .. Len(handles) : handles'[i] = handles[i]
      BY <1>0, <2>2, <2>7
    <3>2. PrefetchTypes'
      <4>1. inflight_bytes' \in Int /\ next_submit_offset' \in 0 .. FileLen
        BY <1>0, <2>2, <2>7
      <4> QED BY <1>0, <2>1, <2>5, <2>7, <3>1, <4>1 DEF PrefetchTypes
    <3>3. CASE handles = <<>>
      <4>1. Len(handles) = 0 /\ next_submit_offset = consumed
        BY <1>0, <2>1, <3>3 DEF Chain
      <4> QED BY <1>0, <2>1, <2>2, <2>3, <2>7, <3>1, <3>2, <4>1 DEF Chain, Room, RInv
    <3>4. CASE handles # <<>>
      <4>1. /\ Len(handles) \in 1 .. Len(handles) /\ 1 \in 1 .. Len(handles)
            /\ handles[1].off = consumed
            /\ next_submit_offset = handles[Len(handles)].off + handles[Len(handles)].len
        BY <1>0, <2>1, <3>4 DEF Chain
      <4>2. \A i \in 1 .. Len(handles') - 1 :
               handles'[i + 1].off = handles'[i].off + handles'[i].len
        <5> TAKE i \in 1 .. Len(handles') - 1
        <5>1. i \in 1 .. Len(handles) /\ (i = Len(handles) \/ i \in 1 .. Len(handles) - 1)
          BY <1>0, <3>1
        <5>2. CASE i = Len(handles)
          <6>1. handles'[i + 1] = r /\ handles'[i] = handles[Len(handles)]
            BY <3>1, <4>1, <5>2
          <6> QED BY <2>3, <4>1, <6>1
        <5>3. CASE i \in 1 .. Len(handles) - 1
          <6>1. i + 1 \in 1 .. Len(handles)
            BY <1>0, <5>3
          <6>2. handles'[i + 1] = handles[i + 1] /\ handles'[i] = handles[i]
            BY <3>1, <5>1, <6>1
          <6> QED BY <1>0, <5>3, <6>2 DEF Chain
        <5> QED BY <5>1, <5>2, <5>3
      <4>3. handles'[1].off = consumed' /\ handles'[Len(handles')] = r
        BY <2>1, <3>1, <4>1
      <4>4. Chain'
        BY <2>3, <2>7, <3>1, <4>2, <4>3 DEF Chain
      <4>5. Room'
        BY <1>0, <2>1, <2>2, <2>7, <3>1 DEF Room
      <4> QED BY <3>2, <4>4, <4>5 DEF RInv
    <3> QED BY <3>3, <3>4
  <2> QED BY <2>4, <2>6, <2>7
<1> QED BY <1>1, <1>2

LEMMA PrefetchStep ==
    ASSUME RInv, Prefetch!PrefetchNext
    PROVE  RInv'
<1>1. ASSUME UNCHANGED <<request, handles, inflight_bytes, next_submit_offset, consumed>>,
             \/ reading' = reading
             \/ reading' \in {"draining", "ok"} /\ reading \in {"finish", "draining"}
             \/ reading' = "failed"
      PROVE  RInv'
  <2>1. (Prefetch!NextLen)' = Prefetch!NextLen
    BY <1>1 DEF Prefetch!NextLen
  <2>2. PrefetchTypes' /\ Chain'
    BY <1>1 DEF RInv, PrefetchTypes, Chain
  <2>3. Room'
    <3> DEFINE n == Prefetch!NextLen
    <3>1. n' = n
      BY <2>1
    <3> HIDE DEF n
    <3> QED BY <1>1, <3>1 DEF RInv, Room, n
  <2> QED BY <2>2, <2>3 DEF RInv
<1>2. CASE Prefetch!Finish \/ Prefetch!Finished
  <2>1. UNCHANGED <<request, handles, inflight_bytes, next_submit_offset, consumed>>
    BY <1>2 DEF Prefetch!Finish, Prefetch!Finished, Prefetch!Drain, Prefetch!writerVars,
       Prefetch!clientVars
  <2>2. \/ reading' \in {"draining", "ok"} /\ reading \in {"finish", "draining"}
        \/ reading' = "failed"
    BY <1>2 DEF Prefetch!Finish, Prefetch!Finished
  <2> QED BY <1>1, <2>1, <2>2
<1>3. CASE ~Prefetch!Reading
  BY <1>1, <1>3, PrefetchFrame
<1> QED BY <1>2, <1>3, ReadStep, FillStep DEF Prefetch!Reading

LEMMA PrefetchStart ==
    ASSUME Prefetch!PrefetchInit
    PROVE  RInv
<1>1. /\ handles = <<>> /\ inflight_bytes = 0 /\ next_submit_offset = 0 /\ reading = "fill"
      /\ consumed = 0 /\ request = [t \in {Reader} |-> {}]
  BY DEF Prefetch!PrefetchInit, Prefetch!WriterInit
<1>2. PrefetchTypes
  BY <1>1, PrefetchConstants DEF PrefetchTypes
<1>3. Chain /\ Room
  BY <1>1, PrefetchConstants DEF Chain, Room
<1> QED BY <1>2, <1>3 DEF RInv

LEMMA PrefetchMeaning ==
    ASSUME RInv
    PROVE  Prefetch!HandedOutInOrder
<1>0. handles \in Seq(PrefetchRequests) /\ DOMAIN handles = 1 .. Len(handles) /\ Len(handles) \in Nat
  BY DEF RInv, PrefetchTypes
<1>1. ASSUME NEW k \in DOMAIN handles
      PROVE  IF k > 1 THEN handles[k].off = handles[k - 1].off + handles[k - 1].len
                      ELSE reading = "failed" \/ handles[k].off = consumed
  <2>1. CASE k > 1
    <3>1. k - 1 \in 1 .. Len(handles) - 1 /\ (k - 1) + 1 = k
      BY <1>0, <2>1
    <3> QED BY <2>1, <3>1 DEF RInv, Chain
  <2>2. CASE ~(k > 1)
    <3>1. k = 1 /\ handles # <<>>
      BY <1>0, <2>2
    <3> QED BY <2>2, <3>1 DEF RInv, Chain
  <2> QED BY <2>1, <2>2
<1> QED BY <1>1 DEF RInv, Chain, Room, Prefetch!HandedOutInOrder

--------------------------------------------------------------------------------
(* All three, side by side.                                                    *)

ReadersInv ==
    /\ scenario \in {"indexed", "parallel", "prefetch"}
    /\ scenario = "indexed" => WInv /\ IInv
    /\ scenario = "parallel" => WInv /\ PInv
    /\ scenario = "prefetch" => RInv

LEMMA ReadersStart == ReadersInit => ReadersInv
<1>1. CASE scenario = "indexed" /\ IndexedInit
  BY <1>1, IndexedStart DEF ReadersInv
<1>2. CASE scenario = "parallel" /\ Parallel!ParallelInit
  BY <1>2, ParallelStart DEF ReadersInv
<1>3. CASE scenario = "prefetch" /\ Prefetch!PrefetchInit
  BY <1>3, PrefetchStart DEF ReadersInv
<1> QED BY <1>1, <1>2, <1>3 DEF ReadersInit

\* In every step one of the three moves, or nothing does.
LEMMA WhoMoves ==
    ASSUME [ReadersNext]_readersVars
    PROVE  /\ scenario' = scenario
           /\ \/ scenario = "indexed" /\ IndexedNext
              \/ scenario = "parallel" /\ Parallel!ParallelNext
              \/ scenario = "prefetch" /\ Prefetch!PrefetchNext
              \/ /\ UNCHANGED <<writerVars, indexedVars, prefetchVars, parallelVars>>
BY DEF ReadersNext, readersVars, Decoding, Writing, Fetching, allVars

\* Where nothing moves everything stays.
LEMMA NothingChanges ==
    ASSUME UNCHANGED <<writerVars, indexedVars, prefetchVars, parallelVars>>
    PROVE  /\ WInv => WInv'
           /\ IInv => IInv'
           /\ PInv => PInv'
           /\ RInv => RInv'
<1>1. WInv => WInv'
  BY WriterStep
<1> USE DEF writerVars, gateVars, ringVars, engineVars, poolVars, clientVars
<1> USE DEF indexedVars, queueVars, callerVars, prefetchVars, parallelVars
<1>2. IndexTypes => IndexTypes'
  BY DEF IndexTypes
<1>3. Phases /\ Outcome => Phases' /\ Outcome'
  BY DEF Phases, Outcome, ToFile, Fault
<1>4. Spread /\ Level => Spread' /\ Level'
  BY DEF Spread, Level, OnTheWay
<1>5. Linked => Linked'
  BY DEF Linked, ToFile
<1>6. DecoderTypes /\ Errors /\ Calling => DecoderTypes' /\ Errors' /\ Calling'
  BY DEF DecoderTypes, Errors, Calling
<1>7. Shared => Shared'
  BY DEF Shared, Parallel!Submitted
<1>8. Ends => Ends'
  BY DEF Ends, Parallel!QueueOf, Parallel!Shared, Parallel!Eligible, Parallel!GpuSized
<1>9. RInv => RInv'
  BY DEF RInv, PrefetchTypes, Chain, Room, Prefetch!NextLen
<1> QED BY <1>1, <1>2, <1>3, <1>4, <1>5, <1>6, <1>7, <1>8, <1>9 DEF IInv, PInv

LEMMA ReadersStep ==
    ASSUME ReadersInv, [ReadersNext]_readersVars
    PROVE  ReadersInv'
<1>1. CASE scenario = "indexed" /\ IndexedNext
  BY <1>1, IndexedStep, WhoMoves DEF ReadersInv
<1>2. CASE scenario = "parallel" /\ Parallel!ParallelNext
  BY <1>2, ParallelStep, WhoMoves DEF ReadersInv
<1>3. CASE scenario = "prefetch" /\ Prefetch!PrefetchNext
  BY <1>3, PrefetchStep, WhoMoves DEF ReadersInv
<1>4. CASE UNCHANGED <<writerVars, indexedVars, prefetchVars, parallelVars>>
  BY <1>4, NothingChanges, WhoMoves DEF ReadersInv
<1> QED BY <1>1, <1>2, <1>3, <1>4, WhoMoves

\* The invariant holds in every state of every scenario.
THEOREM ReadersInvariant == ReadersSpec => []ReadersInv
<1>1. ReadersInit => ReadersInv
  BY ReadersStart
<1>2. ReadersInv /\ [ReadersNext]_readersVars => ReadersInv'
  BY ReadersStep
<1> QED BY <1>1, <1>2, PTL DEF ReadersSpec

\* For any number of chunks, workers and writer threads, any limits and any faults: an
\* indexed decode that returns without an error has put out, or written, every chunk in
\* order, by an index that says so; a decode to the parallel writer that returns
\* without an error has written every chunk of a stream that marks its last chunk and no
\* other, but for those no worker takes; and what the prefetch reader hands out is the
\* file from its beginning, without a gap and within both limits.
THEOREM DecodesAreWhole == ReadersSpec => []ReadersExact
<1>1. ReadersInv => ReadersExact
  BY IndexedMeaning, ParallelMeaning, PrefetchMeaning DEF ReadersInv, ReadersExact
<1> QED BY <1>1, ReadersInvariant, PTL

\* As both decoders use the writer its gate counts exactly the writes that passed it and
\* are not completed, and neither limit is passed by more than a write.
THEOREM DecodersGateCounts == ReadersSpec => []GateExact
<1>1. ReadersInv => GateExact
  BY DEF ReadersInv, GateExact, WInv, Exact, BacklogExact
<1> QED BY <1>1, ReadersInvariant, PTL

--------------------------------------------------------------------------------
(* The barrier.                                                                *)

LEMMA FileBarrierStart == ReadersInit => FileBarrier!Init
<1> SUFFICES ASSUME ReadersInit PROVE FileBarrier!Init
  OBVIOUS
<1>1. scenario = "prefetch" \/ WriterInit
  BY SameStart DEF ReadersInit, IndexedInit, Parallel!ParallelInit
<1>2. CASE scenario = "prefetch"
  BY <1>2 DEF FileBarrier!Init
<1>3. CASE scenario # "prefetch" /\ WriterInit
  BY <1>3, SizeType DEF FileBarrier!Init, WriterInit
<1> QED BY <1>1, <1>2, <1>3

LEMMA FileBarrierStep ==
    ASSUME ReadersInv, [ReadersNext]_readersVars
    PROVE  [FileBarrier!Next]_(FileBarrier!vars)
<1>1. scenario' = scenario
  BY WhoMoves
<1>2. CASE scenario = "prefetch"
  <2>1. UNCHANGED FileBarrier!vars
    BY <1>1, <1>2 DEF FileBarrier!vars
  <2> QED BY <2>1
<1>3. CASE scenario # "prefetch"
  <2>1. WInv
    BY <1>3 DEF ReadersInv
  <2>2. [WriterNext]_writerVars
    <3>1. CASE scenario = "indexed" /\ IndexedNext
      BY <3>1, IndexedWrites DEF ReadersInv
    <3>2. CASE scenario = "parallel" /\ Parallel!ParallelNext
      BY <3>2, ParallelWrites DEF ReadersInv
    <3> QED BY <1>3, <3>1, <3>2, WhoMoves
  <2>3. [Barrier!Next]_(Barrier!vars)
    BY <2>1, <2>2, BarrierStep
  <2>4. UNCHANGED Barrier!vars => UNCHANGED FileBarrier!vars
    BY <1>1, <1>3 DEF Barrier!vars, FileBarrier!vars
  <2>5. Barrier!Next => FileBarrier!Next
    BY <1>1, <1>3 DEF Barrier!Next, FileBarrier!Next, Barrier!Accept, FileBarrier!Accept,
       Barrier!Refuse, FileBarrier!Refuse, Barrier!Write, FileBarrier!Write, Barrier!DrainOk,
       FileBarrier!DrainOk, Barrier!DrainFails, FileBarrier!DrainFails
  <2> QED BY <2>3, <2>4, <2>5
<1> QED BY <1>2, <1>3

\* For both decoders the writer is a barrier: what was accepted is carried out once, and
\* drain returns Ok only when all of it is, unless an error was returned before.
THEOREM DecodersBarrier == ReadersSpec => FileBarrierSpec
<1>1. ReadersInit => FileBarrier!Init
  BY FileBarrierStart
<1>2. ReadersInv /\ [ReadersNext]_readersVars => [FileBarrier!Next]_(FileBarrier!vars)
  BY FileBarrierStep
<1>3. ReadersSpec => ReadersInit /\ [][ReadersNext]_readersVars
  BY PTL DEF ReadersSpec
<1>4. ReadersSpec => FileBarrier!Init /\ [][FileBarrier!Next]_(FileBarrier!vars)
  BY <1>1, <1>2, <1>3, ReadersInvariant, PTL
<1> QED BY <1>4, PTL DEF FileBarrierSpec, FileBarrier!Spec

--------------------------------------------------------------------------------
(* The extraction of a ZIP file (ZipDirectoryExtract).                       *)

(* The inductive invariant.                                                    *)

\* The workers that have an entry, and those that have left.
Busy == {w \in ExtractWorkers : extractor[w].at \in {"begin", "payload", "decode", "account"}}
Gone == {w \in ExtractWorkers : extractor[w].at = "gone"}

\* The workers that have accounted for an entry that the progress does not count yet.
Counting == {w \in ExtractWorkers : extractor[w].at = "finish_entry"}

\* How many entries were taken out of the queue.
Taken == Len(ExtractTasks) - Len(tasks)

Bytes == [t \in ZipTasks |-> ExtractTasks[t].bytes]

Progress ==
    [phase : {"Running", "Finished"}, total_entries : Nat, total_bytes : Nat, completed : Nat,
     processed : Nat, current : ZipTasks \union {NoTask}, current_total : Nat \union {Unknown},
     current_processed : Nat, backlog : Nat \union {Unknown}]

\* The type invariant.
ExtractTypes ==
    /\ decodesTo \in [ZipTasks -> Nat]
    /\ tasks \in Seq(ZipTasks)
    /\ extractor \in [ExtractWorkers ->
          [at : {"take", "begin", "payload", "decode", "account", "finish_entry", "gone"},
           task : ZipTasks \union {NoTask}]]
    /\ written \in [ZipTasks -> Nat] /\ backlog_slots \in [ZipTasks -> Nat]
    /\ report \in [ExtractWorkers -> Nat \union {Unknown}]
    /\ error_slot \in BOOLEAN
    /\ totals \in [entries : Nat, bytes : Nat]
    /\ progress \in Progress
    /\ extraction \in {"scope", "ok", "failed"}
    /\ \A w \in Busy : extractor[w].task \in ZipTasks

\* What is left in the queue is the end of the list.
Suffix ==
    /\ Len(tasks) <= Len(ExtractTasks)
    /\ \A i \in 1 .. Len(tasks) : tasks[i] = Taken + i

\* No entry has more written than it decodes to; one that was taken and that nobody has
\* is whole, and one that was not taken has nothing written.
Written(lost) ==
    \A t \in ZipTasks :
        /\ written[t] <= decodesTo[t]
        /\ t > Taken => written[t] = 0
        /\ t <= Taken => Whole(t) \/ \E w \in Busy \union lost : extractor[w].task = t

Fits(x) ==
    /\ x.at = "account" => Whole(x.task)
    /\ x.at \in {"begin", "payload"} => written[x.task] = 0

\* Each worker has an entry of its own; those in lost failed, and still have theirs.
\* Nothing is written before the decoder runs, and what is accounted for is whole.
Having(lost) ==
    /\ \A w \in Busy \union lost : extractor[w].task \in 1 .. Taken
    /\ \A v, w \in Busy \union lost : extractor[v].task = extractor[w].task => v = w
    /\ \A w \in Busy : Fits(extractor[w])

\* The entries that were accounted for.
Accounted(lost) == {t \in 1 .. Taken : \A w \in Busy \union lost : extractor[w].task # t}

\* The workers that failed are those of the stored error; any other that has left
\* found the queue empty.
Losses(lost) ==
    /\ lost \subseteq Gone
    /\ error_slot <=> lost # {}
    /\ Gone \ lost # {} => tasks = <<>>

Accounts(lost) ==
    /\ totals.entries + Cardinality(Busy \union lost) = Taken
    /\ totals.bytes = SumOf(Bytes, Accounted(lost))

Lost(lost) == Written(lost) /\ Having(lost) /\ Losses(lost) /\ Accounts(lost)

\* The progress.
Shown ==
    /\ progress.phase = (IF extraction = "ok" THEN "Finished" ELSE "Running")
    /\ progress.total_bytes = SumOf(Bytes, ZipTasks)
    /\ extraction # "ok" =>
          /\ progress.processed = SumOf(written, ZipTasks)
          /\ progress.completed + Cardinality(Counting) = totals.entries

\* Nobody is inside once the scope has ended, and only a decoder reports.
Scope ==
    /\ \A w \in ExtractWorkers : report[w] # Unknown => extractor[w].at = "decode"
    /\ extraction # "scope" => Gone = ExtractWorkers
    /\ extraction = "ok" => ~error_slot
    /\ extraction = "failed" => error_slot

ExtractInv == ExtractTypes /\ Suffix /\ Shown /\ Scope /\ \E lost \in SUBSET ExtractWorkers : Lost(lost)

--------------------------------------------------------------------------------
(* The list, and the progress.                                                 *)

LEMMA TheList ==
    /\ Len(ExtractTasks) \in Nat /\ ZipTasks = 1 .. Len(ExtractTasks) /\ IsFiniteSet(ZipTasks)
    /\ Bytes \in [ZipTasks -> Nat] /\ \A t \in ZipTasks : Bytes[t] = ExtractTasks[t].bytes
    /\ NoTask = 0 /\ Unknown = -1
    /\ IsFiniteSet(ExtractWorkers) /\ ExtractWorkers # {}
<1>1. ExtractTasks \in Seq([bytes : Nat, indexed : BOOLEAN])
  BY ExtractAssumption
<1>2. Len(ExtractTasks) \in Nat /\ ZipTasks = 1 .. Len(ExtractTasks)
  BY <1>1 DEF ZipTasks
<1>3. \A t \in ZipTasks : ExtractTasks[t].bytes \in Nat
  <2> DEFINE R == [bytes : Nat, indexed : BOOLEAN]
  <2>1. \A r \in R : r.bytes \in Nat
    OBVIOUS
  <2>2. ExtractTasks \in Seq(R)
    BY <1>1
  <2> HIDE DEF R
  <2>3. \A t \in ZipTasks : ExtractTasks[t] \in R
    BY <1>2, <2>2, ElementOfSeq
  <2> QED BY <2>1, <2>3
<1>4. IsFiniteSet(ZipTasks)
  <2>1. 1 \in Int /\ Len(ExtractTasks) \in Int
    BY <1>2
  <2> QED BY <1>2, <2>1, FS_Interval
<1> QED BY <1>2, <1>3, <1>4, ExtractAssumption DEF Bytes, NoTask, Unknown

\* The bytes of the entries are a sum.
LEMMA TotalOfIs == \A S \in SUBSET ZipTasks : TotalOf(S) = SumOf(Bytes, S)
<1> TAKE S \in SUBSET ZipTasks
<1> DEFINE R(g) == g = [s \in SUBSET S |-> IF s = {} THEN 0
                          ELSE ExtractTasks[CHOOSE x \in s : TRUE].bytes
                                 + g[s \ {CHOOSE x \in s : TRUE}]]
           R2(g) == g = [s \in SUBSET S |-> IF s = {} THEN 0
                          ELSE Bytes[CHOOSE x \in s : TRUE] + g[s \ {CHOOSE x \in s : TRUE}]]
<1>0. IsFiniteSet(S) /\ S \in SUBSET S
  BY TheList, FS_Subset
<1>1. ASSUME NEW s \in SUBSET S, s # {}
      PROVE  Bytes[CHOOSE x \in s : TRUE] = ExtractTasks[CHOOSE x \in s : TRUE].bytes
  <2> DEFINE x == CHOOSE x \in s : TRUE
  <2>1. x \in ZipTasks
    BY <1>1
  <2> HIDE DEF x
  <2>2. Bytes[x] = ExtractTasks[x].bytes
    BY <2>1, TheList
  <2> QED BY <2>2 DEF x
<1>2. \A g : R(g) <=> R2(g)
  BY <1>1
<1>3. PICK g : Sums(g, Bytes, S)
  BY <1>0, SumsExist
<1>4. R2(g)
  BY <1>3 DEF Sums, First
<1>5. R(CHOOSE h : R(h))
  <2>1. R(g)
    BY <1>2, <1>4
  <2> HIDE DEF R
  <2>2. \E h : R(h)
    BY <2>1
  <2> QED BY <2>2
<1>6. TotalOf(S) = (CHOOSE h : R(h))[S]
  BY DEF TotalOf, MapThenSumSet, MapThenFoldSet
<1>7. PICK h : Sums(h, Bytes, S) /\ TotalOf(S) = h[S]
  BY <1>2, <1>5, <1>6 DEF Sums, First
<1>8. PICK k : R2(k) /\ SumOf(Bytes, S) = k[S]
  <2>1. R2(CHOOSE r : R2(r))
    BY <1>4
  <2>2. SumOf(Bytes, S) = (CHOOSE r : R2(r))[S]
    BY DEF SumOf, MapThenSumSet, MapThenFoldSet
  <2> QED BY <2>1, <2>2
<1>9. Sums(k, Bytes, S) /\ S \in SUBSET (S \intersect S)
  BY <1>8 DEF Sums, First
<1>10. h[S] = k[S]
  BY <1>0, <1>7, <1>9, SumsAgree
<1> QED BY <1>7, <1>8, <1>10

\* What the operations of CoZipProgress return.
LEMMA ProgressOps ==
    ASSUME NEW P \in Progress
    PROVE  /\ \A t \in ZipTasks :
                 /\ BeginEntry(P, t) \in Progress
                 /\ BeginEntry(P, t).phase = P.phase
                 /\ BeginEntry(P, t).total_bytes = P.total_bytes
                 /\ BeginEntry(P, t).processed = P.processed
                 /\ BeginEntry(P, t).completed = P.completed
           /\ /\ Advance(P, 1) \in Progress
              /\ Advance(P, 1).phase = P.phase
              /\ Advance(P, 1).total_bytes = P.total_bytes
              /\ Advance(P, 1).processed = P.processed + 1
              /\ Advance(P, 1).completed = P.completed
           /\ \A n \in Nat \union {Unknown} :
                 /\ Backlog(P, n) \in Progress
                 /\ Backlog(P, n).phase = P.phase
                 /\ Backlog(P, n).total_bytes = P.total_bytes
                 /\ Backlog(P, n).processed = P.processed
                 /\ Backlog(P, n).completed = P.completed
           /\ /\ FinishEntry(P) \in Progress
              /\ FinishEntry(P).phase = P.phase
              /\ FinishEntry(P).total_bytes = P.total_bytes
              /\ FinishEntry(P).processed = P.processed
              /\ FinishEntry(P).completed = P.completed + 1
           /\ /\ Finished(P) \in Progress
              /\ Finished(P).phase = "Finished"
              /\ Finished(P).total_bytes = P.total_bytes
<1>0. NoTask = 0 /\ Unknown = -1 /\ \A t \in ZipTasks : ExtractTasks[t].bytes \in Nat
  BY TheList
<1>1. ASSUME NEW t \in ZipTasks
      PROVE  /\ BeginEntry(P, t) \in Progress
             /\ BeginEntry(P, t).phase = P.phase
             /\ BeginEntry(P, t).total_bytes = P.total_bytes
             /\ BeginEntry(P, t).processed = P.processed
             /\ BeginEntry(P, t).completed = P.completed
  BY <1>0 DEF Progress, BeginEntry
<1>2. /\ Advance(P, 1) \in Progress
      /\ Advance(P, 1).phase = P.phase
      /\ Advance(P, 1).total_bytes = P.total_bytes
      /\ Advance(P, 1).processed = P.processed + 1
      /\ Advance(P, 1).completed = P.completed
  <2> DEFINE Q == [P EXCEPT !.processed = P.processed + 1]
  <2>1. /\ Q \in Progress /\ Q.processed = P.processed + 1
        /\ Q.phase = P.phase /\ Q.total_bytes = P.total_bytes /\ Q.completed = P.completed
    BY <1>0 DEF Progress
  <2>2. Advance(P, 1) = [Q EXCEPT !.current_processed = @ + 1]
    BY DEF Advance
  <2> HIDE DEF Q
  <2> QED BY <1>0, <2>1, <2>2 DEF Progress
<1>3. ASSUME NEW n \in Nat \union {Unknown}
      PROVE  /\ Backlog(P, n) \in Progress
             /\ Backlog(P, n).phase = P.phase
             /\ Backlog(P, n).total_bytes = P.total_bytes
             /\ Backlog(P, n).processed = P.processed
             /\ Backlog(P, n).completed = P.completed
  BY <1>0 DEF Progress, Backlog
<1>4. /\ NoEntry(P) \in Progress
      /\ NoEntry(P).phase = P.phase
      /\ NoEntry(P).total_bytes = P.total_bytes
      /\ NoEntry(P).processed = P.processed
      /\ NoEntry(P).completed = P.completed
  BY <1>0 DEF Progress, NoEntry
<1>5. /\ FinishEntry(P) \in Progress
      /\ FinishEntry(P).phase = P.phase
      /\ FinishEntry(P).total_bytes = P.total_bytes
      /\ FinishEntry(P).processed = P.processed
      /\ FinishEntry(P).completed = P.completed + 1
  BY <1>4 DEF Progress, FinishEntry
<1>6. /\ Finished(P) \in Progress
      /\ Finished(P).phase = "Finished"
      /\ Finished(P).total_bytes = P.total_bytes
  BY <1>4 DEF Progress, Finished
<1> QED BY <1>1, <1>2, <1>3, <1>5, <1>6

--------------------------------------------------------------------------------
(* Types.                                                                      *)

\* What the steps do to where the workers are.
LEMMA Moves ==
    ASSUME ExtractTypes, [ExtractNext]_extractVars
    PROVE  \/ extractor' = extractor
           \/ \E w \in ExtractWorkers : \E place \in {"payload", "decode", "account", "gone",
                                                     "finish_entry", "take"} :
                 /\ extractor' = [extractor EXCEPT ![w].at = place]
                 /\ place \in {"payload", "decode", "account"} => w \in Busy
           \/ \E w \in ExtractWorkers :
                 /\ tasks # <<>>
                 /\ extractor' = [extractor EXCEPT ![w] = [at |-> "begin", task |-> Head(tasks)]]
BY DEF ExtractNext, ExtractWorker, ExtractTake, ExtractBegin, ExtractPayload, ExtractWrite,
       ExtractReport, ExtractShow, ExtractDone, Decoded, ExtractFails, ExtractAccount, ExtractFinishEntry,
       ExtractReturn, extractVars, Goes, Is, Busy

LEMMA TypesStep ==
    ASSUME ExtractTypes, [ExtractNext]_extractVars
    PROVE  ExtractTypes'
<1>0. /\ tasks \in Seq(ZipTasks) /\ ZipTasks' = ZipTasks /\ ExtractWorkers' = ExtractWorkers
      /\ IsFiniteSet(ZipTasks) /\ Unknown = -1 /\ NoTask = 0
      /\ \A t \in ZipTasks : ExtractTasks[t].bytes \in Nat
  BY TheList DEF ExtractTypes
<1>12. decodesTo' \in [ZipTasks -> Nat]
  BY DEF ExtractNext, extractVars, ExtractTypes
<1>1. tasks' \in Seq(ZipTasks)
  <2>1. tasks' = tasks \/ (tasks # <<>> /\ tasks' = Tail(tasks))
    BY DEF ExtractNext, ExtractWorker, ExtractTake, ExtractBegin, ExtractPayload, ExtractWrite,
       ExtractReport, ExtractShow, ExtractDone, Decoded, ExtractFails, ExtractAccount, ExtractFinishEntry,
       ExtractReturn, extractVars
  <2> QED BY <1>0, <2>1
<1>2. tasks # <<>> => Head(tasks) \in ZipTasks
  BY <1>0
<1> DEFINE Ats == {"take", "begin", "payload", "decode", "account", "finish_entry", "gone"}
<1>3. /\ extractor' \in [ExtractWorkers -> [at : Ats, task : ZipTasks \union {NoTask}]]
      /\ \A w \in Busy' : extractor'[w].task \in ZipTasks
  <2>0. /\ extractor \in [ExtractWorkers -> [at : Ats, task : ZipTasks \union {NoTask}]]
        /\ \A w \in Busy : w \in ExtractWorkers /\ extractor[w].task \in ZipTasks
    BY DEF ExtractTypes, Busy
  <2>1. CASE extractor' = extractor
    <3>1. Busy' = Busy
      BY <2>1 DEF Busy
    <3> QED BY <2>0, <2>1, <3>1
  <2>2. ASSUME NEW w \in ExtractWorkers,
               NEW place \in {"payload", "decode", "account", "gone", "finish_entry", "take"},
               extractor' = [extractor EXCEPT ![w].at = place],
               place \in {"payload", "decode", "account"} => w \in Busy
        PROVE  /\ extractor' \in [ExtractWorkers -> [at : Ats, task : ZipTasks \union {NoTask}]]
               /\ \A v \in Busy' : extractor'[v].task \in ZipTasks
    <3>1. extractor' \in [ExtractWorkers -> [at : Ats, task : ZipTasks \union {NoTask}]]
      BY <2>0, <2>2
    <3>2. \A v \in ExtractWorkers : extractor'[v].task = extractor[v].task
      BY <2>0, <2>2
    <3>3. \A v \in Busy' : v \in Busy
      BY <2>0, <2>2 DEF Busy
    <3> QED BY <2>0, <3>1, <3>2, <3>3
  <2>3. ASSUME NEW w \in ExtractWorkers, tasks # <<>>,
               extractor' = [extractor EXCEPT ![w] = [at |-> "begin", task |-> Head(tasks)]]
        PROVE  /\ extractor' \in [ExtractWorkers -> [at : Ats, task : ZipTasks \union {NoTask}]]
               /\ \A v \in Busy' : extractor'[v].task \in ZipTasks
    <3>1. extractor' \in [ExtractWorkers -> [at : Ats, task : ZipTasks \union {NoTask}]]
      BY <1>2, <2>0, <2>3
    <3>2. extractor'[w].task \in ZipTasks
      BY <1>2, <2>0, <2>3
    <3>3. \A v \in Busy' : v # w => v \in Busy /\ extractor'[v] = extractor[v]
      BY <2>0, <2>3 DEF Busy
    <3> QED BY <2>0, <3>1, <3>2, <3>3
  <2> HIDE DEF Ats
  <2> QED BY <2>1, <2>2, <2>3, Moves
<1>4. written' \in [ZipTasks -> Nat]
  <2>1. written' = written \/ \E t \in ZipTasks : written' = [written EXCEPT ![t] = @ + 1]
    BY DEF ExtractNext, ExtractWorker, ExtractTake, ExtractBegin, ExtractPayload, ExtractWrite,
       ExtractReport, ExtractShow, ExtractDone, Decoded, ExtractFails, ExtractAccount, ExtractFinishEntry,
       ExtractReturn, extractVars, ExtractTypes, Busy, Is, TaskOf
  <2>2. written \in [ZipTasks -> Nat]
    BY DEF ExtractTypes
  <2> QED BY <2>1, <2>2
<1>5. backlog_slots' \in [ZipTasks -> Nat]
  <2>1. \/ backlog_slots' = backlog_slots
        \/ \E t \in ZipTasks, n \in {0, 1} : backlog_slots' = [backlog_slots EXCEPT ![t] = n]
    BY DEF ExtractNext, ExtractWorker, ExtractTake, ExtractBegin, ExtractPayload, ExtractWrite,
       ExtractReport, ExtractShow, ExtractDone, Decoded, ExtractFails, ExtractAccount, ExtractFinishEntry,
       ExtractReturn, extractVars, ExtractTypes, Busy, Is, TaskOf
  <2>2. backlog_slots \in [ZipTasks -> Nat]
    BY DEF ExtractTypes
  <2> QED BY <2>1, <2>2
<1>6. SlotSum(backlog_slots') \in Nat
  <2>1. \A f \in [ZipTasks -> Nat] : SumOf(f, ZipTasks) \in Nat
    BY <1>0, SumOfType
  <2>2. SlotSum(backlog_slots') = SumOf(backlog_slots', ZipTasks)
    BY DEF SlotSum, SumOf
  <2> QED BY <1>5, <2>1, <2>2
<1>7. report' \in [ExtractWorkers -> Nat \union {Unknown}]
  <2>1. \/ report' = report
        \/ \E w \in ExtractWorkers, n \in {SlotSum(backlog_slots'), Unknown} :
              report' = [report EXCEPT ![w] = n]
    BY DEF ExtractNext, ExtractWorker, ExtractTake, ExtractBegin, ExtractPayload, ExtractWrite,
       ExtractReport, ExtractShow, ExtractDone, Decoded, ExtractFails, ExtractAccount, ExtractFinishEntry,
       ExtractReturn, extractVars
  <2> QED BY <1>6, <2>1 DEF ExtractTypes
<1>8. error_slot' \in BOOLEAN /\ extraction' \in {"scope", "ok", "failed"}
  <2>1. error_slot' = error_slot \/ error_slot' = TRUE
    BY DEF ExtractNext, ExtractWorker, ExtractTake, ExtractBegin, ExtractPayload, ExtractWrite,
       ExtractReport, ExtractShow, ExtractDone, Decoded, ExtractFails, ExtractAccount, ExtractFinishEntry,
       ExtractReturn, extractVars
  <2>2. extraction' = extraction \/ extraction' \in {"ok", "failed"}
    BY DEF ExtractNext, ExtractWorker, ExtractTake, ExtractBegin, ExtractPayload, ExtractWrite,
       ExtractReport, ExtractShow, ExtractDone, Decoded, ExtractFails, ExtractAccount, ExtractFinishEntry,
       ExtractReturn, extractVars
  <2>3. error_slot' \in BOOLEAN
    BY <2>1, Zenon DEF ExtractTypes
  <2> QED BY <2>2, <2>3 DEF ExtractTypes
<1>9. totals' \in [entries : Nat, bytes : Nat]
  <2>1. totals' = totals \/ \E t \in ZipTasks : totals' = Added(t)
    BY DEF ExtractNext, ExtractWorker, ExtractTake, ExtractBegin, ExtractPayload, ExtractWrite,
       ExtractReport, ExtractShow, ExtractDone, Decoded, ExtractFails, ExtractAccount, ExtractFinishEntry,
       ExtractReturn, extractVars, ExtractTypes, Busy, Is, TaskOf
  <2> QED BY <2>1 DEF ExtractTypes, Added
<1>10. progress' \in Progress
  <2>1. \/ progress' = progress
        \/ \E t \in ZipTasks : progress' = BeginEntry(progress, t)
        \/ progress' = Advance(progress, 1)
        \/ \E n \in Nat \union {Unknown} : progress' = Backlog(progress, n)
        \/ progress' = FinishEntry(progress)
        \/ progress' = Finished(Backlog(progress, Unknown))
    BY <1>6 DEF ExtractNext, ExtractWorker, ExtractTake, ExtractBegin, ExtractPayload, ExtractWrite,
       ExtractReport, ExtractShow, ExtractDone, Decoded, ExtractFails, ExtractAccount, ExtractFinishEntry,
       ExtractReturn, extractVars, ExtractTypes, Busy, Is, TaskOf
  <2>2. progress \in Progress
    BY DEF ExtractTypes
  <2>3. Backlog(progress, Unknown) \in Progress
    BY <2>2, ProgressOps
  <2>4. Finished(Backlog(progress, Unknown)) \in Progress
    BY <2>3, ProgressOps
  <2> QED BY <2>1, <2>2, <2>4, ProgressOps
<1> HIDE DEF Ats
<1>11. Progress' = Progress
  BY <1>0 DEF Progress
<1> QED BY <1>0, <1>1, <1>3, <1>4, <1>5, <1>7, <1>8, <1>9, <1>10, <1>11, <1>12, Zenon DEF ExtractTypes, Ats

--------------------------------------------------------------------------------
(* What was taken, lost and accounted for.                                     *)

\* How the sets of workers change.
LEMMA Finite ==
    ASSUME NEW lost \in SUBSET ExtractWorkers
    PROVE  /\ Busy \in SUBSET ExtractWorkers /\ Gone \in SUBSET ExtractWorkers
           /\ Counting \in SUBSET ExtractWorkers
           /\ IsFiniteSet(Busy) /\ IsFiniteSet(Gone) /\ IsFiniteSet(Counting)
           /\ IsFiniteSet(Busy \union lost) /\ IsFiniteSet(lost)
           /\ Cardinality(Busy \union lost) \in Nat /\ Cardinality(Counting) \in Nat
<1>1. /\ Busy \in SUBSET ExtractWorkers /\ Gone \in SUBSET ExtractWorkers
      /\ Counting \in SUBSET ExtractWorkers /\ Busy \union lost \in SUBSET ExtractWorkers
  BY DEF Busy, Gone, Counting
<1>2. IsFiniteSet(ExtractWorkers)
  BY TheList
<1>3. /\ IsFiniteSet(Busy) /\ IsFiniteSet(Gone) /\ IsFiniteSet(Counting)
      /\ IsFiniteSet(Busy \union lost) /\ IsFiniteSet(lost)
  BY <1>1, <1>2, FS_Subset
<1>4. Cardinality(Busy \union lost) \in Nat /\ Cardinality(Counting) \in Nat
  BY <1>3, FS_CardinalityType
<1> QED BY <1>1, <1>3, <1>4

\* A step that takes no entry, writes nothing and adds nothing to the totals.
LEMMA CalmStep ==
    ASSUME ExtractTypes, NEW lost \in SUBSET ExtractWorkers, Lost(lost),
           UNCHANGED <<decodesTo, tasks, written, totals, error_slot>>,
           Busy' = Busy, Gone \subseteq Gone', Gone' # Gone => tasks = <<>>,
           \A w \in ExtractWorkers : extractor'[w].task = extractor[w].task,
           \A w \in Busy : Fits(extractor'[w])
    PROVE  Lost(lost)'
<1>0. /\ Busy \in SUBSET ExtractWorkers /\ Taken' = Taken
      /\ \A t : Whole(t)' <=> Whole(t)
      /\ \A x : Fits(x)' <=> Fits(x)
  BY DEF Busy, Taken, Whole, Sound, Declared, Fits
<1>1. \A w \in Busy \union lost : extractor'[w].task = extractor[w].task
  BY <1>0
<1>2. Written(lost)'
  BY <1>0, <1>1 DEF Lost, Written
<1>3. Having(lost)'
  BY <1>0, <1>1 DEF Lost, Having
<1>4. Losses(lost)'
  BY DEF Lost, Losses
<1>5. Accounts(lost)'
  <2>1. Accounted(lost)' = Accounted(lost)
    BY <1>0, <1>1 DEF Accounted
  <2>2. Bytes' = Bytes
    BY DEF Bytes, ZipTasks
  <2> QED BY <1>0, <2>1, <2>2 DEF Lost, Accounts
<1> QED BY <1>2, <1>3, <1>4, <1>5 DEF Lost

\* The next entry is taken.
LEMMA TakeStep ==
    ASSUME ExtractTypes, Suffix, NEW lost \in SUBSET ExtractWorkers, Lost(lost),
           NEW w \in ExtractWorkers, ExtractTake(w), tasks # <<>>, decodesTo' = decodesTo
    PROVE  Lost(lost)' /\ Suffix'
<1>0. /\ tasks \in Seq(ZipTasks) /\ Len(tasks) \in Nat /\ Len(tasks) > 0
      /\ Len(ExtractTasks) \in Nat /\ ZipTasks = 1 .. Len(ExtractTasks)
      /\ Head(tasks) = tasks[1]
  BY TheList DEF ExtractTypes
<1>1. /\ tasks' = Tail(tasks) /\ Len(tasks') = Len(tasks) - 1
      /\ \A i \in 1 .. Len(tasks') : tasks'[i] = tasks[i + 1]
  <2>1. tasks' = Tail(tasks)
    BY DEF ExtractTake
  <2> QED BY <1>0, <2>1
<1>2. Taken' = Taken + 1 /\ Taken \in Nat /\ Taken + 1 \in ZipTasks /\ Head(tasks) = Taken + 1
  BY <1>0, <1>1 DEF Taken, Suffix
<1>3. Suffix'
  BY <1>0, <1>1, <1>2 DEF Suffix
<1>4. /\ UNCHANGED <<written, totals, error_slot>>
      /\ extractor' = [extractor EXCEPT ![w] = [at |-> "begin", task |-> Head(tasks)]]
      /\ extractor[w].at = "take"
  BY DEF ExtractTake, Is
<1>5. /\ extractor'[w].at = "begin" /\ extractor'[w].task = Taken + 1
      /\ \A v \in ExtractWorkers : v # w => extractor'[v] = extractor[v]
  BY <1>2, <1>4 DEF ExtractTypes
<1>6. Busy' = Busy \union {w} /\ Gone' = Gone /\ w \notin Gone /\ w \notin Busy
  BY <1>4, <1>5 DEF Busy, Gone
<1> DEFINE held == Busy \union lost
<1>7. w \notin held /\ (Busy' \union lost) = held \union {w} /\ held \in SUBSET ExtractWorkers
  BY <1>6 DEF Lost, Losses, Busy
<1>8. \A v \in held : extractor'[v] = extractor[v] /\ extractor[v].task \in 1 .. Taken
  BY <1>5, <1>7 DEF Lost, Having
<1>9. (\A t : Whole(t)' <=> Whole(t)) /\ (\A x : Fits(x)' <=> Fits(x))
  BY <1>4 DEF Whole, Sound, Declared, Fits
<1>10. Written(lost)'
  <2> SUFFICES ASSUME NEW t \in ZipTasks
               PROVE  /\ written'[t] <= decodesTo[t]
                      /\ t > Taken' => written'[t] = 0
                      /\ t <= Taken' => Whole(t)'
                            \/ \E v \in Busy' \union lost : extractor'[v].task = t
    <3>1. ZipTasks' = ZipTasks
      BY DEF ZipTasks
    <3> QED BY <3>1 DEF Written
  <2>1. /\ written[t] <= decodesTo[t]
        /\ t > Taken => written[t] = 0
        /\ t <= Taken => Whole(t) \/ \E v \in held : extractor[v].task = t
    BY DEF Lost, Written
  <2>2. t \in Int /\ (t <= Taken' => t <= Taken \/ t = Taken + 1) /\ (t > Taken' => t > Taken)
    BY <1>0, <1>2
  <2> HIDE DEF held
  <2> QED BY <1>4, <1>5, <1>7, <1>8, <1>9, <2>1, <2>2
<1>11. Having(lost)'
  <2>1. \A v \in held \union {w} : extractor'[v].task \in 1 .. Taken'
    <3> HIDE DEF held
    <3> QED BY <1>2, <1>5, <1>8
  <2>2. \A u, v \in held \union {w} : extractor'[u].task = extractor'[v].task => u = v
    <3>1. \A u, v \in held : extractor[u].task = extractor[v].task => u = v
      BY DEF Lost, Having
    <3>2. \A v \in held : extractor'[v].task # extractor'[w].task
      <4> HIDE DEF held
      <4> QED BY <1>2, <1>5, <1>8
    <3> HIDE DEF held
    <3> QED BY <1>8, <3>1, <3>2
  <2>3. \A v \in Busy \union {w} : Fits(extractor'[v])
    <3>1. \A v \in Busy : Fits(extractor[v])
      BY DEF Lost, Having
    <3>2. \A v \in Busy : extractor'[v] = extractor[v]
      BY <1>8
    <3>3. written[Taken + 1] = 0
      <4>1. Taken + 1 > Taken
        BY <1>2
      <4> QED BY <1>2, <4>1 DEF Lost, Written
    <3>4. Fits(extractor'[w])
      BY <1>5, <3>3 DEF Fits
    <3> QED BY <3>1, <3>2, <3>4
  <2> HIDE DEF held
  <2> QED BY <1>6, <1>7, <1>9, <2>1, <2>2, <2>3 DEF Having
<1>12. Losses(lost)'
  <2>1. lost \subseteq Gone /\ (error_slot <=> lost # {}) /\ (Gone \ lost # {} => tasks = <<>>)
    BY DEF Lost, Losses
  <2> QED BY <1>4, <1>6, <2>1 DEF Losses
<1>13. Accounts(lost)'
  <2>1. Cardinality(held \union {w}) = Cardinality(held) + 1
    <3>1. IsFiniteSet(held)
      BY Finite
    <3> HIDE DEF held
    <3> QED BY <1>7, <3>1, FS_AddElement
  <2>2. Accounted(lost)' = Accounted(lost)
    <3>1. Accounted(lost)' = {t \in 1 .. Taken + 1 : \A v \in held \union {w} : extractor'[v].task # t}
      BY <1>2, <1>7 DEF Accounted
    <3>2. Accounted(lost) = {t \in 1 .. Taken : \A v \in held : extractor[v].task # t}
      BY DEF Accounted
    <3> HIDE DEF held
    <3>3. \A t : t \in 1 .. Taken + 1 /\ t # Taken + 1 <=> t \in 1 .. Taken
      BY <1>2
    <3> QED BY <1>5, <1>8, <3>1, <3>2, <3>3
  <2>3. Bytes' = Bytes
    BY DEF Bytes, ZipTasks
  <2>4. Cardinality(held) \in Nat /\ totals.entries \in Nat
    BY Finite DEF ExtractTypes
  <2>5. totals.entries + Cardinality(held) = Taken /\ totals.bytes = SumOf(Bytes, Accounted(lost))
    BY DEF Lost, Accounts
  <2>6. totals'.entries + Cardinality(Busy' \union lost) = Taken'
    <3> HIDE DEF held
    <3>1. Cardinality(Busy' \union lost) = Cardinality(held) + 1 /\ totals' = totals
      BY <1>4, <1>7, <2>1
    <3> QED BY <1>2, <2>4, <2>5, <3>1
  <2> QED BY <1>4, <2>2, <2>3, <2>5, <2>6 DEF Accounts
<1> QED BY <1>3, <1>10, <1>11, <1>12, <1>13 DEF Lost

\* A part of an entry is written.
LEMMA WriteStep ==
    ASSUME ExtractTypes, NEW lost \in SUBSET ExtractWorkers, Lost(lost),
           NEW w \in ExtractWorkers, ExtractWrite(w), decodesTo' = decodesTo
    PROVE  Lost(lost)'
<1>1. /\ w \in Busy /\ extractor[w].at = "decode" /\ extractor[w].task \in ZipTasks
      /\ written[extractor[w].task] < decodesTo[extractor[w].task]
      /\ written' = [written EXCEPT ![extractor[w].task] = @ + 1]
      /\ UNCHANGED <<tasks, extractor, totals, error_slot>>
  BY DEF ExtractWrite, Is, TaskOf, Busy, ExtractTypes
<1>2. Busy' = Busy /\ Gone' = Gone /\ Taken' = Taken
  BY <1>1 DEF Busy, Gone, Taken
<1> DEFINE k == extractor[w].task
<1>3. /\ k \in 1 .. Taken
      /\ written' \in [ZipTasks -> Nat] /\ written'[k] = written[k] + 1 /\ written[k] \in Nat
      /\ \A t \in ZipTasks : t # k => written'[t] = written[t]
  <2>1. k \in 1 .. Taken
    BY <1>1 DEF Lost, Having
  <2>2. written \in [ZipTasks -> Nat]
    BY DEF ExtractTypes
  <2> QED BY <1>1, <2>1, <2>2
<1>4. Written(lost)'
  <2> SUFFICES ASSUME NEW t \in ZipTasks
               PROVE  /\ written'[t] <= decodesTo[t]
                      /\ t > Taken => written'[t] = 0
                      /\ t <= Taken => Whole(t)'
                            \/ \E v \in Busy \union lost : extractor[v].task = t
    <3>1. ZipTasks' = ZipTasks
      BY DEF ZipTasks
    <3> QED BY <1>1, <1>2, <3>1 DEF Written
  <2>1. /\ written[t] <= decodesTo[t]
        /\ t > Taken => written[t] = 0
        /\ t <= Taken => Whole(t)
              \/ \E v \in Busy \union lost : extractor[v].task = t
    BY DEF Lost, Written
  <2>2. t # k => written'[t] = written[t] /\ (Whole(t)' <=> Whole(t))
    BY <1>3 DEF Whole, Sound, Declared
  <2>3. decodesTo[t] \in Nat /\ Taken \in Int
    BY TheList DEF Taken, ExtractTypes
  <2>4. t = k => written'[t] <= decodesTo[t] /\ ~(t > Taken) /\ w \in Busy \union lost
    <3>1. k <= Taken /\ k \in Int
      BY <1>3
    <3> QED BY <1>1, <1>3, <2>3, <3>1
  <2> QED BY <2>1, <2>2, <2>4
<1>5. Having(lost)'
  <2>1. /\ \A v \in Busy \union lost : extractor[v].task \in 1 .. Taken
        /\ \A u, v \in Busy \union lost : extractor[u].task = extractor[v].task => u = v
        /\ \A v \in Busy : Fits(extractor[v])
    BY DEF Lost, Having
  <2>2. \A v \in Busy : v # w => extractor[v].task # k /\ extractor[v].task \in ZipTasks
    BY <1>1, <2>1 DEF ExtractTypes
  <2>3. \A v \in Busy : Fits(extractor[v])'
    <3>1. ASSUME NEW v \in Busy, v # w
          PROVE  Fits(extractor[v])'
      <4>1. extractor'[v] = extractor[v] /\ written'[extractor[v].task] = written[extractor[v].task]
        BY <1>1, <1>3, <2>2, <3>1
      <4>2. Fits(extractor[v])
        BY <2>1, <3>1
      <4> QED BY <4>1, <4>2 DEF Fits, Whole, Sound, Declared
    <3>2. Fits(extractor[w])'
      BY <1>1 DEF Fits
    <3> QED BY <3>1, <3>2
  <2> QED BY <1>1, <1>2, <2>1, <2>3 DEF Having
<1>6. Losses(lost)'
  BY <1>1, <1>2 DEF Lost, Losses
<1>7. Accounts(lost)'
  <2>1. Accounted(lost)' = Accounted(lost) /\ Bytes' = Bytes
    BY <1>1, <1>2 DEF Accounted, Bytes, ZipTasks
  <2> QED BY <1>1, <1>2, <2>1 DEF Lost, Accounts
<1> QED BY <1>4, <1>5, <1>6, <1>7 DEF Lost

\* A worker fails, and what it has is lost.
LEMMA FailStep ==
    ASSUME ExtractTypes, NEW lost \in SUBSET ExtractWorkers, Lost(lost),
           NEW w \in ExtractWorkers, ExtractFails(w), decodesTo' = decodesTo
    PROVE  Lost(lost \union {w})'
<1>1. /\ w \in Busy /\ extractor[w].at \in {"payload", "decode"}
      /\ error_slot' = TRUE /\ extractor' = [extractor EXCEPT ![w].at = "gone"]
      /\ UNCHANGED <<tasks, written, totals>>
  BY DEF ExtractFails, Decoded, Is, Goes, Busy
<1>2. /\ extractor'[w].at = "gone"
      /\ \A v \in ExtractWorkers : v # w => extractor'[v] = extractor[v]
      /\ \A v \in ExtractWorkers : extractor'[v].task = extractor[v].task
  BY <1>1 DEF ExtractTypes
<1>3. /\ Busy' = Busy \ {w} /\ Gone' = Gone \union {w} /\ w \notin Gone
      /\ Taken' = Taken /\ (\A t : Whole(t)' <=> Whole(t)) /\ (\A x : Fits(x)' <=> Fits(x))
  BY <1>1, <1>2 DEF Busy, Gone, Taken, Whole, Sound, Declared, Fits
<1>4. /\ Busy' \union (lost \union {w}) = Busy \union lost
      /\ Busy \union lost \in SUBSET ExtractWorkers /\ Busy' \subseteq Busy
  BY <1>1, <1>3 DEF Busy
<1>5. Written(lost \union {w})'
  <2>1. \A t \in ZipTasks :
           /\ written[t] <= decodesTo[t]
           /\ t > Taken => written[t] = 0
           /\ t <= Taken => Whole(t) \/ \E v \in Busy \union lost : extractor[v].task = t
    BY DEF Lost, Written
  <2>2. \A v \in Busy \union lost : extractor'[v].task = extractor[v].task
    BY <1>2, <1>4
  <2>3. ZipTasks' = ZipTasks /\ written' = written /\ decodesTo' = decodesTo
    BY <1>1 DEF ZipTasks
  <2> QED BY <1>3, <1>4, <2>1, <2>2, <2>3 DEF Written
<1>6. Having(lost \union {w})'
  <2>1. /\ \A v \in Busy \union lost : extractor[v].task \in 1 .. Taken
        /\ \A u, v \in Busy \union lost : extractor[u].task = extractor[v].task => u = v
        /\ \A v \in Busy : Fits(extractor[v])
    BY DEF Lost, Having
  <2>2. \A v \in Busy' : v \in Busy /\ extractor'[v] = extractor[v] /\ v \in ExtractWorkers
    BY <1>2, <1>3, <1>4
  <2> QED BY <1>2, <1>3, <1>4, <2>1, <2>2 DEF Having
<1>7. Losses(lost \union {w})'
  <2>1. (lost \union {w}) \subseteq Gone' /\ lost \union {w} # {}
    BY <1>3 DEF Lost, Losses
  <2>2. Gone' \ (lost \union {w}) # {} => tasks' = <<>>
    BY <1>1, <1>3 DEF Lost, Losses
  <2> QED BY <1>1, <2>1, <2>2 DEF Losses
<1>8. Accounts(lost \union {w})'
  <2>1. Accounted(lost \union {w})' = Accounted(lost) /\ Bytes' = Bytes
    BY <1>2, <1>3, <1>4 DEF Accounted, Bytes, ZipTasks
  <2>2. Cardinality(Busy' \union (lost \union {w})) = Cardinality(Busy \union lost)
    BY <1>4
  <2> QED BY <1>1, <1>3, <2>1, <2>2 DEF Lost, Accounts
<1> QED BY <1>5, <1>6, <1>7, <1>8 DEF Lost

\* An entry that is whole is added to the totals.
LEMMA AccountStep ==
    ASSUME ExtractTypes, NEW lost \in SUBSET ExtractWorkers, Lost(lost),
           NEW w \in ExtractWorkers, ExtractAccount(w), decodesTo' = decodesTo
    PROVE  Lost(lost)'
<1>1. /\ w \in Busy /\ extractor[w].at = "account" /\ extractor[w].task \in ZipTasks
      /\ extractor' = [extractor EXCEPT ![w].at = "finish_entry"]
      /\ totals' = Added(extractor[w].task)
      /\ UNCHANGED <<tasks, written, error_slot>>
  BY DEF ExtractAccount, Is, Goes, TaskOf, Busy, ExtractTypes
<1>2. /\ extractor'[w].at = "finish_entry"
      /\ \A v \in ExtractWorkers : v # w => extractor'[v] = extractor[v]
      /\ \A v \in ExtractWorkers : extractor'[v].task = extractor[v].task
  BY <1>1 DEF ExtractTypes
<1>3. /\ Busy' = Busy \ {w} /\ Gone' = Gone /\ Taken' = Taken
      /\ (\A t : Whole(t)' <=> Whole(t)) /\ (\A x : Fits(x)' <=> Fits(x))
  BY <1>1, <1>2 DEF Busy, Gone, Taken, Whole, Sound, Declared, Fits
<1>4. /\ w \notin lost /\ Busy' \union lost = (Busy \union lost) \ {w}
      /\ Busy \union lost \in SUBSET ExtractWorkers
  BY <1>1, <1>3 DEF Busy, Lost, Losses, Gone
<1> DEFINE k == extractor[w].task
<1>5. /\ \A v \in Busy \union lost : extractor[v].task \in 1 .. Taken
      /\ \A u, v \in Busy \union lost : extractor[u].task = extractor[v].task => u = v
      /\ \A v \in Busy : Fits(extractor[v])
  BY DEF Lost, Having
<1>6. k \in 1 .. Taken /\ Whole(k) /\ w \in Busy \union lost
  BY <1>1, <1>5 DEF Fits
<1>7. Written(lost)'
  <2> SUFFICES ASSUME NEW t \in ZipTasks
               PROVE  /\ written[t] <= decodesTo[t]
                      /\ t > Taken => written[t] = 0
                      /\ t <= Taken => Whole(t)
                            \/ \E v \in (Busy \union lost) \ {w} : extractor'[v].task = t
    <3>1. ZipTasks' = ZipTasks
      BY DEF ZipTasks
    <3> QED BY <1>1, <1>3, <1>4, <3>1 DEF Written
  <2>1. /\ written[t] <= decodesTo[t]
        /\ t > Taken => written[t] = 0
        /\ t <= Taken => Whole(t) \/ \E v \in Busy \union lost : extractor[v].task = t
    BY DEF Lost, Written
  <2> QED BY <1>2, <1>4, <1>6, <2>1
<1>8. Having(lost)'
  <2>1. \A v \in Busy' : v \in Busy /\ extractor'[v] = extractor[v] /\ v \in ExtractWorkers
    BY <1>2, <1>3, <1>4
  <2>2. \A v \in Busy' \union lost : extractor'[v].task = extractor[v].task /\ v \in Busy \union lost
    BY <1>2, <1>4
  <2> QED BY <1>3, <1>5, <2>1, <2>2 DEF Having
<1>9. Losses(lost)'
  BY <1>1, <1>3 DEF Lost, Losses
<1>10. Accounts(lost)'
  <2>1. /\ Bytes' = Bytes /\ Bytes \in [ZipTasks -> Nat] /\ IsFiniteSet(ZipTasks)
        /\ k \in ZipTasks /\ Bytes[k] = ExtractTasks[k].bytes
    BY <1>1, TheList DEF Bytes, ZipTasks
  <2>2. Accounted(lost)' = Accounted(lost) \union {k} /\ k \notin Accounted(lost)
    <3>1. Accounted(lost)' = {t \in 1 .. Taken : \A v \in (Busy \union lost) \ {w} : extractor'[v].task # t}
      BY <1>3, <1>4 DEF Accounted
    <3>2. \A v \in (Busy \union lost) \ {w} : extractor'[v].task = extractor[v].task
                                              /\ extractor[v].task # k
      BY <1>2, <1>4, <1>5, <1>6
    <3> QED BY <1>6, <3>1, <3>2 DEF Accounted
  <2>3. Accounted(lost) \in SUBSET ZipTasks
    BY TheList DEF Accounted, Taken, ExtractTypes
  <2>4. SumOf(Bytes, Accounted(lost) \union {k}) = SumOf(Bytes, Accounted(lost)) + Bytes[k]
    <3> DEFINE S == Accounted(lost)
    <3> HIDE DEF k, S
    <3>1. S \in SUBSET ZipTasks /\ k \notin S
      BY <2>2, <2>3 DEF S
    <3>2. SumOf(Bytes, S \union {k}) = SumOf(Bytes, S) + Bytes[k]
      BY <2>1, <3>1, SumOfMoves
    <3> QED BY <3>2 DEF S
  <2>5. totals'.entries = totals.entries + 1 /\ totals'.bytes = totals.bytes + Bytes[k]
    BY <1>1, <1>6, <2>1 DEF Added, Whole, Sound, Declared
  <2>6. Cardinality(Busy' \union lost) = Cardinality(Busy \union lost) - 1
    <3> DEFINE held == Busy \union lost
    <3>1. w \in held /\ IsFiniteSet(held) /\ Busy' \union lost = held \ {w}
      BY <1>4, <1>6, Finite
    <3> HIDE DEF held
    <3>2. Cardinality(held \ {w}) = Cardinality(held) - 1
      BY <3>1, FS_RemoveElement
    <3> QED BY <3>1, <3>2 DEF held
  <2>7. /\ totals.entries \in Nat /\ Cardinality(Busy \union lost) \in Nat
        /\ totals.entries + Cardinality(Busy \union lost) = Taken
        /\ totals.bytes = SumOf(Bytes, Accounted(lost))
    BY Finite DEF Lost, Accounts, ExtractTypes
  <2>8. totals'.entries + Cardinality(Busy' \union lost) = Taken'
    <3> HIDE DEF k
    <3> QED BY <1>3, <2>5, <2>6, <2>7
  <2>9. totals'.bytes = SumOf(Bytes, Accounted(lost) \union {k})
    BY <2>4, <2>5, <2>7
  <2> QED BY <2>1, <2>2, <2>8, <2>9 DEF Accounts
<1> QED BY <1>7, <1>8, <1>9, <1>10 DEF Lost

--------------------------------------------------------------------------------
(* Every step.                                                                 *)

LEMMA LostStep ==
    ASSUME ExtractInv, [ExtractNext]_extractVars
    PROVE  Suffix' /\ \E lost \in SUBSET ExtractWorkers : Lost(lost)'
<1>0. /\ ExtractTypes /\ Suffix
      /\ extractor \in [ExtractWorkers ->
            [at : {"take", "begin", "payload", "decode", "account", "finish_entry", "gone"},
             task : ZipTasks \union {NoTask}]]
  BY DEF ExtractInv, ExtractTypes
<1>1. PICK lost \in SUBSET ExtractWorkers : Lost(lost)
  BY DEF ExtractInv
<1>2. tasks' = tasks => Suffix'
  BY <1>0 DEF Suffix, Taken
<1>13. decodesTo' = decodesTo
  BY DEF ExtractNext, extractVars
<1>14. \A v \in Busy : Fits(extractor[v])
  BY <1>1 DEF Lost, Having
<1>3. ASSUME NEW w \in ExtractWorkers, ExtractTake(w)
      PROVE  Suffix' /\ Lost(lost)'
  <2>1. CASE tasks # <<>>
    BY <1>0, <1>1, <1>3, <1>13, <2>1, TakeStep
  <2>2. CASE tasks = <<>>
    <3>1. /\ UNCHANGED <<tasks, written, totals, error_slot>> /\ extractor[w].at = "take"
          /\ extractor' = [extractor EXCEPT ![w].at = "gone"]
      BY <1>3, <2>2 DEF ExtractTake, Goes, Is
    <3>2. /\ extractor'[w].at = "gone" /\ extractor'[w].task = extractor[w].task
          /\ \A v \in ExtractWorkers : v # w => extractor'[v] = extractor[v]
      BY <1>0, <3>1
    <3>3. /\ Busy' = Busy /\ Gone \subseteq Gone' /\ w \notin Busy
          /\ \A v \in ExtractWorkers : extractor'[v].task = extractor[v].task
          /\ \A v \in Busy : Fits(extractor'[v])
      BY <1>14, <3>1, <3>2 DEF Busy, Gone
    <3>4. Lost(lost)'
      BY <1>0, <1>1, <1>13, <2>2, <3>1, <3>3, CalmStep
    <3> QED BY <1>2, <3>1, <3>4
  <2> QED BY <2>1, <2>2
<1>4. ASSUME NEW w \in ExtractWorkers, NEW from, NEW to,
             \/ from = "begin" /\ to = "payload"
             \/ from = "payload" /\ to = "decode"
             \/ from = "decode" /\ to = "account"
             \/ from = "finish_entry" /\ to = "take",
             extractor[w].at = from, extractor' = [extractor EXCEPT ![w].at = to],
             from = "decode" => Whole(extractor[w].task),
             UNCHANGED <<tasks, written, totals, error_slot>>
      PROVE  Suffix' /\ Lost(lost)'
  <2>1. /\ extractor'[w].at = to /\ extractor'[w].task = extractor[w].task
        /\ \A v \in ExtractWorkers : v # w => extractor'[v] = extractor[v]
    BY <1>0, <1>4
  <2>2. /\ Busy' = Busy /\ Gone' = Gone
        /\ \A v \in ExtractWorkers : extractor'[v].task = extractor[v].task
    BY <1>4, <2>1 DEF Busy, Gone
  <2>3. \A v \in Busy : Fits(extractor'[v])
    <3>1. \A v \in Busy : v # w => Fits(extractor'[v])
      BY <1>14, <2>1 DEF Busy
    <3>2. w \in Busy => Fits(extractor[w])
      BY <1>14
    <3>3. w \in Busy => Fits(extractor'[w])
      BY <1>4, <2>1, <3>2 DEF Busy, Fits
    <3> QED BY <3>1, <3>3
  <2>4. Lost(lost)'
    BY <1>0, <1>1, <1>4, <1>13, <2>2, <2>3, CalmStep
  <2> QED BY <1>2, <1>4, <2>4
<1>5. ASSUME NEW w \in ExtractWorkers,
             ExtractBegin(w) \/ ExtractPayload(w) \/ ExtractDone(w) \/ ExtractFinishEntry(w)
      PROVE  Suffix' /\ Lost(lost)'
  <2>1. CASE ExtractBegin(w)
    <3>1. /\ extractor[w].at = "begin" /\ extractor' = [extractor EXCEPT ![w].at = "payload"]
          /\ UNCHANGED <<tasks, written, totals, error_slot>>
      BY <2>1 DEF ExtractBegin, Is, Goes
    <3> QED BY <1>4, <3>1
  <2>2. CASE ExtractPayload(w)
    <3>1. /\ extractor[w].at = "payload" /\ extractor' = [extractor EXCEPT ![w].at = "decode"]
          /\ UNCHANGED <<tasks, written, totals, error_slot>>
      BY <2>2 DEF ExtractPayload, Is, Goes
    <3> QED BY <1>4, <3>1
  <2>3. CASE ExtractDone(w)
    <3>1. /\ extractor[w].at = "decode" /\ extractor' = [extractor EXCEPT ![w].at = "account"]
          /\ UNCHANGED <<tasks, written, totals, error_slot>>
          /\ Whole(extractor[w].task)
      BY <2>3 DEF ExtractDone, Decoded, Is, Goes, TaskOf, Whole
    <3> QED BY <1>4, <3>1
  <2>4. CASE ExtractFinishEntry(w)
    <3>1. /\ extractor[w].at = "finish_entry" /\ extractor' = [extractor EXCEPT ![w].at = "take"]
          /\ UNCHANGED <<tasks, written, totals, error_slot>>
      BY <2>4 DEF ExtractFinishEntry, Is, Goes
    <3> QED BY <1>4, <3>1
  <2> QED BY <1>5, <2>1, <2>2, <2>3, <2>4
<1>6. ASSUME UNCHANGED <<tasks, extractor, written, totals, error_slot>>
      PROVE  Suffix' /\ Lost(lost)'
  <2>1. Busy' = Busy /\ Gone' = Gone
    BY <1>6 DEF Busy, Gone
  <2>2. Lost(lost)'
    BY <1>0, <1>1, <1>6, <1>13, <1>14, <2>1, CalmStep
  <2> QED BY <1>2, <1>6, <2>2
<1>7. ASSUME NEW w \in ExtractWorkers, ExtractWrite(w)
      PROVE  Suffix' /\ Lost(lost)'
  BY <1>0, <1>1, <1>2, <1>7, <1>13, WriteStep DEF ExtractWrite
<1>8. ASSUME NEW w \in ExtractWorkers, ExtractFails(w)
      PROVE  Suffix' /\ Lost(lost \union {w})'
  BY <1>0, <1>1, <1>2, <1>8, <1>13, FailStep DEF ExtractFails
<1>9. ASSUME NEW w \in ExtractWorkers, ExtractAccount(w)
      PROVE  Suffix' /\ Lost(lost)'
  BY <1>0, <1>1, <1>2, <1>9, <1>13, AccountStep DEF ExtractAccount
<1>10. ASSUME NEW w \in ExtractWorkers, ExtractReport(w) \/ ExtractShow(w)
       PROVE  Suffix' /\ Lost(lost)'
  BY <1>6, <1>10 DEF ExtractReport, ExtractShow
<1>11. ASSUME ExtractReturn \/ UNCHANGED extractVars
       PROVE  Suffix' /\ Lost(lost)'
  BY <1>6, <1>11 DEF ExtractReturn, extractVars
<1>12. \A w \in ExtractWorkers : lost \union {w} \in SUBSET ExtractWorkers
  OBVIOUS
<1> QED BY <1>1, <1>3, <1>5, <1>7, <1>8, <1>9, <1>10, <1>11, <1>12 DEF ExtractNext, ExtractWorker

LEMMA ScopeStep ==
    ASSUME ExtractInv, [ExtractNext]_extractVars
    PROVE  Scope'
<1>0. /\ ExtractTypes /\ Scope
      /\ extractor \in [ExtractWorkers ->
            [at : {"take", "begin", "payload", "decode", "account", "finish_entry", "gone"},
             task : ZipTasks \union {NoTask}]]
      /\ report \in [ExtractWorkers -> Nat \union {Unknown}]
      /\ error_slot \in BOOLEAN
  BY DEF ExtractInv, ExtractTypes
<1>1. ASSUME NEW w \in ExtractWorkers, ExtractWorker(w)
      PROVE  Scope'
  <2>1. w \notin Gone
    BY <1>0, <1>1 DEF Scope, Gone, ExtractWorker, ExtractTake, ExtractBegin, ExtractPayload,
       ExtractWrite, ExtractReport, ExtractShow, ExtractDone, Decoded, ExtractFails, ExtractAccount,
       ExtractFinishEntry, Is
  <2>2. extraction = "scope" /\ extraction' = "scope"
    <3>1. extraction' = extraction
      BY <1>1 DEF ExtractWorker, ExtractTake, ExtractBegin, ExtractPayload,
         ExtractWrite, ExtractReport, ExtractShow, ExtractDone, Decoded, ExtractFails, ExtractAccount,
         ExtractFinishEntry
    <3> QED BY <1>0, <2>1, <3>1 DEF Scope
  <2>3. ASSUME NEW v \in ExtractWorkers, report'[v] # Unknown
        PROVE  extractor'[v].at = "decode"
    <3>1. CASE ExtractReport(w)
      BY <1>0, <2>3, <3>1 DEF ExtractReport, Is, Scope
    <3>2. CASE ExtractShow(w)
      BY <1>0, <2>3, <3>2 DEF ExtractShow, Is, Scope
    <3>3. CASE ~ExtractReport(w) /\ ~ExtractShow(w)
      <4>1. report' = report
        BY <1>1, <3>3 DEF ExtractWorker, ExtractTake, ExtractBegin, ExtractPayload,
           ExtractWrite, ExtractDone, Decoded, ExtractFails, ExtractAccount, ExtractFinishEntry
      <4>2. extractor[v].at = "decode"
        BY <1>0, <2>3, <4>1 DEF Scope
      <4>3. v # w => extractor'[v] = extractor[v]
        BY <1>0, <1>1, <3>3 DEF ExtractWorker, ExtractTake, ExtractBegin, ExtractPayload,
           ExtractWrite, ExtractDone, Decoded, ExtractFails, ExtractAccount, ExtractFinishEntry, Goes
      <4>4. v = w => ExtractWrite(w)
        BY <1>1, <2>3, <3>3, <4>1, <4>2 DEF ExtractWorker, ExtractTake, ExtractBegin,
           ExtractPayload, ExtractDone, Decoded, ExtractFails, ExtractAccount, ExtractFinishEntry, Is
      <4> QED BY <4>2, <4>3, <4>4 DEF ExtractWrite
    <3> QED BY <3>1, <3>2, <3>3
  <2> QED BY <2>2, <2>3 DEF Scope
<1>2. CASE ExtractReturn
  BY <1>0, <1>2 DEF ExtractReturn, Scope, Is, Gone
<1>3. CASE UNCHANGED extractVars
  BY <1>0, <1>3 DEF extractVars, Scope, Gone
<1> QED BY <1>1, <1>2, <1>3 DEF ExtractNext

LEMMA ShownStep ==
    ASSUME ExtractInv, [ExtractNext]_extractVars
    PROVE  Shown'
<1>0. /\ ExtractTypes /\ Shown /\ Scope /\ progress \in Progress
      /\ extractor \in [ExtractWorkers ->
            [at : {"take", "begin", "payload", "decode", "account", "finish_entry", "gone"},
             task : ZipTasks \union {NoTask}]]
      /\ written \in [ZipTasks -> Nat] /\ totals.entries \in Nat
      /\ progress.completed \in Nat /\ progress.processed \in Nat
  BY DEF ExtractInv, ExtractTypes, Progress
<1>1. /\ ZipTasks' = ZipTasks /\ IsFiniteSet(ZipTasks)
      /\ SumOf(Bytes, ZipTasks)' = SumOf(Bytes, ZipTasks) /\ SumOf(written, ZipTasks)' = SumOf(written', ZipTasks)
  BY TheList DEF Bytes, ZipTasks
<1>2. IsFiniteSet(Counting) /\ Cardinality(Counting) \in Nat /\ Counting \in SUBSET ExtractWorkers
  BY Finite
\* Most of the steps show at most where they are.
<1>3. ASSUME /\ progress'.phase = progress.phase /\ progress'.total_bytes = progress.total_bytes
             /\ progress'.processed = progress.processed
             /\ progress'.completed = progress.completed,
             Counting' = Counting, UNCHANGED <<written, totals, extraction>>
      PROVE  Shown'
  BY <1>0, <1>1, <1>3 DEF Shown
<1>4. ASSUME NEW w \in ExtractWorkers, NEW to,
             extractor[w].at # "finish_entry", to # "finish_entry",
             \/ extractor' = [extractor EXCEPT ![w].at = to]
             \/ extractor' = [extractor EXCEPT ![w] = [at |-> to, task |-> Head(tasks)]]
      PROVE  Counting' = Counting
  <2>1. /\ extractor'[w].at = to
        /\ \A v \in ExtractWorkers : v # w => extractor'[v] = extractor[v]
    BY <1>0, <1>4
  <2> QED BY <1>4, <2>1 DEF Counting
<1>5. extractor' = extractor => Counting' = Counting
  BY DEF Counting
<1>6. \A w \in ExtractWorkers : extraction' = extraction /\ ExtractWorker(w) => extraction # "ok"
  <2> TAKE w \in ExtractWorkers
  <2> HAVE extraction' = extraction /\ ExtractWorker(w)
  <2>1. extractor[w].at # "gone"
    BY <1>0 DEF Scope, ExtractWorker, ExtractTake, ExtractBegin, ExtractPayload,
       ExtractWrite, ExtractReport, ExtractShow, ExtractDone, Decoded, ExtractFails, ExtractAccount,
       ExtractFinishEntry, Is
  <2> QED BY <1>0, <2>1 DEF Scope, Gone
<1>7. \A n \in Nat \union {Unknown} :
         /\ Backlog(progress, n).phase = progress.phase
         /\ Backlog(progress, n).total_bytes = progress.total_bytes
         /\ Backlog(progress, n).processed = progress.processed
         /\ Backlog(progress, n).completed = progress.completed
  BY <1>0, ProgressOps
<1>8. ASSUME NEW w \in ExtractWorkers, ExtractTake(w) \/ ExtractPayload(w) \/ ExtractFails(w)
      PROVE  Shown'
  <2>1. /\ UNCHANGED <<written, totals, extraction, progress>>
        /\ extractor[w].at # "finish_entry"
        /\ \E to : /\ to # "finish_entry"
                   /\ \/ extractor' = [extractor EXCEPT ![w].at = to]
                      \/ extractor' = [extractor EXCEPT ![w] = [at |-> to, task |-> Head(tasks)]]
    BY <1>8 DEF ExtractTake, ExtractPayload, ExtractFails, Decoded, Is, Goes
  <2> QED BY <1>3, <1>4, <2>1
<1>9. ASSUME NEW w \in ExtractWorkers, ExtractBegin(w)
      PROVE  Shown'
  <2>1. /\ UNCHANGED <<written, totals, extraction>> /\ extractor[w].at = "begin"
        /\ extractor' = [extractor EXCEPT ![w].at = "payload"]
        /\ progress' = BeginEntry(progress, extractor[w].task) /\ extractor[w].task \in ZipTasks
    BY <1>0, <1>9 DEF ExtractBegin, Is, Goes, TaskOf, ExtractTypes, Busy
  <2>2. Counting' = Counting
    BY <1>4, <2>1
  <2>3. /\ progress'.phase = progress.phase /\ progress'.total_bytes = progress.total_bytes
        /\ progress'.processed = progress.processed
        /\ progress'.completed = progress.completed
    BY <1>0, <2>1, ProgressOps
  <2> QED BY <1>3, <2>1, <2>2, <2>3
<1>10. ASSUME NEW w \in ExtractWorkers, ExtractReport(w)
       PROVE  Shown'
  <2>1. UNCHANGED <<written, totals, extraction, progress, extractor>>
    BY <1>10 DEF ExtractReport
  <2> QED BY <1>3, <1>5, <2>1
<1>11. ASSUME NEW w \in ExtractWorkers, ExtractShow(w)
       PROVE  Shown'
  <2>1. /\ UNCHANGED <<written, totals, extraction, extractor>>
        /\ progress' = Backlog(progress, report[w]) /\ report[w] \in Nat \union {Unknown}
    BY <1>0, <1>11 DEF ExtractShow, ExtractTypes
  <2>2. /\ progress'.phase = progress.phase /\ progress'.total_bytes = progress.total_bytes
        /\ progress'.processed = progress.processed
        /\ progress'.completed = progress.completed
    BY <1>7, <2>1
  <2> QED BY <1>3, <1>5, <2>1, <2>2
<1>12. ASSUME NEW w \in ExtractWorkers, ExtractDone(w)
       PROVE  Shown'
  <2>1. /\ UNCHANGED <<written, totals, extraction>> /\ extractor[w].at = "decode"
        /\ extractor' = [extractor EXCEPT ![w].at = "account"]
        /\ \/ progress' = progress
           \/ progress' = Backlog(progress, SlotSum(backlog_slots'))
    BY <1>0, <1>12 DEF ExtractDone, Decoded, Is, Goes
  <2>2. Counting' = Counting
    BY <1>4, <2>1
  <2>3. SlotSum(backlog_slots') \in Nat
    <3>1. ExtractTypes'
      BY TypesStep, <1>0
    <3>2. backlog_slots' \in [ZipTasks -> Nat]
      BY <1>1, <3>1 DEF ExtractTypes
    <3>3. SlotSum(backlog_slots') = SumOf(backlog_slots', ZipTasks)
      BY DEF SlotSum, SumOf
    <3>4. \A f \in [ZipTasks -> Nat] : SumOf(f, ZipTasks) \in Nat
      BY <1>1, SumOfType
    <3> QED BY <3>2, <3>3, <3>4
  <2>4. /\ progress'.phase = progress.phase /\ progress'.total_bytes = progress.total_bytes
        /\ progress'.processed = progress.processed
        /\ progress'.completed = progress.completed
    BY <1>7, <2>1, <2>3
  <2> QED BY <1>3, <2>1, <2>2, <2>4
<1>13. ASSUME NEW w \in ExtractWorkers, ExtractWrite(w)
       PROVE  Shown'
  <2> DEFINE k == extractor[w].task
  <2>1. /\ UNCHANGED <<extractor, totals, extraction>> /\ extraction # "ok"
        /\ written' = [written EXCEPT ![k] = @ + 1] /\ k \in ZipTasks
        /\ progress' = Advance(progress, 1)
    BY <1>0, <1>6, <1>13 DEF ExtractWorker, ExtractWrite, Is, TaskOf, ExtractTypes, Busy
  <2>2. /\ progress'.phase = progress.phase /\ progress'.total_bytes = progress.total_bytes
        /\ progress'.processed = progress.processed + 1
        /\ progress'.completed = progress.completed
    BY <1>0, <2>1, ProgressOps
  <2> HIDE DEF k
  <2>3. /\ written' \in [ZipTasks -> Nat] /\ written'[k] = written[k] + 1 /\ written[k] \in Nat
        /\ \A t \in ZipTasks : t # k => written'[t] = written[t]
    BY <1>0, <2>1
  <2>4. SumOf(written', ZipTasks) = SumOf(written, ZipTasks) - written[k] + written'[k]
    <3>1. IsFiniteSet(ZipTasks) /\ written \in [ZipTasks -> Nat] /\ k \in ZipTasks
      BY <1>0, <1>1, <2>1
    <3> QED BY <2>3, <3>1, SumOfChange
  <2>5. SumOf(written, ZipTasks) \in Nat /\ written[k] \in Nat
    BY <1>0, <1>1, <2>1, SumOfType
  <2>6. SumOf(written', ZipTasks) = SumOf(written, ZipTasks) + 1
    BY <2>3, <2>4, <2>5
  <2>7. /\ progress.phase = "Running" /\ progress.total_bytes = SumOf(Bytes, ZipTasks)
        /\ progress.processed = SumOf(written, ZipTasks)
        /\ progress.completed + Cardinality(Counting) = totals.entries
    BY <1>0, <2>1 DEF Shown
  <2> QED BY <1>1, <1>5, <2>1, <2>2, <2>6, <2>7 DEF Shown
<1>14. ASSUME NEW w \in ExtractWorkers, ExtractAccount(w) \/ ExtractFinishEntry(w)
       PROVE  Shown'
  <2>1. extraction' = extraction /\ extraction # "ok" /\ written' = written
    BY <1>6, <1>14 DEF ExtractWorker, ExtractAccount, ExtractFinishEntry
  <2>2. /\ progress.phase = "Running" /\ progress.total_bytes = SumOf(Bytes, ZipTasks)
        /\ progress.processed = SumOf(written, ZipTasks)
        /\ progress.completed + Cardinality(Counting) = totals.entries
    BY <1>0, <2>1 DEF Shown
  <2>3. CASE ExtractAccount(w)
    <3>1. /\ extractor[w].at = "account" /\ extractor' = [extractor EXCEPT ![w].at = "finish_entry"]
          /\ progress' = progress /\ totals'.entries = totals.entries + 1
      BY <2>3 DEF ExtractAccount, Is, Goes, Added
    <3>2. Counting' = Counting \union {w} /\ w \notin Counting
      BY <1>0, <3>1 DEF Counting
    <3>3. Cardinality(Counting') = Cardinality(Counting) + 1
      BY <1>2, <3>2, FS_AddElement
    <3>4. progress'.completed + Cardinality(Counting') = totals'.entries
      BY <1>0, <1>2, <2>2, <3>1, <3>3
    <3> QED BY <1>1, <2>1, <2>2, <3>1, <3>4 DEF Shown
  <2>4. CASE ExtractFinishEntry(w)
    <3>1. /\ extractor[w].at = "finish_entry" /\ extractor' = [extractor EXCEPT ![w].at = "take"]
          /\ progress' = FinishEntry(progress) /\ totals' = totals
      BY <2>4 DEF ExtractFinishEntry, Is, Goes
    <3>2. Counting' = Counting \ {w} /\ w \in Counting
      BY <1>0, <3>1 DEF Counting
    <3>3. Cardinality(Counting') = Cardinality(Counting) - 1
      BY <1>2, <3>2, FS_RemoveElement
    <3>4. /\ progress'.phase = progress.phase /\ progress'.total_bytes = progress.total_bytes
          /\ progress'.processed = progress.processed
          /\ progress'.completed = progress.completed + 1
      BY <1>0, <3>1, ProgressOps
    <3>5. progress'.completed + Cardinality(Counting') = totals'.entries
      BY <1>0, <1>2, <2>2, <3>1, <3>3, <3>4
    <3> QED BY <1>1, <2>1, <2>2, <3>4, <3>5 DEF Shown
  <2> QED BY <1>14, <2>3, <2>4
<1>15. CASE ExtractReturn
  <2>1. extraction = "scope" /\ UNCHANGED <<written, totals, extractor>> /\ Counting' = Counting
    BY <1>5, <1>15 DEF ExtractReturn
  <2>2. CASE error_slot
    <3>1. extraction' = "failed" /\ progress' = progress
      BY <1>15, <2>2 DEF ExtractReturn
    <3> QED BY <1>0, <1>1, <2>1, <3>1 DEF Shown
  <2>3. CASE ~error_slot
    <3>1. extraction' = "ok" /\ progress' = Finished(Backlog(progress, Unknown))
      BY <1>15, <2>3 DEF ExtractReturn
    <3>2. Backlog(progress, Unknown) \in Progress
      BY <1>0, ProgressOps
    <3>3. progress'.phase = "Finished" /\ progress'.total_bytes = progress.total_bytes
      <4> DEFINE Q == Backlog(progress, Unknown)
      <4>1. Q \in Progress /\ Q.total_bytes = progress.total_bytes /\ progress' = Finished(Q)
        BY <1>7, <3>1, <3>2
      <4> HIDE DEF Q
      <4> QED BY <4>1, ProgressOps
    <3> QED BY <1>0, <1>1, <2>1, <3>1, <3>3 DEF Shown
  <2> QED BY <2>2, <2>3
<1>16. CASE UNCHANGED extractVars
  BY <1>3, <1>5, <1>16 DEF extractVars
<1> QED BY <1>8, <1>9, <1>10, <1>11, <1>12, <1>13, <1>14, <1>15, <1>16 DEF ExtractNext, ExtractWorker

LEMMA ExtractInits == ExtractInit => ExtractInv
<1> SUFFICES ASSUME ExtractInit PROVE ExtractInv
  OBVIOUS
<1>1. /\ tasks = [t \in ZipTasks |-> t] /\ written = [t \in ZipTasks |-> 0]
      /\ backlog_slots = [t \in ZipTasks |-> 0] /\ report = [w \in ExtractWorkers |-> Unknown]
      /\ extractor = [w \in ExtractWorkers |-> [at |-> "take", task |-> NoTask]]
      /\ error_slot = FALSE /\ totals = [entries |-> 0, bytes |-> 0]
      /\ progress = Started(Len(ExtractTasks), TotalOf(ZipTasks)) /\ extraction = "scope"
  BY DEF ExtractInit
<1>2. /\ Len(ExtractTasks) \in Nat /\ ZipTasks = 1 .. Len(ExtractTasks) /\ IsFiniteSet(ZipTasks)
      /\ Bytes \in [ZipTasks -> Nat] /\ \A t \in ZipTasks : Bytes[t] = ExtractTasks[t].bytes
      /\ NoTask = 0 /\ Unknown = -1
  BY TheList
<1>12. decodesTo \in [ZipTasks -> Nat]
  <2>1. DamagedLengths \subseteq Nat /\ \A t \in ZipTasks : Declared(t) \in Nat
    BY <1>2, ExtractAssumption DEF Declared
  <2>2. decodesTo \in [ZipTasks -> DamagedLengths \union {Declared(t) : t \in ZipTasks}]
    BY DEF ExtractInit
  <2> QED BY <2>1, <2>2
<1>3. Busy = {} /\ Gone = {} /\ Counting = {}
  BY <1>1 DEF Busy, Gone, Counting
<1>4. tasks \in Seq(ZipTasks) /\ Len(tasks) = Len(ExtractTasks) /\ Taken = 0
  <2>1. tasks \in Seq(ZipTasks) /\ Len(tasks) = Len(ExtractTasks)
    BY <1>1, <1>2
  <2> QED BY <1>2, <2>1 DEF Taken
<1>5. SumOf(Bytes, ZipTasks) \in Nat /\ SumOf(Bytes, {}) = 0 /\ TotalOf(ZipTasks) = SumOf(Bytes, ZipTasks)
      /\ SumOf(written, ZipTasks) = 0
  <2>1. ZipTasks \in SUBSET ZipTasks /\ {} \in SUBSET ZipTasks /\ written \in [ZipTasks -> Nat]
    BY <1>1
  <2>2. SumOf(Bytes, ZipTasks) \in Nat /\ SumOf(Bytes, {}) = 0 /\ TotalOf(ZipTasks) = SumOf(Bytes, ZipTasks)
    BY <1>2, <2>1, SumOfType, TotalOfIs
  <2>3. SumOf(written, ZipTasks) = 0
    BY <1>1, <1>2, SumOfZero
  <2> QED BY <2>2, <2>3
<1>6. progress \in Progress /\ progress.phase = "Running" /\ progress.total_bytes = SumOf(Bytes, ZipTasks)
      /\ progress.processed = 0 /\ progress.completed = 0
  BY <1>1, <1>2, <1>5 DEF Started, Progress
<1>7. ExtractTypes
  BY <1>1, <1>2, <1>3, <1>4, <1>6, <1>12 DEF ExtractTypes
<1>8. Suffix
  BY <1>1, <1>2, <1>4 DEF Suffix
<1>9. Shown
  <2>1. Cardinality(Counting) = 0
    BY <1>3, FS_EmptySet
  <2> QED BY <1>1, <1>5, <1>6, <2>1 DEF Shown
<1>10. Scope
  BY <1>1 DEF Scope
<1>11. Lost({})
  <2>1. Written({})
    BY <1>1, <1>2, <1>4, <1>12 DEF Written
  <2>2. Having({}) /\ Losses({})
    BY <1>1, <1>3 DEF Having, Losses
  <2>3. Accounts({})
    <3>1. Accounted({}) = {} /\ Busy \union {} = {}
      BY <1>3, <1>4 DEF Accounted
    <3>2. Cardinality({}) = 0
      BY FS_EmptySet
    <3>3. totals.entries = 0 /\ totals.bytes = 0 /\ 0 + 0 = Taken
      BY <1>1, <1>4
    <3>4. totals.entries + Cardinality(Busy \union {}) = Taken
      BY <3>1, <3>2, <3>3
    <3>5. totals.bytes = SumOf(Bytes, Accounted({}))
      BY <1>5, <3>1, <3>3
    <3> QED BY <3>4, <3>5 DEF Accounts
  <2> QED BY <2>1, <2>2, <2>3 DEF Lost
<1> QED BY <1>7, <1>8, <1>9, <1>10, <1>11 DEF ExtractInv

\* What the invariant says of the totals and of the progress.
LEMMA ExtractIsExact == ExtractInv => ExtractExact
<1> SUFFICES ASSUME ExtractInv PROVE ExtractExact
  OBVIOUS
<1>0. /\ ExtractTypes /\ Suffix /\ Shown /\ Scope
      /\ written \in [ZipTasks -> Nat] /\ totals \in [entries : Nat, bytes : Nat]
      /\ tasks \in Seq(ZipTasks) /\ Len(tasks) \in Nat /\ progress.completed \in Nat
      /\ Len(tasks) <= Len(ExtractTasks)
  BY DEF ExtractInv, ExtractTypes, Progress, Suffix
<1>1. PICK lost \in SUBSET ExtractWorkers : Lost(lost)
  BY DEF ExtractInv
<1>2. /\ Len(ExtractTasks) \in Nat /\ ZipTasks = 1 .. Len(ExtractTasks) /\ IsFiniteSet(ZipTasks)
      /\ Bytes \in [ZipTasks -> Nat] /\ \A t \in ZipTasks : Bytes[t] = ExtractTasks[t].bytes
      /\ IsFiniteSet(ExtractWorkers) /\ ExtractWorkers # {}
  BY TheList
<1>3. /\ lost \subseteq Gone /\ (error_slot <=> lost # {})
      /\ (Gone \ lost # {} => tasks = <<>>)
      /\ totals.entries + Cardinality(Busy \union lost) = Taken
      /\ totals.bytes = SumOf(Bytes, Accounted(lost))
      /\ Cardinality(Busy \union lost) \in Nat
  BY <1>1, Finite DEF Lost, Losses, Accounts
<1>4. extraction # "scope" => Busy = {} /\ Gone = ExtractWorkers
  BY <1>0 DEF Scope, Busy, Gone
\* Nobody has failed, so somebody has found the queue empty.
<1>5. ASSUME extraction = "ok"
      PROVE  /\ \A t \in ZipTasks : Whole(t)
             /\ totals = [entries |-> Len(ExtractTasks), bytes |-> TotalOf(ZipTasks)]
  <2>1. lost = {} /\ Busy \union lost = {}
    BY <1>0, <1>3, <1>4, <1>5 DEF Scope
  <2>2. tasks = <<>>
    BY <1>2, <1>3, <1>4, <1>5, <2>1
  <2>3. Taken = Len(ExtractTasks)
    BY <1>2, <2>2 DEF Taken
  <2>4. Accounted(lost) = ZipTasks
    BY <1>2, <2>1, <2>3 DEF Accounted
  <2>5. totals.bytes = TotalOf(ZipTasks)
    BY <1>3, <2>4, TotalOfIs
  <2>6. totals.entries = Len(ExtractTasks)
    <3>1. Cardinality(Busy \union lost) = 0
      BY <2>1, FS_EmptySet
    <3>2. totals.entries \in Nat /\ totals.entries + 0 = Len(ExtractTasks)
      BY <1>0, <1>3, <2>3, <3>1
    <3> QED BY <3>2
  <2>7. \A t \in ZipTasks : Whole(t)
    <3>1. \A t \in ZipTasks : t <= Taken
      BY <1>2, <2>3
    <3> QED BY <1>1, <2>1, <3>1 DEF Lost, Written
  <2> QED BY <1>0, <2>5, <2>6, <2>7
<1>6. ASSUME extraction = "failed"
      PROVE  /\ totals.entries < Len(ExtractTasks)
             /\ tasks # <<>> => Len(ExtractTasks) - Len(tasks) - totals.entries
                                  = Cardinality(ExtractWorkers)
  <2>1. lost # {} /\ Busy \union lost = lost
    BY <1>0, <1>3, <1>4, <1>6 DEF Scope
  <2>2. Cardinality(lost) > 0
    <3>1. IsFiniteSet(lost) /\ Cardinality(lost) \in Nat
      BY Finite, FS_CardinalityType
    <3>2. Cardinality(lost) # 0
      BY <2>1, <3>1, FS_EmptySet
    <3> QED BY <3>1, <3>2
  <2>3. totals.entries + Cardinality(lost) = Len(ExtractTasks) - Len(tasks)
        /\ totals.entries \in Nat /\ Cardinality(lost) \in Nat
    BY <1>0, <1>3, <2>1 DEF Taken
  <2>4. tasks # <<>> => lost = ExtractWorkers
    BY <1>3, <1>4, <1>6
  <2> QED BY <1>0, <1>2, <2>2, <2>3, <2>4
<1>7. ASSUME progress.phase = "Running"
      PROVE  /\ progress.processed = MapThenSumSet(LAMBDA t : written[t], ZipTasks)
             /\ progress.processed > progress.total_bytes => \E t \in ZipTasks : Outgrown(t)
             /\ progress.completed <= totals.entries
  <2>1. extraction # "ok"
    BY <1>0, <1>7 DEF Shown
  <2>2. /\ progress.processed = SumOf(written, ZipTasks)
        /\ progress.completed + Cardinality(Counting) = totals.entries
        /\ progress.total_bytes = SumOf(Bytes, ZipTasks)
    BY <1>0, <2>1 DEF Shown
  \* If no entry has outgrown its size, none has more written than its size.
  <2>3. ASSUME \A t \in ZipTasks : ~Outgrown(t)
        PROVE  SumOf(written, ZipTasks) <= SumOf(Bytes, ZipTasks)
    <3>1. ASSUME NEW t \in ZipTasks, written[t] > Declared(t)
          PROVE  FALSE
      <4>1. /\ written[t] \in Nat /\ Declared(t) \in Nat /\ written[t] # 0 /\ t \in Int
            /\ Taken \in Int /\ ~Whole(t)
        BY <1>0, <1>2, <3>1 DEF Whole, Sound, Declared, Taken
      <4>2. t <= Taken
        BY <1>1, <4>1 DEF Lost, Written
      <4>3. PICK w \in Busy \union lost : extractor[w].task = t
        BY <1>1, <4>1, <4>2 DEF Lost, Written
      <4>4. ~error_slot /\ \A v \in ExtractWorkers : ~(Is(v, "decode") /\ TaskOf(v) = t)
        BY <2>3, <3>1 DEF Outgrown
      <4>5. w \in Busy /\ w \in ExtractWorkers
        BY <1>3, <4>3, <4>4 DEF Busy
      <4>6. Fits(extractor[w])
        BY <1>1, <4>5 DEF Lost, Having
      <4> QED BY <4>1, <4>3, <4>4, <4>5, <4>6 DEF Fits, Busy, Is, TaskOf
    <3>2. \A t \in ZipTasks : written[t] <= Bytes[t]
      BY <1>0, <1>2, <3>1 DEF Declared
    <3>3. ZipTasks \in SUBSET ZipTasks
      OBVIOUS
    <3> QED BY <1>0, <1>2, <3>2, <3>3, SumOfLess
  <2>6. SumOf(written, ZipTasks) \in Nat /\ SumOf(Bytes, ZipTasks) \in Nat
    BY <1>0, <1>2, SumOfType
  <2>4. progress.completed <= totals.entries
    <3>1. Cardinality(Counting) \in Nat
      BY Finite
    <3> QED BY <1>0, <2>2, <3>1
  <2>5. progress.processed = MapThenSumSet(LAMBDA t : written[t], ZipTasks)
    BY <2>2 DEF SumOf
  <2> QED BY <2>2, <2>3, <2>4, <2>5, <2>6
<1> QED BY <1>5, <1>6, <1>7, Zenon DEF ExtractExact

\* The invariant holds in every state of an extraction: in particular no worker has the
\* entry of another, and every entry that was taken is whole, in somebody's hands, or was
\* lost with the error that is stored.
THEOREM ExtractInvariant == ExtractSpec => []ExtractInv
<1>1. ExtractInit => ExtractInv
  BY ExtractInits
<1>2. ExtractInv /\ [ExtractNext]_extractVars => ExtractInv'
  <2> SUFFICES ASSUME ExtractInv, [ExtractNext]_extractVars PROVE ExtractInv'
    OBVIOUS
  <2>1. ExtractTypes'
    BY TypesStep DEF ExtractInv
  <2>2. Suffix' /\ \E lost \in SUBSET ExtractWorkers : Lost(lost)'
    BY LostStep
  <2>3. Shown' /\ Scope'
    BY ShownStep, ScopeStep
  <2> QED BY <2>1, <2>2, <2>3 DEF ExtractInv
<1> QED BY <1>1, <1>2, PTL DEF ExtractSpec

\* Whatever the number of entries and of workers, and wherever workers fail: the totals
\* that are returned are those of all entries, each extracted whole; after an error an
\* entry is missing; and the progress shows what was written, more than the totals only
\* if an entry decodes to more than it declares, for which an error is stored or will be
\* (decompress_directory and the CoZipProgress it reports to).
THEOREM ExtractTotals == ExtractSpec => []ExtractExact
BY ExtractInvariant, ExtractIsExact, PTL
================================================================================
