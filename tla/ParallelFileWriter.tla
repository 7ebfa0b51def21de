--------------------------- MODULE ParallelFileWriter ---------------------------
(* The parallel file writer of cozip_util: threads submit writes at offsets of *)
(* one file, a backend carries them out in any order, and drain waits for them. *)
(* There are three backends, io_uring ("ring"), I/O completion ports ("iocp")  *)
(* and a pool of threads ("pool"), with the same front: a limit on the bytes   *)
(* and the operations that are pending, behind one mutex with one condition    *)
(* variable, and a slot for the first error, which whoever looks takes away.   *)
(*                                                                             *)
(* A write is a name with a size.  Offsets never overlap, so what matters of   *)
(* the file is how much of each write is missing.                              *)
EXTENDS ChunkBytes, Sequences, FiniteSetsExt

CONSTANTS
    Clients,      \* threads that submit
    Drainer,      \* the thread that drains
    Close,        \* the message that asks the ring's thread to finish
    PoolWorkers,  \* the threads of the pool backend
    Writes,       \* what is written
    Size,         \* its length
    BacklogLimit, \* max_backlog_bytes, at least 1
    MaxInflight,  \* worker_threads, at least 1: operations in flight
    Setups        \* the backends and what fails in them, see Setup

\* What may fail: "create" (the ring), "enter" (io_uring_enter), "write" (one
\* write), "short" (a write that the kernel carries out in part).
Setup == [backend : {"ring", "iocp", "pool"},
          faults  : SUBSET {"create", "enter", "write", "short"}]

ASSUME WriterAssumption ==
    /\ IsFiniteSet(Clients) /\ IsFiniteSet(PoolWorkers) /\ IsFiniteSet(Writes)
    /\ Drainer \notin Clients \union PoolWorkers /\ Clients \intersect PoolWorkers = {}
    /\ Close \notin Writes
    /\ Size \in [Writes -> Nat \ {0}]
    /\ BacklogLimit \in Nat \ {0} /\ MaxInflight \in Nat \ {0}
    /\ Setups \subseteq Setup

--------------------------------------------------------------------------------
VARIABLES
    setup,         \* one of Setups, which does not change
    pending_bytes, \* SharedState.pending_bytes
    inflight_ops,  \* SharedState.inflight_ops; the pool keeps none
    closed,        \* SharedState.closed
    stopped,       \* SharedState.stopped
    slot,          \* the error slot holds an error
    asleep,        \* threads asleep on the condition variable
    inbox,         \* the channel to the ring's thread, or the queue of the pool
    sender,        \* the sending end is still there
    retry,         \* the ring thread's `pending`: writes to hand to the kernel
    kernel,        \* writes in the hands of the kernel
    closing,       \* the ring's thread has received Close
    engine,        \* where the thread of the ring or of the completion port is
    packets,       \* empty packets posted to the completion port
    crew,          \* where each thread of the pool is
    task,          \* the write each of them holds
    left,          \* how much of each write is missing in the file
    client,        \* where each client is in its call of submit
    request,       \* the write it submits
    drainer,       \* where the caller of drain is
    accepted,      \* writes whose submit returned Ok
    told           \* an error of the backend was returned to a client

gateVars   == <<pending_bytes, inflight_ops, closed, stopped>>
ringVars   == <<inbox, sender, retry, closing>>
engineVars == <<kernel, engine, packets, left>>
poolVars   == <<crew, task>>
clientVars == <<client, request, accepted, told>>
writerVars == <<setup, gateVars, slot, asleep, ringVars, engineVars, poolVars, clientVars,
                drainer>>

Backend == setup.backend
MayFail(what) == what \in setup.faults

WriterInit ==
    /\ setup \in Setups
    /\ pending_bytes = 0 /\ inflight_ops = 0 /\ closed = FALSE /\ stopped = FALSE
    /\ slot = FALSE /\ asleep = {}
    /\ inbox = <<>> /\ sender = TRUE /\ retry = <<>> /\ kernel = {} /\ closing = FALSE
    /\ engine = IF Backend = "ring" THEN "create" ELSE "reap"
    /\ packets = 0
    /\ crew = [w \in PoolWorkers |-> "loop"] /\ task = [w \in PoolWorkers |-> {}]
    /\ left = Size
    /\ client = [t \in Clients |-> "out"] /\ request = [t \in Clients |-> {}]
    /\ drainer = "out"
    /\ accepted = {} /\ told = FALSE

SizeOf(S) == IF S = {} THEN 0 ELSE Size[CHOOSE r \in S : TRUE]

\* complete_write, and the other places that count an operation down.
Uncount(bytes) ==
    /\ pending_bytes' = Minus(pending_bytes, bytes)
    /\ inflight_ops' = Minus(inflight_ops, 1)
    /\ asleep' = {}
    /\ UNCHANGED <<closed, stopped>>

--------------------------------------------------------------------------------
(* Slips: definitions below as a plausible mistake would write them.           *)

\* The drain waits for the channel, not for the operations.
DrainedInbox == inbox = <<>>

\* A thread of the pool leaves as soon as the writer is closed.
PoolLeaveAtClose(w) ==
    /\ crew[w] = "loop" /\ w \notin asleep /\ (closed \/ stopped)
    /\ crew' = [crew EXCEPT ![w] = "gone"] /\ asleep' = {}
    /\ UNCHANGED <<setup, gateVars, slot, ringVars, engineVars, task, clientVars, drainer>>

\* The gate shuts when the limit on the bytes is passed, not when it is reached.
GateShutLate ==
    \/ pending_bytes > BacklogLimit
    \/ Backend # "pool" /\ inflight_ops >= MaxInflight

--------------------------------------------------------------------------------
(* submit, as a client runs it.                                                *)

\* The caller's side: a call begins, and its result is consumed.
Submit(t, r) ==
    /\ client[t] = "out"
    /\ client' = [client EXCEPT ![t] = "check"]
    /\ request' = [request EXCEPT ![t] = {r}]
    /\ UNCHANGED <<setup, gateVars, slot, asleep, ringVars, engineVars, poolVars, accepted,
                   told, drainer>>

Return(t) ==
    /\ client[t] \in {"ok", "failed"}
    /\ client' = [client EXCEPT ![t] = "out"]
    /\ request' = [request EXCEPT ![t] = {}]
    /\ UNCHANGED <<setup, gateVars, slot, asleep, ringVars, engineVars, poolVars, accepted,
                   told, drainer>>

\* check_error: the error is taken out of the slot and is the result of the call.
TakeError(t) ==
    /\ slot /\ slot' = FALSE /\ told' = TRUE
    /\ client' = [client EXCEPT ![t] = "failed"]
    /\ UNCHANGED <<setup, gateVars, asleep, ringVars, engineVars, poolVars, request,
                   accepted, drainer>>

SubmitCheck(t) ==
    /\ client[t] = "check"
    /\ \/ TakeError(t)
       \/ /\ ~slot
          /\ client' = [client EXCEPT ![t] = "gate"]
          /\ UNCHANGED <<setup, gateVars, slot, asleep, ringVars, engineVars, poolVars,
                         request, accepted, told, drainer>>

GateShut ==
    \/ pending_bytes >= BacklogLimit
    \/ Backend # "pool" /\ inflight_ops >= MaxInflight

\* The pool queues the write under the same lock; the others leave the lock first.
Count(t) ==
    /\ pending_bytes' = pending_bytes + SizeOf(request[t])
    /\ IF Backend = "pool"
         THEN /\ inbox' = inbox \o <<CHOOSE r \in request[t] : TRUE>>
              /\ asleep' = {}
              /\ accepted' = accepted \union request[t]
              /\ client' = [client EXCEPT ![t] = "ok"]
              /\ UNCHANGED inflight_ops
         ELSE /\ inflight_ops' = inflight_ops + 1
              /\ client' = [client EXCEPT ![t] = "send"]
              /\ UNCHANGED <<inbox, asleep, accepted>>
    /\ UNCHANGED <<setup, closed, stopped, slot, sender, retry, closing, engineVars,
                   poolVars, request, told, drainer>>

\* One pass under the lock.  Only a client that was asleep looks at the error
\* first; one that finds the writer closed looks at it last.
SubmitGate(t) ==
    /\ client[t] \in {"gate", "woken"} /\ t \notin asleep
    /\ \/ (client[t] = "woken" \/ stopped \/ closed) /\ TakeError(t)
       \/ /\ (stopped \/ closed) /\ ~slot
          /\ client' = [client EXCEPT ![t] = "failed"]
          /\ UNCHANGED <<setup, gateVars, slot, asleep, ringVars, engineVars, poolVars,
                         request, accepted, told, drainer>>
       \/ /\ ~stopped /\ ~closed /\ (client[t] = "woken" => ~slot) /\ GateShut
          /\ asleep' = asleep \union {t}
          /\ client' = [client EXCEPT ![t] = "woken"]
          /\ UNCHANGED <<setup, gateVars, slot, ringVars, engineVars, poolVars, request,
                         accepted, told, drainer>>
       \/ /\ ~stopped /\ ~closed /\ (client[t] = "woken" => ~slot) /\ ~GateShut
          /\ Count(t)

\* The write goes into the channel; a thread that is gone leaves it counted.
RingSend(t) ==
    /\ Backend = "ring" /\ client[t] = "send"
    /\ IF sender /\ engine # "gone"
         THEN /\ inbox' = inbox \o <<CHOOSE r \in request[t] : TRUE>>
              /\ accepted' = accepted \union request[t]
              /\ client' = [client EXCEPT ![t] = "ok"]
         ELSE /\ client' = [client EXCEPT ![t] = "failed"]
              /\ UNCHANGED <<inbox, accepted>>
    /\ UNCHANGED <<setup, gateVars, slot, asleep, sender, retry, closing, engineVars,
                   poolVars, request, told, drainer>>

\* WriteFile either starts the write or fails at once; that error is not stored.
IocpSend(t) ==
    /\ Backend = "iocp" /\ client[t] = "send"
    /\ \/ /\ kernel' = kernel \union request[t]
          /\ accepted' = accepted \union request[t]
          /\ client' = [client EXCEPT ![t] = "ok"]
          /\ UNCHANGED <<gateVars, asleep, told>>
       \/ /\ MayFail("write")
          /\ Uncount(SizeOf(request[t]))
          /\ client' = [client EXCEPT ![t] = "failed"] /\ told' = TRUE
          /\ UNCHANGED <<kernel, accepted>>
    /\ UNCHANGED <<setup, slot, ringVars, engine, packets, left, poolVars, request, drainer>>

Client(t) == SubmitCheck(t) \/ SubmitGate(t) \/ RingSend(t) \/ IocpSend(t)

--------------------------------------------------------------------------------
(* The thread behind the ring.                                                 *)

\* A ring that cannot be created leaves an error, and nobody is woken.
RingCreate ==
    /\ engine = "create"
    /\ \/ engine' = "fill" /\ UNCHANGED slot
       \/ MayFail("create") /\ engine' = "gone" /\ slot' = TRUE
    /\ UNCHANGED <<setup, gateVars, asleep, ringVars, kernel, packets, left, poolVars,
                   clientVars, drainer>>

\* What was completed in part goes first, then the channel, until it closes.
RingFill ==
    /\ engine = "fill" /\ Cardinality(kernel) < MaxInflight
    /\ \/ /\ retry # <<>>
          /\ kernel' = kernel \union {Head(retry)} /\ retry' = Tail(retry)
          /\ UNCHANGED <<inbox, closing, engine>>
       \/ /\ retry = <<>> /\ ~closing /\ inbox # <<>>
          /\ inbox' = Tail(inbox)
          /\ IF Head(inbox) = Close
               THEN closing' = TRUE /\ UNCHANGED kernel
               ELSE kernel' = kernel \union {Head(inbox)} /\ UNCHANGED closing
          /\ UNCHANGED <<retry, engine>>
       \/ /\ retry = <<>> /\ (closing \/ inbox = <<>>)
          /\ engine' = IF kernel # {} THEN "reap" ELSE IF closing THEN "gone" ELSE "idle"
          /\ UNCHANGED <<kernel, retry, inbox, closing>>
    /\ UNCHANGED <<setup, gateVars, slot, asleep, sender, packets, left, poolVars,
                   clientVars, drainer>>

RingFull ==
    /\ engine = "fill" /\ Cardinality(kernel) >= MaxInflight
    /\ engine' = "reap"
    /\ UNCHANGED <<setup, gateVars, slot, asleep, ringVars, kernel, packets, left, poolVars,
                   clientVars, drainer>>

\* With nothing to do the thread waits for a message.
RingIdle ==
    /\ engine = "idle" /\ inbox # <<>>
    /\ inbox' = Tail(inbox)
    /\ IF Head(inbox) = Close
         THEN closing' = TRUE /\ UNCHANGED retry
         ELSE retry' = Append(retry, Head(inbox)) /\ UNCHANGED closing
    /\ engine' = "fill"
    /\ UNCHANGED <<setup, gateVars, slot, asleep, sender, kernel, packets, left, poolVars,
                   clientVars, drainer>>

\* store_backend_error: first the slot, then the lock.
RingFails ==
    /\ engine = "reap" /\ Backend = "ring" /\ kernel # {}
    /\ MayFail("enter") \/ MayFail("write")
    /\ slot' = TRUE /\ engine' = "fail"
    /\ UNCHANGED <<setup, gateVars, asleep, ringVars, kernel, packets, left, poolVars,
                   clientVars, drainer>>

RingStops ==
    /\ engine = "fail"
    /\ stopped' = TRUE /\ asleep' = {} /\ engine' = "gone"
    /\ UNCHANGED <<setup, pending_bytes, inflight_ops, closed, slot, ringVars, kernel,
                   packets, left, poolVars, clientVars, drainer>>

\* n bytes of a write were written.  A short write goes back to be handed in again
\* with what remains; what was written of it stays counted.
Complete(r, n) ==
    IF n = left[r] THEN Uncount(n) /\ UNCHANGED retry
    ELSE retry' = <<r>> \o retry /\ UNCHANGED <<gateVars, asleep>>

\* One completion; the thread looks at those that are there before it goes on.
RingComplete(r) ==
    /\ engine = "reap" /\ Backend = "ring" /\ r \in kernel
    /\ kernel' = kernel \ {r}
    /\ engine' \in IF kernel = {r} THEN {"fill"} ELSE {"fill", "reap"}
    /\ \E n \in 1 .. left[r] :
          /\ n < left[r] => MayFail("short")
          /\ Complete(r, n)
          /\ left' = [left EXCEPT ![r] = @ - n]
    /\ UNCHANGED <<setup, slot, inbox, sender, closing, packets, poolVars, clientVars,
                   drainer>>

Ring ==
    \/ RingCreate \/ RingFill \/ RingFull \/ RingIdle \/ RingFails \/ RingStops
    \/ \E r \in Writes : RingComplete(r)

--------------------------------------------------------------------------------
(* The thread behind the completion port.                                      *)

\* A write that fails, or is carried out in part, stops the writer.
IocpComplete(r) ==
    /\ Backend = "iocp" /\ engine = "reap" /\ r \in kernel
    /\ kernel' = kernel \ {r}
    /\ pending_bytes' = Minus(pending_bytes, Size[r])
    /\ inflight_ops' = Minus(inflight_ops, 1)
    /\ asleep' = {}
    /\ \/ left' = [left EXCEPT ![r] = 0] /\ UNCHANGED <<stopped, slot>>
       \/ /\ MayFail("write") \/ MayFail("short")
          /\ stopped' = TRUE /\ slot' = TRUE /\ UNCHANGED left
    /\ UNCHANGED <<setup, closed, ringVars, engine, packets, poolVars, clientVars, drainer>>

\* An empty packet asks the thread to leave, which it does if nothing is in flight.
IocpPacket ==
    /\ Backend = "iocp" /\ engine = "reap" /\ packets > 0
    /\ packets' = packets - 1
    /\ IF closed /\ inflight_ops = 0
         THEN engine' = "gone" /\ asleep' = {}
         ELSE UNCHANGED <<engine, asleep>>
    /\ UNCHANGED <<setup, gateVars, slot, ringVars, kernel, left, poolVars, clientVars,
                   drainer>>

Iocp == IocpPacket \/ \E r \in Writes : IocpComplete(r)

--------------------------------------------------------------------------------
(* The threads of the pool.                                                    *)

PoolPop(w) ==
    /\ crew[w] = "loop" /\ w \notin asleep /\ inbox # <<>>
    /\ task' = [task EXCEPT ![w] = {Head(inbox)}] /\ inbox' = Tail(inbox)
    /\ crew' = [crew EXCEPT ![w] = "write"]
    /\ UNCHANGED <<setup, gateVars, slot, asleep, sender, retry, closing, engineVars,
                   clientVars, drainer>>

PoolLeave(w) ==
    /\ crew[w] = "loop" /\ w \notin asleep /\ inbox = <<>> /\ (closed \/ stopped)
    /\ crew' = [crew EXCEPT ![w] = "gone"] /\ asleep' = {}
    /\ UNCHANGED <<setup, gateVars, slot, ringVars, engineVars, task, clientVars, drainer>>

PoolSleep(w) ==
    /\ crew[w] = "loop" /\ w \notin asleep /\ inbox = <<>> /\ ~closed /\ ~stopped
    /\ asleep' = asleep \union {w}
    /\ UNCHANGED <<setup, gateVars, slot, ringVars, engineVars, poolVars, clientVars,
                   drainer>>

\* The write, and the critical section that accounts for it.  The thread goes on
\* after an error.
PoolWrite(w) ==
    /\ crew[w] = "write"
    /\ pending_bytes' = Minus(pending_bytes, SizeOf(task[w]))
    /\ asleep' = {}
    /\ \/ /\ left' = [r \in Writes |-> IF r \in task[w] THEN 0 ELSE left[r]]
          /\ UNCHANGED <<stopped, slot>>
       \/ MayFail("write") /\ stopped' = TRUE /\ slot' = TRUE /\ UNCHANGED left
    /\ task' = [task EXCEPT ![w] = {}]
    /\ crew' = [crew EXCEPT ![w] = "loop"]
    /\ UNCHANGED <<setup, inflight_ops, closed, ringVars, kernel, engine, packets,
                   clientVars, drainer>>

Pool(w) == Backend = "pool" /\ (PoolPop(w) \/ PoolLeave(w) \/ PoolSleep(w) \/ PoolWrite(w))

--------------------------------------------------------------------------------
(* drain.  The code's callers drain when their submitting threads are joined.  *)

Drain ==
    /\ drainer = "out"
    /\ drainer' = "close"
    /\ UNCHANGED <<setup, gateVars, slot, asleep, ringVars, engineVars, poolVars, clientVars>>

\* Each backend tells its threads in its own way, and closes the gate.
RingClose ==
    /\ Backend = "ring" /\ drainer = "close"
    /\ inbox' = IF engine = "gone" THEN inbox ELSE Append(inbox, Close)
    /\ sender' = FALSE /\ closed' = TRUE
    /\ drainer' = "wait"
    /\ UNCHANGED <<setup, pending_bytes, inflight_ops, stopped, slot, asleep, retry, closing,
                   engineVars, poolVars, clientVars>>

IocpClose ==
    /\ Backend = "iocp" /\ drainer = "close"
    /\ packets' = packets + 1 /\ closed' = TRUE
    /\ drainer' = "wait"
    /\ UNCHANGED <<setup, pending_bytes, inflight_ops, stopped, slot, asleep, ringVars, kernel,
                   engine, left, poolVars, clientVars>>

PoolClose ==
    /\ Backend = "pool" /\ drainer = "close"
    /\ closed' = TRUE /\ asleep' = {}
    /\ drainer' = "wait"
    /\ UNCHANGED <<setup, pending_bytes, inflight_ops, stopped, slot, ringVars, engineVars,
                   poolVars, clientVars>>

Drained ==
    IF Backend = "pool" THEN inbox = <<>> /\ \A w \in PoolWorkers : crew[w] = "gone"
    ELSE inflight_ops = 0

DrainWait ==
    /\ drainer = "wait" /\ Drainer \notin asleep
    /\ IF Drained \/ stopped
         THEN /\ drainer' = IF Backend = "pool" THEN "check" ELSE "join"
              /\ packets' = IF Backend = "iocp" THEN packets + 1 ELSE packets
              /\ UNCHANGED asleep
         ELSE asleep' = asleep \union {Drainer} /\ UNCHANGED <<drainer, packets>>
    /\ UNCHANGED <<setup, gateVars, slot, ringVars, kernel, engine, left, poolVars,
                   clientVars>>

DrainJoin ==
    /\ drainer = "join" /\ engine = "gone"
    /\ drainer' = "check"
    /\ UNCHANGED <<setup, gateVars, slot, asleep, ringVars, engineVars, poolVars, clientVars>>

DrainCheck ==
    /\ drainer = "check"
    /\ drainer' = IF slot THEN "failed" ELSE "ok"
    /\ slot' = FALSE
    /\ UNCHANGED <<setup, gateVars, asleep, ringVars, engineVars, poolVars, clientVars>>

Draining == RingClose \/ IocpClose \/ PoolClose \/ DrainWait \/ DrainJoin \/ DrainCheck

\* A condition variable may wake a sleeper for no reason.
WriterSpurious ==
    /\ \E t \in asleep : asleep' = asleep \ {t}
    /\ UNCHANGED <<setup, gateVars, slot, ringVars, engineVars, poolVars, clientVars, drainer>>

\* What the backend does on its own, and what a caller of drain does.
WriterInternal == Ring \/ Iocp \/ (\E w \in PoolWorkers : Pool(w)) \/ Draining \/ WriterSpurious

--------------------------------------------------------------------------------
(* The writer as its callers use it, both decoders: no write is submitted twice, *)
(* and whoever drains does so when no submit is on its way.                    *)

Fresh(r) == r \notin accepted /\ \A t \in Clients : r \notin request[t]

SubmitFresh(t) == drainer = "out" /\ \E r \in Writes : Fresh(r) /\ Submit(t, r)

DrainQuiet == (\A t \in Clients : client[t] = "out") /\ Drain

WriterNext ==
    \/ \E t \in Clients : SubmitFresh(t) \/ Client(t) \/ Return(t)
    \/ DrainQuiet
    \/ WriterInternal

WriterSpec == WriterInit /\ [][WriterNext]_writerVars

--------------------------------------------------------------------------------
(* Properties.                                                                 *)

WriterTypeOK ==
    /\ setup \in Setups
    /\ pending_bytes \in Nat /\ inflight_ops \in Nat
    /\ closed \in BOOLEAN /\ stopped \in BOOLEAN /\ slot \in BOOLEAN
    /\ asleep \subseteq Clients \union PoolWorkers \union {Drainer}
    /\ inbox \in Seq(Writes \union {Close}) /\ sender \in BOOLEAN
    /\ retry \in Seq(Writes) /\ kernel \subseteq Writes /\ closing \in BOOLEAN
    /\ engine \in {"create", "fill", "idle", "reap", "fail", "gone"}
    /\ packets \in Nat
    /\ crew \in [PoolWorkers -> {"loop", "write", "gone"}]
    /\ task \in [PoolWorkers -> SUBSET Writes]
    /\ left \in [Writes -> Nat]
    /\ client \in [Clients -> {"out", "check", "gate", "woken", "send", "ok", "failed"}]
    /\ request \in [Clients -> SUBSET Writes]
    /\ drainer \in {"out", "close", "wait", "join", "check", "ok", "failed"}
    /\ accepted \subseteq Writes /\ told \in BOOLEAN

Elements(seq) == {seq[k] : k \in 1 .. Len(seq)}

\* Writes that have passed the gate and are not completed: on their way through a
\* submit, or in the hands of the backend.
Sending == UNION {request[t] : t \in {u \in Clients : client[u] = "send"}}
Tasks   == UNION {task[w] : w \in PoolWorkers}
Pending == (Elements(inbox) \ {Close}) \union Elements(retry) \union kernel \union Tasks
Counted == Sending \union Pending

Load(S) == MapThenSumSet(LAMBDA r : Size[r], S)

\* The gate counts exactly the writes that passed it and are not completed, and their
\* bytes, for as long as the backend lives; a write that comes short leaves its bytes
\* behind.  So both limits hold: the backlog passes its own by less than a write.
BacklogExact ==
    /\ ~stopped /\ engine \notin {"fail", "gone"} =>
         /\ Backend # "pool" =>
               inflight_ops = Cardinality(Counted) /\ inflight_ops <= MaxInflight
         /\ ~MayFail("short") => pending_bytes = Load(Counted)
    /\ pending_bytes >= BacklogLimit =>
         \E r \in Writes : pending_bytes < BacklogLimit + Size[r]

\* The writer is a barrier.
Barrier == INSTANCE FileWriteBarrier WITH
            written <- {r \in Writes : left[r] = 0},
            outcome <- IF drainer \in {"ok", "failed"} THEN drainer ELSE "none"

BarrierSpec == Barrier!Spec

\* What the drain may wait for in vain: a ring that could not be created, whose
\* thread wakes nobody; a backlog that short writes filled up for good; and on
\* a completion port a failed write among others, after which the thread may have
\* used up the packets that ask it to leave.
MayStay ==
    \/ MayFail("create") \/ MayFail("short")
    \/ Backend = "iocp" /\ stopped
================================================================================
