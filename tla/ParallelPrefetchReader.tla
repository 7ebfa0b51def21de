------------------------ MODULE ParallelPrefetchReader ------------------------
(* The reader that reads a file ahead in parallel and hands it out in order:   *)
(* ParallelPrefetchReader of cozip_pdeflate and of cozip_deflate over the      *)
(* parallel file reader of cozip_util.                                         *)
(*                                                                             *)
(* The file reader has the front and the threads of the file writer, which     *)
(* this module extends: a request is a "write" whose size is what it reads.    *)
(* It differs in what completes a request: an answer goes to the request's own *)
(* channel before it is counted down, a short read is an error and not         *)
(* something to go on with, and an answer that never comes closes its channel. *)
EXTENDS ParallelFileWriter

CONSTANTS
    Reader,          \* the thread that reads; Clients = {Reader}
    FileLen,         \* length of the file when it was opened
    RequestSize,     \* request_size
    PrefetchOps,     \* max_inflight_ops of the prefetch reader
    PrefetchBytes    \* its max_inflight_bytes

\* A request: where it reads, and how much.
Requests == [off : 0 .. FileLen - 1, len : 1 .. RequestSize]

\* What the constants have to be.
PrefetchAssumption ==
    /\ Clients = {Reader} /\ Writes = Requests /\ Size = [r \in Requests |-> r.len]
    /\ FileLen \in Nat /\ RequestSize \in Nat \ {0}
    /\ PrefetchOps \in Nat \ {0} /\ PrefetchBytes \in Nat /\ PrefetchBytes >= RequestSize

VARIABLES
    handles,            \* the queue `inflight`: requests whose answers are to come
    inflight_bytes,     \* what they are for
    next_submit_offset, \* where the next request starts
    reading,            \* where the reading thread is
    answered,           \* requests whose channel holds data
    refused,            \* requests whose channel holds an error
    consumed            \* how much of the file was handed out

prefetchVars == <<handles, inflight_bytes, next_submit_offset, reading, consumed>>
answerVars   == <<answered, refused>>
readerVars   == <<writerVars, prefetchVars, answerVars>>

PrefetchInit ==
    /\ WriterInit
    /\ handles = <<>> /\ inflight_bytes = 0 /\ next_submit_offset = 0
    /\ reading = "fill" /\ answered = {} /\ refused = {} /\ consumed = 0

--------------------------------------------------------------------------------
(* Slips: definitions below as a plausible mistake would write them.           *)

\* Whichever answer comes first is handed out.
NextHandleAny == {k \in 1 .. Len(handles) : handles[k] \in answered \union refused}

\* A request of the pool is counted down and nobody is woken.
PoolCompleteSilently(w) ==
    /\ crew[w] = "count"
    /\ pending_bytes' = Minus(pending_bytes, SizeOf(task[w]))
    /\ left' = [r \in Writes |-> IF r \in task[w] THEN 0 ELSE left[r]]
    /\ task' = [task EXCEPT ![w] = {}] /\ crew' = [crew EXCEPT ![w] = "loop"]
    /\ UNCHANGED <<setup, inflight_ops, closed, stopped, slot, asleep, ringVars, kernel,
                   engine, packets, clientVars, drainer, answerVars, prefetchVars>>

--------------------------------------------------------------------------------
(* The file reader.  submit, drain, and what the threads do but for completing *)
(* a request, are the writer's.                                                *)

ReaderSubmit(t) == Client(t) /\ UNCHANGED <<prefetchVars, answerVars>>

ReaderDraining == Draining /\ UNCHANGED <<prefetchVars, answerVars>>

RingLoop ==
    /\ RingCreate \/ RingFill \/ RingFull \/ RingIdle \/ RingStops
    /\ UNCHANGED <<prefetchVars, answerVars>>

\* An error of the ring itself answers nobody; a read that fails, or comes short, is
\* answered, and stops the reader all the same.
ReadFails ==
    /\ engine = "reap" /\ Backend = "ring" /\ kernel # {}
    /\ \/ MayFail("enter") /\ UNCHANGED refused
       \/ /\ MayFail("write") \/ MayFail("short")
          /\ \E r \in kernel : refused' = refused \union {r}
    /\ slot' = TRUE /\ engine' = "fail"
    /\ UNCHANGED <<setup, gateVars, asleep, ringVars, kernel, packets, left, poolVars,
                   clientVars, drainer, answered, prefetchVars>>

\* The answer is sent before the request is counted down.  Only the completion port
\* also answers what failed here; the ring has done so in ReadFails.
ReadAnswered ==
    /\ engine = "reap" /\ Backend \in {"ring", "iocp"}
    /\ \E r \in kernel :
          \/ answered' = answered \union {r} /\ UNCHANGED refused
          \/ /\ Backend = "iocp" /\ (MayFail("write") \/ MayFail("short"))
             /\ refused' = refused \union {r} /\ UNCHANGED answered
    /\ engine' = "count"
    /\ UNCHANGED <<setup, gateVars, slot, asleep, ringVars, kernel, packets, left, poolVars,
                   clientVars, drainer, prefetchVars>>

\* A request that failed on the completion port stops the reader.
CompleteRead ==
    /\ engine = "count"
    /\ \E r \in kernel \intersect (answered \union refused) :
          /\ kernel' = kernel \ {r}
          /\ pending_bytes' = Minus(pending_bytes, Size[r])
          /\ inflight_ops' = Minus(inflight_ops, 1)
          /\ asleep' = {}
          /\ stopped' = (stopped \/ r \in refused) /\ slot' = (slot \/ r \in refused)
          /\ left' = [left EXCEPT ![r] = 0]
          /\ engine' \in IF Backend = "iocp" THEN {"reap"}
                         ELSE IF kernel = {r} THEN {"fill"} ELSE {"fill", "reap"}
    /\ UNCHANGED <<setup, closed, ringVars, packets, poolVars, clientVars, drainer,
                   answerVars, prefetchVars>>

ReadPacket == IocpPacket /\ UNCHANGED <<prefetchVars, answerVars>>

Engine == RingLoop \/ ReadFails \/ ReadAnswered \/ CompleteRead \/ ReadPacket

\* A thread of the pool: an error goes to the request only, and stops nothing.
PoolAnswered(w) ==
    /\ crew[w] = "write"
    /\ \/ answered' = answered \union task[w] /\ UNCHANGED refused
       \/ /\ MayFail("write") \/ MayFail("short")
          /\ refused' = refused \union task[w] /\ UNCHANGED answered
    /\ crew' = [crew EXCEPT ![w] = "count"]
    /\ UNCHANGED <<setup, gateVars, slot, asleep, ringVars, engineVars, task, clientVars,
                   drainer, prefetchVars>>

PoolCompleteRead(w) ==
    /\ crew[w] = "count"
    /\ pending_bytes' = Minus(pending_bytes, SizeOf(task[w])) /\ asleep' = {}
    /\ left' = [r \in Writes |-> IF r \in task[w] THEN 0 ELSE left[r]]
    /\ task' = [task EXCEPT ![w] = {}] /\ crew' = [crew EXCEPT ![w] = "loop"]
    /\ UNCHANGED <<setup, inflight_ops, closed, stopped, slot, ringVars, kernel, engine,
                   packets, clientVars, drainer, answerVars, prefetchVars>>

ReadWorker(w) ==
    /\ Backend = "pool"
    /\ \/ /\ PoolPop(w) \/ PoolLeave(w) \/ PoolSleep(w)
          /\ UNCHANGED <<prefetchVars, answerVars>>
       \/ PoolAnswered(w) \/ PoolCompleteRead(w)

\* The sending end of the channel is gone: the ring's thread left with the request.
Closed(r) == Backend = "ring" /\ engine = "gone"

--------------------------------------------------------------------------------
(* The prefetch reader.                                                        *)

MinOf(a, b) == IF a <= b THEN a ELSE b

\* How much the next request asks for; nothing when the prefetch is full or at the end.
NextLen ==
    IF Len(handles) < PrefetchOps /\ inflight_bytes < PrefetchBytes
      THEN MinOf(MinOf(FileLen - next_submit_offset, RequestSize), PrefetchBytes - inflight_bytes)
      ELSE 0

\* fill_prefetch: requests are submitted until the prefetch is full.
Fill ==
    /\ reading = "fill"
    /\ IF NextLen > 0
         THEN /\ Submit(Reader, [off |-> next_submit_offset, len |-> NextLen])
              /\ reading' = "filling"
         ELSE reading' = "read" /\ UNCHANGED writerVars
    /\ UNCHANGED <<handles, inflight_bytes, next_submit_offset, consumed, answerVars>>

Filled ==
    /\ reading = "filling" /\ Return(Reader)
    /\ IF client[Reader] = "failed"
         THEN reading' = "failed" /\ UNCHANGED <<handles, inflight_bytes, next_submit_offset>>
         ELSE /\ \E r \in request[Reader] :
                    /\ handles' = Append(handles, r)
                    /\ inflight_bytes' = inflight_bytes + r.len
                    /\ next_submit_offset' = next_submit_offset + r.len
              /\ reading' = "fill"
    /\ UNCHANGED <<consumed, answerVars>>

\* Which of the handles read takes: the first.
NextHandle == {1} \intersect DOMAIN handles

\* read: the first handle's answer, then more requests.  Without a handle the file
\* is at its end, and finish drains the file reader.
Read ==
    /\ reading = "read"
    /\ \/ /\ handles = <<>> /\ reading' = "finish"
          /\ UNCHANGED <<handles, inflight_bytes, consumed>>
       \/ \E k \in NextHandle :
            LET r == handles[k] IN
            /\ r \in answered \union refused \/ Closed(r)
            /\ handles' = SubSeq(handles, 1, k - 1) \o SubSeq(handles, k + 1, Len(handles))
            /\ inflight_bytes' = inflight_bytes - r.len
            /\ IF r \in answered
                 THEN consumed' = consumed + (IF r.off = consumed THEN r.len ELSE 0)
                      /\ reading' = "fill"
                 ELSE reading' = "failed" /\ UNCHANGED consumed
    /\ UNCHANGED <<next_submit_offset, answerVars>> /\ UNCHANGED writerVars

Finish ==
    /\ reading = "finish" /\ Drain
    /\ reading' = "draining"
    /\ UNCHANGED <<handles, inflight_bytes, next_submit_offset, consumed, answerVars>>

Finished ==
    /\ reading = "draining" /\ drainer \in {"ok", "failed"}
    /\ reading' = IF drainer = "ok" THEN "ok" ELSE "failed"
    /\ UNCHANGED <<handles, inflight_bytes, next_submit_offset, consumed, answerVars>>
    /\ UNCHANGED writerVars

Reading == Fill \/ Filled \/ Read \/ Finish \/ Finished

ReaderSpurious ==
    /\ WriterSpurious
    /\ UNCHANGED <<prefetchVars, answerVars>>

PrefetchNext ==
    \/ Reading \/ ReaderSubmit(Reader) \/ ReaderDraining
    \/ Engine \/ \E w \in PoolWorkers : ReadWorker(w)
    \/ ReaderSpurious
    \/ reading \in {"ok", "failed"} /\ UNCHANGED readerVars

PrefetchSpec ==
    /\ PrefetchInit /\ [][PrefetchNext]_readerVars
    /\ WF_readerVars(Reading) /\ WF_readerVars(ReaderSubmit(Reader))
    /\ WF_readerVars(ReaderDraining) /\ WF_readerVars(Engine)
    /\ \A w \in PoolWorkers : WF_readerVars(ReadWorker(w))

--------------------------------------------------------------------------------
(* Properties.                                                                 *)

\* What is handed out is the file from its beginning without a gap, the requests on
\* their way are what follows it, within both limits, and a read that ends without
\* an error has handed out all of it.
HandedOutInOrder ==
    /\ \A k \in DOMAIN handles :
          IF k > 1 THEN handles[k].off = handles[k - 1].off + handles[k - 1].len
                   ELSE reading = "failed" \/ handles[k].off = consumed
    /\ reading \notin {"failed", "filling"} /\ handles # <<>> =>
          next_submit_offset = handles[Len(handles)].off + handles[Len(handles)].len
    /\ Len(handles) <= PrefetchOps /\ inflight_bytes <= PrefetchBytes
    /\ reading = "ok" => consumed = FileLen

\* Nothing but a ring that could not be created, whose thread wakes nobody, keeps the
\* reader from its end.
ReaderEnds    == reading \in {"ok", "failed"} \/ MayFail("create")
ReaderReturns == <>ReaderEnds
================================================================================
