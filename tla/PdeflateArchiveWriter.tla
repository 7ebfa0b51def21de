-------------------------- MODULE PdeflateArchiveWriter --------------------------
(* The archive taken apart again when a directory is decompressed with PDeflate *)
(* (PDeflateArchiveWriter in cozip, lib.rs).  The decoder writes it in pieces  *)
(* of any size.  The writer parses what it has and queues the bytes of files   *)
(* as fragments, and dispatch threads hand the fragments to the parallel file  *)
(* writer of their file, which promises what FileWriteBarrier says.            *)
EXTENDS PdeflateArchiveFormat, Integers, FiniteSets, FiniteSetsExt

CONSTANTS
    Streams,         \* what the decoder writes: [entries, bytes]
    PieceSizes,      \* lengths of the pieces it writes
    DispatchThreads, \* parallel_write_threads, at least one
    Main,            \* the thread that runs the decoder's writer
    WriteBacklog,    \* PDEFLATE_DIR_PARALLEL_WRITE_BACKLOG_BYTES
    WriteFaults      \* which of "path", "write" may fail

ASSUME ArchiveWriterAssumption ==
    /\ PieceSizes \subseteq Nat \ {0} /\ WriteBacklog \in Nat \ {0}
    /\ IsFiniteSet(DispatchThreads) /\ DispatchThreads # {} /\ Main \notin DispatchThreads
    /\ WriteFaults \subseteq {"path", "write"}

VARIABLES
    source,        \* one of Streams, which does not change
    arrived,       \* how much of it was written to the writer
    buffer,        \* what was written and not parsed
    parse,         \* the state of the parser: [at] and its fields
    main,          \* where Main is
    counts,        \* [entries, bytes]: file_entries and output_bytes
    queue,         \* fragments [file, offset, data] that wait for a dispatch thread
    queued_bytes,  \* DispatchState.queued_bytes
    active_files,  \* DispatchState.active_files: [entry, queued, there]
    closed,        \* DispatchState.closed
    stopped,       \* DispatchState.stopped
    dispatch_error,\* the error slot holds an error
    asleep,        \* threads asleep on the condition variable
    hand,          \* the fragment each dispatch thread holds, in a set
    dispatcher,    \* where each of them is
    content,       \* of each file, what its writer accepted: [at, byte]
    lost,          \* files with a write that failed
    untold         \* files whose writer holds an error that nobody was told

parserVars   == <<source, arrived, buffer, parse, counts>>
dispatchVars == <<queue, queued_bytes, active_files>>
stateVars    == <<dispatchVars, closed, stopped>>
crewVars     == <<hand, dispatcher>>
fileVars     == <<content, lost, untold>>
archiveVars  == <<parserVars, main, stateVars, dispatch_error, asleep, crewVars, fileVars>>

At(place) == [at |-> place]

ArchiveWriterInit ==
    /\ source \in Streams /\ arrived = 0 /\ buffer = <<>> /\ parse = At("Header")
    /\ main = "out" /\ counts = [entries |-> 0, bytes |-> 0]
    /\ queue = <<>> /\ queued_bytes = 0 /\ active_files = <<>>
    /\ closed = FALSE /\ stopped = FALSE /\ dispatch_error = FALSE /\ asleep = {}
    /\ hand = [t \in DispatchThreads |-> {}] /\ dispatcher = [t \in DispatchThreads |-> "pop"]
    /\ content = <<>> /\ lost = {} /\ untold = {}

MayFail(what) == what \in WriteFaults
First(n) == SubSeq(buffer, 1, n)
Rest(n)  == SubSeq(buffer, n + 1, Len(buffer))

--------------------------------------------------------------------------------
(* Slips: definitions below as a plausible mistake would write them.           *)

\* The end waits for the queue and not for what the threads hold.
AllHandedOverQueue == queue = <<>>

\* A thread that takes a fragment gives its bytes back after it was submitted, to
\* nobody.
PopForgets(t) ==
    /\ dispatcher[t] = "pop" /\ t \notin asleep /\ queue # <<>>
    /\ hand' = [hand EXCEPT ![t] = {Head(queue)}] /\ queue' = Tail(queue)
    /\ dispatcher' = [dispatcher EXCEPT ![t] = "submit"]
    /\ UNCHANGED <<parserVars, main, queued_bytes, active_files, closed, stopped,
                   dispatch_error, asleep, fileVars>>

--------------------------------------------------------------------------------
(* The parser: one step of process_buffer's loop.                              *)

Fails ==
    /\ main' = "failed"
    /\ UNCHANGED <<parserVars, stateVars, dispatch_error, asleep, crewVars, fileVars>>

Moves(n, next) ==
    /\ buffer' = Rest(n) /\ parse' = next
    /\ UNCHANGED <<source, arrived, counts, main, stateVars, dispatch_error, asleep, crewVars,
                   fileVars>>

Parsing(place) == main = "parse" /\ parse.at = place

\* How many bytes each state needs.
Needs ==
    IF parse.at \in {"Header", "RecordPathLen", "RecordFileLen"} THEN 2 ELSE 1

Short ==
    \/ parse.at = "Finished"
    \/ Len(buffer) < Needs /\ ~(parse.at = "RecordFileData" /\ parse.remaining = 0)

Header ==
    /\ Parsing("Header") /\ ~Short
    /\ IF First(2) = ArchiveHeader THEN Moves(2, At("RecordTag")) ELSE Fails

RecordTag ==
    /\ Parsing("RecordTag") /\ ~Short
    /\ LET tag == buffer[1].field IN
          IF tag = "end" THEN Moves(1, At("Finished"))
          ELSE IF tag \in {"file", "dir"}
            THEN Moves(1, [at |-> "RecordPathLen", tag |-> tag]) ELSE Fails

RecordPathLen ==
    /\ Parsing("RecordPathLen") /\ ~Short
    /\ Moves(2, [parse EXCEPT !.at = "RecordPath"])

\* The path may be one that is refused, or cannot be created.
RecordPath ==
    /\ Parsing("RecordPath") /\ ~Short
    /\ \/ Moves(1, IF parse.tag = "dir" THEN At("RecordTag")
                   ELSE [at |-> "RecordFileLen", path |-> buffer[1].entry])
       \/ MayFail("path") /\ Fails

\* The length that the two bytes stand for.
FileLength == source.entries[buffer[1].entry].len

RecordFileLen ==
    /\ Parsing("RecordFileLen") /\ ~Short
    /\ \/ /\ active_files' = Append(active_files, [entry |-> parse.path, queued |-> 0,
                                                   there |-> TRUE])
          /\ content' = Append(content, {})
          /\ parse' = [at |-> "RecordFileData", file |-> Len(active_files) + 1, offset |-> 0,
                       remaining |-> FileLength]
          /\ buffer' = Rest(2) /\ counts' = [counts EXCEPT !.entries = @ + 1]
          /\ UNCHANGED <<source, arrived, main, queue, queued_bytes, closed, stopped,
                         dispatch_error, asleep, crewVars, lost, untold>>
       \/ MayFail("path") /\ Fails

EmptyFile == Parsing("RecordFileData") /\ parse.remaining = 0 /\ Moves(0, At("RecordTag"))

\* The bytes that are there go to the dispatch, see Enqueue.
FileData ==
    /\ Parsing("RecordFileData") /\ parse.remaining > 0 /\ ~Short
    /\ main' = "gate"
    /\ UNCHANGED <<parserVars, stateVars, dispatch_error, asleep, crewVars, fileVars>>

\* Until the buffer is too short, or the end marker was read.
LeaveParser ==
    /\ main = "parse" /\ Short /\ main' = "out"
    /\ UNCHANGED <<parserVars, stateVars, dispatch_error, asleep, crewVars, fileVars>>

Parser ==
    \/ Header \/ RecordTag \/ RecordPathLen \/ RecordPath \/ RecordFileLen \/ EmptyFile
    \/ FileData \/ LeaveParser

--------------------------------------------------------------------------------
(* enqueue_archive_file_fragment.                                              *)

\* take_dispatch_error: the error leaves the slot and is what is returned.
TakeError ==
    /\ dispatch_error /\ dispatch_error' = FALSE /\ main' = "failed"
    /\ UNCHANGED <<parserVars, stateVars, asleep, crewVars, fileVars>>

NextOffset(p, take) == p.offset + take

Fragment(take) == [file |-> parse.file, offset |-> parse.offset, data |-> First(take)]

\* Who was asleep looks at the error first.  The dispatch is not stopped without one,
\* because nobody takes it but Main, which then has failed.
Enqueue ==
    /\ main \in {"gate", "woken"} /\ Main \notin asleep
    /\ \/ (main = "woken" \/ stopped) /\ TakeError
       \/ /\ ~stopped /\ (main = "woken" => ~dispatch_error) /\ queued_bytes >= WriteBacklog
          /\ asleep' = asleep \union {Main} /\ main' = "woken"
          /\ UNCHANGED <<parserVars, stateVars, dispatch_error, crewVars, fileVars>>
       \/ /\ ~stopped /\ (main = "woken" => ~dispatch_error) /\ queued_bytes < WriteBacklog
          /\ LET take == IF parse.remaining < Len(buffer) THEN parse.remaining ELSE Len(buffer) IN
                /\ queue' = Append(queue, Fragment(take))
                /\ queued_bytes' = queued_bytes + take
                /\ active_files' = [active_files EXCEPT ![parse.file].queued = @ + 1]
                /\ buffer' = Rest(take)
                /\ counts' = [counts EXCEPT !.bytes = @ + take]
                /\ parse' = IF take = parse.remaining THEN At("RecordTag")
                            ELSE [parse EXCEPT !.offset = NextOffset(parse, take),
                                               !.remaining = @ - take]
          /\ asleep' = {} /\ main' = "parse"
          /\ UNCHANGED <<source, arrived, closed, stopped, dispatch_error, crewVars, fileVars>>

--------------------------------------------------------------------------------
(* The dispatch threads.                                                       *)

Pop(t) ==
    /\ dispatcher[t] = "pop" /\ t \notin asleep /\ queue # <<>>
    /\ hand' = [hand EXCEPT ![t] = {Head(queue)}] /\ queue' = Tail(queue)
    /\ queued_bytes' = queued_bytes - Len(Head(queue).data)
    /\ dispatcher' = [dispatcher EXCEPT ![t] = "submit"]
    /\ asleep' = {}
    /\ UNCHANGED <<parserVars, main, active_files, closed, stopped, dispatch_error, fileVars>>

Leave(t) ==
    /\ dispatcher[t] = "pop" /\ t \notin asleep /\ queue = <<>> /\ (closed \/ stopped)
    /\ dispatcher' = [dispatcher EXCEPT ![t] = "gone"]
    /\ UNCHANGED <<parserVars, main, stateVars, dispatch_error, asleep, hand, fileVars>>

Sleep(t) ==
    /\ dispatcher[t] = "pop" /\ t \notin asleep /\ queue = <<>> /\ ~closed /\ ~stopped
    /\ asleep' = asleep \union {t}
    /\ UNCHANGED <<parserVars, main, stateVars, dispatch_error, crewVars, fileVars>>

Bytes(f) == {[at |-> f.offset + i, byte |-> f.data[i]] : i \in DOMAIN f.data}

\* submit: the file's writer accepts the fragment and writes it later, which may
\* fail; then it holds an error for whoever calls it next, and refuses.  So it does
\* after its drain.
Submit(t) ==
    /\ dispatcher[t] = "submit"
    /\ \E f \in hand[t] :
          \/ /\ active_files[f.file].there
             /\ content' = [content EXCEPT ![f.file] = @ \union Bytes(f)]
             /\ \/ UNCHANGED <<lost, untold>>
                \/ MayFail("write") /\ lost' = lost \union {f.file}
                   /\ untold' = untold \union {f.file}
             /\ dispatcher' = [dispatcher EXCEPT ![t] = "account"]
          \/ /\ f.file \in lost \/ ~active_files[f.file].there
             /\ untold' = untold \ {f.file} /\ dispatcher' = [dispatcher EXCEPT ![t] = "refused"]
             /\ UNCHANGED <<content, lost>>
    /\ UNCHANGED <<parserVars, main, stateVars, dispatch_error, asleep, hand>>

\* A refused fragment stops the dispatch; what is queued is submitted all the same.
Account(t) ==
    /\ dispatcher[t] \in {"account", "refused"}
    /\ \E f \in hand[t] :
          active_files' = [active_files EXCEPT ![f.file].queued =
                              IF active_files[f.file].there THEN @ - 1 ELSE @]
    /\ IF dispatcher[t] = "refused" THEN stopped' = TRUE /\ dispatch_error' = TRUE
       ELSE UNCHANGED <<stopped, dispatch_error>>
    /\ hand' = [hand EXCEPT ![t] = {}] /\ dispatcher' = [dispatcher EXCEPT ![t] = "pop"]
    /\ asleep' = {}
    /\ UNCHANGED <<parserVars, main, queue, queued_bytes, closed, fileVars>>

Dispatch(t) == Pop(t) \/ Leave(t) \/ Sleep(t) \/ Submit(t) \/ Account(t)

--------------------------------------------------------------------------------
(* The decoder writes one piece after another, and finish is called when its   *)
(* stream is at the end; it never calls flush.                                 *)

WritePiece ==
    /\ main = "out" /\ arrived < Len(source.bytes)
    /\ \E n \in PieceSizes :
          LET upto == IF arrived + n < Len(source.bytes) THEN arrived + n ELSE Len(source.bytes) IN
          /\ buffer' = buffer \o SubSeq(source.bytes, arrived + 1, upto)
          /\ arrived' = upto
    /\ main' = "parse"
    /\ UNCHANGED <<source, parse, counts, stateVars, dispatch_error, asleep, crewVars, fileVars>>

\* The decoder may fail in the middle, and then finish is not called.
DecoderFails == main = "out" /\ arrived < Len(source.bytes) /\ MayFail("path") /\ Fails

\* finish: an archive that is not at its end, or goes on behind it, is an error,
\* before anything was waited for.
Finish ==
    /\ main = "out" /\ arrived = Len(source.bytes)
    /\ IF parse.at = "Finished" /\ buffer = <<>>
         THEN /\ closed' = TRUE /\ asleep' = {} /\ main' = "wait"
              /\ UNCHANGED <<parserVars, dispatchVars, stopped, dispatch_error, crewVars, fileVars>>
         ELSE Fails

AllHandedOver ==
    queue = <<>> /\ \A f \in DOMAIN active_files : active_files[f].there => active_files[f].queued = 0

\* finish_dispatch.  Who was asleep looks at the error first.
FinishWait ==
    /\ main \in {"wait", "awake"} /\ Main \notin asleep
    /\ \/ main = "awake" /\ TakeError
       \/ /\ main = "awake" => ~dispatch_error
          /\ ~AllHandedOver /\ ~stopped
          /\ asleep' = asleep \union {Main} /\ main' = "awake"
          /\ UNCHANGED <<parserVars, stateVars, dispatch_error, crewVars, fileVars>>
       \/ /\ main = "awake" => ~dispatch_error
          /\ AllHandedOver \/ stopped
          /\ main' = "handed_over"
          /\ UNCHANGED <<parserVars, stateVars, dispatch_error, asleep, crewVars, fileVars>>

\* The writers are taken out of the table and drained one after another; each waits
\* for its own writes, and returns the error that nobody was told.
DrainFiles ==
    /\ main = "handed_over"
    /\ \/ TakeError
       \/ /\ ~dispatch_error
          /\ active_files' = [f \in DOMAIN active_files |-> [active_files[f] EXCEPT !.there = FALSE]]
          /\ main' = IF untold # {} THEN "failed" ELSE "drained"
          /\ UNCHANGED <<parserVars, queue, queued_bytes, closed, stopped, dispatch_error, asleep,
                         crewVars, fileVars>>

\* The slot is looked at once more; all fragments were handed over, so it is empty.
StopDispatch ==
    /\ main = "drained" /\ ~dispatch_error
    /\ stopped' = TRUE /\ asleep' = {} /\ main' = "join"
    /\ UNCHANGED <<parserVars, dispatchVars, closed, dispatch_error, crewVars, fileVars>>

Join ==
    /\ main = "join" /\ \A t \in DispatchThreads : dispatcher[t] = "gone"
    /\ main' = "ok"
    /\ UNCHANGED <<parserVars, stateVars, dispatch_error, asleep, crewVars, fileVars>>

ArchiveMain ==
    \/ WritePiece \/ Parser \/ Enqueue \/ DecoderFails
    \/ Finish \/ FinishWait \/ DrainFiles \/ StopDispatch \/ Join

ArchiveReturned == main \in {"ok", "failed"} /\ UNCHANGED archiveVars

ArchiveWriterNext ==
    ArchiveMain \/ ArchiveReturned \/ \E t \in DispatchThreads : Dispatch(t)

ArchiveWriterSpec ==
    /\ ArchiveWriterInit /\ [][ArchiveWriterNext]_archiveVars
    /\ WF_archiveVars(ArchiveMain) /\ \A t \in DispatchThreads : WF_archiveVars(Dispatch(t))

--------------------------------------------------------------------------------
(* Properties.                                                                 *)

Files == DOMAIN active_files
InQueue(f) == {i \in DOMAIN queue : queue[i].file = f}
InHand(f)  == {t \in DispatchThreads : \E x \in hand[t] : x.file = f}

\* The first n bytes of an entry, at their places.
Beginning(k, n) == {[at |-> i, byte |-> [entry |-> k, field |-> "data", place |-> i]] : i \in 1 .. n}

\* How much of a file was parsed.
Parsed(f) ==
    IF parse.at = "RecordFileData" /\ parse.file = f
      THEN parse.offset ELSE source.entries[active_files[f].entry].len

Underway(f) ==
    UNION ({Bytes(queue[i]) : i \in InQueue(f)}
             \union {Bytes(x) : x \in UNION {hand[t] : t \in InHand(f)}})

\* Every byte of a file that was parsed is queued, or held by a dispatch thread, or
\* with the file's writer, at its place in the file, and nothing else is; the counts
\* of queued bytes and of each file's fragments agree with it.
FragmentsAccounted ==
    /\ \A f \in Files \ lost : content[f] \union Underway(f) = Beginning(active_files[f].entry, Parsed(f))
    /\ queued_bytes = FoldLeft(LAMBDA n, x : n + Len(x.data), 0, queue)
    /\ \A f \in Files : active_files[f].there =>
          active_files[f].queued = Cardinality(InQueue(f)) + Cardinality(InHand(f))

\* The bytes of files are accounted for on their way, and a directory is decompressed
\* without an error only from a whole archive, and then every file is complete,
\* whichever thread wrote which part of it when, no write of it failed, no dispatch
\* thread is left, and the counts are those of the directory.
OkMeansExtracted ==
    /\ FragmentsAccounted
    /\ main = "ok" =>
        /\ source.bytes = ArchiveStream(source.entries)
        /\ [f \in Files |-> active_files[f].entry]
              = SelectSeq([k \in DOMAIN source.entries |-> k],
                          LAMBDA k : IsFile(source.entries[k]))
        /\ \A f \in Files :
              content[f] = Beginning(active_files[f].entry, source.entries[active_files[f].entry].len)
        /\ lost = {} /\ \A t \in DispatchThreads : dispatcher[t] = "gone"
        /\ counts.entries = Len(active_files)
        /\ counts.bytes = FoldLeft(LAMBDA n, e : n + e.len, 0, source.entries)
================================================================================
