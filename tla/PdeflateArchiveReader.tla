-------------------------- MODULE PdeflateArchiveReader --------------------------
(* The archive that is compressed when a directory is compressed with PDeflate *)
(* (PDeflateArchiveReader in cozip, lib.rs).  It is read as one stream, and    *)
(* the files that come next are opened and read ahead, each by a parallel file *)
(* reader of its own (see ParallelPrefetchReader for that reader), within one  *)
(* budget for all of them and a reserve for the file that is being read.       *)
EXTENDS PdeflateArchiveFormat, Integers, FiniteSetsExt

CONSTANTS
    Directories,   \* directories: sequences of entries [kind, len]
    RequestSize,   \* REQUEST_SIZE
    MaxOps,        \* MAX_INFLIGHT_OPS_PER_FILE
    ReadBudget,    \* PDEFLATE_DIR_PARALLEL_READ_BACKLOG_BYTES
    Reserve,       \* PDEFLATE_DIR_CURRENT_FILE_READ_RESERVE_BYTES
    MaxOpen,       \* PDEFLATE_DIR_MAX_OPEN_FILES
    ReadSizes,     \* lengths of the buffers that are read into
    ReadFaults     \* {}, or {"io"}: files that cannot be opened or read

ASSUME ArchiveReaderAssumption ==
    /\ {RequestSize, MaxOps, ReadBudget, Reserve, MaxOpen} \subseteq Nat \ {0}
    /\ ReadSizes \subseteq Nat \ {0} /\ ReadFaults \subseteq {"io"}
    /\ \A d \in Directories : \A k \in DOMAIN d :
          d[k].kind \in {"file", "dir"} /\ d[k].len \in Nat /\ (IsFile(d[k]) \/ d[k].len = 0)

VARIABLES
    entries,         \* the directory, sorted
    current_index,   \* how many records were begun
    pending,         \* bytes of headers still to be handed out
    current,         \* current_file_entry_index, or 0
    prefetched,      \* prefetched_files: the open files, in order
    prefetch_index,  \* how many entries were looked at by the prefetch
    prefetched_bytes,\* what the budget counts
    wanted,          \* room in the buffer of the read that is running
    archive,         \* what was handed out
    reader           \* "idle" between two reads, "read", then "end" or "failed"

prefetchVars == <<prefetched, prefetch_index, prefetched_bytes>>
readerVars   == <<entries, current_index, pending, current, prefetchVars, wanted, archive, reader>>

NumEntries == Len(entries)

ReaderInit ==
    /\ entries \in Directories
    /\ current_index = 0 /\ pending = ArchiveHeader /\ current = 0
    /\ prefetched = <<>> /\ prefetch_index = 0 /\ prefetched_bytes = 0
    /\ wanted = 0 /\ archive = <<>> /\ reader = "idle"

\* An open file: which entry, the lengths asked for and not yet received, how much
\* was asked for, and how much of the current chunk is left.
Opened(k) == [entry |-> k, inflight |-> <<>>, next |-> 0, chunk |-> 0]

FileLen(file) == entries[file.entry].len

Total(seq) == FoldLeft(LAMBDA a, b : a + b, 0, seq)

Lesser(a, b) == IF a <= b THEN a ELSE b

--------------------------------------------------------------------------------
(* Slips: definitions below as a plausible mistake would write them.           *)

\* A file is at its end when its last request was made.
AllAsked(file) == file.chunk = 0 /\ file.next >= FileLen(file)

--------------------------------------------------------------------------------
(* The prefetch.  Its state is a record: the open files, how many entries were *)
(* looked at, and the bytes asked for.                                         *)

Prefetch == [files |-> prefetched, index |-> prefetch_index, bytes |-> prefetched_bytes]

Limit(reserve) == ReadBudget + (IF reserve THEN Reserve ELSE 0)

\* fill_prefetch_queue submits one request after another to a file's reader, as long
\* as the file has slots and bytes and the budget room: all but the last are whole.
Requests(bytes) ==
    [i \in 1 .. ((bytes + RequestSize - 1) \div RequestSize) |->
        Lesser(RequestSize, bytes - (i - 1) * RequestSize)]

Asked(P, file, reserve) ==
    Lesser(Lesser(FileLen(file) - file.next, (MaxOps - Len(file.inflight)) * RequestSize),
           IF P.bytes < Limit(reserve) THEN Limit(reserve) - P.bytes ELSE 0)

FillQueue(P, pos, reserve) ==
    LET asked == Asked(P, P.files[pos], reserve) IN
    [P EXCEPT !.files[pos].inflight = @ \o Requests(asked),
              !.files[pos].next = @ + asked, !.bytes = @ + asked]

\* Where an entry's file is among the open ones, the first if it is there twice.
Positions(P, k) == {i \in DOMAIN P.files : P.files[i].entry = k}
PositionOf(P, k) == Min(Positions(P, k))

\* Files are opened as long as the budget lasts
OpenNext(P) ==
    IF P.bytes < ReadBudget /\ P.index < NumEntries /\ Len(P.files) < MaxOpen
      THEN LET next == P.index + 1 IN
           IF IsFile(entries[next])
             THEN FillQueue([P EXCEPT !.index = next, !.files = Append(@, Opened(next))],
                            Len(P.files) + 1, FALSE)
             ELSE [P EXCEPT !.index = next]
      ELSE P

OpenAhead(P) == FoldLeft(LAMBDA Q, i : OpenNext(Q), P, [i \in 1 .. NumEntries |-> i])

\* then the file that is read is filled, from the reserve if it must be, and then
\* the others.
FillCurrent(P, k) ==
    IF k # 0 /\ Positions(P, k) # {} THEN FillQueue(P, PositionOf(P, k), TRUE) ELSE P

FillOthers(P, k) ==
    FoldLeft(LAMBDA Q, i : IF Q.bytes < ReadBudget /\ Q.files[i].entry # k
                             THEN FillQueue(Q, i, FALSE) ELSE Q,
             P, [i \in DOMAIN P.files |-> i])

PrimePrefetch(P, k) == FillOthers(FillCurrent(OpenAhead(P), k), k)

Prefetched(after) ==
    \E P \in {after} :
        prefetched' = P.files /\ prefetch_index' = P.index /\ prefetched_bytes' = P.bytes

--------------------------------------------------------------------------------
(* read: the buffer is filled until it is full or the archive is at its end.   *)

Call ==
    /\ reader = "idle" /\ wanted' \in ReadSizes /\ reader' = "read"
    /\ UNCHANGED <<entries, current_index, pending, current, prefetchVars, archive>>

Return ==
    /\ reader = "read" /\ wanted = 0 /\ reader' = "idle"
    /\ UNCHANGED <<entries, current_index, pending, current, prefetchVars, wanted, archive>>

Reading == reader = "read" /\ wanted > 0

HandOut(bytes) == archive' = archive \o bytes /\ wanted' = wanted - Len(bytes)

CopyPending ==
    /\ Reading /\ pending # <<>>
    /\ LET take == Lesser(Len(pending), wanted) IN
          /\ HandOut(SubSeq(pending, 1, take))
          /\ pending' = SubSeq(pending, take + 1, Len(pending))
    /\ UNCHANGED <<entries, current_index, current, prefetchVars, reader>>

InFile == Reading /\ pending = <<>> /\ current # 0

CurrentPosition == PositionOf(Prefetch, current)

\* The next chunk is received, unless its request failed.
Receive ==
    /\ InFile
    /\ LET file == prefetched[CurrentPosition] IN
          /\ file.chunk = 0 /\ file.inflight # <<>>
          /\ prefetched' = [prefetched EXCEPT ![CurrentPosition] =
                               [file EXCEPT !.chunk = Head(file.inflight),
                                            !.inflight = Tail(file.inflight)]]
    /\ UNCHANGED <<entries, current_index, pending, current, prefetch_index, prefetched_bytes,
                   wanted, archive, reader>>

\* The budget gives back what is copied out, and is used again.
CopyChunk ==
    /\ InFile /\ prefetched[CurrentPosition].chunk > 0
    /\ LET file  == prefetched[CurrentPosition]
           take  == Lesser(file.chunk, wanted)
           done  == file.next - Total(file.inflight) - file.chunk
           after == [Prefetch EXCEPT !.files[CurrentPosition].chunk = @ - take,
                                     !.bytes = @ - take]
       IN /\ HandOut([i \in 1 .. take |-> [entry |-> current, field |-> "data", place |-> done + i]])
          /\ Prefetched(PrimePrefetch(after, current))
    /\ UNCHANGED <<entries, current_index, pending, current, reader>>

AllReceived(file) == file.chunk = 0 /\ file.inflight = <<>> /\ file.next >= FileLen(file)

FinishFile ==
    /\ InFile /\ AllReceived(prefetched[CurrentPosition])
    /\ Prefetched(PrimePrefetch([Prefetch EXCEPT !.files = RemoveAt(@, CurrentPosition)], 0))
    /\ current' = 0
    /\ UNCHANGED <<entries, current_index, pending, wanted, archive, reader>>

\* The next record.  Its file is opened here when the prefetch has not got to it, and
\* then the prefetch, which does not know, will open it again.
Record ==
    /\ Reading /\ pending = <<>> /\ current = 0 /\ current_index < NumEntries
    /\ LET k    == current_index + 1
           here == IF Positions(Prefetch, k) # {} THEN Prefetch
                   ELSE FillQueue([Prefetch EXCEPT !.files = <<Opened(k)>> \o @], 1, TRUE)
       IN /\ current_index' = k
          /\ pending' = RecordHeader(entries, k)
          /\ IF IsFile(entries[k])
               THEN current' = k /\ Prefetched(PrimePrefetch(here, k))
               ELSE UNCHANGED <<current, prefetchVars>>
    /\ UNCHANGED <<entries, wanted, archive, reader>>

EndMarker ==
    /\ Reading /\ pending = <<>> /\ current = 0 /\ current_index = NumEntries
    /\ pending' = ArchiveEnd /\ current_index' = current_index + 1
    /\ UNCHANGED <<entries, current, prefetchVars, wanted, archive, reader>>

EndOfArchive ==
    /\ Reading /\ pending = <<>> /\ current = 0 /\ current_index > NumEntries
    /\ reader' = "end"
    /\ UNCHANGED <<entries, current_index, pending, current, prefetchVars, wanted, archive>>

\* A file that cannot be opened, read or drained fails the read.
ReadFails ==
    /\ Reading /\ pending = <<>> /\ "io" \in ReadFaults /\ current_index <= NumEntries
    /\ reader' = "failed"
    /\ UNCHANGED <<entries, current_index, pending, current, prefetchVars, wanted, archive>>

ArchiveRead ==
    \/ Call \/ Return \/ CopyPending \/ Receive \/ CopyChunk \/ FinishFile
    \/ Record \/ EndMarker \/ EndOfArchive \/ ReadFails

ReaderNext == ArchiveRead \/ (reader \in {"end", "failed"} /\ UNCHANGED readerVars)

ReaderSpec == ReaderInit /\ [][ReaderNext]_readerVars

--------------------------------------------------------------------------------
(* Properties.                                                                 *)

HeldBytes(file) == Total(file.inflight) + file.chunk

\* What is handed out is the archive of the directory from its beginning, whatever
\* the buffers it is read into and however often a file was opened; at the end it is
\* all of it.
ArchiveInOrder ==
    /\ IsPrefix(archive, ArchiveStream(entries))
    /\ reader = "end" => archive = ArchiveStream(entries)

\* The budget counts what is asked for and not handed out, and is kept but for the
\* reserve.
BudgetKept ==
    /\ prefetched_bytes = Total([i \in DOMAIN prefetched |-> HeldBytes(prefetched[i])])
    /\ prefetched_bytes <= ReadBudget + Reserve
    /\ Len(prefetched) <= MaxOpen + 1

\* The file that is read has a chunk to copy, a request on its way, or nothing left to
\* ask for.
NeverStarved ==
    InFile => LET file == prefetched[CurrentPosition] IN
                 file.chunk > 0 \/ file.inflight # <<>> \/ file.next = FileLen(file)

\* What is read ahead stays within its budget, and never keeps the file that is read
\* from its next request: the read loop would go round with nothing to do.  The first
\* file is opened twice, and its second copy holds a part of the budget for ever.
ReaderBudget == BudgetKept /\ NeverStarved

\* Both: the archive comes in order, from what was read ahead within the budget.
ReaderSound == ArchiveInOrder /\ ReaderBudget
================================================================================
