--------------------------- MODULE ZipDirectoryExtract ---------------------------
(* A ZIP file is extracted to a directory (decompress_directory in cozip,      *)
(* lib.rs).  Workers take entries from one queue; a worker that fails leaves,  *)
(* and the others extract the rest.  All of them report to the CoZipProgress   *)
(* that the caller gave.  An entry with a chunk index goes through a parallel  *)
(* file writer (see PdeflateParallelDecode for how that is used), whose        *)
(* threads report its backlog, and the backlogs are added up in a table.       *)
(*                                                                             *)
(* How much an entry decodes to shows only at the end of its data, which is    *)
(* when its size is compared: what was written by then was shown.              *)
EXTENDS Integers, Sequences, FiniteSets, SequencesExt, FiniteSetsExt

CONSTANTS
    ExtractTasks,    \* the entries that are files: [bytes, indexed], as declared
    DamagedLengths,  \* what the data of a damaged entry may decode to
    ExtractWorkers,  \* parallel_write_threads, at least one
    ExtractFaults    \* which of "read", "decode" may fail

ASSUME ExtractAssumption ==
    /\ IsFiniteSet(ExtractWorkers) /\ ExtractWorkers # {}
    /\ ExtractTasks \in Seq([bytes : Nat, indexed : BOOLEAN])
    /\ DamagedLengths \subseteq Nat
    /\ ExtractFaults \subseteq {"read", "decode"}

VARIABLES
    decodesTo,      \* of each task, how much its data decodes to
    tasks,          \* the queue
    extractor,      \* where each worker is: [at], with its task
    written,        \* of each task, how much of the output was written
    backlog_slots,  \* of each task with an index, the backlog that was reported
    report,         \* of each worker, the total that is on its way to the progress
    error_slot,     \* an error was stored
    totals,         \* result_totals: [entries, bytes]
    progress,       \* CoZipProgressInner
    extraction      \* "scope", then "ok" or "failed"

extractVars == <<decodesTo, tasks, extractor, written, backlog_slots, report, error_slot, totals, progress,
                 extraction>>

ZipTasks == DOMAIN ExtractTasks
NoTask  == 0
Unknown == -1   \* Option::None, for a number

Declared(t) == ExtractTasks[t].bytes
TotalOf(S)  == MapThenSumSet(LAMBDA t : ExtractTasks[t].bytes, S)

\* What the entry decodes to has the size that is declared.
Sound(t) == decodesTo[t] = Declared(t)

--------------------------------------------------------------------------------
(* CoZipProgress.                                                              *)

Started(entries, bytes) ==
    [phase |-> "Running", total_entries |-> entries, total_bytes |-> bytes, completed |-> 0,
     processed |-> 0, current |-> NoTask, current_total |-> Unknown, current_processed |-> 0,
     backlog |-> Unknown]

BeginEntry(P, t) == [P EXCEPT !.current = t, !.current_total = ExtractTasks[t].bytes,
                              !.current_processed = 0]
Advance(P, n)    == [P EXCEPT !.processed = @ + n, !.current_processed = @ + n]
Backlog(P, n)    == [P EXCEPT !.backlog = n]
NoEntry(P)       == [P EXCEPT !.current = NoTask, !.current_total = Unknown,
                              !.current_processed = 0, !.backlog = Unknown]
FinishEntry(P)   == [NoEntry(P) EXCEPT !.completed = @ + 1]
Finished(P)      == [NoEntry(P) EXCEPT !.phase = "Finished", !.completed = P.total_entries,
                                       !.processed = P.total_bytes]

--------------------------------------------------------------------------------
(* Slips: definitions below as a plausible mistake would write them.           *)

\* The totals are added to as they were when the entry was begun.
AddedFirst(t) == [entries |-> 1, bytes |-> written[t]]

--------------------------------------------------------------------------------
ExtractInit ==
    /\ decodesTo \in [ZipTasks -> DamagedLengths \cup {Declared(t) : t \in ZipTasks}]
    /\ \A t \in ZipTasks : decodesTo[t] \in DamagedLengths \cup {Declared(t)}
    /\ tasks = [t \in ZipTasks |-> t]
    /\ extractor = [w \in ExtractWorkers |-> [at |-> "take", task |-> NoTask]]
    /\ written = [t \in ZipTasks |-> 0] /\ backlog_slots = [t \in ZipTasks |-> 0]
    /\ report = [w \in ExtractWorkers |-> Unknown]
    /\ error_slot = FALSE /\ totals = [entries |-> 0, bytes |-> 0]
    /\ progress = Started(Len(ExtractTasks), TotalOf(ZipTasks))
    /\ extraction = "scope"

Is(w, place)   == extractor[w].at = place
Goes(w, place) == extractor' = [extractor EXCEPT ![w].at = place]
TaskOf(w)      == extractor[w].task
Indexed(w)     == ExtractTasks[TaskOf(w)].indexed
SlotSum(slots) == MapThenSumSet(LAMBDA t : slots[t], ZipTasks)

\* The queue is looked at before the error slot, and its condition variable is never
\* waited for.
ExtractTake(w) ==
    /\ Is(w, "take")
    /\ IF tasks = <<>> THEN Goes(w, "gone") /\ UNCHANGED tasks
       ELSE /\ extractor' = [extractor EXCEPT ![w] = [at |-> "begin", task |-> Head(tasks)]]
            /\ tasks' = Tail(tasks)
    /\ UNCHANGED <<written, backlog_slots, report, error_slot, totals, progress, extraction>>

ExtractBegin(w) ==
    /\ Is(w, "begin") /\ Goes(w, "payload") /\ progress' = BeginEntry(progress, TaskOf(w))
    /\ UNCHANGED <<tasks, written, backlog_slots, report, error_slot, totals, extraction>>

\* The compressed bytes are read under the lock of the input file, and the output
\* is opened.
ExtractPayload(w) ==
    /\ Is(w, "payload") /\ Goes(w, "decode")
    /\ UNCHANGED <<tasks, written, backlog_slots, report, error_slot, totals, progress, extraction>>

\* Whatever the decoder emits is written and shown; nothing stops it at the size.
ExtractWrite(w) ==
    /\ Is(w, "decode") /\ written[TaskOf(w)] < decodesTo[TaskOf(w)]
    /\ written' = [written EXCEPT ![TaskOf(w)] = @ + 1]
    /\ progress' = Advance(progress, 1)
    /\ UNCHANGED <<tasks, extractor, backlog_slots, report, error_slot, totals, extraction>>

\* The reporter of the writer: the total is made under the lock of the table, and
\* shown after it.  A backlog is one or nothing here.
ExtractReport(w) ==
    /\ Is(w, "decode") /\ Indexed(w) /\ report[w] = Unknown
    /\ \E bytes \in {0, 1} :
          /\ backlog_slots' = [backlog_slots EXCEPT ![TaskOf(w)] = bytes]
          /\ report' = [report EXCEPT ![w] = SlotSum(backlog_slots')]
    /\ UNCHANGED <<tasks, extractor, written, error_slot, totals, progress, extraction>>

ExtractShow(w) ==
    /\ report[w] # Unknown
    /\ progress' = Backlog(progress, report[w]) /\ report' = [report EXCEPT ![w] = Unknown]
    /\ UNCHANGED <<tasks, extractor, written, backlog_slots, error_slot, totals, extraction>>

\* The data has been decoded, and the writer was drained, so nothing is reported any
\* more.  The size is compared.
Decoded(w) == Is(w, "decode") /\ written[TaskOf(w)] = decodesTo[TaskOf(w)] /\ report[w] = Unknown
ExtractDone(w) ==
    /\ Decoded(w) /\ Sound(TaskOf(w))
    /\ Goes(w, "account")
    /\ IF Indexed(w)
         THEN /\ backlog_slots' = [backlog_slots EXCEPT ![TaskOf(w)] = 0]
              /\ progress' = Backlog(progress, SlotSum(backlog_slots'))
         ELSE UNCHANGED <<backlog_slots, progress>>
    /\ UNCHANGED <<tasks, written, report, error_slot, totals, extraction>>

\* Reading or decoding fails, or the size is not the one that was declared.  The worker
\* keeps the first error, and leaves; its backlog stays in the table.
ExtractFails(w) ==
    /\ \/ Is(w, "payload") /\ "read" \in ExtractFaults
       \/ Is(w, "decode") /\ "decode" \in ExtractFaults /\ report[w] = Unknown
       \/ Decoded(w) /\ ~Sound(TaskOf(w))
    /\ error_slot' = TRUE /\ Goes(w, "gone")
    /\ UNCHANGED <<tasks, written, backlog_slots, report, totals, progress, extraction>>

Added(t) == [entries |-> totals.entries + 1, bytes |-> totals.bytes + written[t]]

ExtractAccount(w) ==
    /\ Is(w, "account") /\ Goes(w, "finish_entry")
    /\ totals' = Added(TaskOf(w))
    /\ UNCHANGED <<tasks, written, backlog_slots, report, error_slot, progress, extraction>>

ExtractFinishEntry(w) ==
    /\ Is(w, "finish_entry") /\ Goes(w, "take")
    /\ progress' = FinishEntry(progress)
    /\ UNCHANGED <<tasks, written, backlog_slots, report, error_slot, totals, extraction>>

ExtractWorker(w) ==
    \/ ExtractTake(w) \/ ExtractBegin(w) \/ ExtractPayload(w) \/ ExtractWrite(w)
    \/ ExtractReport(w) \/ ExtractShow(w) \/ ExtractDone(w) \/ ExtractFails(w)
    \/ ExtractAccount(w) \/ ExtractFinishEntry(w)

\* After the scope: an error is returned, or the totals, and the progress is finished.
ExtractReturn ==
    /\ extraction = "scope" /\ \A w \in ExtractWorkers : Is(w, "gone")
    /\ IF error_slot THEN extraction' = "failed" /\ UNCHANGED progress
       ELSE extraction' = "ok" /\ progress' = Finished(Backlog(progress, Unknown))
    /\ UNCHANGED <<tasks, extractor, written, backlog_slots, report, error_slot, totals>>

ExtractNext ==
    /\ \/ ExtractReturn \/ \E w \in ExtractWorkers : ExtractWorker(w)
       \/ extraction # "scope" /\ UNCHANGED extractVars
    /\ UNCHANGED decodesTo

ExtractSpec == ExtractInit /\ [][ExtractNext]_extractVars

--------------------------------------------------------------------------------
(* Properties.                                                                 *)

Whole(t) == Sound(t) /\ written[t] = decodesTo[t]

\* More of an entry was written than there should be, and an error says so or is about to.
Outgrown(t) ==
    /\ written[t] > Declared(t)
    /\ error_slot \/ \E w \in ExtractWorkers : Is(w, "decode") /\ TaskOf(w) = t

\* Without an error every entry was extracted whole, and once, and the totals that
\* are returned say so.  With one, an entry is missing; entries are
\* left in the queue only when each worker has failed at one.  What the progress shows
\* is what was written, and passes the totals only over an entry that decodes to more
\* than it declares, for which the extraction fails.
ExtractExact ==
    /\ extraction = "ok" =>
          /\ \A t \in ZipTasks : Whole(t)
          /\ totals = [entries |-> Len(ExtractTasks), bytes |-> TotalOf(ZipTasks)]
    /\ extraction = "failed" =>
          /\ totals.entries < Len(ExtractTasks)
          /\ tasks # <<>> => Len(ExtractTasks) - Len(tasks) - totals.entries
                               = Cardinality(ExtractWorkers)
    /\ progress.phase = "Running" =>
          /\ progress.processed = MapThenSumSet(LAMBDA t : written[t], ZipTasks)
          /\ progress.processed > progress.total_bytes => \E t \in ZipTasks : Outgrown(t)
          /\ progress.completed <= totals.entries
================================================================================
