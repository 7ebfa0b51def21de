-------------------------- MODULE ZipDirectoryCompress --------------------------
(* A directory is compressed to a ZIP file (compress_directory in cozip,       *)
(* lib.rs).  The workers of a call take files from one queue, and each appends *)
(* what it compresses to a spool file of its own.  When all of them have left, *)
(* the call writes the entries in the order of the files, and copies the data  *)
(* of each out of the spool where the worker began it.                         *)
(*                                                                             *)
(* Several calls of a process may run at a time.  The spools of a call are in  *)
(* a directory named by the process and the millisecond, so two calls that     *)
(* begin in the same one share it: they append to each other's files, and the  *)
(* first to end removes it.  A file that is open outlives its name.            *)
EXTENDS ZipArchive, FiniteSets

CONSTANTS
    ZipCalls,     \* calls of compress_directory
    ZipWorkers,   \* of each call its workers, parallel_read_threads of them
    FilesOf,      \* of each call its files: [name, raw, data, blob]
    LastMillis,   \* where the clock stops
    ZipFaults     \* of {"file", "remove"}: a file that cannot be read, a directory that
                  \* cannot be removed

ASSUME ZipCompressAssumption ==
    /\ \A c \in ZipCalls : IsFiniteSet(ZipWorkers[c]) /\ ZipWorkers[c] # {}
    /\ LastMillis \in Nat
    /\ ZipFaults \subseteq {"file", "remove"}

VARIABLES
    todo,       \* of each call, the files in its queue
    zipworker,  \* of each call, where each worker is: [at], with the file and its place
    now,        \* the system time in milliseconds, when a call last began
    root,       \* of each call, spool_root: when it began
    dirs,       \* the directories there are: name -> the call that made it
    spool,      \* the spool files, linked or still open: <<maker, worker>> -> bytes
    spool_cache,    \* of each call, the files it has opened to read: name -> file
    mixed,      \* history: calls that ran while another of the same name did
    results,    \* of each call, what its workers sent, in order of arrival
    zip_pending,    \* of each call, results that are not in their turn: [index, ...]
    zip,        \* of each call, its ZipWriteState
    call        \* of each call, where it is

spoolVars   == <<now, root, dirs, spool, spool_cache, mixed>>
zipCallVars == <<todo, zipworker, spoolVars, results, zip_pending, zip, call>>

--------------------------------------------------------------------------------
(* Slips: definitions below as a plausible mistake would write them.           *)

\* All workers of a call spool to the same file.
SpoolNameShared(c, w) == <<root[c], CHOOSE v \in ZipWorkers[c] : TRUE>>

--------------------------------------------------------------------------------
SpoolName(c, w) == <<root[c], w>>
FileAt(name)    == <<dirs[name[1]], name[2]>>
Linked(name)    == name[1] \in DOMAIN dirs /\ FileAt(name) \in DOMAIN spool
Indices(c) == [i \in DOMAIN FilesOf[c] |-> i]

ZipCompressInit ==
    /\ todo = [c \in ZipCalls |-> Indices(c)]
    /\ zipworker = [c \in ZipCalls |-> [w \in ZipWorkers[c] |-> [at |-> "take"]]]
    /\ now = 0 /\ root = [c \in ZipCalls |-> 0]
    /\ dirs = <<>> /\ spool = <<>> /\ spool_cache = [c \in ZipCalls |-> <<>>]
    /\ mixed = {}
    /\ results = [c \in ZipCalls |-> <<>>] /\ zip_pending = [c \in ZipCalls |-> {}]
    /\ zip = [c \in ZipCalls |-> EmptyZip]
    /\ call = [c \in ZipCalls |-> "begin"]

--------------------------------------------------------------------------------
(* A worker.                                                                   *)

Sets(c, w, place) == zipworker' = [zipworker EXCEPT ![c][w] = place]

ZipTake(c, w) ==
    /\ call[c] = "scope" /\ zipworker[c][w].at = "take"
    /\ IF todo[c] = <<>>
         THEN Sets(c, w, [at |-> "gone"]) /\ UNCHANGED todo
         ELSE Sets(c, w, [at |-> "open", file |-> Head(todo[c])])
              /\ todo' = [todo EXCEPT ![c] = Tail(@)]
    /\ UNCHANGED <<spoolVars, results, zip_pending, zip, call>>

\* A result that is an error; the worker goes on.
SendsError(c, w) ==
    /\ results' = [results EXCEPT ![c] = Append(@, [index |-> zipworker[c][w].file, ok |-> FALSE])]
    /\ Sets(c, w, [at |-> "take"])

Contents(file) == IF file \in DOMAIN spool THEN spool[file] ELSE <<>>
SpoolPlace(file) == Len(Contents(file))

\* The spool is opened or made, which takes the directory, and its length is where the
\* entry will begin.
ZipOpen(c, w) ==
    /\ zipworker[c][w].at = "open"
    /\ IF root[c] \notin DOMAIN dirs THEN SendsError(c, w) /\ UNCHANGED spool
       ELSE LET file == FileAt(SpoolName(c, w)) IN
            /\ Sets(c, w, [zipworker[c][w] EXCEPT !.at = "compress"]
                             @@ [spool_file |-> file, offset |-> SpoolPlace(file), n |-> 0])
            /\ spool' = (file :> Contents(file)) @@ spool
            /\ UNCHANGED results
    /\ UNCHANGED <<todo, now, root, dirs, spool_cache, mixed, zip_pending, zip, call>>

\* What is compressed is appended, in pieces, wherever the end of the file is by then.
ZipAppend(c, w) ==
    LET me   == zipworker[c][w]
        data == FilesOf[c][me.file].data
    IN /\ me.at = "compress" /\ me.n < Len(data)
       /\ Sets(c, w, [me EXCEPT !.n = @ + 1])
       /\ spool' = [spool EXCEPT ![me.spool_file] = Append(@, data[me.n + 1])]
       /\ UNCHANGED <<todo, now, root, dirs, spool_cache, mixed, results, zip_pending, zip, call>>

Prepared(c, w) ==
    LET me == zipworker[c][w]
        f  == FilesOf[c][me.file]
    IN [index |-> me.file, ok |-> TRUE, name |-> f.name, crc |-> f.raw,
        compressed_size |-> Len(f.data), uncompressed_size |-> Len(f.raw), blob |-> f.blob,
        spool |-> SpoolName(c, w), spool_offset |-> me.offset]

\* The result is sent, and the worker goes on, after an error too.
ZipSend(c, w) ==
    LET me == zipworker[c][w] IN
    /\ me.at = "compress"
    /\ \/ /\ me.n = Len(FilesOf[c][me.file].data)
          /\ results' = [results EXCEPT ![c] = Append(@, Prepared(c, w))]
          /\ Sets(c, w, [at |-> "take"])
       \/ "file" \in ZipFaults /\ SendsError(c, w)
    /\ UNCHANGED <<todo, spoolVars, zip_pending, zip, call>>

ZipWorker(c, w) == ZipTake(c, w) \/ ZipOpen(c, w) \/ ZipAppend(c, w) \/ ZipSend(c, w)

--------------------------------------------------------------------------------
(* The call.                                                                   *)

Running(c) == call[c] \in {"scope", "collect"}
SameName(ms) == {d \in ZipCalls : Running(d) /\ root[d] = ms}

\* Time has passed or not.  The directory is made, unless it is there, and the workers
\* are spawned.
ZipBegin(c) ==
    /\ call[c] = "begin"
    /\ call' = [call EXCEPT ![c] = "scope"]
    /\ now' \in now .. LastMillis
    /\ root' = [root EXCEPT ![c] = now']
    /\ dirs' = dirs @@ (now' :> c)
    /\ mixed' = IF SameName(now') = {} THEN mixed ELSE mixed \union SameName(now') \union {c}
    /\ UNCHANGED <<todo, zipworker, spool, spool_cache, results, zip_pending, zip>>

\* The scope ends when its workers have left.
ZipScopeEnds(c) ==
    /\ call[c] = "scope" /\ \A w \in ZipWorkers[c] : zipworker[c][w].at = "gone"
    /\ call' = [call EXCEPT ![c] = "collect"]
    /\ UNCHANGED <<todo, zipworker, spoolVars, results, zip_pending, zip>>

Next_index(c) == zip[c].stats.entries + 1

\* A result is received, while none is there whose turn it is.
ZipReceive(c) ==
    /\ call[c] = "collect" /\ results[c] # <<>>
    /\ \A r \in zip_pending[c] : r.index # Next_index(c)
    /\ zip_pending' = [zip_pending EXCEPT ![c] = @ \union {Head(results[c])}]
    /\ results' = [results EXCEPT ![c] = Tail(@)]
    /\ UNCHANGED <<todo, zipworker, spoolVars, zip, call>>

\* The spool of a result: the file that was opened for an earlier one, or the one that
\* has the name now.
SpoolFile(c, name) == IF name \in DOMAIN spool_cache[c] THEN spool_cache[c][name] ELSE FileAt(name)
Readable(c, r) ==
    /\ r.spool \in DOMAIN spool_cache[c] \/ Linked(r.spool)
    /\ r.spool_offset + r.compressed_size <= Len(spool[SpoolFile(c, r.spool)])

\* The entry whose turn it is: its data is read from the spool.
ZipWriteEntry(c) ==
    /\ call[c] = "collect"
    /\ \E r \in zip_pending[c] :
          /\ r.index = Next_index(c)
          /\ zip_pending' = [zip_pending EXCEPT ![c] = @ \ {r}]
          /\ IF r.ok /\ Readable(c, r)
               THEN LET file == SpoolFile(c, r.spool) IN
                    /\ zip' = [zip EXCEPT ![c] =
                                  WriteEntry(@, [name |-> r.name, crc |-> r.crc, blob |-> r.blob,
                                                 compressed_size |-> r.compressed_size,
                                                 uncompressed_size |-> r.uncompressed_size],
                                             Slice(spool[file], r.spool_offset, r.compressed_size))]
                    /\ spool_cache' = [spool_cache EXCEPT ![c] = (r.spool :> file) @@ @]
                    /\ UNCHANGED call
               ELSE /\ call' = [call EXCEPT ![c] = IF r.ok THEN "unread" ELSE "failed"]
                    /\ UNCHANGED <<zip, spool_cache>>
    /\ UNCHANGED <<todo, zipworker, now, root, dirs, spool, mixed, results>>

\* The spool directory is removed, if it can be and unless there was an error, and the
\* end written.
ZipFinish(c) ==
    /\ call[c] = "collect" /\ results[c] = <<>> /\ zip_pending[c] = {}
    /\ \/ dirs' = [ms \in DOMAIN dirs \ {root[c]} |-> dirs[ms]]
       \/ "remove" \in ZipFaults /\ UNCHANGED dirs
    /\ zip' = [zip EXCEPT ![c] = FinishZip(@)]
    /\ call' = [call EXCEPT ![c] = "ok"]
    /\ UNCHANGED <<todo, zipworker, now, root, spool, spool_cache, mixed, results, zip_pending>>

ZipCall(c) ==
    \/ ZipBegin(c) \/ ZipScopeEnds(c) \/ ZipReceive(c) \/ ZipWriteEntry(c) \/ ZipFinish(c)
    \/ \E w \in ZipWorkers[c] : ZipWorker(c, w)

ZipCompressNext ==
    \/ \E c \in ZipCalls : ZipCall(c)
    \/ (\A c \in ZipCalls : call[c] \in {"ok", "failed", "unread"}) /\ UNCHANGED zipCallVars

ZipCompressSpec == ZipCompressInit /\ [][ZipCompressNext]_zipCallVars

--------------------------------------------------------------------------------
(* Properties.                                                                 *)

\* What a reader of the file finds in its directory: the files in their order, each with
\* its sizes and its chunk index.
Listed(bytes, files) ==
    LET entries == ReadCentral(bytes) IN
    /\ Len(entries) = Len(files)
    /\ \A k \in DOMAIN files :
          /\ entries[k].name = files[k].name /\ entries[k].crc = files[k].raw
          /\ entries[k].uncompressed_size = Len(files[k].raw)
          /\ entries[k].compressed_size = Len(files[k].data)
          /\ entries[k].index = files[k].blob

\* What it finds where the directory says that the data of each is.
ReadsBack(bytes, files) ==
    LET entries == ReadCentral(bytes) IN
    \A k \in DOMAIN files :
        ReadPayload(bytes, entries[k])
            = IF Len(files[k].data) = U32Max THEN ReadError ELSE files[k].data

\* A call that returns without an error has written a ZIP file that lists its files, and
\* whose length is the offset that it counted.  Each of them can be read, whichever worker
\* compressed it, whatever a failed file or a failed call left in a spool and whoever
\* compresses at the same time, and no call misses what its workers spooled: unless two
\* calls ran at the same time that had begun in the same millisecond, which the code does
\* not keep apart.  (A file of 2^32 - 1 compressed bytes cannot be read.)
ZipComplete ==
    \A c \in ZipCalls :
        /\ call[c] = "ok" =>
              /\ Listed(zip[c].out, FilesOf[c])
              /\ c \notin mixed => ReadsBack(zip[c].out, FilesOf[c])
              /\ zip[c].stats = [entries |-> Len(FilesOf[c]), output_bytes |-> Len(zip[c].out),
                                 input_bytes |-> FoldLeft(LAMBDA n, f : n + Len(f.raw), 0, FilesOf[c])]
        /\ call[c] = "unread" => c \in mixed
================================================================================
