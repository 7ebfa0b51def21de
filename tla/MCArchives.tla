------------------------------- MODULE MCArchives -------------------------------
(* What is on disk, for TLC: directories in and out of archives, and the chunks   *)
(* and streams of MCCodecs.  The modules do not share anything, and one run       *)
(* checks them all: the scenario says which one takes its steps.                  *)
EXTENDS PdeflateArchiveReader, PdeflateArchiveWriter, ZipDirectoryCompress,
        ZipDirectoryExtract, MCCodecs

CONSTANTS a, b, t1, t2, m1

VARIABLE scenario

TwoThreads == {t1, t2}
TwoCalls   == {a, b}

File(n) == [kind |-> "file", len |-> n]
Dir     == [kind |-> "dir", len |-> 0]

\* With an empty directory, with files that are longer than the requests that may be
\* open for one, and with one that outlasts what is opened ahead while it is read.
MCDirectories ==
    {<<>>, <<Dir>>, <<File(0), File(3)>>, <<File(5), Dir, File(4), File(2)>>,
     <<File(12), File(4), File(4)>>, <<File(7), File(2), File(1), File(1), File(1)>>}

\* Whole archives, and each cut off, with something behind its end, and with
\* something that is no record.
Archives == {[entries |-> d, bytes |-> ArchiveStream(d)] :
                d \in {<<>>, <<Dir, File(0), File(3)>>, <<File(2), File(2)>>}}
But(s, bytes) == [s EXCEPT !.bytes = bytes]
MCStreams ==
    UNION {LET n == Len(s.bytes) IN
           {s, But(s, SubSeq(s.bytes, 1, 1)), But(s, SubSeq(s.bytes, 1, n - 1)),
            But(s, s.bytes \o ArchiveEnd), But(s, SubSeq(s.bytes, 1, n - 1) \o ArchiveHeader),
            But(s, ArchiveEnd \o s.bytes)} : s \in Archives}

\* Files whose data looks like the end of an archive, and whose indexes go to the
\* area, or into the entry, or are missing; the last is too long by U32Max.
ZipFile(n, raw, data, blob) ==
    [name |-> <<Unit("name", n)>>, raw |-> [i \in 1 .. raw |-> <<n, i>>],
     data |-> [i \in 1 .. data |-> IF i = 1 THEN Unit("eocd", [entries |-> n])
                                   ELSE Unit("data", <<n, i>>)],
     blob |-> [i \in 1 .. blob |-> Unit("blob", <<n, i>>)]]
MCFilesOf ==
    (a :> <<ZipFile(1, 2, 1, 3), ZipFile(2, 4, 1, 4)>>) @@ (b :> <<ZipFile(3, 5, 2, 1)>>)
\* One call has two workers, the other one.
MCZipWorkers == (a :> TwoThreads) @@ (b :> {t1})

\* Damaged, the first decodes to less and the second to more than it declares.
MCExtractTasks ==
    <<[bytes |-> 2, indexed |-> TRUE], [bytes |-> 0, indexed |-> FALSE],
      [bytes |-> 1, indexed |-> TRUE]>>

allVars == <<readerVars, archiveVars, zipCallVars, extractVars, codingVars>>

ArchivesInit ==
    /\ scenario \in {"reader", "writer", "compress", "extract", "codecs"}
    /\ ReaderInit /\ (scenario # "reader" => entries = <<>>)
    /\ ArchiveWriterInit /\ (scenario # "writer" => source = CHOOSE s \in Streams : TRUE)
    /\ ZipCompressInit
    /\ ExtractInit /\ (scenario # "extract" => \A t \in ZipTasks : Sound(t))
    /\ IF scenario = "codecs" THEN CodingInit({"chunk", "stream"}) ELSE CodingInit({"none"})

Others(vars) == UNCHANGED <<scenario, vars>>
InReader(step) ==
    scenario = "reader" /\ step /\ Others(<<archiveVars, zipCallVars, extractVars, codingVars>>)
InWriter(step) ==
    scenario = "writer" /\ step /\ Others(<<readerVars, zipCallVars, extractVars, codingVars>>)
InCompress(step) ==
    scenario = "compress" /\ step /\ Others(<<readerVars, archiveVars, extractVars, codingVars>>)
InExtract(step) ==
    scenario = "extract" /\ step /\ Others(<<readerVars, archiveVars, zipCallVars, codingVars>>)
InCodecs(step) ==
    scenario = "codecs" /\ step /\ Others(<<readerVars, archiveVars, zipCallVars, extractVars>>)

ArchivesNext ==
    \/ InReader(ReaderNext) \/ InWriter(ArchiveWriterNext) \/ InCompress(ZipCompressNext)
    \/ InExtract(ExtractNext) \/ InCodecs(CodingNext)

\* The threads of an extraction go on.
ArchivesSpec ==
    /\ ArchivesInit /\ [][ArchivesNext]_<<scenario, allVars>>
    /\ WF_<<scenario, allVars>>(InWriter(ArchiveMain))
    /\ \A t \in DispatchThreads : WF_<<scenario, allVars>>(InWriter(Dispatch(t)))

\* Whoever extracts an archive with PDeflateArchiveWriter returns, also when it waits
\* for room that only a dispatch thread makes, and whatever fails.
ArchiveExtractReturns == (scenario = "writer") ~> (main \in {"ok", "failed"})
================================================================================
