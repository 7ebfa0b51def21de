-------------------------------- MODULE MCCodecs --------------------------------
(* Instances of PdeflateCodec and of DeflateFormats for TLC.  Both are about one *)
(* file at a time, and coding says which of the two it goes through.             *)
EXTENDS Integers, Sequences, FiniteSets, SequencesExt, FiniteSetsExt, TLC

VARIABLES
    coding,
    chunk_codec, chunk_input, chunk_header, chunk_payload, chunk_damaged, chunk_opened,
    chunk_decoded, chunk_prepared,
    stream_file, stream_members, stream_bits, stream_index, stream_blob, stream_found, stream_cut

chunkVars  == <<chunk_codec, chunk_input, chunk_header, chunk_payload, chunk_damaged,
                chunk_opened, chunk_decoded, chunk_prepared>>
streamVars == <<stream_file, stream_members, stream_bits, stream_index, stream_blob,
                stream_found, stream_cut>>
codingVars == <<coding, chunkVars, streamVars>>

--------------------------------------------------------------------------------
(* PDeflate: chunks of a few blocks that occur again, of up to twenty-eight     *)
(* bytes.                                                                      *)

HashOf(key) == (key[1] + 2 * key[2] + key[3]) % 4
PrintOf(window) == window[1] + Len(window) + window[Len(window)]

Blocks == {<<1>>, <<1, 1, 1, 1>>, <<1, 2, 1, 3, 2>>, <<3, 1, 2>>, <<2, 2, 3, 1, 1, 3, 2>>}
ShortChunks == {FlattenSeq(s) : s \in BoundedSeq(Blocks, 2)}
LongChunks  == {FlattenSeq([k \in 1 .. 4 |-> b]) : b \in Blocks}
                 \union {FlattenSeq(<<b, c, b>>) : b, c \in Blocks}

Options(mode, sections, min_ref, max_ref, probe, entries, entry_len, huffman) ==
    [mode |-> mode, sections |-> sections, min_ref |-> min_ref, max_ref |-> max_ref,
     probe |-> probe, history |-> probe, stride |-> 1, entries |-> entries,
     entry_len |-> entry_len, huffman |-> huffman]

\* Few and many sections, short and long references, with and without entropy codes.
\* References of three bytes, and references that are longer than what a table entry is
\* repeated to, are valid options with which the encoder may leave its table.
ChunkOptions ==
    {Options("ratio", 1, 3, 10, 4, 5, 8, FALSE), Options("balanced", 3, 4, 6, 2, 9, 6, TRUE),
     Options("ratio", 2, 3, 9, 4, 5, 8, TRUE)}
EdgeOptions ==
    {Options("speed", 2, 3, 3, 4, 5, 8, FALSE), Options("ratio", 2, 9, 10, 4, 5, 8, FALSE)}
BadOptions == {Options("ratio", 2, 2, 8, 4, 5, 8, FALSE)}

ChunkHeader(size, name) == [chunk_size |-> 4, size |-> size, name |-> name]
Gpus == {"none", "table", "matches"}
CodecInputs ==
    [chunk : ShortChunks \union LongChunks, options : ChunkOptions, gpu : Gpus,
     header : {ChunkHeader(<<>>, <<>>)}, final : {TRUE}]
    \union [chunk : {<<>>} \union LongChunks, options : EdgeOptions, gpu : {"none"},
            header : {ChunkHeader(<<9>>, <<<<7, 8>>>>)}, final : {FALSE}]
    \union [chunk : {<<1>>}, options : BadOptions \union ChunkOptions, gpu : {"none"},
            header : {ChunkHeader(<<>>, <<<<7, 8, 7>>>>), ChunkHeader(<<9>>, <<>>),
                       ChunkHeader(<<>>, <<<<7>>>>)},
            final : {TRUE}]

Chunk == INSTANCE PdeflateCodec WITH
    codec <- chunk_codec, input <- chunk_input, header <- chunk_header,
    payload <- chunk_payload, damaged <- chunk_damaged, opened <- chunk_opened,
    decoded <- chunk_decoded, prepared <- chunk_prepared,
    LiteralTag <- 7, MaxInlineLen <- 4, ExtLenMax <- 6, RepeatCap <- 8, SolidMatch <- 2,
    ByteFreqMin <- 4, ByteEntries <- 1, MinSeed <- 4, StrideUnit <- 1, SeedSlots <- 3,
    Bucket <- HashOf, Fingerprint <- PrintOf, MaxCodeBits <- 4, RootBits <- 2, Symbols <- 48,
    LutHeaderBytes <- 1, LutEntryBytes <- 0, U16Max <- 2, EntryLenMax <- 9

--------------------------------------------------------------------------------
(* DEFLATE: six literals, lengths of two to four and distances of one to three,  *)
(* in bytes of four bits.                                                       *)

Lits(s)    == [k \in DOMAIN s |-> <<s[k]>>]
Stored(s)  == [kind |-> "stored", items |-> s]
Fixed(s)   == [kind |-> "fixed", items |-> s]
Dynamic(s) == [kind |-> "dynamic", items |-> s]

\* Symbols and copies; a few symbols; and so many of some that a code of its own would
\* be too long.
Mixed  == Lits(<<0, 1, 1, 5>>) \o <<<<7, 0, 0, 0>>, <<8, 1, 1, 1>>>>
Few    == Lits(<<3, 2, 1>>)
Skewed == Lits(<<0, 1, 2, 2, 3, 3, 3, 4, 4, 4, 4, 4>>)

Piece(blocks, backend) == [blocks |-> blocks, backend |-> backend]
OnCpu(blocks) == Piece(blocks, "cpu")
Pieces ==
    {OnCpu(<<Stored(<<9>>)>>), OnCpu(<<Fixed(Mixed), Stored(<<>>)>>),
     OnCpu(<<Dynamic(Few), Dynamic(Mixed)>>), Piece(<<Dynamic(Mixed)>>, "gpu"),
     Piece(<<Dynamic(Few)>>, "gpu"), Piece(<<Dynamic(Few)>>, "gpu_bad"),
     Piece(<<Dynamic(Skewed)>>, "gpu")}

Mode(mode, self_check, validation, every) ==
    [counts |-> {8, every}, stream_batch_chunks |-> 0, gpu_fraction |-> 50,
     gpu_tail_stop_ratio |-> 100, mode |-> mode, gpu_dynamic_self_check |-> self_check,
     gpu_validation |-> validation, sample_every |-> every]
Sampled == Mode("ratio", FALSE, "sample", 2)
Modes   == {Mode("speed", FALSE, "always", 1), Mode("balanced", TRUE, "off", 1),
            Mode("balanced", FALSE, "always", 1), Mode("ratio", TRUE, "off", 1),
            Mode("speed", FALSE, "off", 0)}

StreamFile(chunks, options, damage) ==
    [chunks |-> chunks, chunk_size |-> 8, options |-> options, damage |-> damage]
StreamFiles ==
    {StreamFile(<<>>, Sampled, "none")}
    \union {StreamFile(<<x, y>>, Sampled, "none") : x, y \in Pieces}
    \union {StreamFile(<<x, OnCpu(<<Stored(<<>>)>>), OnCpu(<<Fixed(Mixed)>>)>>, Sampled, "none") :
              x \in Pieces}
    \union {StreamFile(<<OnCpu(<<Fixed(Few)>>), Piece(<<Fixed(Few)>>, backend),
                         Piece(<<Fixed(Mixed)>>, "gpu")>>, mode, "none") :
              backend \in {"gpu", "gpu_bad"}, mode \in Modes}
    \union {StreamFile(<<OnCpu(<<Fixed(Mixed)>>), OnCpu(<<Stored(<<9>>)>>)>>, Sampled, damage) :
              damage \in {"magic", "version", "flags", "table", "short", "table_len", "fewer",
                          "more", "size"}}

LitLengths == [s \in 0 .. 8 |-> IF s < 7 THEN 3 ELSE 4]

Stream == INSTANCE DeflateFormats WITH
    file <- stream_file, members <- stream_members, bits <- stream_bits,
    index <- stream_index, blob <- stream_blob, found <- stream_found, cut <- stream_cut,
    Files <- StreamFiles,
    Byte <- 4, LenBits <- 4, EndOfBlock <- 6, LengthExtra <- <<0, 1>>, DistExtra <- <<0, 1>>,
    LengthBase <- <<2, 3>>, DistBase <- <<1, 2>>,
    FixedLit <- LitLengths, FixedDist <- [s \in 0 .. 3 |-> 2],
    MaxBits <- 4, CodelenMaxBits <- 3, CodelenOrder <- <<5, 6, 7, 0, 2, 3, 1, 4>>,
    HlitBits <- 2, HdistBits <- 2, HclenBits <- 3, CodelenBits <- 2, RunBits <- <<1, 1, 2>>,
    CrcBits <- 8, CrcPoly <- {7, 4, 3}, Radix <- 4, MaxDigits <- 5, Word <- 512,
    HalfWord <- 256, DirectAt <- 2, FlushAt <- 4, BufferCap <- 5

--------------------------------------------------------------------------------
\* Whoever does not go through one of the two has any input for it.
OneChunk  == chunk_input = CHOOSE i \in CodecInputs : i.final
OneStream == stream_file = StreamFile(<<>>, Sampled, "none")

CodingInit(choices) ==
    /\ coding \in choices
    /\ Chunk!CodecInit /\ (coding # "chunk" => OneChunk)
    /\ Stream!FormatInit /\ (coding # "stream" => OneStream)

CodingNext ==
    /\ UNCHANGED coding
    /\ \/ coding = "chunk" /\ Chunk!CodecNext /\ UNCHANGED streamVars
       \/ coding = "stream" /\ Stream!FormatsNext /\ UNCHANGED chunkVars

CodingSpec == CodingInit({"chunk", "stream"}) /\ [][CodingNext]_codingVars

--------------------------------------------------------------------------------
\* What is written is what is read again: a PDeflate chunk with its header (see
\* ChunkExact); a DEFLATE stream of several chunks as one, and each of them by the index
\* (see StreamExact and EntriesExact).
CodecsExact ==
    /\ coding = "chunk" => Chunk!ChunkExact
    /\ coding = "stream" => Stream!StreamExact /\ Stream!EntriesExact

\* No change to a payload makes the two readers of PDeflate disagree or lose bytes (see
\* ReadersAgree), and an index that is not as it was written is refused (see IndexSound).
DamageSeen ==
    /\ coding = "chunk" => Chunk!ReadersAgree
    /\ coding = "stream" => Stream!IndexSound

\* A call whose options pass validation compresses (see Chunk!ValidOptionsEncode); the
\* options' errors name the bounds: "max_ref_len must be in min_ref_len..=270".
ValidOptionsEncode == coding = "chunk" => Chunk!ValidOptionsEncode
================================================================================
