------------------------------ MODULE DeflateFormats ------------------------------
(* What the chunks of one file look like to the deflate stage of cozip_deflate, *)
(* bit by bit, from the compressed chunk to the index and back: each chunk is   *)
(* compressed alone (compress_chunk_cpu, compress_chunk_gpu_batch), the writer  *)
(* joins the streams to one and notes where each chunk is                       *)
(* (deflate_compress_stream_hybrid), the index is encoded and decoded, and a    *)
(* chunk is cut out of the stream again (prepare_indexed_chunk_for_decode).     *)
(*                                                                             *)
(* Which thread does what and when is the subject of DeflateCompress and of     *)
(* DeflateIndexedDecode; here the steps are those of one chunk in its turn.     *)
EXTENDS DeflateBits

CONSTANTS
    Files,              \* the inputs, see StreamFile
    LengthBase, DistBase,   \* what the symbols of lengths and distances stand for
    DirectAt, FlushAt, BufferCap   \* 16, 32 and 64 KiB: the thresholds of the bit writer

(* A file is a sequence of chunks, a chunk a sequence of blocks, and how it is   *)
(* compressed: kind "stored" with bytes, "fixed" or "dynamic" with items, which  *)
(* are literals <<symbol>> or copies <<symbol, extra, distance symbol, extra>>.  *)
(* backend "cpu" is the encoder of flate2, whose blocks are as they please;      *)
(* "gpu" has one block, "gpu_bad" an encoding that is not the chunk's, and what  *)
(* was too large for the device came back as the CPU's: "cpu" again.  damage:    *)
(* what happens to the encoded index.  The options are those of HybridOptions    *)
(* that matter here, and all that it wants to be positive in counts.             *)

--------------------------------------------------------------------------------
VARIABLES
    file,      \* the input, one of Files, which does not change
    members,   \* the compressed chunks so far
    bits,      \* the stream: written, buffered, and the bits of a byte that is not full
    index,     \* the entries of the chunks that are written
    blob,      \* the encoded index
    found,     \* the decoded index
    cut        \* the chunks that are cut out with its help

formatVars == <<file, members, bits, index, blob, found, cut>>

Failed    == [ok |-> FALSE]
NotYet    == <<>>
Empty     == [written |-> <<>>, buffer |-> <<>>, partial |-> <<>>]
Chunks    == DOMAIN file.chunks

FormatInit ==
    /\ file \in Files
    /\ members = NotYet /\ bits = Empty /\ index = NotYet
    /\ blob = NotYet /\ found = NotYet /\ cut = NotYet

--------------------------------------------------------------------------------
(* External: an encoder of blocks, and the decoder of flate2.                   *)

Item(item, lit, dist) ==
    IF Len(item) = 1 THEN lit[item[1]]
    ELSE lit[item[1]] \o BitsOf(item[2], LengthExtra[item[1] - EndOfBlock])
         \o dist[item[3]] \o BitsOf(item[4], DistExtra[item[3] + 1])
Items(items, lit, dist) ==
    FlattenSeq([k \in DOMAIN items |-> Item(items[k], lit, dist)]) \o lit[EndOfBlock]

Frequencies(items, alphabet, place) ==
    [s \in alphabet |-> Cardinality({k \in DOMAIN items :
                          Len(items[k]) >= place /\ items[k][place] = s})]
PlanOf(items) == DynamicPlan(Frequencies(items, DOMAIN FixedLit, 1),
                             Frequencies(items, DOMAIN FixedDist, 3))

Dynamic(items, plan) == Tail(plan.header) \o Items(items, plan.lit, plan.dist)

\* The encoder of flate2 says of every block whether it is the last, and has a way out
\* where codes of its own get too long.
Block(block, last, used) ==
    CASE block.kind = "stored" ->
           <<last, 0, 0>> \o Zeros(Pad(used + 3)) \o BitsOf(Len(block.items), LenBits)
           \o BitsOf(2 ^ LenBits - 1 - Len(block.items), LenBits)
           \o FlattenSeq([k \in DOMAIN block.items |-> BitsOf(block.items[k], Byte)])
      [] block.kind = "dynamic" /\ PlanOf(block.items).ok ->
           <<last>> \o Dynamic(block.items, PlanOf(block.items))
      [] OTHER ->
           <<last, 1, 0>> \o Items(block.items, CanonicalCodes(FixedLit), CanonicalCodes(FixedDist))
Encoded(blocks) ==
    FoldLeftDomain(LAMBDA out, k : out \o Block(blocks[k], IF k = Len(blocks) THEN 1 ELSE 0, Len(out)),
                   <<>>, blocks)

\* Bytes that a copy repeats.
RECURSIVE Copied(_, _, _)
Copied(out, length, distance) ==
    IF length = 0 THEN out
    ELSE Copied(Append(out, out[Len(out) - distance + 1]), length - 1, distance)
Repeats(out, item) ==
    Copied(out, LengthBase[item[1] - EndOfBlock] + item[2], DistBase[item[3] + 1] + item[4])
RawOf(blocks) ==
    FoldLeft(LAMBDA out, b :
               IF b.kind = "stored" THEN out \o b.items
               ELSE FoldLeft(LAMBDA o, item : IF Len(item) = 1 THEN Append(o, item[1])
                                              ELSE Repeats(o, item), out, b.items),
             <<>>, blocks)

NoBytes == <<Error>>
RECURSIVE InflateCodes(_, _, _, _, _)
InflateCopy(stream, read, d, lit, dist, out) ==
    LET item == <<read[1], Field(stream, read[2], LengthExtra[read[1] - EndOfBlock]), d[1],
                  Field(stream, d[2], DistExtra[d[1] + 1])>>
    IN IF DistBase[d[1] + 1] + item[4] > Len(out) THEN NoBytes
       ELSE InflateCodes(stream, d[2] + DistExtra[d[1] + 1], lit, dist, Repeats(out, item))
InflateSymbol(stream, read, lit, dist, out) ==
    LET kind == read[1] - EndOfBlock IN
    IF kind < 0 THEN InflateCodes(stream, read[2], lit, dist, Append(out, read[1]))
    ELSE IF kind = 0 THEN out
    ELSE InflateCopy(stream, read, SymbolAt(stream, read[2] + LengthExtra[kind], dist),
                     lit, dist, out)
InflateCodes(stream, pos, lit, dist, out) ==
    InflateSymbol(stream, SymbolAt(stream, pos, lit), lit, dist, out)

InflateStored(stream, from, out) ==
    out \o [k \in 1 .. Field(stream, from, LenBits) |->
              Field(stream, from + 2 * LenBits + (k - 1) * Byte, Byte)]
InflateTrees(stream, trees, out) == InflateCodes(stream, trees.pos, trees.lit, trees.dist, out)
InflateBlock(stream, pos, out) ==
    CASE Field(stream, pos + 1, 2) = 0 -> InflateStored(stream, pos + 3 + Pad(pos + 3), out)
      [] Field(stream, pos + 1, 2) = 1 -> InflateCodes(stream, pos + 3, FixedLit, FixedDist, out)
      [] OTHER -> InflateTrees(stream, ReadTrees(stream, pos + 3), out)

RECURSIVE InflateFrom(_, _, _)
InflateBehind(stream, pos, next, more) ==
    IF next = Error \/ more = NoBytes THEN NoBytes
    ELSE IF stream[pos + 1] = 1 THEN more ELSE InflateFrom(stream, next, more)
InflateFrom(stream, pos, out) ==
    InflateBehind(stream, pos, SkipBlock(stream, pos), InflateBlock(stream, pos, out))
Inflate(stream) == InflateFrom(stream, 0, <<>>)

--------------------------------------------------------------------------------
(* A slip: a definition below as a plausible mistake would write it.           *)

\* The entry begins where the chunk does, and its last header is counted from there.
EntryOfBare(start, connector, member, end) ==
    Entry(start, end - start, member.layout.final_header_bit, member.raw_len)

--------------------------------------------------------------------------------
(* The options.  Shares of the whole are in percent.                            *)

validate_options(o) ==
    /\ \A n \in o.counts : n > 0
    /\ o.stream_batch_chunks = 0
    /\ {o.gpu_fraction, o.gpu_tail_stop_ratio} \subseteq 0 .. 100

\* Which of the GPU's chunks are inflated and compared with the input.
should_validate_gpu_chunk(o, chunk_index) ==
    /\ o.mode # "speed" /\ ~(o.mode = "ratio" /\ o.gpu_dynamic_self_check)
    /\ \/ o.gpu_validation = "always"
       \/ o.gpu_validation = "sample" /\ chunk_index % o.sample_every = 0

\* In the ratio mode the GPU's own path may do it.
SelfCheck  == file.options.mode = "ratio" /\ file.options.gpu_dynamic_self_check
Checked(c) == should_validate_gpu_chunk(file.options, c - 1)

--------------------------------------------------------------------------------
(* Compressing a chunk.                                                        *)

Member(backend, chunk, compressed, layout) ==
    [ok |-> layout # NoLayout, gpu |-> backend = "gpu", raw_len |-> Len(RawOf(chunk.blocks)),
     compressed |-> Padded(compressed), layout |-> layout, prepared |-> 0]

CpuMember(chunk, compressed) == Member("cpu", chunk, compressed, Layout(compressed))
compress_chunk_cpu(chunk)    == CpuMember(chunk, Encoded(chunk.blocks))

\* The kernel's block, and where it ends.
GpuStream(chunk) ==
    Encoded(IF chunk.backend = "gpu_bad" THEN <<[chunk.blocks[1] EXCEPT !.items = <<>>]>>
            ELSE chunk.blocks)
WithLayout(chunk, compressed, end) ==
    Member("gpu", chunk, compressed, [ok |-> TRUE, final_header_bit |-> 0, end_bit |-> end])
Differs(chunk, compressed) == Inflate(compressed) # RawOf(chunk.blocks)

\* The GPU's own check takes the bytes of the CPU and leaves the end where it was; the
\* caller's check makes it a chunk of the CPU.
GpuMember(chunk, checked, compressed) ==
    IF SelfCheck /\ Differs(chunk, compressed)
      THEN WithLayout(chunk, Encoded(chunk.blocks), Len(compressed))
    ELSE IF checked /\ Differs(chunk, compressed) THEN compress_chunk_cpu(chunk)
    ELSE WithLayout(chunk, compressed, Len(compressed))
compress_chunk_gpu(chunk, checked) == GpuMember(chunk, checked, GpuStream(chunk))

\* A stored block without bytes, which ends with a byte.
EmptyBlock(used) ==
    Zeros(3) \o Zeros(Pad(used + 3)) \o Zeros(LenBits) \o [k \in 1 .. LenBits |-> 1]

prepare_chunk_bits_for_non_final_stream(compressed, layout) ==
    LET kept == SubSeq(compressed, 1, layout.end_bit)
        open == [kept EXCEPT ![layout.final_header_bit + 1] = 0]
    IN IF layout.end_bit > Len(compressed) THEN NoBytes
       ELSE open \o IF layout.end_bit % Byte = 0 THEN <<>> ELSE EmptyBlock(layout.end_bit)

WithEnd(member, compressed) ==
    IF compressed = NoBytes THEN [member EXCEPT !.ok = FALSE]
    ELSE [member EXCEPT !.compressed = Padded(compressed), !.prepared = Len(compressed)]
Prepared(member) ==
    IF member.gpu /\ member.ok
      THEN WithEnd(member,
                   prepare_chunk_bits_for_non_final_stream(member.compressed, member.layout))
    ELSE member

\* A plan that fails, for any chunk of the batch, sends the whole batch to the CPU.
OnGpu(chunk)  == chunk.backend # "cpu"
BatchFails    ==
    \E c \in Chunks : LET block == file.chunks[c].blocks[1] IN
       OnGpu(file.chunks[c]) /\ block.kind = "dynamic" /\ ~PlanOf(block.items).ok

CompressChunk ==
    LET c     == Len(members) + 1
        chunk == file.chunks[c]
    IN
    /\ validate_options(file.options) /\ c <= Len(file.chunks)
    /\ members' = Append(members,
                    Prepared(IF OnGpu(chunk) /\ ~BatchFails THEN compress_chunk_gpu(chunk, Checked(c))
                             ELSE compress_chunk_cpu(chunk)))
    /\ UNCHANGED <<file, bits, index, blob, found, cut>>

--------------------------------------------------------------------------------
(* The bit writer, whose buffer is in whole bytes.                             *)

Bytes(s) == Len(s) \div Byte
total_bits(w) == Len(w.written) + Len(w.buffer) + Len(w.partial)

Flushed(w)   == [w EXCEPT !.written = @ \o w.buffer, !.buffer = <<>>]
FlushFull(w) == IF Bytes(w.buffer) >= FlushAt THEN Flushed(w) ELSE w

EmitByte(w, byte) == FlushFull([w EXCEPT !.buffer = @ \o byte])

\* Many bytes go past an empty buffer.
EmitBytes(w, bytes) ==
    LET direct(v) == [v EXCEPT !.written = @ \o bytes]
        room      == IF Bytes(w.buffer) + Bytes(bytes) > BufferCap THEN Flushed(w) ELSE w
    IN IF bytes = <<>> THEN w
       ELSE IF Bytes(bytes) >= DirectAt /\ room.buffer = <<>> THEN direct(room)
       ELSE FlushFull([room EXCEPT !.buffer = @ \o bytes])

WriteBit(w, bit) ==
    LET partial == Append(w.partial, bit) IN
    IF Len(partial) = Byte THEN EmitByte([w EXCEPT !.partial = <<>>], partial)
    ELSE [w EXCEPT !.partial = partial]

\* What is left of a byte that begins within another one begins the next.
WriteByteBits(w, byte) ==
    LET merged == w.partial \o byte IN
    EmitByte([w EXCEPT !.partial = SubSeq(merged, Byte + 1, Len(merged))], SubSeq(merged, 1, Byte))

RECURSIVE WriteBits(_, _, _, _)
WriteBits(w, src, at, n) ==
    LET whole == n - (n % Byte) IN
    IF n = 0 THEN w
    ELSE IF w.partial = <<>> /\ at % Byte = 0 /\ n >= Byte
      THEN WriteBits(EmitBytes(w, SubSeq(src, at + 1, at + whole)), src, at + whole, n - whole)
    ELSE IF n >= Byte
      THEN WriteBits(WriteByteBits(w, SubSeq(src, at + 1, at + Byte)), src, at + Byte, n - Byte)
    ELSE WriteBits(WriteBit(w, src[at + 1]), src, at + 1, n - 1)

FinishBits(w) ==
    Flushed(IF w.partial = <<>> THEN w
            ELSE EmitByte([w EXCEPT !.partial = <<>>], Padded(w.partial)))

--------------------------------------------------------------------------------
(* The writer.                                                                 *)

WithFinal(w, chunk, layout, final) ==
    LET f == layout.final_header_bit IN
    IF layout.end_bit = 0 THEN w
    ELSE IF chunk[f + 1] = final THEN WriteBits(w, chunk, 0, layout.end_bit)
    ELSE WriteBits(WriteBit(WriteBits(w, chunk, 0, f), final), chunk, f + 1, layout.end_bit - f - 1)

RECURSIVE Connected(_)
Connected(w) == IF w.partial = <<>> THEN w ELSE Connected(WriteBit(w, 0))
Connector(w) ==
    LET header == WriteBit(WriteBit(WriteBit(w, 0), 0), 0)
        one    == [k \in 1 .. Byte |-> 1]
        Fill(v, byte) == FoldLeft(LAMBDA u, k : WriteByteBits(u, byte), v,
                                  [k \in 1 .. LenBits \div Byte |-> k])
    IN Fill(Fill(Connected(header), Zeros(Byte)), one)

EntryOf(start, connector, member, end) ==
    Entry(start, end - start, connector + member.layout.final_header_bit, member.raw_len)

\* A chunk in its turn: the last one alone keeps the mark of the last block.
WriteChunk ==
    LET m     == members[Len(index) + 1]
        last  == Len(index) + 1 = Len(members)
        start == total_bits(bits)
        w     == IF index # <<>> /\ bits.partial # <<>> THEN Connector(bits) ELSE bits
        next  == IF m.prepared # 0 /\ ~last THEN WriteBits(w, m.compressed, 0, m.prepared)
                 ELSE WithFinal(w, m.compressed, m.layout, IF last THEN 1 ELSE 0)
    IN /\ Len(members) = Len(file.chunks) /\ Len(index) < Len(members) /\ m.ok
       /\ bits' = next
       /\ index' = Append(index, EntryOf(start, total_bits(w) - start, m, total_bits(next)))
       /\ UNCHANGED <<file, members, blob, found, cut>>

\* The end of the stream, an empty one where there was no chunk, and its index.
Written == Len(index) = Len(file.chunks) /\ validate_options(file.options)
EmptyStream == Encoded(<<[kind |-> "fixed", items |-> <<>>]>>)
Finish ==
    LET last == IF index # <<>> THEN bits
                ELSE WithFinal(bits, Padded(EmptyStream), Layout(EmptyStream), 1)
    IN /\ Written /\ blob = NotYet
       /\ bits' = FinishBits(last)
       /\ blob' = IF index = <<>> THEN NoBlob
                  ELSE encode_czdi_v1(
                         [chunk_size |-> file.chunk_size, chunk_count |-> Len(index),
                          uncompressed_size |->
                            FoldLeftDomain(LAMBDA n, k : n + index[k].raw_len, 0, index),
                          compressed_size |-> Bytes(bits'.written), entries |-> index])
       /\ UNCHANGED <<file, members, index, found, cut>>

--------------------------------------------------------------------------------
(* Reading with the index.                                                     *)

\* External: what happened to the index since it was written.
Touched(b) ==
    CASE file.damage = "magic"   -> [b EXCEPT !.magic = FALSE]
      [] file.damage = "version" -> [b EXCEPT !.version = FALSE]
      [] file.damage = "flags"   -> [b EXCEPT !.varint = FALSE]
      [] file.damage = "table"   -> [b EXCEPT !.table[1] = (@ + 1) % (2 * Radix)]
      [] file.damage = "short"   -> [b EXCEPT !.table = Tail(@)]
      [] file.damage = "table_len" -> [b EXCEPT !.table_len = @ - 1]
      [] file.damage = "fewer"   -> [b EXCEPT !.chunk_count = @ - 1]
      [] file.damage = "more"    -> [b EXCEPT !.chunk_count = @ + 1]
      [] file.damage = "size"    -> [b EXCEPT !.compressed_size = @ + 1]
      [] OTHER -> b

ReadIndex ==
    /\ blob # NotYet /\ found = NotYet
    /\ found' = IF blob.ok THEN decode_czdi_v1(Touched(blob)) ELSE NoIndex
    /\ UNCHANGED <<file, members, bits, index, blob, cut>>

\* Where a chunk does not begin with a byte it begins with a connector, whose length
\* follows from the place.
ConnectorBits(start) ==
    IF start % Byte = 0 THEN 0 ELSE 3 + Pad((start % Byte) + 3) + 2 * LenBits

FirstStream(marked, layout, raw_len) ==
    IF ~layout.ok THEN Failed
    ELSE [ok |-> TRUE, chunk |-> Padded(SubSeq(marked, 1, layout.end_bit)), expected_len |-> raw_len]
Marked(stream, start, len, final) ==
    [Padded(SubSeq(stream, start + 1, start + len)) EXCEPT ![final + 1] = 1]
ParsedFirst(marked, raw_len) == FirstStream(marked, Layout(marked), raw_len)
prepare_indexed_chunk_for_decode(stream, entry) ==
    LET skip  == ConnectorBits(entry.comp_bit_off)
        start == entry.comp_bit_off + skip
        len   == entry.comp_bit_len - skip
        final == entry.final_header_rel_bit - skip
    IN IF entry.comp_bit_len = 0 \/ final < 0 \/ final >= len \/ start + len > Len(stream)
         THEN Failed
       ELSE ParsedFirst(Marked(stream, start, len, final), entry.raw_len)

\* A chunk is as long as its entry says.  The CRC of what is read so far follows from that
\* of the chunk.
ChunkOf(raw, expected_len) ==
    IF raw = NoBytes \/ Len(raw) # expected_len THEN Failed
    ELSE [ok |-> TRUE, raw |-> raw,
          crc |-> IF cut = <<>> THEN Crc(raw)
                  ELSE crc32_combine(cut[Len(cut)].crc, Crc(raw), Len(raw))]
Decoded(prepared) ==
    IF prepared.ok THEN ChunkOf(Inflate(prepared.chunk), prepared.expected_len) ELSE Failed

ReadChunk ==
    /\ found # NotYet /\ found.ok /\ Len(cut) < found.chunk_count
    /\ \A k \in DOMAIN cut : cut[k].ok
    /\ cut' = Append(cut, Decoded(prepare_indexed_chunk_for_decode(
                                    bits.written, found.entries[Len(cut) + 1])))
    /\ UNCHANGED <<file, members, bits, index, blob, found>>

\* A file whose options are refused stays as it is.
FormatsDone ==
    /\ \/ ~validate_options(file.options)
       \/ \E m \in DOMAIN members : ~members[m].ok
       \/ /\ found # NotYet
          /\ IF found.ok THEN Len(cut) = found.chunk_count \/ \E k \in DOMAIN cut : ~cut[k].ok ELSE TRUE
    /\ UNCHANGED formatVars

FormatsNext ==
    CompressChunk \/ WriteChunk \/ Finish \/ ReadIndex \/ ReadChunk \/ FormatsDone

--------------------------------------------------------------------------------
(* Properties.                                                                 *)

Raw == FlattenSeq([c \in Chunks |-> RawOf(file.chunks[c].blocks)])

\* No chunk is a kernel's mistake that nobody checked, or that the GPU's own check found:
\* the bytes that it takes from the CPU then have the end of the kernel's.
Sound == \A c \in Chunks : file.chunks[c].backend = "gpu_bad" => Checked(c)

\* The stream that the writer leaves is one that any reader inflates to the input, it
\* ends with the last block, whatever the chunks ended with, and nothing follows but the
\* rest of a byte.
StreamExact ==
    (blob # NotYet /\ Sound) =>
        /\ Inflate(bits.written) = Raw
        /\ Padded(SubSeq(bits.written, 1, Layout(bits.written).end_bit)) = bits.written

\* With the index every chunk comes out of the stream alone, as long and with the bytes
\* it had, and the checksum of the whole follows from those of the chunks.
EntriesExact ==
    (Sound /\ cut # NotYet) =>
        /\ cut[Len(cut)].ok /\ cut[Len(cut)].raw = RawOf(file.chunks[Len(cut)].blocks)
        /\ cut[Len(cut)].crc = Crc(FlattenSeq([c \in 1 .. Len(cut) |-> RawOf(file.chunks[c].blocks)]))

\* An index that is accepted has the entries that were written, and one that nothing
\* happened to is accepted.  Only the sizes are not covered by anything.
IndexSound ==
    found # NotYet =>
        /\ found.ok <=> blob.ok /\ file.damage \in {"none", "size"}
        /\ ~found.ok \/ found.entries = index
================================================================================
