------------------------------ MODULE PdeflateChunk ------------------------------
(* The PDeflate chunk: the table of strings that occur again, the sections of  *)
(* commands that refer to it, the entropy stage, the payload with its offsets, *)
(* and the two readers of a payload, the decoder and the preparation for the   *)
(* GPU.                                                                        *)
(*                                                                             *)
(* The bytes of a chunk are small numbers.  The sixteen bits of a command's    *)
(* header are one number, and so is each number of the tables: the lengths of  *)
(* what is stored count these.  The widths and the thresholds of the code are  *)
(* constants, so that every one of them is met by a chunk of a few bytes.      *)
EXTENDS PdeflateHuffman

CONSTANTS
    LiteralTag,      \* LITERAL_TAG: the tag of literals, one above the last table id
    MaxInlineLen,    \* MAX_INLINE_LEN: the longest command without a byte for its length
    ExtLenMax,       \* EXT_LEN_MAX: the largest number in that byte
    RepeatCap,       \* the length to which table entries are repeated, 64
    SolidMatch,      \* a match from which fewer candidates are tried, 16
    ByteFreqMin,     \* how often a byte occurs that is an entry of its own, 8
    ByteEntries,     \* how many of these there are, 64
    MinSeed,         \* the shortest match that makes an entry, 6
    StrideUnit,      \* the distance of the positions looked at, in strides, 8
    SeedSlots,       \* how many candidates for entries are kept
    Bucket(_),       \* the hash of three bytes
    Fingerprint(_),  \* the hash of a window
    MaxCodeBits,     \* HUFF_MAX_CODE_BITS
    RootBits,        \* HUFF_LUT_ROOT_BITS_DEFAULT
    Symbols,         \* the values of a stored number, 256
    LutHeaderBytes, LutEntryBytes    \* what a lookup table costs: 12 bytes and 4 each

MaxCmdLen  == MaxInlineLen + 1 + ExtLenMax
HeaderSize == 36
LenUnit    == LiteralTag + 1      \* what one more byte adds to a command's header

\* What an index out of bounds gives: the thread that encodes panics.
Panicked  == <<-2>>
NoPayload == [magic |-> "none"]

Least(a, b) == IF a < b THEN a ELSE b

--------------------------------------------------------------------------------
(* The table.                                                                  *)

\* The stride, the candidates and the history, by the mode.
Tuned(opt) ==
    CASE opt.mode = "speed" ->
           [opt EXCEPT !.stride = @ * 4, !.probe = Least(@, 8), !.history = Least(@, 8),
                       !.entries = Least(@, 128), !.entry_len = Least(@, 24)]
      [] opt.mode = "balanced" ->
           [opt EXCEPT !.stride = @ * 2, !.probe = Least(@, 12), !.history = Least(@, 12),
                       !.entries = Least(@, 192), !.entry_len = Least(@, 28)]
      [] OTHER -> opt

\* How far two places of a chunk agree, up to a limit.
MatchLen(chunk, p, q, limit) ==
    Max({n \in 0 .. Least(limit, Len(chunk) - q) :
           \A k \in 0 .. n - 1 : chunk[p + k + 1] = chunk[q + k + 1]})

EntryLen(len, limit) == Max({1} \union {v \in {2, 3, 4, 6, 8, 12, 16, 24, 32} : v <= len /\ v <= limit})

Key(chunk, i) == SubSeq(chunk, i + 1, i + 3)

\* The lengths of the matches of a place with those before it in its bucket, as many
\* as the history and the probes allow, up to the first that is as long as an entry.
Seeds(chunk, opt, i, samples) ==
    LET min    == Max({opt.min_ref, MinSeed})
        chain  == Reverse(SelectSeq(samples, LAMBDA p : Bucket(Key(chunk, p)) = Bucket(Key(chunk, i))))
        tried  == SubSeq(chain, 1, Least(Len(chain), Max({1, Least(opt.history, opt.probe)})))
        Hit(p) == /\ Key(chunk, p) = Key(chunk, i)
                  /\ i + 3 < Len(chunk) => chunk[p + 4] = chunk[i + 4]
                  /\ MatchLen(chunk, p, i, opt.entry_len) >= min
        hits   == SelectSeq(tried, Hit)
        lens   == [k \in DOMAIN hits |-> MatchLen(chunk, hits[k], i, opt.entry_len)]
        full   == {k \in DOMAIN lens : lens[k] = opt.entry_len}
    IN IF full = {} THEN lens ELSE SubSeq(lens, 1, Min(full))

\* A window has four slots it may be in: it raises its score in the one it is in, or
\* takes one that is free, or takes the place of the least.
PlaceAt(window, gain, kept, at, free) ==
    LET new == kept.slots[at].window # window IN
    IF new /\ ~free /\ gain <= kept.slots[at].score THEN kept
    ELSE [slots |-> [kept.slots EXCEPT ![at] =
                       [window |-> window, score |-> (IF new THEN 0 ELSE @.score) + gain]],
          used  |-> IF new /\ free THEN Append(kept.used, at) ELSE kept.used]

PlaceIn(window, gain, kept, slot) ==
    LET Score(j) == kept.slots[slot[j]].score
        fits     == {j \in 1 .. 4 : kept.slots[slot[j]].window \in {<<>>, window}}
        least    == CHOOSE j \in 1 .. 4 : /\ \A k \in 1 .. 4 : Score(j) <= Score(k)
                                          /\ \A k \in 1 .. j - 1 : Score(j) < Score(k)
    IN PlaceAt(window, gain, kept, slot[Min(IF fits # {} THEN fits ELSE {least})], fits # {})

PlaceWindow(window, gain, kept) ==
    PlaceIn(window, gain, kept, [j \in 1 .. 4 |-> (Fingerprint(window) + j - 1) % SeedSlots])
Place(chunk, opt, i, kept, len) ==
    PlaceWindow(SubSeq(chunk, i + 1, i + EntryLen(len, opt.entry_len)), len - 2, kept)

\* The chunk is looked through in strides, and in leaps over what matched at length.
RECURSIVE Scan(_, _, _, _, _)
Placed(chunk, opt, i, lens, kept) ==
    FoldLeft(LAMBDA k, len : Place(chunk, opt, i, k, len), kept, lens)
ScanOn(chunk, opt, i, samples, lens, kept) ==
    LET best == Max({0} \union ToSet(lens))
        step == Max({1, opt.stride * StrideUnit,
                     IF best >= 2 * Max({opt.min_ref, MinSeed}) THEN best ELSE 0})
    IN Scan(chunk, opt, i + step, Append(samples, i), Placed(chunk, opt, i, lens, kept))
Scan(chunk, opt, i, samples, kept) ==
    IF i + 2 >= Len(chunk) THEN kept
    ELSE ScanOn(chunk, opt, i, samples, Seeds(chunk, opt, i, samples), kept)

Occurs(chunk, b) == Cardinality({k \in DOMAIN chunk : chunk[k] = b})

\* Bytes that occur often, the most frequent first.
ByteTable(chunk) ==
    LET often     == {b \in ToSet(chunk) : Occurs(chunk, b) >= ByteFreqMin}
        More(b, c) == Occurs(chunk, b) > Occurs(chunk, c)
                      \/ (Occurs(chunk, b) = Occurs(chunk, c) /\ b < c)
        sorted    == SetToSortSeq(often, More)
    IN [k \in 1 .. Least(ByteEntries, Len(sorted)) |-> <<sorted[k]>>]

\* Then the windows by their scores, the longer first and the older among equals, each
\* once, until the table is full.
ByScore(kept, cap, bytes) ==
    LET slotOf(k) == kept.slots[kept.used[k]]
        First(j, k) ==
            \/ slotOf(j).score > slotOf(k).score
            \/ /\ slotOf(j).score = slotOf(k).score
               /\ \/ Len(slotOf(j).window) > Len(slotOf(k).window)
                  \/ Len(slotOf(j).window) = Len(slotOf(k).window) /\ j < k
        Add(table, k) == IF Len(table) = cap \/ slotOf(k).window \in ToSet(table) THEN table
                         ELSE Append(table, slotOf(k).window)
    IN FoldLeft(Add, SubSeq(bytes, 1, Least(cap, Len(bytes))), SetToSortSeq(DOMAIN kept.used, First))

TunedTable(chunk, opt) ==
    ByScore(Scan(chunk, opt, 0, <<>>,
                 [slots |-> [n \in 0 .. SeedSlots - 1 |-> [window |-> <<>>, score |-> 0]],
                  used |-> <<>>]),
            Least(opt.entries, LiteralTag - 1), ByteTable(chunk))
BuildTable(chunk, options) ==
    IF Len(chunk) < 3 THEN <<>> ELSE TunedTable(chunk, Tuned(options))

TableIndex(table) == [k \in DOMAIN table |-> Len(table[k])]
TableData(table)  == FlattenSeq(table)

\* A table again from its lengths and its bytes; an entry without bytes is left out.
Materialize(index, data) ==
    LET From(k) == FoldLeft(+, 0, SubSeq(index, 1, k - 1))
        entry   == [k \in DOMAIN index |-> SubSeq(data, From(k) + 1, From(k) + index[k])]
    IN SelectSeq(entry, LAMBDA e : e # <<>>)

--------------------------------------------------------------------------------
(* Matches.  An entry stands for itself repeated without end.                  *)

Rep(entry, k) == entry[((k - 1) % Len(entry)) + 1]

\* The repeated entry is stored up to this length.
RepLen(opt) == Max({1, Least(Least(opt.max_ref, MaxCmdLen), RepeatCap)})

Agree(entry, rest, limit) ==
    Max({n \in 0 .. limit : \A k \in 1 .. n : Rep(entry, k) = rest[k]})

\* The entries that begin with the next two bytes, the longest first.
Candidates(table, rest) ==
    SetToSortSeq({id \in DOMAIN table : Rep(table[id], 1) = rest[1] /\ Rep(table[id], 2) = rest[2]},
                 LAMBDA i, j : \/ Len(table[i]) > Len(table[j])
                               \/ Len(table[i]) = Len(table[j]) /\ i < j)

\* Whether the index of the beginnings has the next two bytes, and the third if there is one.
Indexed(table, rest) ==
    /\ Len(rest) >= 2
    /\ \E id \in DOMAIN table :
          \A k \in 1 .. 2 : Rep(table[id], k) = rest[k]
    /\ Len(rest) >= 3 => \E id \in DOMAIN table :
          \A k \in 1 .. 3 : Rep(table[id], k) = rest[k]

\* The bytes of an entry that are compared before anything else, and how many of them
\* agree.
Anchors(entry, rest) ==
    LET n == Least(4, Len(entry)) IN
    Max({m \in 0 .. n : \A k \in 1 .. m : k <= Len(rest) /\ Rep(entry, k) = rest[k]})
Anchored(entry, rest) == Anchors(entry, rest) = Least(4, Len(entry))

\* The fourth is looked for in the repeated entry even when that is shorter.
AnchorPanics(entry, rest, opt) ==
    /\ RepLen(opt) < Least(4, Len(entry)) /\ Len(rest) > RepLen(opt)
    /\ Anchors(entry, rest) >= RepLen(opt)

\* One candidate: it is passed over when its anchors do not agree, or the byte that
\* would make it longer than the best, or the last bytes of the best.
TryCandidate(table, rest, opt, best, id) ==
    LET e       == table[id]
        longest == Least(Len(rest), Least(opt.max_ref, MaxCmdLen))
        n       == Agree(e, rest, Least(longest, RepLen(opt)))
        worse   == \/ ~Anchored(e, rest)
                   \/ best.len + 1 < longest /\ Rep(e, best.len + 1) # rest[best.len + 1]
                   \/ /\ best.len >= opt.min_ref
                      /\ \E k \in {best.len - 1, best.len} : k > 0 /\ Rep(e, k) # rest[k]
        better  == n >= opt.min_ref /\ (n > best.len
                      \/ (n = best.len /\ best.id # 0 /\ Len(e) < Len(table[best.id])))
        next    == IF better THEN [best EXCEPT !.id = id, !.len = n] ELSE best
        tried   == best.tried + 1
        enough  == \/ better /\ n = longest
                   \/ next.len >= 4 * SolidMatch
                   \/ next.len >= 2 * SolidMatch /\ tried >= 2
                   \/ next.len >= SolidMatch /\ tried >= 3
    IN CASE best.done                              -> best
         [] ~best.done /\ AnchorPanics(e, rest, opt) -> [best EXCEPT !.done = TRUE, !.panic = TRUE]
         [] OTHER -> IF worse THEN [best EXCEPT !.tried = tried]
                     ELSE [next EXCEPT !.tried = tried, !.done = enough]

BestMatch(table, rest, opt) ==
    LET none  == [id |-> 0, len |-> 0, tried |-> 0, done |-> FALSE, panic |-> FALSE]
        list  == Candidates(table, rest)
        tried == SubSeq(list, 1, Least(Len(list), Max({1, opt.probe})))
    IN IF Len(rest) < opt.min_ref \/ ~Indexed(table, rest) THEN none
       ELSE FoldLeft(LAMBDA best, id : TryCandidate(table, rest, opt, best, id), none, tried)

\* Whether any candidate agrees in as many bytes as a reference has at least; they are
\* looked for in the repeated entry even when that is shorter.
AnyMatch(table, rest, opt) ==
    LET list   == Candidates(table, rest)
        tried  == SubSeq(list, 1, Least(Len(list), Max({1, opt.probe})))
        Hit(k) == /\ Anchored(table[tried[k]], rest)
                  /\ Agree(table[tried[k]], rest, opt.min_ref) = opt.min_ref
        Out(k) == \/ AnchorPanics(table[tried[k]], rest, opt)
                  \/ /\ Anchored(table[tried[k]], rest) /\ RepLen(opt) < opt.min_ref
                     /\ Agree(table[tried[k]], rest, opt.min_ref) >= RepLen(opt)
        first  == {k \in DOMAIN tried : Hit(k) \/ Out(k)}
    IN IF Len(rest) < opt.min_ref \/ ~Indexed(table, rest) \/ first = {} THEN "no"
       ELSE IF Out(Min(first)) THEN "panic" ELSE "yes"

--------------------------------------------------------------------------------
(* Sections.                                                                   *)

\* Where a section begins: a multiple of four but for the end.
SectionStart(sec, sections, len) ==
    IF sec = 0 \/ len = 0 THEN 0
    ELSE IF sec >= sections THEN len
    ELSE 4 * (((sec * len) \div sections) \div 4)

\* The header of a command, and the byte of a length that does not fit in it.
Command(tag, len) ==
    IF len <= MaxInlineLen THEN <<LenUnit * len + tag>>
    ELSE <<LenUnit * (MaxInlineLen + 1) + tag, len - (MaxInlineLen + 1)>>

\* How often a run of literals looks for a match, by its length.
Probes(span) ==
    span % (IF span < 8 THEN 1 ELSE IF span < 32 THEN 8 ELSE IF span < 128 THEN 32 ELSE 64) = 0

\* A reference where there is a match, and else literals up to the next place with one.
RECURSIVE EncodeSection(_, _, _, _)
Then(this, more) == IF more = Panicked THEN Panicked ELSE this \o more

Behind(src, pos) == SubSeq(src, pos, Len(src))
Seen(src, pos, p, table, opt) ==
    IF Indexed(table, Behind(src, p)) /\ Probes(p - pos)
      THEN AnyMatch(table, Behind(src, p), opt) ELSE "no"
EndOf(src, pos, table, opt) ==
    CHOOSE p \in pos + 1 .. Len(src) + 1 :
       /\ p > Len(src) \/ p - pos >= MaxCmdLen \/ Seen(src, pos, p, table, opt) # "no"
       /\ \A q \in pos + 1 .. p - 1 :
             q - pos < MaxCmdLen /\ Seen(src, pos, q, table, opt) = "no"

Literals(src, pos, end, table, opt) ==
    IF end - pos < MaxCmdLen /\ end <= Len(src) /\ Seen(src, pos, end, table, opt) = "panic"
      THEN Panicked
    ELSE Then(Command(LiteralTag, end - pos) \o SubSeq(src, pos, end - 1),
              EncodeSection(src, end, table, opt))
EncodeAt(src, pos, best, table, opt) ==
    IF best.panic THEN Panicked
    ELSE IF best.id # 0
      THEN Then(Command(best.id - 1, best.len), EncodeSection(src, pos + best.len, table, opt))
    ELSE Literals(src, pos, EndOf(src, pos, table, opt), table, opt)
EncodeSection(src, pos, table, opt) ==
    IF pos > Len(src) THEN <<>>
    ELSE EncodeAt(src, pos, BestMatch(table, Behind(src, pos), opt), table, opt)

\* With the matches of the GPU, one for every byte of the chunk: what is too short, too
\* long, or longer than the rest of the section is none.
RECURSIVE EncodePacked(_, _, _, _, _)
EncodePacked(src, pos, matches, base, opt) ==
    LET Match(p) == LET m == matches[base + p]
                    IN IF m.len \in opt.min_ref .. Least(RepLen(opt), Len(src) - p + 1) THEN m
                       ELSE [id |-> 0, len |-> 0]
        ends     == {p \in pos + 1 .. Len(src) : p - pos >= MaxCmdLen \/ Match(p).len > 0}
        end      == Min(ends \union {Len(src) + 1})
    IN IF pos > Len(src) THEN <<>>
       ELSE IF Match(pos).len > 0
         THEN Command(Match(pos).id - 1, Match(pos).len)
              \o EncodePacked(src, pos + Match(pos).len, matches, base, opt)
       ELSE Command(LiteralTag, end - pos) \o SubSeq(src, pos, end - 1)
            \o EncodePacked(src, end, matches, base, opt)

--------------------------------------------------------------------------------
(* The payload.                                                                *)

RECURSIVE Varint(_)
Varint(n) == IF n >= 128 THEN <<128 + (n % 128)>> \o Varint(n \div 128) ELSE <<n>>

\* A header and what follows it: five parts at the offsets that the header names.
PackPayload(len, flags, index, data, lut, sections, section_index, stream) ==
    LET At(k) == HeaderSize + FoldLeft(+, 0, SubSeq(<<Len(index), Len(data), Len(lut),
                                                     Len(section_index)>>, 1, k - 1))
    IN [magic |-> "PDF0", version |-> 0, flags |-> flags, len |-> len, tables |-> Len(index),
        sections |-> sections, offsets |-> [k \in 1 .. 5 |-> At(k)],
        body |-> index \o data \o lut \o section_index \o stream]

\* The commands of every section.
SectionCommands(chunk, table, matches, opt) ==
    [s \in 1 .. opt.sections |->
       LET from == SectionStart(s - 1, opt.sections, Len(chunk))
           src  == SubSeq(chunk, from + 1, SectionStart(s, opt.sections, Len(chunk)))
       IN IF matches = <<>> THEN EncodeSection(src, 1, table, opt)
          ELSE EncodePacked(src, 1, matches, from, opt)]

SectionIndex(lens) == FlattenSeq([s \in DOMAIN lens |-> Varint(lens[s])])

Frequencies(cmds) == [s \in 0 .. Symbols - 1 |-> Cardinality({k \in DOMAIN cmds : cmds[k] = s})]

\* The entropy stage of one chunk: its table, its streams and its index, and whether
\* it is taken, which takes an estimate that saves a twentieth and an exact saving.
Guess(freqs, lengths) == MapThenSumSet(LAMBDA s : freqs[s] * lengths[s], 0 .. Symbols - 1) \div 8
EntropyStreams(cmds, bits, lut, cost, guess, accepted) ==
    LET plain == SectionIndex([s \in DOMAIN cmds |-> 8 * Len(cmds[s])])
        index == SectionIndex([s \in DOMAIN cmds |-> Len(bits[s])])
        stream == FlattenSeq([s \in DOMAIN cmds |-> BytesOf(bits[s])])
        all    == FlattenSeq(cmds)
    IN [lut |-> SerializeLut(lut), index |-> index, stream |-> stream,
        taken |-> /\ all # <<>> /\ accepted
                  /\ 20 * (guess + cost + Len(plain)) < 19 * (Len(all) + Len(plain))
                  /\ Len(stream) + Len(index) + cost < Len(all) + Len(plain)]
LutCost(lut) == LutHeaderBytes + LutEntryBytes * (Len(lut.root) + Len(lut.subs))
WithLut(cmds, codes, lut, guess, accepted) ==
    EntropyStreams(cmds, [s \in DOMAIN cmds |-> EncodeSymbols(cmds[s], codes)], lut, LutCost(lut),
            guess, accepted)
WithCodes(cmds, codes, guess, accepted) ==
    WithLut(cmds, codes, BuildLut(codes, Symbols, Max({1, Least(RootBits, LongestCode(codes))})),
            guess, accepted)
WithLengths(cmds, freqs, lengths) ==
    WithCodes(cmds, Codebook(lengths), Guess(freqs, lengths), LengthsAccepted(lengths, MaxCodeBits))
WithFrequencies(cmds, freqs) == WithLengths(cmds, freqs, CodeLengths(freqs, MaxCodeBits))
Entropy(cmds) == WithFrequencies(cmds, Frequencies(FlattenSeq(cmds)))

Payload(chunk, index, data, cmds, entropy, opt) ==
    LET coded == opt.huffman /\ entropy.taken IN
    PackPayload(Len(chunk), IF coded THEN {"huffman"} ELSE {}, index, data,
                IF coded THEN entropy.lut ELSE <<>>, opt.sections,
                IF coded THEN entropy.index
                ELSE SectionIndex([s \in DOMAIN cmds |-> 8 * Len(cmds[s])]),
                IF coded THEN entropy.stream ELSE FlattenSeq(cmds))
FinalizeCommands(chunk, index, data, cmds, opt) ==
    IF \E s \in DOMAIN cmds : cmds[s] = Panicked THEN NoPayload
    ELSE Payload(chunk, index, data, cmds, Entropy(cmds), opt)
Finalize(chunk, table, index, data, matches, opt) ==
    FinalizeCommands(chunk, index, data, SectionCommands(chunk, table, matches, opt), opt)

\* The table is built here, or read back from the device and taken apart; where it
\* comes back empty it is built here after all.
BuiltTable(table) == [table |-> table, index |-> TableIndex(table), data |-> TableData(table)]
ChunkTable(chunk, opt, device) ==
    IF device.index = <<>> THEN BuiltTable(BuildTable(chunk, opt))
    ELSE [table |-> Materialize(device.index, device.data),
          index |-> device.index, data |-> device.data]

CompressWith(chunk, opt, t, matches) == Finalize(chunk, t.table, t.index, t.data, matches, opt)
CompressChunk(chunk, opt, device) ==
    CompressWith(chunk, opt, ChunkTable(chunk, opt, device), device.matches)

\* The mark of the last chunk is put into a payload that is there already.
SetFinalStream(payload, final) ==
    [payload EXCEPT !.flags = IF final THEN @ \union {"final"} ELSE @ \ {"final"}]

--------------------------------------------------------------------------------
(* Readers.                                                                    *)

\* A slip: nobody looks whether commands are left.
ConsumedIndex(payload, index_cursor, cmd_cursor) ==
    index_cursor = Len(SubSeq(payload.body, payload.offsets[4] - HeaderSize + 1,
                              payload.offsets[5] - HeaderSize)) + 1

\* A number of the section index, and where the next one begins; at most five bytes,
\* of which 32 bits count.
RECURSIVE ReadVarint(_, _, _)
ReadVarint(src, cursor, shift) ==
    LET byte == src[cursor]
        rest == ReadVarint(src, cursor + 1, shift + 7)
        low  == ((byte % 128) * 2 ^ shift)
    IN IF shift >= 35 \/ cursor > Len(src) THEN Failed
       ELSE IF byte < 128 THEN <<low, cursor + 1>>
       ELSE IF rest = Failed THEN Failed
       ELSE <<low + rest[1], rest[2]>>

Part(payload, k) ==
    LET to == IF k = 5 THEN HeaderSize + Len(payload.body) ELSE payload.offsets[k + 1]
    IN SubSeq(payload.body, payload.offsets[k] - HeaderSize + 1, to - HeaderSize)

HeaderAccepted(payload) ==
    /\ payload.magic = "PDF0" /\ payload.version = 0
    /\ payload.flags \subseteq {"huffman", "final"}
    /\ payload.tables <= LiteralTag - 1 /\ payload.sections > 0
    /\ \A k \in 1 .. 4 : payload.offsets[k] <= payload.offsets[k + 1]
    /\ payload.offsets[5] <= HeaderSize + Len(payload.body)
    /\ payload.offsets[1] = HeaderSize
    /\ Len(Part(payload, 1)) = payload.tables

Coded(payload) == "huffman" \in payload.flags

LutOk(payload) == Coded(payload) => LutAccepted(Part(payload, 3))

\* So many bits take so many bytes; without the entropy stage they must fill them.
StoredLen(payload, bits) == (bits + 7) \div 8
WholeBytes(payload, bits) == Coded(payload) \/ bits % 8 = 0

\* Behind the last section nothing is left of the index, nor of the commands.
Consumed(payload, index_cursor, cmd_cursor) ==
    index_cursor = Len(Part(payload, 4)) + 1 /\ cmd_cursor = Len(Part(payload, 5))

\* Where the commands and the output of each section lie, or that it cannot be.
RECURSIVE Sections(_, _, _, _)
NoSections == [ok |-> FALSE, meta |-> <<>>]
Joined(this, rest) == [ok |-> rest.ok, meta |-> <<this>> \o rest.meta]
SectionAt(payload, sec, bits, next, cmd_cursor) ==
    LET len   == StoredLen(payload, bits)
        start == SectionStart(sec, payload.sections, payload.len)
        end   == SectionStart(sec + 1, payload.sections, payload.len)
    IN IF ~WholeBytes(payload, bits) \/ cmd_cursor + len > Len(Part(payload, 5)) THEN NoSections
       ELSE Joined([cmd_offset |-> cmd_cursor, cmd_len |-> len, bits |-> bits,
                    out_offset |-> start, out_len |-> end - start],
                   Sections(payload, sec + 1, next, cmd_cursor + len))
SectionOf(payload, sec, read, cmd_cursor) ==
    IF read = Failed THEN NoSections ELSE SectionAt(payload, sec, read[1], read[2], cmd_cursor)
Sections(payload, sec, index_cursor, cmd_cursor) ==
    IF sec = payload.sections
      THEN [ok |-> Consumed(payload, index_cursor, cmd_cursor), meta |-> <<>>]
    ELSE SectionOf(payload, sec, ReadVarint(Part(payload, 4), index_cursor, 0), cmd_cursor)

AllSections(payload) == Sections(payload, 0, 1, 0)

\* What the host does before a payload goes to the GPU.
Preprocess(payload) ==
    IF HeaderAccepted(payload) /\ LutOk(payload) THEN AllSections(payload)
    ELSE [ok |-> FALSE, meta |-> <<>>]

TableAccepted(payload) ==
    LET index == Part(payload, 1) IN
    /\ \A k \in DOMAIN index : index[k] > 0
    /\ FoldLeft(+, 0, index) = Len(Part(payload, 2))

\* The commands of a section in turn, until its output is full.
RECURSIVE DecodeSection(_, _, _, _)
DecodeSection(cmds, cursor, room, table) ==
    LET tag   == cmds[cursor] % LenUnit
        len4  == cmds[cursor] \div LenUnit
        long  == len4 > MaxInlineLen
        len   == IF long THEN len4 + cmds[cursor + 1] ELSE len4
        from  == cursor + IF long THEN 2 ELSE 1
        next  == IF tag = LiteralTag THEN from + len ELSE from
        out   == IF tag = LiteralTag THEN SubSeq(cmds, from, next - 1)
                 ELSE [k \in 1 .. len |-> Rep(table[tag + 1], k)]
        rest  == DecodeSection(cmds, next, room - len, table)
    IN IF room = 0 THEN IF cursor = Len(cmds) + 1 THEN <<>> ELSE Failed
       ELSE IF cursor > Len(cmds) \/ (long /\ cursor = Len(cmds)) THEN Failed
       ELSE IF len = 0 \/ len > MaxCmdLen \/ len > room THEN Failed
       ELSE IF tag = LiteralTag /\ next > Len(cmds) + 1 THEN Failed
       ELSE IF tag # LiteralTag /\ (tag >= Len(table) \/ len < 3) THEN Failed
       ELSE IF rest = Failed THEN Failed ELSE out \o rest

\* The decoder: one error is an error of the chunk.
Stored(payload, m) == SubSeq(Part(payload, 5), m.cmd_offset + 1, m.cmd_offset + m.cmd_len)
DecodeCommands(cmds, room, table) ==
    IF cmds = Failed THEN Failed ELSE DecodeSection(cmds, 1, room, table)
DecodeStored(payload, m, table, lut) ==
    DecodeCommands(IF Coded(payload) THEN DecodeByLut(BitsOf(Stored(payload, m), m.bits), lut)
                   ELSE Stored(payload, m), m.out_len, table)
Gathered(out) == IF \E s \in DOMAIN out : out[s] = Failed THEN Failed ELSE FlattenSeq(out)
DecodeAll(payload, found, table, lut) ==
    IF ~found.ok THEN Failed
    ELSE Gathered([s \in DOMAIN found.meta |-> DecodeStored(payload, found.meta[s], table, lut)])
DecompressChunk(payload, out_len) ==
    IF ~HeaderAccepted(payload) \/ payload.len # out_len THEN Failed
    ELSE IF ~LutOk(payload) \/ ~TableAccepted(payload) THEN Failed
    ELSE DecodeAll(payload, AllSections(payload),
                   Materialize(Part(payload, 1), Part(payload, 2)), LutOf(Part(payload, 3)))
================================================================================
