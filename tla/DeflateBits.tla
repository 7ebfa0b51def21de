------------------------------- MODULE DeflateBits -------------------------------
(* A DEFLATE stream bit by bit: the plan of a block with codes of its own, the  *)
(* reader that finds the last block of a stream and its end, the CRC of two     *)
(* pieces, and the varint table of an index.                                    *)
(*                                                                             *)
(* A stream is the sequence of its bits.  Alphabets, bytes and the fields of    *)
(* headers have the widths of the code as constants, so that a stream of a few  *)
(* dozen bits has blocks of every kind.                                        *)
EXTENDS Integers, Sequences, FiniteSets, SequencesExt, FiniteSetsExt

CONSTANTS
    Byte,            \* the bits of a byte
    LenBits,         \* the bits of the length of a stored block
    EndOfBlock,      \* the symbol behind the literals, 256
    LengthExtra,     \* LENGTH_EXTRA_BITS, for the symbols behind EndOfBlock
    DistExtra,       \* DIST_EXTRA_BITS
    FixedLit,        \* the lengths of the fixed codes, symbols that mean nothing included
    FixedDist,
    MaxBits,         \* DEFLATE_MAX_HUFF_BITS
    CodelenMaxBits,  \* CODELEN_MAX_BITS, 7: the longest code of the code lengths
    CodelenOrder,    \* CODELEN_ORDER: lengths 0 .. MaxBits, and three kinds of runs
    HlitBits, HdistBits, HclenBits, CodelenBits,    \* the fields of a block's header
    RunBits,         \* the bits of the three kinds of runs: of a length, of few and many zeros
    CrcBits, CrcPoly,       \* a CRC, 32 bits, and the places of the ones of its polynomial
    Radix, MaxDigits,       \* a digit of the index, 128, and the most that a number has, 10
    Word, HalfWord          \* 2^64 and 2^32

\* What a step that returns an error gives where a position or a length is expected.
Error == -1

--------------------------------------------------------------------------------
(* Numbers and bits.                                                           *)

\* A number in so many bits, the lowest first.
BitsOf(n, width) == [i \in 1 .. width |-> (n \div 2 ^ (i - 1)) % 2]
NumberOf(bits)   == FoldLeftDomain(LAMBDA n, i : n + bits[i] * 2 ^ (i - 1), 0, bits)

Zeros(n)  == [i \in 1 .. n |-> 0]
\* The bits that are missing to a whole byte.
Pad(n)    == (Byte - (n % Byte)) % Byte
Padded(bits) == bits \o Zeros(Pad(Len(bits)))

\* As many bits as asked for after a position, or an error behind the end.
Fits(bits, pos, n) == pos + n <= Len(bits)
Field(bits, pos, n) == NumberOf(SubSeq(bits, pos + 1, pos + n))

--------------------------------------------------------------------------------
(* Code lengths and codes.                                                     *)

RECURSIVE Join(_, _)
Join(heap, next) ==
    LET First(H) == CHOOSE m \in H : \A n \in H \ {m} :
                       m.weight < n.weight \/ (m.weight = n.weight /\ m.node > n.node)
        rare == First(heap)
        next_rare == First(heap \ {rare})
    IN IF Cardinality(heap) = 1 THEN (CHOOSE n \in heap : TRUE).depth
       ELSE Join((heap \ {rare, next_rare})
                   \union {[weight |-> rare.weight + next_rare.weight, node |-> next,
                            depth |-> {<<d[1], d[2] + 1>> : d \in rare.depth \union next_rare.depth}]},
                 next + 1)

\* A code of one symbol has one bit; a code that is longer than the limit is none at all.
NoLengths == [s \in {} |-> 0]
CodeLengths(freq, limit) ==
    LET used   == {s \in DOMAIN freq : freq[s] > 0}
        leaf(s) == [weight |-> freq[s], depth |-> {<<s, 0>>},
                    node |-> Cardinality({r \in used : r < s})]
        depth  == IF used = {} THEN {} ELSE Join({leaf(s) : s \in used}, Cardinality(used))
        lengths == [s \in DOMAIN freq |->
                      Max({0} \union {Max({1, d[2]}) : d \in {e \in depth : e[1] = s}})]
    IN IF \E s \in DOMAIN freq : lengths[s] > limit THEN NoLengths ELSE lengths

OfLength(lengths, n) == {s \in DOMAIN lengths : lengths[s] = n}

RECURSIVE FirstCode(_, _)
FirstCode(lengths, n) ==
    IF n = 1 THEN 0
    ELSE 2 * (FirstCode(lengths, n - 1) + Cardinality(OfLength(lengths, n - 1)))

\* Codes are sent from their highest bit.
CanonicalCodes(lengths) ==
    [s \in DOMAIN lengths |->
       LET n == lengths[s]
           v == FirstCode(lengths, n) + Cardinality({r \in OfLength(lengths, n) : r < s})
       IN IF n = 0 THEN <<>> ELSE Reverse(BitsOf(v, n))]

--------------------------------------------------------------------------------
(* The plan of a block: both codes, and the header that describes them by code  *)
(* lengths in runs.                                                            *)

RunOf    == MaxBits + 1          \* symbol 16: the length before, again
FewOf    == MaxBits + 2          \* 17: some zeros
ManyOf   == MaxBits + 3          \* 18: many zeros
ManyMin  == 3 + 2 ^ RunBits[2]   \* 11
Longest(symbol) ==
    CASE symbol = RunOf -> 2 + 2 ^ RunBits[1] [] symbol = FewOf -> ManyMin - 1
      [] OTHER -> ManyMin - 1 + 2 ^ RunBits[3]

\* A run of one length: what stands for it, and with which number.
RECURSIVE RunSymbols(_, _)
RunSymbols(len, n) ==
    LET symbol == IF len # 0 THEN RunOf ELSE IF n >= ManyMin THEN ManyOf ELSE FewOf
        count  == Min({n, Longest(symbol)})
    IN IF n = 0 THEN <<>>
       ELSE IF n < 3 THEN <<<<len, 0>>>> \o RunSymbols(len, n - 1)
       ELSE <<<<symbol, count - IF symbol = ManyOf THEN ManyMin ELSE 3>>>>
            \o RunSymbols(len, n - count)

RECURSIVE RunLengths(_)
RunLengths(lengths) ==
    LET len  == lengths[1]
        same == {k \in DOMAIN lengths : \A j \in 1 .. k : lengths[j] = len}
        run  == Max(same)
    IN IF lengths = <<>> THEN <<>>
       ELSE (IF len = 0 THEN RunSymbols(0, run) ELSE <<<<len, 0>>>> \o RunSymbols(len, run - 1))
            \o RunLengths(SubSeq(lengths, run + 1, Len(lengths)))

ExtraBits(symbol) == IF symbol <= MaxBits THEN 0 ELSE RunBits[symbol - MaxBits]

\* The symbols of a code up to the last one in use, and at least so many.
Used(lengths, least) ==
    Max({least} \union {s + 1 : s \in {r \in DOMAIN lengths : lengths[r] # 0}})
Counted(lengths, count) == [k \in 1 .. count |-> lengths[k - 1]]

NoPlan == [ok |-> FALSE, header |-> <<>>, lit |-> <<>>, dist |-> <<>>]

CodelenCode(runs) ==
    CodeLengths([s \in 0 .. ManyOf |-> Cardinality({k \in DOMAIN runs : runs[k][1] = s})],
                CodelenMaxBits)

\* The header of a block that is not the last one yet is told by its first bit, which the
\* plan sets.
PlanHeader(hlit, hdist, hclen, runs, cl, codes) ==
    <<1, 0, 1>> \o BitsOf(hlit - EndOfBlock - 1, HlitBits)
    \o BitsOf(hdist - 1, HdistBits) \o BitsOf(hclen - 4, HclenBits)
    \o FlattenSeq([k \in 1 .. hclen |-> BitsOf(cl[CodelenOrder[k]], CodelenBits)])
    \o FlattenSeq([k \in DOMAIN runs |->
                     codes[runs[k][1]] \o BitsOf(runs[k][2], ExtraBits(runs[k][1]))])

PlanWith(lit, dist, hlit, hdist, runs, cl) ==
    LET hclen == Max({4} \union {k \in DOMAIN CodelenOrder : cl[CodelenOrder[k]] # 0}) IN
    IF cl = NoLengths THEN NoPlan
    ELSE [ok |-> TRUE, header |-> PlanHeader(hlit, hdist, hclen, runs, cl, CanonicalCodes(cl)),
          lit |-> CanonicalCodes(lit), dist |-> CanonicalCodes(dist)]

PlanOfRuns(lit, dist, hlit, hdist, runs) ==
    PlanWith(lit, dist, hlit, hdist, runs, CodelenCode(runs))

PlanOfLengths(lit, dist) ==
    LET hlit  == Used(lit, EndOfBlock + 1)
        hdist == Used(dist, 1)
    IN IF lit = NoLengths \/ dist = NoLengths THEN NoPlan
       ELSE PlanOfRuns(lit, dist, hlit, hdist, RunLengths(Counted(lit, hlit) \o Counted(dist, hdist)))

\* Every block ends once more than its symbols say, and the code of distances is never empty.
DynamicPlan(lit_freq, dist_freq) ==
    LET some == \E d \in DOMAIN dist_freq : dist_freq[d] # 0 IN
    PlanOfLengths(CodeLengths([lit_freq EXCEPT ![EndOfBlock] = @ + 1], MaxBits),
                  CodeLengths(IF some THEN dist_freq ELSE [dist_freq EXCEPT ![0] = 1], MaxBits))

--------------------------------------------------------------------------------
(* Reading a stream.  The reader follows the blocks and looks at no content.    *)

\* The symbol at a position and the position behind it: the shortest code that is
\* among those of its length.
NoSymbol == <<Error, Error>>
SymbolAt(bits, pos, lengths) ==
    LET Value(n) == NumberOf(Reverse(SubSeq(bits, pos + 1, pos + n)))
        nth(n)   == Value(n) - FirstCode(lengths, n)
        known    == {n \in 1 .. Max({0} \union {lengths[s] : s \in DOMAIN lengths}) :
                       Fits(bits, pos, n) /\ nth(n) \in 0 .. Cardinality(OfLength(lengths, n)) - 1}
        n        == Min(known)
        symbol   == CHOOSE s \in OfLength(lengths, n) :
                       Cardinality({r \in OfLength(lengths, n) : r < s}) = nth(n)
    IN IF known = {} THEN NoSymbol ELSE <<symbol, pos + n>>

\* The lengths of both codes, run by run: what a symbol says, and the rest.
BadLengths == [ok |-> FALSE, pos |-> 0, lengths |-> <<>>]
RECURSIVE ReadLengths(_, _, _, _, _)
NextLengths(bits, read, cl, total, lengths) ==
    LET symbol == read[1]
        extra  == ExtraBits(symbol)
        count  == Field(bits, read[2], extra) + IF symbol = ManyOf THEN ManyMin ELSE 3
        again  == IF symbol = RunOf THEN lengths[Len(lengths)] ELSE 0
        more   == IF symbol <= MaxBits THEN <<symbol>> ELSE [k \in 1 .. count |-> again]
    IN IF read = NoSymbol \/ (symbol = RunOf /\ lengths = <<>>) THEN BadLengths
       ELSE IF ~Fits(bits, read[2], extra) THEN BadLengths
       ELSE ReadLengths(bits, read[2] + extra, cl, total, lengths \o more)
ReadLengths(bits, pos, cl, total, lengths) ==
    IF Len(lengths) > total THEN BadLengths
    ELSE IF Len(lengths) = total THEN [ok |-> TRUE, pos |-> pos, lengths |-> lengths]
    ELSE NextLengths(bits, SymbolAt(bits, pos, cl), cl, total, lengths)

NoTrees == [ok |-> FALSE, pos |-> 0, lit |-> <<>>, dist |-> <<>>]
Trees(read, hlit, hdist) ==
    IF ~read.ok THEN NoTrees
    ELSE [ok |-> TRUE, pos |-> read.pos,
          lit |-> [s \in 0 .. hlit - 1 |-> read.lengths[s + 1]],
          dist |-> [s \in 0 .. hdist - 1 |-> read.lengths[hlit + s + 1]]]

ReadTrees(bits, pos) ==
    LET fields == pos + HlitBits + HdistBits + HclenBits
        hlit   == Field(bits, pos, HlitBits) + EndOfBlock + 1
        hdist  == Field(bits, pos + HlitBits, HdistBits) + 1
        hclen  == Field(bits, pos + HlitBits + HdistBits, HclenBits) + 4
        place(s) == CHOOSE k \in DOMAIN CodelenOrder : CodelenOrder[k] = s
        cl     == [s \in 0 .. ManyOf |->
                     IF place(s) > hclen THEN 0
                     ELSE Field(bits, fields + (place(s) - 1) * CodelenBits, CodelenBits)]
    IN IF fields > Len(bits) THEN NoTrees
       ELSE IF ~Fits(bits, fields, hclen * CodelenBits) THEN NoTrees
       ELSE Trees(ReadLengths(bits, fields + hclen * CodelenBits, cl, hlit + hdist, <<>>),
                  hlit, hdist)

\* Behind a block of codes: each length with its extra bits and a distance with its own.
RECURSIVE SkipCodes(_, _, _, _)
SkipDistance(bits, d, lit, dist) ==
    LET last == DistExtra[d[1] + 1] IN
    IF d = NoSymbol \/ d[1] >= Len(DistExtra) THEN Error
    ELSE IF ~Fits(bits, d[2], last) THEN Error
    ELSE SkipCodes(bits, d[2] + last, lit, dist)
SkipSymbol(bits, read, lit, dist) ==
    LET kind  == read[1] - EndOfBlock
        extra == LengthExtra[kind]
    IN IF read = NoSymbol \/ kind > Len(LengthExtra) THEN Error
       ELSE IF kind < 0 THEN SkipCodes(bits, read[2], lit, dist)
       ELSE IF kind = 0 THEN read[2]
       ELSE IF ~Fits(bits, read[2], extra) THEN Error
       ELSE SkipDistance(bits, SymbolAt(bits, read[2] + extra, dist), lit, dist)
SkipCodes(bits, pos, lit, dist) == SkipSymbol(bits, SymbolAt(bits, pos, lit), lit, dist)

\* A stored block begins at the next whole byte; its length is there twice.
SkipStored(bits, pos) ==
    LET from == pos + Pad(pos)
        len  == Field(bits, from, LenBits)
        to   == from + 2 * LenBits + len * Byte
    IN IF ~Fits(bits, from, 2 * LenBits) THEN Error
       ELSE IF len + Field(bits, from + LenBits, LenBits) # 2 ^ LenBits - 1 THEN Error
       ELSE IF to > Len(bits) THEN Error ELSE to

SkipTrees(bits, trees) ==
    IF trees.ok THEN SkipCodes(bits, trees.pos, trees.lit, trees.dist) ELSE Error
SkipBlock(bits, pos) ==
    IF ~Fits(bits, pos, 3) THEN Error
    ELSE CASE Field(bits, pos + 1, 2) = 0 -> SkipStored(bits, pos + 3)
           [] Field(bits, pos + 1, 2) = 1 -> SkipCodes(bits, pos + 3, FixedLit, FixedDist)
           [] Field(bits, pos + 1, 2) = 2 -> SkipTrees(bits, ReadTrees(bits, pos + 3))
           [] OTHER -> Error

\* Where the header of the last block is, and the end.
NoLayout == [ok |-> FALSE, final_header_bit |-> 0, end_bit |-> 0]
RECURSIVE LayoutFrom(_, _)
LayoutBehind(bits, pos, next) ==
    IF next = Error THEN NoLayout
    ELSE IF bits[pos + 1] = 1 THEN [ok |-> TRUE, final_header_bit |-> pos, end_bit |-> next]
    ELSE LayoutFrom(bits, next)
LayoutFrom(bits, pos) == LayoutBehind(bits, pos, SkipBlock(bits, pos))

Layout(bits) == LayoutFrom(bits, 0)

--------------------------------------------------------------------------------
(* CRCs.  A number is the set of the places where it has a one.                 *)

Places == 0 .. CrcBits - 1
Xor(x, y) == {i \in Places : (i \in x) # (i \in y)}

\* A matrix is a relation of places, and takes a number to the places that an odd number
\* of its own are related to; twice applied it is its square.
Odd(S) == Cardinality(S) % 2 = 1
Times(mat, vec) == {j \in Places : Odd({i \in vec : <<i, j>> \in mat})}
Square(mat)     == {p \in {<<i, j>> : i, j \in Places} :
                      Odd({k \in Places : <<p[1], k>> \in mat /\ <<k, p[2]>> \in mat})}

\* What zero bits do to a CRC: one of them, and twice as many.
OneZero == {0} \X CrcPoly \union {<<i, i - 1>> : i \in Places \ {0}}
RECURSIVE ZeroBits(_)
ZeroBits(n) == IF n = 1 THEN OneZero ELSE Square(ZeroBits(n \div 2))

\* The CRC of the bytes of two pieces from the CRC of each and the length of the second.
RECURSIVE AfterZeros(_, _, _)
AfterZeros(crc, n, mat) ==
    IF n = 0 THEN crc
    ELSE AfterZeros(IF n % 2 = 1 THEN Times(mat, crc) ELSE crc, n \div 2, Square(mat))
ZeroByte == ZeroBits(Byte)
crc32_combine(crc1, crc2, len2) ==
    IF len2 = 0 THEN crc1 ELSE Xor(AfterZeros(crc1, len2, ZeroByte), crc2)

\* The CRC itself, a byte at a time from its lowest bit.
CrcStep(crc, bit) ==
    LET x == {i \in Places : (i \in crc) # (i = 0 /\ bit = 1)} IN
    {i \in Places : (i + 1 \in x) # (0 \in x /\ i \in CrcPoly)}
Crc(bytes) ==
    Xor(FoldLeft(LAMBDA crc, byte : FoldLeft(CrcStep, crc, BitsOf(byte, Byte)), Places, bytes),
        Places)

--------------------------------------------------------------------------------
(* The index of a stream.  Its table has four numbers for each chunk, each in   *)
(* digits that say whether another one follows.                                *)

\* A number of a word in digits, the lowest first, and back from a position.
RECURSIVE Uleb(_)
Uleb(value) ==
    LET digit == value % Radix
        rest  == value \div Radix
    IN IF rest = 0 THEN <<digit>> ELSE <<digit + Radix>> \o Uleb(rest)

\* The highest digit may say more than a word has room for; that is cut off.
NoNumber == <<Error, Error>>
ReadUleb(table, pos) ==
    LET ends == {k \in 1 .. MaxDigits : pos + k <= Len(table) /\ table[pos + k] < Radix}
        n    == Min(ends)
        value == FoldLeftDomain(LAMBDA v, k : v + (table[pos + k] % Radix) * Radix ^ (k - 1),
                                0, [k \in 1 .. n |-> k])
    IN IF ends = {} THEN NoNumber ELSE <<value % Word, pos + n>>

Entry(off, len, final, raw) ==
    [comp_bit_off |-> off, comp_bit_len |-> len, final_header_rel_bit |-> final, raw_len |-> raw]

\* Offsets are differences.  The header has a checksum of the table, which stands here
\* for itself.
NoBlob == [ok |-> FALSE]
encode_czdi_v1(index) ==
    LET e     == index.entries
        delta(k) == e[k].comp_bit_off - IF k = 1 THEN 0 ELSE e[k - 1].comp_bit_off
        table == FlattenSeq([k \in DOMAIN e |->
                   Uleb(delta(k)) \o Uleb(e[k].comp_bit_len) \o Uleb(e[k].final_header_rel_bit)
                   \o Uleb(e[k].raw_len)])
    IN IF index.chunk_count # Len(e) \/ \E k \in DOMAIN e : delta(k) < 0 THEN NoBlob
       ELSE [ok |-> TRUE, magic |-> TRUE, version |-> TRUE, varint |-> TRUE,
             chunk_size |-> index.chunk_size, chunk_count |-> index.chunk_count,
             uncompressed_size |-> index.uncompressed_size,
             compressed_size |-> index.compressed_size,
             table_len |-> Len(table), table_crc |-> table, table |-> table]

\* Numbers in turn from a position on.
RECURSIVE ReadNumbers(_, _, _)
NumberThen(table, read, count) ==
    IF read = NoNumber THEN NoNumber ELSE <<read[1]>> \o ReadNumbers(table, read[2], count - 1)
ReadNumbers(table, pos, count) ==
    IF count = 0 THEN IF pos = Len(table) THEN <<>> ELSE NoNumber
    ELSE NumberThen(table, ReadUleb(table, pos), count)

\* The entries of a table; an offset has a word, the rest half of one.
NoEntries == <<Entry(Error, Error, Error, Error)>>
EntriesOf(n, count) ==
    LET off[k \in 0 .. count] == IF k = 0 THEN 0 ELSE off[k - 1] + n[4 * k - 3] IN
    IF Error \in Range(n) \/ \E k \in 1 .. count :
         off[k] >= Word \/ Max({n[4 * k - 2], n[4 * k - 1], n[4 * k]}) >= HalfWord
      THEN NoEntries
    ELSE [k \in 1 .. count |-> Entry(off[k], n[4 * k - 2], n[4 * k - 1], n[4 * k])]

NoIndex == [ok |-> FALSE]
Opened(blob, table, entries) ==
    IF ~(blob.magic /\ blob.version /\ blob.varint) \/ blob.table_len > Len(blob.table) THEN NoIndex
    ELSE IF table # blob.table_crc \/ entries = NoEntries THEN NoIndex
    ELSE [ok |-> TRUE, chunk_size |-> blob.chunk_size, chunk_count |-> blob.chunk_count,
          uncompressed_size |-> blob.uncompressed_size,
          compressed_size |-> blob.compressed_size, entries |-> entries]
decode_czdi_v1(blob) ==
    LET table == SubSeq(blob.table, 1, blob.table_len) IN
    Opened(blob, table, EntriesOf(ReadNumbers(table, 0, 4 * blob.chunk_count), blob.chunk_count))
================================================================================
