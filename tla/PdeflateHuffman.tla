---------------------------- MODULE PdeflateHuffman ----------------------------
(* The entropy stage of a PDeflate chunk: code lengths from frequencies, the   *)
(* limit on them, canonical codes, the two level lookup table, and decoding by *)
(* the table and by the tree.                                                  *)
(*                                                                             *)
(* A symbol is a number below the size of the alphabet.  A code is the         *)
(* sequence of its bits in the order they are transmitted, which is what       *)
(* code_lsb holds from its lowest bit up, and an index into a table is the     *)
(* number that its bits make, the first bit lowest.                            *)
EXTENDS Integers, Sequences, FiniteSets, SequencesExt, FiniteSetsExt, TLC

\* What a step that returns an error gives.
Failed == <<-1>>

\* The number that a sequence of bits makes, and so many bits from a position, with
\* zeros for those that are behind the end.
Number(bits) == FoldLeftDomain(LAMBDA n, i : n + bits[i] * 2 ^ (i - 1), 0, bits)
Peek(bits, pos, len) ==
    Number([i \in 1 .. len |-> IF pos + i - 1 <= Len(bits) THEN bits[pos + i - 1] ELSE 0])

--------------------------------------------------------------------------------
(* Code lengths.                                                               *)

\* The two subtrees that come first by frequency and age become one, whose leaves are
\* a level deeper, until there is one.
RECURSIVE JoinTrees(_, _)
JoinTrees(heap, seq) ==
    LET First(H) == CHOOSE m \in H : \A n \in H \ {m} :
                       m.freq < n.freq \/ (m.freq = n.freq /\ m.seq < n.seq)
        left     == First(heap)
        right    == First(heap \ {left})
        deeper   == [s \in DOMAIN left.depth |-> left.depth[s] + 1]
                    @@ [s \in DOMAIN right.depth |-> right.depth[s] + 1]
    IN IF Cardinality(heap) = 1 THEN left.depth
       ELSE JoinTrees((heap \ {left, right})
                        \union {[freq |-> left.freq + right.freq, seq |-> seq, depth |-> deeper]},
                      seq + 1)

\* A single symbol has a code of one bit, and so has the first when none occurs.
PlainLengths(freqs) ==
    LET used  == {s \in DOMAIN freqs : freqs[s] > 0}
        leaf  == [s \in used |-> [freq |-> freqs[s], depth |-> (s :> 0),
                                  seq |-> Cardinality({r \in used : r < s})]]
        depth == IF used = {} THEN (0 :> 1)
                 ELSE IF Cardinality(used) = 1 THEN [s \in used |-> 1]
                 ELSE JoinTrees({leaf[s] : s \in used}, Cardinality(used))
    IN [s \in DOMAIN freqs |-> IF s \in DOMAIN depth THEN depth[s] ELSE 0]

\* How many codes have each length when the longer ones are put to the limit.
Histogram(lengths, limit) ==
    [b \in 1 .. limit |->
       Cardinality({s \in DOMAIN lengths : lengths[s] > 0 /\ Min({lengths[s], limit}) = b})]

TooLong(lengths, limit) == Cardinality({s \in DOMAIN lengths : lengths[s] > limit})

\* A code above the limit is moved down and takes one of those at the limit beside it;
\* that is said to settle two of the codes that were too long.
RECURSIVE Repair(_, _, _)
Repair(hist, overflow, limit) ==
    LET room == {len \in 1 .. limit - 1 : hist[len] > 0}
        last == Max(room)
        down == [hist EXCEPT ![last] = @ - 1]
        pair == [down EXCEPT ![last + 1] = @ + 2]
    IN IF overflow <= 0 \/ room = {} THEN hist
       ELSE Repair([pair EXCEPT ![limit] = @ - 1], overflow - 2, limit)

\* The lengths are given out again, the longest to the symbols that occur least.
Reassigned(lengths, freqs, hist) ==
    LET syms      == {s \in DOMAIN lengths : lengths[s] > 0}
        Before(s) == {r \in syms : freqs[r] < freqs[s] \/ (freqs[r] = freqs[s] /\ r < s)}
        From(b)   == MapThenSumSet(LAMBDA c : Max({0, hist[c]}), {c \in DOMAIN hist : c >= b})
        fits(s)   == {b \in DOMAIN hist : From(b) > Cardinality(Before(s))}
    IN [s \in DOMAIN lengths |->
          IF s \in syms /\ fits(s) # {} THEN Max(fits(s)) ELSE lengths[s]]

LimitLengths(lengths, freqs, limit) ==
    LET over == TooLong(lengths, limit) IN
    IF over = 0 THEN lengths
    ELSE Reassigned(lengths, freqs, Repair(Histogram(lengths, limit), over, limit))

CodeLengths(freqs, limit) == LimitLengths(PlainLengths(freqs), freqs, limit)

--------------------------------------------------------------------------------
(* Codes.                                                                      *)

\* The first code of a length.
RECURSIVE FirstCode(_, _)
FirstCode(lengths, b) ==
    IF b = 1 THEN 0
    ELSE 2 * (FirstCode(lengths, b - 1)
              + Cardinality({s \in DOMAIN lengths : lengths[s] = b - 1}))

Value(lengths, s) ==
    FirstCode(lengths, lengths[s])
    + Cardinality({r \in DOMAIN lengths : r < s /\ lengths[r] = lengths[s]})

\* A length above the limit and a code that does not fit its length are errors.
LengthsAccepted(lengths, limit) ==
    LET coded == {s \in DOMAIN lengths : lengths[s] > 0} IN
    /\ coded # {}
    /\ \A s \in coded : lengths[s] <= limit /\ Value(lengths, s) < 2 ^ lengths[s]

\* Codes of one length follow each other; they are sent from their highest bit.
Codebook(lengths) ==
    [s \in {r \in DOMAIN lengths : lengths[r] > 0} |->
       [i \in 1 .. lengths[s] |-> (Value(lengths, s) \div 2 ^ (lengths[s] - i)) % 2]]

LongestCode(codes) == Max({Len(codes[s]) : s \in DOMAIN codes})

--------------------------------------------------------------------------------
(* The lookup table: a root indexed by the first bits, and a subtable behind    *)
(* every root index that longer codes begin with.                              *)

Nothing           == <<"none", 0, 0>>
Symbol(s, len)    == <<"symbol", s, len>>
Subtable(at, len) == <<"subtable", at, len>>

BuildLut(codes, symbols, root_bits) ==
    LET short     == {s \in DOMAIN codes : Len(codes[s]) <= root_bits}
        long      == DOMAIN codes \ short
        Prefix(s) == Peek(codes[s], 1, root_bits)
        Rest(s)   == SubSeq(codes[s], root_bits + 1, Len(codes[s]))
        sub_bits  == [p \in 0 .. 2 ^ root_bits - 1 |->
                        Max({0} \union {Len(Rest(s)) : s \in {t \in long : Prefix(t) = p}})]
        Size(p)   == IF sub_bits[p] = 0 THEN 0 ELSE 2 ^ sub_bits[p]
        Offset(p) == MapThenSumSet(Size, 0 .. p - 1)
        Fits(S, bits(_), i) == {s \in S : Number(bits(s)) = i % 2 ^ Len(bits(s))}
        Entry(S)  == IF S = {} THEN Nothing
                     ELSE LET s == CHOOSE s \in S : TRUE IN Symbol(s, Len(codes[s]))
        RootOf(p) == IF sub_bits[p] > 0 THEN Subtable(Offset(p), sub_bits[p])
                     ELSE Entry(Fits(short, LAMBDA s : codes[s], p))
        SubOf(p)  == [i \in 1 .. Size(p) |->
                        Entry(Fits({s \in long : Prefix(s) = p}, Rest, i - 1))]
    IN [symbols |-> symbols, root_bits |-> root_bits, max_bits |-> LongestCode(codes),
        root |-> [i \in 1 .. 2 ^ root_bits |-> RootOf(i - 1)],
        subs |-> FlattenSeq([i \in 1 .. 2 ^ root_bits |-> SubOf(i - 1)])]

\* An entry in one word: two bits of kind, eight of length, the rest the value.
PackEntry(e) ==
    CASE e[1] = "none"     -> 0
      [] e[1] = "symbol"   -> 1 + 4 * e[3] + 1024 * e[2]
      [] e[1] = "subtable" -> 2 + 4 * e[3] + 1024 * e[2]

UnpackEntry(word) ==
    LET len == (word \div 4) % 256 IN
    CASE word % 4 = 1 -> Symbol((word \div 1024) % 65536, len)
      [] word % 4 = 2 -> Subtable(word \div 1024, len)
      [] OTHER        -> Nothing

\* The table as a sequence of numbers, each of one, two or four bytes.
SerializeLut(lut) ==
    <<lut.symbols, lut.root_bits, lut.max_bits, Len(lut.root), Len(lut.subs)>>
    \o [i \in 1 .. Len(lut.root) |-> PackEntry(lut.root[i])]
    \o [i \in 1 .. Len(lut.subs) |-> PackEntry(lut.subs[i])]

RootEntryOk(lut, e) ==
    \/ e = Nothing
    \/ e[1] = "symbol" /\ e[3] \in 1 .. lut.root_bits /\ e[2] < lut.symbols
    \/ /\ e[1] = "subtable" /\ e[3] > 0 /\ lut.root_bits + e[3] <= lut.max_bits
       /\ e[2] + 2 ^ e[3] <= Len(lut.subs)

\* A subtable has no hole and leads no further.
SubEntryOk(lut, e) ==
    e[1] = "symbol" /\ e[3] \in lut.root_bits + 1 .. lut.max_bits /\ e[2] < lut.symbols

LutOf(words) ==
    LET entries == [i \in 1 .. Len(words) - 5 |-> UnpackEntry(words[5 + i])] IN
    [symbols |-> words[1], root_bits |-> words[2], max_bits |-> words[3],
     root |-> SubSeq(entries, 1, words[4]), subs |-> SubSeq(entries, words[4] + 1, Len(entries))]

LutAccepted(words) ==
    /\ Len(words) >= 5
    /\ words[1] > 0 /\ words[2] \in 1 .. words[3] /\ words[3] <= 31
    /\ words[4] = 2 ^ words[2] /\ words[4] + words[5] = Len(words) - 5
    /\ \A i \in 6 .. Len(words) : words[i] % 4 # 3
    /\ LET lut == LutOf(words) IN
       /\ \A i \in DOMAIN lut.root : RootEntryOk(lut, lut.root[i])
       /\ \A i \in DOMAIN lut.subs : SubEntryOk(lut, lut.subs[i])

--------------------------------------------------------------------------------
(* Symbols to bits and back.                                                   *)

EncodeSymbols(symbols, codes) == FlattenSeq([i \in DOMAIN symbols |-> codes[symbols[i]]])

\* Bits in bytes, the lowest first, and the first so many bits of bytes.
BytesOf(bits) == [k \in 1 .. (Len(bits) + 7) \div 8 |-> Peek(bits, 8 * k - 7, 8)]
BitsOf(bytes, bit_len) ==
    [i \in 1 .. bit_len |-> (bytes[(i + 7) \div 8] \div 2 ^ ((i - 1) % 8)) % 2]

\* The entry for the bits at a position; a table is never entered twice.
Lookup(lut, bits, pos) ==
    LET e == lut.root[Peek(bits, pos, lut.root_bits) + 1] IN
    IF e[1] # "subtable" THEN e
    ELSE lut.subs[e[2] + Peek(bits, pos + lut.root_bits, e[3]) + 1]

RECURSIVE DecodeFrom(_, _, _)
DecodeFrom(lut, bits, pos) ==
    LET e    == Lookup(lut, bits, pos)
        rest == DecodeFrom(lut, bits, pos + e[3])
    IN IF pos > Len(bits) THEN <<>>
       ELSE IF e[1] # "symbol" THEN Failed
       ELSE IF e[3] > Len(bits) - pos + 1 THEN Failed
       ELSE IF rest = Failed THEN Failed
       ELSE <<e[2]>> \o rest

DecodeByLut(bits, lut) == DecodeFrom(lut, bits, 1)

\* The tree takes a bit at a time and finds the symbol whose code they are; an edge
\* that is not there and a code that is cut off are errors.
RECURSIVE DecodeByTree(_, _)
DecodeByTree(bits, codes) ==
    LET found == {s \in DOMAIN codes : IsPrefix(codes[s], bits)}
        s     == CHOOSE s \in found : TRUE
        rest  == DecodeByTree(SubSeq(bits, Len(codes[s]) + 1, Len(bits)), codes)
    IN IF bits = <<>> THEN <<>>
       ELSE IF found = {} THEN Failed
       ELSE IF rest = Failed THEN Failed
       ELSE <<s>> \o rest
================================================================================
