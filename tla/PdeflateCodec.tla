------------------------------ MODULE PdeflateCodec ------------------------------
(* A stream of one chunk on its way: the header is written and the chunk        *)
(* compressed and marked as the last one, either may be damaged where it is     *)
(* stored, and then the header is read and the chunk decoded on the CPU and     *)
(* prepared for the GPU.                                                        *)
EXTENDS PdeflateChunk

CONSTANTS
    CodecInputs,     \* what is compressed: chunk, options, what the GPU does, header
    EntryLenMax,     \* the longest table entry that options may ask for, 254
    U16Max           \* the longest name that a header has room for

VARIABLES
    codec,       \* how far the stream is: "plain", "packed", "stored", "read", "panicked", "refused"
    input,       \* what goes in
    header,      \* the header as it is written
    payload,     \* the payload of the chunk
    damaged,     \* whether one of them has been changed since
    opened,      \* what is read of the header
    decoded,     \* what the decoder makes of the payload
    prepared     \* and what is prepared for the GPU

codecVars == <<codec, input, header, payload, damaged, opened, decoded, prepared>>

--------------------------------------------------------------------------------
(* The header: its fields in turn, an optional one where its flag says so.      *)

EncodeHeader(h) ==
    <<"PDS0", 1, (IF h.size = <<>> THEN {} ELSE {"size"}) \union (IF h.name = <<>> THEN {} ELSE {"name"}),
      h.chunk_size>>
    \o h.size \o (IF h.name = <<>> THEN <<>> ELSE <<Len(h.name[1])>> \o h.name[1])

NameFits(h) == \A k \in DOMAIN h.name : Len(h.name[k]) <= U16Max

NoHeader == [ok |-> FALSE, chunk_size |-> 0, size |-> <<>>, name |-> <<>>, encoded_len |-> 0]

\* A reader that meets the end of the file in the header fails.
ReadHeader(units) ==
    LET sized == "size" \in units[3]
        named == "name" \in units[3]
        at    == IF sized THEN 6 ELSE 5
        len   == IF named THEN at + units[at] ELSE at - 1
    IN IF Len(units) < 4 \/ units[1] # "PDS0" \/ units[2] # 1 THEN NoHeader
       ELSE IF Len(units) < at - 1 \/ (named /\ Len(units) < at) \/ Len(units) < len THEN NoHeader
       ELSE [ok |-> TRUE, chunk_size |-> units[4],
             size |-> IF sized THEN <<units[5]>> ELSE <<>>,
             name |-> IF named THEN <<SubSeq(units, at + 1, len)>> ELSE <<>>,
             encoded_len |-> len]

--------------------------------------------------------------------------------
(* Writing.                                                                    *)

CodecInit ==
    /\ codec = "plain" /\ input \in CodecInputs /\ damaged = FALSE
    /\ header = <<>> /\ payload = NoPayload
    /\ opened = NoHeader /\ decoded = Failed /\ prepared = [ok |-> FALSE, meta |-> <<>>]

\* The options that a call refuses.
OptionsValid(opt) ==
    /\ \A n \in {opt.sections, opt.entries, opt.probe, opt.history, opt.stride} : n > 0
    /\ opt.entry_len \in 1 .. EntryLenMax
    /\ opt.min_ref \in 3 .. MaxCmdLen
    /\ opt.max_ref \in opt.min_ref .. MaxCmdLen

\* The GPU may find a match for every byte of the chunk, behind whose end it does not
\* look; it knows nothing of sections.
LongestMatch(table, rest) ==
    LET len == [id \in DOMAIN table |-> Agree(table[id], rest, Least(Len(rest), RepeatCap))]
        ids == {id \in DOMAIN table : \A other \in DOMAIN table : len[other] <= len[id]}
    IN IF table = <<>> THEN [id |-> 0, len |-> 0] ELSE [id |-> Min(ids), len |-> len[Min(ids)]]

Matches(table) ==
    [p \in 1 .. Len(input.chunk) |->
       LongestMatch(table, SubSeq(input.chunk, p, Len(input.chunk)))]

\* It gives nothing, or a table, or matches too where a table has entries and what it
\* repeats is as long as a reference.
Device(table) ==
    [index   |-> IF input.gpu = "none" THEN <<>> ELSE TableIndex(table),
     data    |-> IF input.gpu = "none" THEN <<>> ELSE TableData(table),
     matches |-> IF input.gpu = "matches" /\ table # <<>> /\ RepLen(input.options) >= input.options.min_ref
                   THEN Matches(table) ELSE <<>>]

Accepted == OptionsValid(input.options) /\ NameFits(input.header)

Pack ==
    /\ codec = "plain" /\ Accepted
    /\ header' = EncodeHeader(input.header)
    /\ \E device \in {Device(BuildTable(input.chunk, input.options))} :
          payload' = CompressChunk(input.chunk, input.options, device)
    /\ codec' = IF payload' = NoPayload THEN "panicked" ELSE "packed"
    /\ UNCHANGED <<input, damaged, opened, decoded, prepared>>

\* Nothing is written for options that are not valid and a name that does not fit.
Refuse ==
    /\ codec = "plain" /\ ~Accepted
    /\ codec' = "refused"
    /\ UNCHANGED <<input, header, payload, damaged, opened, decoded, prepared>>

Mark ==
    /\ codec = "packed"
    /\ codec' = "stored"
    /\ payload' = SetFinalStream(payload, input.final)
    /\ UNCHANGED <<input, header, damaged, opened, decoded, prepared>>

--------------------------------------------------------------------------------
(* The medium may lose the end of what is written, or change one of the numbers *)
(* in it.                                                                      *)

Near(n) == {n + 1, Max({0, n - 1})} \ {n}

Changed(p) ==
    {[p EXCEPT !.flags = @ \ {"huffman"}], [p EXCEPT !.flags = @ \union {"huffman"}],
     [p EXCEPT !.flags = @ \union {"other"}]}
    \union {[p EXCEPT !.len = n] : n \in Near(p.len)}
    \union {[p EXCEPT !.tables = n] : n \in Near(p.tables)}
    \union {[p EXCEPT !.sections = n] : n \in Near(p.sections)}
    \union UNION {{[p EXCEPT !.offsets[k] = n] : n \in Near(p.offsets[k])} : k \in 1 .. 5}
    \union UNION {{[p EXCEPT !.body[k] = n] : n \in Near(p.body[k])} : k \in DOMAIN p.body}
    \union {[p EXCEPT !.body = SubSeq(@, 1, n)] : n \in {0, Len(p.body) - 1} \ {-1}}

Damage ==
    /\ codec = "stored" /\ ~damaged
    /\ damaged' = TRUE
    /\ \/ payload' \in Changed(payload) \ {payload} /\ header' = header
       \/ \E n \in 0 .. Len(header) - 1 : header' = SubSeq(header, 1, n) /\ payload' = payload
    /\ UNCHANGED <<codec, input, opened, decoded, prepared>>

--------------------------------------------------------------------------------
(* Reading.  The output has room for what the payload says.                     *)

Read ==
    /\ codec = "stored"
    /\ codec' = "read"
    /\ opened' = ReadHeader(header)
    /\ prepared' = Preprocess(payload)
    /\ decoded' = DecompressChunk(payload, payload.len)
    /\ UNCHANGED <<input, header, payload, damaged>>

CodecDone == codec \in {"read", "panicked", "refused"} /\ UNCHANGED codecVars

CodecNext == Pack \/ Refuse \/ Mark \/ Damage \/ Read \/ CodecDone

CodecSpec == CodecInit /\ [][CodecNext]_codecVars

--------------------------------------------------------------------------------
(* Properties.                                                                 *)

\* What is read of a stream that nothing happened to is what was written: every byte
\* of the chunk whatever the table, the matches and the entropy stage made of it, the
\* header, and the length after which the chunks begin.
ChunkExact ==
    codec = "read" /\ ~damaged =>
        /\ decoded = input.chunk /\ prepared.ok
        /\ ("final" \in payload.flags) = input.final
        /\ opened = [ok |-> TRUE, chunk_size |-> input.header.chunk_size,
                     size |-> input.header.size, name |-> input.header.name,
                     encoded_len |-> Len(header)]

\* No valid options make the encoder fail.
ValidOptionsEncode == codec # "panicked"

\* The sections of a payload that is prepared for the GPU lie beside each other, in
\* the commands and in the output, and leave nothing of either.
Tiled(meta, from, len, to) ==
    /\ \A s \in DOMAIN meta :
          from[s] = FoldLeft(+, 0, SubSeq(len, 1, s - 1))
    /\ FoldLeft(+, 0, len) = to

\* Whatever is done to a payload: the decoder gives an error or as many bytes as it
\* says, and it accepts nothing that is not prepared for the GPU; and what is prepared
\* has sections that the GPU can decode beside each other.
ReadersAgree ==
    codec = "read" =>
        /\ decoded # Failed => prepared.ok /\ Len(decoded) = payload.len
        /\ prepared.ok =>
              LET meta == prepared.meta IN
              /\ Tiled(meta, [s \in DOMAIN meta |-> meta[s].cmd_offset],
                       [s \in DOMAIN meta |-> meta[s].cmd_len], Len(Part(payload, 5)))
              /\ Tiled(meta, [s \in DOMAIN meta |-> meta[s].out_offset],
                       [s \in DOMAIN meta |-> meta[s].out_len], payload.len)
================================================================================
