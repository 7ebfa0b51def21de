------------------------------- MODULE ZipArchive -------------------------------
(* The ZIP file that cozip writes and reads (lib.rs): local headers with their *)
(* data, the central directory with the chunk index of each entry, and the two *)
(* end records.  It is a sequence of bytes of which only some are told apart:  *)
(* the first byte of a record stands for its fixed fields and carries their    *)
(* values, so a reader that comes in at a wrong offset does not find them.     *)
(* Names, data and indexes ("blobs") are sequences too; a CRC is what it is of. *)
EXTENDS Integers, Sequences, SequencesExt

CONSTANTS
    MaxInline, \* max_inline_blob_len: a longer index does not go in the entry
    U32Max     \* 2^32 - 1

Unit(part, value) == [part |-> part, value |-> value]
ZipRecord(part, value) == <<Unit(part, value)>>
NoBlob == <<>>

LocalLen == 1       \* 30 bytes
DescriptorLen == 1  \* 24
CentralLen == 1     \* 46
Zip64Len == 1       \* 28, the extra field
CzdiLen == 1        \* 8 to 20, without an inline index
EndLen == 1         \* 56
CzdgLen == 1        \* 12, the header of the area of indexes
LocatorLen == 1     \* 20

--------------------------------------------------------------------------------
(* ZipWriteState.  offset is counted, not asked of the file.                   *)

EmptyZip == [out |-> <<>>, offset |-> 0, central |-> <<>>,
             stats |-> [entries |-> 0, input_bytes |-> 0, output_bytes |-> 0]]

LocalHeader(e) == ZipRecord("local", [name_len |-> Len(e.name), extra_len |-> 0]) \o e.name

Descriptor(e) == ZipRecord("descriptor", [crc |-> e.crc, compressed_size |-> e.compressed_size,
                                       uncompressed_size |-> e.uncompressed_size])

EntryLen(e) == LocalLen + Len(e.name) + e.compressed_size + DescriptorLen

\* write_precompressed_entry; the two others write the same.
WriteEntry(Z, e, data) ==
    [out     |-> Z.out \o LocalHeader(e) \o data \o Descriptor(e),
     offset  |-> Z.offset + EntryLen(e),
     central |-> Append(Z.central, e @@ [local_header_offset |-> Z.offset]),
     stats   |-> [Z.stats EXCEPT !.entries = @ + 1, !.input_bytes = @ + e.uncompressed_size]]

\* resolve_czdi_write_plan: where the index of the k-th entry goes, and what the
\* area behind the end record holds before it.
Inline(e) == Len(e.blob) <= MaxInline

AreaBefore(C, k) ==
    FlattenSeq([i \in 1 .. k - 1 |-> IF Inline(C[i]) THEN <<>> ELSE C[i].blob])

Czdi(C, k) ==
    IF C[k].blob = NoBlob THEN ZipRecord("czdi", [kind |-> "none"])
    ELSE IF Inline(C[k])
      THEN ZipRecord("czdi", [kind |-> "inline", len |-> Len(C[k].blob), crc |-> C[k].blob])
               \o C[k].blob
      ELSE ZipRecord("czdi", [kind |-> "eocd64", offset |-> Len(AreaBefore(C, k)),
                           len |-> Len(C[k].blob), crc |-> C[k].blob])

CentralHeader(C, k) ==
    ZipRecord("central", [crc |-> C[k].crc, name_len |-> Len(C[k].name),
                       extra_len |-> Zip64Len + Len(Czdi(C, k))])
        \o C[k].name
        \o ZipRecord("zip64", [compressed_size |-> C[k].compressed_size,
                            uncompressed_size |-> C[k].uncompressed_size,
                            local_header_offset |-> C[k].local_header_offset])
        \o Czdi(C, k)

Central(C) == FlattenSeq([k \in DOMAIN C |-> CentralHeader(C, k)])

Area(C) ==
    LET area == AreaBefore(C, Len(C) + 1) IN
    IF area = <<>> THEN <<>> ELSE ZipRecord("czdg", [len |-> Len(area)]) \o area

\* finish
FinishZip(Z) ==
    LET central == Central(Z.central)
        area    == Area(Z.central)
        out     == Z.out \o central
                     \o ZipRecord("eocd64", [entries |-> Len(Z.central), central_offset |-> Z.offset,
                                          central_size |-> Len(central), ext_len |-> Len(area)])
                     \o area
                     \o ZipRecord("locator", [eocd64_offset |-> Z.offset + Len(central)])
                     \o ZipRecord("eocd", [entries |-> Len(Z.central)])
    IN [Z EXCEPT !.out = out,
                 !.stats.output_bytes = Z.offset + Len(central) + EndLen + Len(area) + LocatorLen + 1]

--------------------------------------------------------------------------------
(* Reading.  Positions count from 0, as in the file.  What is not found is an  *)
(* error of the code, and <<"error">> here.                                    *)

ReadError == <<"error">>
Found(bytes, pos, part) == pos \in 0 .. Len(bytes) - 1 /\ bytes[pos + 1].part = part
Value(bytes, pos)    == bytes[pos + 1].value
Slice(bytes, pos, n) == SubSeq(bytes, pos + 1, pos + n)

\* find_eocd: the last one in the file.
FindEocd(bytes) ==
    CHOOSE pos \in 0 .. Len(bytes) - 1 :
        Found(bytes, pos, "eocd") /\ \A later \in pos + 1 .. Len(bytes) - 1 : ~Found(bytes, later, "eocd")

\* try_read_zip64_eocd: the locator stands right before it.
ReadEnd(bytes) ==
    LET locator == FindEocd(bytes) - LocatorLen
        end     == Value(bytes, locator).eocd64_offset
    IN IF Found(bytes, locator, "locator") /\ Found(bytes, end, "eocd64")
         THEN Value(bytes, end) @@ [ext |-> Slice(bytes, end + EndLen, Value(bytes, end).ext_len)]
         ELSE ReadError

\* read_czdi_index_best_effort
ReadIndex(czdi, inline, ext) ==
    LET area  == SubSeq(ext, CzdgLen + 1, Len(ext))
        found == CASE czdi.kind = "none"   -> NoBlob
                   [] czdi.kind = "inline" -> SubSeq(inline, 1, czdi.len)
                   [] czdi.kind = "eocd64" -> Slice(area, czdi.offset, czdi.len)
    IN IF czdi.kind = "none" \/ found = czdi.crc THEN found ELSE NoBlob

\* One entry of the central directory.
ReadCentralEntry(bytes, pos, ext) ==
    IF ~Found(bytes, pos, "central") THEN ReadError
    ELSE LET fixed == Value(bytes, pos)
             extra == pos + CentralLen + fixed.name_len
             z64   == Value(bytes, extra)
             czdi  == Value(bytes, extra + Zip64Len)
         IN [name |-> Slice(bytes, pos + CentralLen, fixed.name_len), crc |-> fixed.crc,
             compressed_size |-> z64.compressed_size,
             uncompressed_size |-> z64.uncompressed_size,
             local_header_offset |-> z64.local_header_offset,
             index |-> ReadIndex(czdi, Slice(bytes, extra + Zip64Len + CzdiLen,
                                             fixed.extra_len - Zip64Len - CzdiLen), ext)]

\* read_central_directory_entries: one entry after another.
ReadCentral(bytes) ==
    LET end == ReadEnd(bytes)
        after(pos) == pos + CentralLen + Value(bytes, pos).name_len + Value(bytes, pos).extra_len
        start[k \in 1 .. end.entries] ==
            IF k = 1 THEN end.central_offset
            ELSE IF Found(bytes, start[k - 1], "central") THEN after(start[k - 1]) ELSE Len(bytes)
    IN IF end = ReadError THEN ReadError
       ELSE [k \in 1 .. end.entries |-> ReadCentralEntry(bytes, start[k], end.ext)]

\* read_entry_compressed_payload: the local header tells where the data begins.  A
\* size of 2^32 - 1 is looked for in its ZIP64 field, which is not written.
ReadPayload(bytes, entry) ==
    LET pos == entry.local_header_offset IN
    IF Found(bytes, pos, "local") /\ entry.compressed_size # U32Max
      THEN Slice(bytes, pos + LocalLen + Value(bytes, pos).name_len + Value(bytes, pos).extra_len,
                 entry.compressed_size)
      ELSE ReadError
================================================================================
