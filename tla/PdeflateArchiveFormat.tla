-------------------------- MODULE PdeflateArchiveFormat --------------------------
(* The directory archive that the PDeflate stream carries (cozip, lib.rs): a   *)
(* magic with a version, a record for each entry, and an end marker.  A record *)
(* is a tag, the length of the path, the path, and for a file its length and   *)
(* its bytes.  A byte is named for what it is: the entry it belongs to, its    *)
(* field and its place there; a field that takes several bytes has two.        *)
EXTENDS Naturals, Sequences, SequencesExt

\* An entry of the directory.
IsFile(entry) == entry.kind = "file"

Field(k, name, n) == [i \in 1 .. n |-> [entry |-> k, field |-> name, place |-> i]]

ArchiveHeader == Field(0, "magic", 2)

RecordHeader(entries, k) ==
    Field(k, IF IsFile(entries[k]) THEN "file" ELSE "dir", 1)
        \o Field(k, "path_len", 2) \o Field(k, "path", 1)
        \o (IF IsFile(entries[k]) THEN Field(k, "file_len", 2) ELSE <<>>)

ArchiveEnd == Field(0, "end", 1)

\* The whole archive.
ArchiveStream(entries) ==
    ArchiveHeader
        \o FlattenSeq([k \in DOMAIN entries |->
                          RecordHeader(entries, k) \o Field(k, "data", entries[k].len)])
        \o ArchiveEnd
================================================================================
