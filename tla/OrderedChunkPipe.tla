--------------------------- MODULE OrderedChunkPipe ---------------------------
(* What a chunked, order-restoring stream stage promises to its caller,        *)
(* whatever threads it runs inside: chunks are accepted from the input one     *)
(* after the other, at most Window of them are in flight, they leave in the    *)
(* order they came, and a call that returns without an error has read its      *)
(* whole input.                                                                *)
(*                                                                             *)
(* The promise is deliberately silent on whether every accepted chunk has left *)
(* when the call returns: that is a property of its own, because the           *)
(* raw-deflate compressor does not keep it (DeflateCompress!OkMeansAllWritten).*)
EXTENDS Integers

CONSTANTS NumChunks,   \* chunks the input holds
          Window       \* chunks in flight at once; 0 is no limit

VARIABLES accepted,    \* chunks read from the input
          emitted,     \* chunks handed to the output, and accounted for
          outcome      \* "none" while the call runs, then "ok" or "error"

vars == <<accepted, emitted, outcome>>

Init == accepted = 0 /\ emitted = 0 /\ outcome = "none"

Accept ==
    /\ outcome = "none"
    /\ accepted < NumChunks
    /\ Window > 0 => accepted - emitted < Window
    /\ accepted' = accepted + 1
    /\ UNCHANGED <<emitted, outcome>>

Emit ==
    /\ outcome = "none"
    /\ emitted < accepted
    /\ emitted' = emitted + 1
    /\ UNCHANGED <<accepted, outcome>>

ReturnOk ==
    /\ outcome = "none"
    /\ accepted = NumChunks
    /\ outcome' = "ok"
    /\ UNCHANGED <<accepted, emitted>>

ReturnError ==
    /\ outcome = "none"
    /\ outcome' = "error"
    /\ UNCHANGED <<accepted, emitted>>

Next == Accept \/ Emit \/ ReturnOk \/ ReturnError

Spec == Init /\ [][Next]_vars
===============================================================================
