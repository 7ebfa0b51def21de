---------------------------- MODULE FileWriteBarrier ----------------------------
(* What a file writer promises: writes are accepted, each is carried out after *)
(* it was accepted and once, in any order, and drain is a barrier.  It returns *)
(* "ok" only when everything accepted is in the file, unless an error was      *)
(* returned to somebody before.                                                *)
CONSTANT Writes

VARIABLES
    accepted, \* writes that were accepted
    written,  \* writes that are in the file, whole
    told,     \* an error was returned to the caller of a write
    outcome   \* "none" until drain returns, then "ok" or "failed"

vars == <<accepted, written, told, outcome>>

Init == accepted = {} /\ written = {} /\ told = FALSE /\ outcome = "none"

Accept(r) ==
    /\ outcome = "none" /\ r \notin accepted
    /\ accepted' = accepted \union {r}
    /\ UNCHANGED <<written, told, outcome>>

Write(r) ==
    /\ r \in accepted \ written
    /\ written' = written \union {r}
    /\ UNCHANGED <<accepted, told, outcome>>

Refuse == told' = TRUE /\ UNCHANGED <<accepted, written, outcome>>

DrainOk ==
    /\ outcome = "none" /\ (accepted = written \/ told)
    /\ outcome' = "ok" /\ UNCHANGED <<accepted, written, told>>

DrainFails ==
    /\ outcome = "none" /\ outcome' = "failed"
    /\ UNCHANGED <<accepted, written, told>>

Next ==
    \/ \E r \in Writes : Accept(r) \/ Write(r)
    \/ Refuse \/ DrainOk \/ DrainFails

Spec == Init /\ [][Next]_vars
================================================================================
