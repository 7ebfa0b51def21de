---------------------------- MODULE MCPdeflateBoth ----------------------------
(* Two instances of PdeflateCompress side by side: the one the cfg describes,  *)
(* and one with the shared queue and no faults.                                *)
EXTENDS MCPdeflateCompress

\* The options of the first instance, but for the queue, a minimum that lets the
\* GPU take the short last chunk, and batches of three.
Shared == INSTANCE PdeflateCompress WITH
            Policy <- "GlobalQueue", Faults <- {}, GpuMinChunkSize <- 1, GpuBatchLimit <- 3

VARIABLE instance

BothInit == instance \in {"given", "shared"} /\ Init

BothNext ==
    /\ UNCHANGED instance
    /\ \/ instance = "given" /\ Next
       \/ instance = "shared" /\ Shared!Next

BothSpec ==
    /\ BothInit /\ [][BothNext]_<<vars, instance>>
    /\ WF_<<vars, instance>>(instance = "given" /\ Producer /\ UNCHANGED instance)
    /\ WF_<<vars, instance>>(instance = "given" /\ Writer /\ UNCHANGED instance)
    /\ \A w \in Workers :
          WF_<<vars, instance>>(instance = "given" /\ Worker(w) /\ UNCHANGED instance)
    /\ WF_<<vars, instance>>(instance = "shared" /\ Shared!Producer /\ UNCHANGED instance)
    /\ WF_<<vars, instance>>(instance = "shared" /\ Shared!Writer /\ UNCHANGED instance)
    /\ \A w \in Workers :
          WF_<<vars, instance>>(instance = "shared" /\ Shared!Worker(w) /\ UNCHANGED instance)

\* Where nothing fails, no call fails, see NoErrorWithoutFault, and whoever sleeps
\* at the shared queue has a reason to.
SharedInstance ==
    instance = "shared" => Shared!NoErrorWithoutFault /\ Shared!NoLostWakeup
================================================================================
