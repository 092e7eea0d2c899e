------------------------ MODULE MCVirtioGpuTimelines ------------------------
(***************************************************************************)
(* Instance of VirtioGpuTimelines for TLC.  Two rings, so that the tasks   *)
(* of one ring could disturb the other, two fences and three tasks, so     *)
(* that a fence can sit between tasks that finish out of order.            *)
(***************************************************************************)
EXTENDS VirtioGpuTimelines

CONSTANTS r1, r2, f1, f2

MCRings  == {r1, r2}
MCFences == {f1, f2}

=============================================================================
