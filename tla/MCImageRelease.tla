--------------------------- MODULE MCImageRelease ---------------------------
(***************************************************************************)
(* Instance of ImageRelease for TLC: one image, whose two presents may go  *)
(* to two queues and finish out of order, and two workers, so that two     *)
(* requests or two waits are in progress at once.  Images share nothing    *)
(* but the threads and the ring, whose fences wait for one another anyway. *)
(***************************************************************************)
EXTENDS ImageRelease
=============================================================================
