-------------------------- MODULE MCRenderChannel --------------------------
(* A packet without an answer, and one of two buffers that is answered by   *)
(* two, more than the queue to the guest holds.                             *)
EXTENDS RenderChannel

MCStream == <<More, 2, 0>>
MCShort == <<1>>
============================================================================
