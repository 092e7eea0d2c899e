---------------------------- MODULE MCAsgStream ----------------------------
(* AsgStream on a small buffer. *)
EXTENDS AsgStream
=============================================================================
