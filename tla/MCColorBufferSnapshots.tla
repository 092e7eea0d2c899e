---------------------- MODULE MCColorBufferSnapshots ------------------------
(* Finite instances of ColorBufferSnapshots; see the README for the bounds. *)
EXTENDS ColorBufferSnapshots

OneProcess == {1}

Headless == [refCountPipe |-> FALSE, noDelayClose |-> FALSE, preO |-> FALSE,
             useSubWindow |-> FALSE, guestManaged |-> FALSE]
PostO == [Headless EXCEPT !.useSubWindow = TRUE]
PipeHeadless == [Headless EXCEPT !.refCountPipe = TRUE]

SnapshotModes == {PostO, PipeHeadless}
HeadlessOnly == {Headless}
=============================================================================
