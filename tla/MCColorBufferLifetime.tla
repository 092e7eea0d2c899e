----------------------- MODULE MCColorBufferLifetime ------------------------
(* Finite instances of ColorBufferLifetime; see the README for the bounds. *)
EXTENDS ColorBufferLifetime

ThreadAndProcess == {0, 1}

NoFeature == [refCountPipe |-> FALSE, noDelayClose |-> FALSE, preO |-> FALSE,
              useSubWindow |-> FALSE, guestManaged |-> FALSE]

PostO  == [NoFeature EXCEPT !.useSubWindow = TRUE]
PreOHeadless == [NoFeature EXCEPT !.preO = TRUE]
PipeHeadless == [NoFeature EXCEPT !.refCountPipe = TRUE]
Pipe   == [PipeHeadless EXCEPT !.useSubWindow = TRUE]
VirtioHeadless == [NoFeature EXCEPT !.noDelayClose = TRUE, !.guestManaged = TRUE]
Virtio == [VirtioHeadless EXCEPT !.useSubWindow = TRUE]

HostModes == {PostO, PreOHeadless, Pipe, PipeHeadless, Virtio, VirtioHeadless}
OnlyPipe == {Pipe}
=============================================================================
