----------------------- MODULE MCCancellationRecency -----------------------
(* A small instance of CancellationRecency.                                *)
EXTENDS CancellationRecency

CONSTANTS t1, i1, i2, i3

OneThread == {t1}
ThreeIds == {i1, i2, i3}
CompletionOnly == {"complete"}
=============================================================================
