------------------------- MODULE MCSegmentRecorder -------------------------
(* SegmentRecorder for TLC: the server's threads are interchangeable.      *)
EXTENDS SegmentRecorder, TLC

Symmetry == Permutations(Handlers)
=============================================================================
