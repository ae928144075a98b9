-------------------------- MODULE MCSegmentWindow --------------------------
(* SegmentWindow for TLC.                                                  *)
EXTENDS SegmentWindow
=============================================================================
