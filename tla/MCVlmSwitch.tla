---------------------------- MODULE MCVlmSwitch ----------------------------
(* VlmSwitch for TLC.                                                      *)
EXTENDS VlmSwitch
=============================================================================
