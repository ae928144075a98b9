---------------------------- MODULE MCEventClips ----------------------------
(* EventClips for TLC: event times close enough for two finalizers. *)
EXTENDS EventClips
=============================================================================
