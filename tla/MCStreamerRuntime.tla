------------------------- MODULE MCStreamerRuntime -------------------------
(* Model-checking instance of StreamerRuntime. *)
EXTENDS StreamerRuntime
=============================================================================
