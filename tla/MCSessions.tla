----------------------------- MODULE MCSessions -----------------------------
(* Sessions for TLC: two requests at a time on one account. *)
EXTENDS Sessions
=============================================================================
