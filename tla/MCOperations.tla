---------------------------- MODULE MCOperations ----------------------------
(* Model-checking instance of Operations. *)
EXTENDS Operations
=============================================================================
