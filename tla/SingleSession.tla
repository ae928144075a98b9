---------------------------- MODULE SingleSession ----------------------------
(***************************************************************************)
(* What the router promises about one account (FR-047, one login per       *)
(* account): the credentials of at most one login are honoured, a new      *)
(* login takes over from whoever was there, and a login that has ended is  *)
(* never honoured again. Logins are numbered in the order of their success.*)
(***************************************************************************)
EXTENDS Naturals

VARIABLES
    honoured,   \* the logins some credential of which is accepted
    last        \* number of the latest successful login

Init == honoured = {} /\ last = 0

TakeOver == last' = last + 1 /\ honoured' = {last + 1}

End == honoured' = {} /\ UNCHANGED last

Next == TakeOver \/ End

Spec == Init /\ [][Next]_<<honoured, last>>
=============================================================================
