--------------------------- MODULE MCCharContacts ---------------------------
(***************************************************************************)
(* Bounty amounts for TLC: one the caller can afford, one equal to its     *)
(* balance (refused by the strict test), and a negative one.               *)
(***************************************************************************)
EXTENDS CharContacts

MCAmounts == { -1, 1, 2 }

=============================================================================
