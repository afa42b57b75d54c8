------------------------------- MODULE MCCheckout -------------------------------
(***************************************************************************)
(* A small instance of Checkout for TLC.                                   *)
(***************************************************************************)
EXTENDS Checkout, TLC

\* The slots for clicks are interchangeable, and only invariants are checked.
Slots == Permutations(Clicks)
================================================================================
