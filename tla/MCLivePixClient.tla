---------------------------- MODULE MCLivePixClient ----------------------------
(***************************************************************************)
(* A small instance of LivePixClient for TLC.                              *)
(***************************************************************************)
EXTENDS LivePixClient, TLC

\* Application x takes Basic authentication, y takes credentials in the body.
MCAccepts == [a \in Accounts |-> IF a = "x" THEN {"basic"} ELSE {"post"}]

\* Requests are interchangeable, and only safety is checked.
Requesters == Permutations(Requests)
================================================================================
