------------------------------ MODULE MCCustomers ------------------------------
(***************************************************************************)
(* A small instance of Customers for TLC.                                  *)
(***************************************************************************)
EXTENDS Customers

\* The first attempt makes up the same document for both addresses.
MCSynthetic == [e \in Emails |-> [n \in 0 .. MaxAttempts - 1 |->
                                    IF n = 0 THEN "s" ELSE IF e = "a@x" THEN "sa" ELSE "sb"]]
================================================================================
