------------------------------- MODULE MCAccess -------------------------------
(***************************************************************************)
(* Small instances of Access for TLC.                                      *)
(***************************************************************************)
EXTENDS Access

\* Every row is for the one pair of the one customer.
MCPairOf == [i \in Ids |-> "p1"]
MCCustomerOf == [p \in Pairs |-> "u1"]

\* An administrator may give the product a trial or take it away.
MCTrialDays == {0, NoDate}

\* Requests and callers share a process; the sweep runs in another.
MCHomeOf == [c \in Procs |-> IF c \in Sweepers THEN "n2" ELSE "n1"]
=============================================================================
