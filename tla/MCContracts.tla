------------------------------ MODULE MCContracts ------------------------------
(***************************************************************************)
(* Small instances of Contracts for TLC.                                   *)
(***************************************************************************)
EXTENDS Contracts, TLC

\* One customer and one product.
MCPairOf == [i \in Ids |-> "p1"]
MCPairOfSub == [s \in Subs |-> "p1"]

\* A grace period that ends before the licence does.
MCManualGrace == {-1}

\* Callers and subscriptions are interchangeable.
Same == Permutations(Calls) \cup Permutations(Subs)
================================================================================
