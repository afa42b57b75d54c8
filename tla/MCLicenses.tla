----------------------------- MODULE MCLicenses -----------------------------
(***************************************************************************)
(* Small instances of Licenses for TLC.                                    *)
(***************************************************************************)
EXTENDS Licenses, TLC

\* Every row is for the one pair, which is where rows can conflict.
MCPairOf == [i \in Ids |-> "p1"]

Callers == Permutations(Calls)
=============================================================================
