---------------------------- MODULE MCSettlement ----------------------------
(***************************************************************************)
(* Small instances of Settlement for TLC.                                  *)
(***************************************************************************)
EXTENDS Settlement

\* One charge by any means, or two whose payments have ids of their own and are
\* told apart by their origin only.
OneOrTwo == {<<m>> : m \in Means} \cup {<<"hosted", "hosted">>}

\* One run of each job at a time, named for its gateway.
OwnName == [s \in Syncs |-> s]
=============================================================================
