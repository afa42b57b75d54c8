--------------------------------- MODULE MCPanel ---------------------------------
\* The panel for TLC: which of the tabs, gateways, accounts or processes is which
\* does not matter.
EXTENDS Panel, TLC

Symmetry ==
  Permutations(Tabs) \cup Permutations(Gateways) \cup Permutations(Accounts)
    \cup Permutations(Processes)
================================================================================
