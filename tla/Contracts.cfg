CONSTANTS
  Ids = {1, 2}
  Pairs = {"p1"}
  PairOf <- MCPairOf
  Calls = {c1, c2}
  Sweepers = {w1}
  Emitters = {"manual"}
  Terms = {}
  ManualTerms = {0}
  ManualGrace <- MCManualGrace
  DefaultGrace = 1
  MaxNow = 1
  MaxFailures = 1
  Subs = {s1, s2}
  PairOfSub <- MCPairOfSub
  Term = 1
  Trial = 0
  Slack = 1
  MaxOps = 5
SPECIFICATION ContractsSpec
SYMMETRY Same
CHECK_DEADLOCK FALSE
INVARIANTS OneLiveLicence ColumnsAgree OneContract TermKept
PROPERTY RevokedStays
