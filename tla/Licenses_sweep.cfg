CONSTANTS
  Ids = {1}
  Pairs = {"p1"}
  PairOf <- MCPairOf
  Calls = {c1}
  Sweepers = {s1}
  Emitters = {"trial", "subscription"}
  Terms = {0}
  ManualTerms = {}
  ManualGrace = {}
  DefaultGrace = 1
  MaxNow = 3
  MaxFailures = 1
SPECIFICATION FairSpec
INVARIANT OnlyTrialsExpire
PROPERTIES GraceHonoured OverdueIsSwept
