CONSTANTS
  Ids = {1, 2}
  Pairs = {"p1"}
  PairOf <- MCPairOf
  Calls = {c1, r1}
  Sweepers = {s1}
  Requests = {r1}
  Emitters = {"subscription", "trial"}
  Sellers = {"subscription"}
  Commands = {"revoke"}
  Customers = {"u1"}
  CustomerOf <- MCCustomerOf
  Terms = {0}
  TrialDays <- MCTrialDays
  ManualTerms = {}
  ManualGrace = {}
  DefaultGrace = 2
  Instances = {"n1", "n2"}
  HomeOf <- MCHomeOf
  TTL = 0
  MaxNow = 1
  MaxFailures = 0
SPECIFICATION AccessSpec
INVARIANTS DecisionsAgree StaleIsDropped TrialOnce
PROPERTY GrantIsFounded
