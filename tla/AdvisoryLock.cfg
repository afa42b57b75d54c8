SPECIFICATION FairSpec
CONSTANTS
  Instances = {"a", "b"}
  Conns = {"a1", "a2", "b1", "b2"}
  Runs = {"s1", "s2", "s3", "s4"}
  HomeOf <- MCHomeOf
  Locks = {"l", "m"}
  LockOf <- MCLockOf
  MaxDepth = 2
PROPERTIES ImplementsJobLock OnlyClosingLoses LeakIsFreed
