CONSTANTS
  Externals = {1, 2}
  Admins = {a1}
  Workers = {w1}
  Attempts = 2
  MaxNow = 1
  MaxFailures = 1
SPECIFICATION FairSpec
CHECK_DEADLOCK FALSE
INVARIANTS NoLooseBilling CanceledIsNotBilled InForceIsLicensed
PROPERTY PaidIsCredited
