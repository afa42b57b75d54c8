CONSTANTS
  Notices = {"n1", "n2"}
  KeyOf <- EventKeys
  Requests = {q1, q2}
  Workers = {w1, w2}
  Attempts = 3
  MaxSent = 2
  MaxFailures = 2
SPECIFICATION InboxFairSpec
CHECK_DEADLOCK FALSE
INVARIANTS HandledOnce
PROPERTY AckedIsHandled
