CONSTANTS
  Events = {e1, e2}
  Senders = {w1, w2}
  DispatchAttempts = 2
  RetryAttempts = 1
  MaxTries = 4
  Limit = 2
  KeepFailed = 1
  MaxErrors = 1
SPECIFICATION OutboxFairSpec
CHECK_DEADLOCK FALSE
PROPERTIES ImplementsDelivery DeliveredIsSilent SavedIsTried
