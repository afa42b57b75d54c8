CONSTANTS
  Ids = {1, 2, 3}
  Emails = {"a@x", "b@x"}
  Documents = {"d", "s", "sa", "sb"}
  Given = {"d"}
  Synthetic <- MCSynthetic
  MaxAttempts = 2
  Queries = {r1, r2}
  NoEmail = "none"
  NoDocument = "none"
SPECIFICATION CustomersSpec
INVARIANT SameAnswer
PROPERTY UpsertIsAnswered
