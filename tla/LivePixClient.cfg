CONSTANTS
  Requests = {r1, r2}
  Accounts = {"x", "y"}
  Accepts <- MCAccepts
  Limits = {1, 3}
  NoAccount = "none"
SPECIFICATION ClientSpec
INVARIANT OwnTokenUnlessLate
PROPERTY LimitTurnsPaymentsAway
SYMMETRY Requesters
