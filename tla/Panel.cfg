SPECIFICATION Spec
CONSTANTS
  Tabs = {t1, t2}
  Pages = {t1, t2}
  Admins = {a1, a2}
  Default = a1
  Processes = {n1, n2}
  MaxTokens = 2
  Nobody = Nobody
  Gateways = {g1, g2}
  Accounts = {c1, c2}
  MaxHooks = 2
  Empty = Empty
  MaxGestures = 7
SYMMETRY Symmetry
INVARIANTS HookVerifies
PROPERTIES ServedInSession 
CHECK_DEADLOCK FALSE
