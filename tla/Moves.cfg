CONSTANTS
  Account = {"a", "b"}
  Asset = {"eur", "usd"}
  World = "b"
  NoAmount = NoAmount
  NoSession = NoSession
  Session = {s1, s2}
  Date = {1, 2}
  Request <- MCRequest
  MaxRequests = 4
  Statement = "a"
  Limit = 1
SYMMETRY MCSymmetry
SPECIFICATION Spec
INVARIANTS
  EffectiveIsReplay
  FrozenIsReplay
  StatementIsComplete
PROPERTIES
  HistoryIsFrozen
CHECK_DEADLOCK FALSE
