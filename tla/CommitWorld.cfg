CONSTANTS
  Account = {"a", "b", "world"}
  Asset = {"usd"}
  World = "world"
  NoAmount = NoAmount
  NoSession = NoSession
  Key = {"k1", "k2"}
  NoKey = NoKey
  Ref = {"r1"}
  NoRef = NoRef
  NoTag = NoTag
  Rank <- MCRank
  Session = {s1, s2}
  Request <- CloseCalls
  PolicyRow <- WorldPolicy
  MaxAttempts = 1
  MaxRequests = 1
SPECIFICATION Spec
INVARIANT
  WorldMayGoNegative
CHECK_DEADLOCK FALSE
