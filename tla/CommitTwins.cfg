CONSTANTS
  Account = {"a", "b", "world"}
  Asset = {"usd"}
  World = "world"
  NoAmount = NoAmount
  NoSession = NoSession
  Key = {"k1", "k2"}
  NoKey = NoKey
  Ref = {"r1"}
  NoRef = NoRef
  NoTag = NoTag
  Rank <- MCRank
  Session = {s1, s2}
  Request <- TwinCalls
  PolicyRow <- NoPolicy
  MaxAttempts = 1
  MaxRequests = 3
SPECIFICATION Spec
INVARIANT
  AnswersAgree
CHECK_DEADLOCK FALSE
