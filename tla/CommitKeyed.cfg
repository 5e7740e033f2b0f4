CONSTANTS
  Account = {"a", "b", "world"}
  Asset = {"usd"}
  World = "world"
  NoAmount = NoAmount
  NoSession = NoSession
  Key = {"k1", "k2"}
  NoKey = NoKey
  Ref = {"r1"}
  NoRef = NoRef
  NoTag = NoTag
  Rank <- MCRank
  Session = {s1, s2}
  Request <- KeyedCalls
  PolicyRow <- NoPolicy
  MaxAttempts = 2
  MaxRequests = 3
SPECIFICATION FairSpec
INVARIANTS
  OncePerKey
  AnswersAgree
  LogVerifies
PROPERTIES
  CallsReturn
CHECK_DEADLOCK FALSE
