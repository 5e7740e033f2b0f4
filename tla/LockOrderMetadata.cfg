CONSTANTS
  NoSession = NoSession
  Tx = {1}
  Account = {"a", "b"}
  Row = {"a-eur", "a-usd", "b-usd"}
  AccountOf <- MCAccountOf
  Rank <- MCRank
  Place <- MCPlace
  Size = 2
  Session = {s1, s2}
  Request <- MetadataCalls
SPECIFICATION Spec
INVARIANT
  NoDeadlock
