CONSTANTS
  Account = {"a", "b", "world"}
  Asset = {"usd"}
  World = "world"
  NoAmount = NoAmount
  NoSession = NoSession
  Key = {"k1", "k2"}
  NoKey = NoKey
  Ref = {"r1"}
  NoRef = NoRef
  NoTag = NoTag
  Rank <- MCRank
  Session = {s1, s2}
  Request <- MoneyCalls
  PolicyRow <- MoneyPolicy
  MaxAttempts = 1
  MaxRequests = 3
SYMMETRY MCSymmetry
SPECIFICATION Spec
INVARIANTS
  TypeOK
  UpdatesAreTheSums
  SweepNeverOverdraws
  SweepLeavesNothing
  ReversalRestores
  CheckedIsCurrent
  GuardsNeverFire
  ProjectionMatchesLog
  PostCommitVolumesAreReplay
  RevertedOnce
PROPERTIES
  NoUnpermittedOverdraw
  Serialisable
CHECK_DEADLOCK FALSE
