CONSTANTS
  Line = {1, 2, 3}
  LineOf <- MCLineOf
  Move = {1, 2, 3}
  MoveOf <- MCMoveOf
  Tx = {"t1", "t2"}
  TxRef <- MCTxRef
  TagsOf <- MCTagsOf
  Feed <- MCFeed
  Asset = {"USD"}
  NoRef = "none"
  Matcher = {w1, w2}
  MaxFailures = 1
  MaxTags = 1
SPECIFICATION Spec
INVARIANT MatchesAreWhole
PROPERTIES PairsAsPromised LoneCandidateIsSettled FileArrives
