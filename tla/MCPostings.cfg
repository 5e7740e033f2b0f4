CONSTANTS
  Account = {world, a, b}
  Asset = {usd}
  World = world
  NoAmount = NoAmount
  MaxLen = 2
  MaxAmount = 2
  MaxHeld = 2
SPECIFICATION Spec
INVARIANTS
  UpdatesAreTheSums
  SweepNeverOverdraws
  SweepLeavesNothing
  ReversalRestores
