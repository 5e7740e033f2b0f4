CONSTANTS
  pay = pay
  rival = rival
  loose = loose
  peek = peek
  k = k
  Intent <- Intents
  KeyOf <- Keys
  BodyOf <- Bodies
  NoKey = NoKey
  Dry <- Previews
  Process = {p, q}
  Request = {r1, r2, r3}
  None = None
  MaxConns = 2
  AllowUnkeyed = FALSE
  MaxSends = 3
  MaxStops = 0
SPECIFICATION Spec
PROPERTY EveryRequestEnds
CHECK_DEADLOCK FALSE
