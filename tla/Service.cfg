CONSTANTS
  pay = pay
  rival = rival
  loose = loose
  peek = peek
  k = k
  Intent <- Intents
  KeyOf <- Keys
  BodyOf <- Bodies
  NoKey = NoKey
  Dry <- Previews
  Process = {p, q}
  Request = {r1, r2}
  None = None
  MaxConns = 2
  AllowUnkeyed = FALSE
  MaxSends = 3
  MaxStops = 1
SPECIFICATION Spec
INVARIANTS PaidOnce VerdictsHold LosersLeaveAConnection
PROPERTY RequestsEnd
CHECK_DEADLOCK FALSE
