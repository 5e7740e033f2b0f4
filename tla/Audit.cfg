CONSTANTS
  Account = {a, b}
  Key = {k}
  Value = {v, w}
  Tagged = {a, 1}
  Session = {s1, s2}
  None = None
  MaxTx = 2
  MaxChanges = 2
  MaxTampers = 1
SPECIFICATION Spec
INVARIANTS CleanIsSound MetadataIsReplay
PROPERTY AlarmsPass
CHECK_DEADLOCK FALSE
