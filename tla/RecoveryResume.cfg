CONSTANTS
  Operator = {o1, o2}
  NoTip = NoTip
  MaxWrites = 4
  MaxTips = 2
  MaxRestores = 0
SPECIFICATION Spec
PROPERTY
  ResumeLeavesASoundLedgerAlone
CHECK_DEADLOCK FALSE
