CONSTANTS
  Operator = {o1, o2}
  NoTip = NoTip
  MaxWrites = 4
  MaxTips = 2
  MaxRestores = 2
SYMMETRY MCSymmetry
SPECIFICATION Spec
INVARIANTS
  LogVerifies
  CountersAgree
  OkMeansNothingRecordedIsLost
  RecordedIdsKeepTheirMeaning
CHECK_DEADLOCK FALSE
