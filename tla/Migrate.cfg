CONSTANTS
  Process = {p1, p2}
  first = first
  second = second
  branch = branch
  early = early
  edited = edited
  twice = twice
  Release = {first, second, branch, early, edited, twice}
  Files <- MCFiles
  None = None
  MaxStarts = 4
SPECIFICATION Spec
INVARIANTS HistoryIsTheSchema ServingMatchesSchema
PROPERTY LockedRunsEnd
CHECK_DEADLOCK FALSE
