\* Two measured flows and one that is not.
SPECIFICATION Spec
CONSTANTS
  server = server
  station = station
  other = other
  f0 = f0
  f1 = f1
  Flow = {f0, f1}
  Source = {server, station, other}
  flowOf <- MCFlowOf
  Size = {1, 2}
  Start = 10
  Window = 2
  End = 16
  MaxBytes = 4
INVARIANTS
  ReportsTile
  NothingOverdue
CHECK_DEADLOCK FALSE
