SPECIFICATION LogSpec
CONSTANTS
  r1 = r1
  r2 = r2
  Request <- MCRequest
  Span <- MCSpan
  Retention = 3
  MaxNow = 6
  MaxReports = 1
  MaxChan = 3
INVARIANTS
    LoggedOnce
    ReadersAreAnswered
    ReportGrows
PROPERTIES
    EntriesLand
