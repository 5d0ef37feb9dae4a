SPECIFICATION DnsSpec
CONSTANTS
  Window = {2, 3}
  MaxAge = 3
  LastScanGap = 1
  Gaps = {1, 2}
  Skips = {TRUE, FALSE}
  LookupCap = 4
INVARIANTS
  TypeOK
  PeriodIsExact
  PeriodsNest
