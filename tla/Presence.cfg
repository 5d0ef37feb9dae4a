SPECIFICATION FairSpec
CONSTANTS
  Mac = {m1}
  MaybeAp = {m1}
  Profile <- OneProfile
  Unknown = Unknown
  NoEntry = NoEntry
  Absent = Absent
  ScanInterval = 2
  KeepSlack = 1
  MaxAge = 4
  Horizon = 5
  ThresholdSecs = {5}
  Gaps = {1, 2}
  Downtimes = {1, 5}
INVARIANTS
  TypeOK
  BelowThresholdMeansOnline
  DisconnectAfterThreshold
  NoPresenceEventSuppressed
  SessionBeganWithEvent
  PublishedMatchesState
PROPERTIES
  ImplementsDebounce
  DepartureNoticed
