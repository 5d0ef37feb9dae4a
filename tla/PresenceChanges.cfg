SPECIFICATION Spec
CONSTANTS
  Mac = {m1}
  MaybeAp = {}
  Profile <- Profiles
  Unknown = Unknown
  NoEntry = NoEntry
  Absent = Absent
  ScanInterval = 1
  KeepSlack = 1
  MaxAge = 3
  Horizon = 4
  ThresholdSecs = {2}
  Gaps = {1}
  Downtimes = {1}
PROPERTIES
  ChangesWithinSession
