SPECIFICATION Spec
CONSTANTS
  Host = {1, 2}
  NoInfo = NoInfo
  Interval = 7
  Gap = 1
  MinSleep = 2
  FirstSleep = 1
  Timeout = 2
INVARIANTS
  NoStarvation
  BlockIsCache
  QuietAfterShutdown
PROPERTIES
  EveryHostProbed
