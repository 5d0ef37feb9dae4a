SPECIFICATION Spec
CONSTANTS
  Mac = {}
  Wan = Wan
  Addr = {}
  NoAddr = NoAddr
  NoFile = NoFile
  NoEntry = NoEntry
  NoRun = NoRun
  Thr = 2
  KeepSlack = 1
  MaxLines = 2
  Before = {0, 2}
  Burst = {1}
  Cap = 4
  LogBound = 2
INVARIANTS
  NeverOvercounted
  WanTotalExact
