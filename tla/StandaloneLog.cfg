SPECIFICATION Spec
CONSTANTS
  Mac = {m1}
  Wan = Wan
  Addr = {x1, x2}
  NoAddr = NoAddr
  NoFile = NoFile
  NoEntry = NoEntry
  NoRun = NoRun
  Thr = 2
  KeepSlack = 1
  MaxLines = 2
  Before = {0}
  Burst = {1}
  Cap = 0
  LogBound = 2
INVARIANTS
  LogMatchesFiles
PROPERTIES
  ImplementsDebounce
