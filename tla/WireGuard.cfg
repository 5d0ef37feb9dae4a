SPECIFICATION Spec
CONSTANTS
  Host = {gw, ap}
  Peer = {p1}
  gw = gw
  ap = ap
  p1 = p1
  HostOf <- PeerHosts
  Stale = 1
  MinElapsed = 1
  MaxAge = 2
  NoScan = NoScan
  NoData = NoData
  NoRate = NoRate
  Waiting = Waiting
  Failed = Failed
  Cap = 3
INVARIANTS
  TypeOK
  NotHomeIsTrue
PROPERTIES
  RateIsReal
  PruneOnlyGone
