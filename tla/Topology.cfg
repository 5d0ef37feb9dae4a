SPECIFICATION Spec
CONSTANTS
  Gateway = 0
  ap_hosts <- Aps
  switch_hosts <- Switches
  Client = {4}
  Threshold = 2
  Imperfect = TRUE
INVARIANTS
  TypeOK
  ResolvedIsForest
  GatewayGivesDirection
  RememberedEdgesLeadUp
  AccessPortIsExact
