SPECIFICATION Spec
CONSTANTS
  Flow = {f1, f2}
  Host = {h1, h2}
  Key = {k1}
  NoEntry = NoEntry
  Faults = 2
INVARIANTS
  TypeOK
  SavedHostsAnswered
  KeyNotRepeated
PROPERTIES
  ProvisioningEnds
