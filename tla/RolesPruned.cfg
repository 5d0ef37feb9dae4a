SPECIFICATION Spec
CONSTANTS
  Host <- Hosts3
  Config <- Configs
  Answer <- Answers3
  Unreachable = Unreachable
  Nobody = Nobody
PROPERTY
  OnlyRemovedHostsPruned
