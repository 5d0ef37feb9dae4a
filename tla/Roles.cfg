SPECIFICATION Spec
CONSTANTS
  Host <- Hosts3
  Config <- Configs
  Answer <- Answers3
  Unreachable = Unreachable
  Nobody = Nobody
INVARIANTS
  TypeOK
  GatewayWasEarned
  OutageKeepsRoles
  OnlyFormerGatewayLeftOut
