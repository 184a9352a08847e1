SPECIFICATION Spec
CONSTANTS
  c1 = c1
  c2 = c2
  s1 = s1
  s2 = s2
  noEnv = noEnv
  Claims = {c1, c2}
  Services = {s1}
  NoService = NoService
  NoClaim = NoClaim
  NoPush = NoPush
  NoEnv = noEnv
  ClaimSCI <- ClaimsOneKind
  ServiceSCI <- ServicesOneKind
  EnvironmentTag <- TagMixed
  ClusterEnv <- ClusterMixed
  Hosted = {c1}
  Constraints <- Unconstrained
  HealthChecked = {}
  Deletable = {c1}
  Removable = {}
  Editable = {s1}
  MayFail = TRUE
  MayCrash = TRUE
  EnvPushes = FALSE
INVARIANTS TypeOK ClaimInv Exclusive HeldIsClaimed NoOrphanBinding ResolvedIsBound
PROPERTIES OnlyClaimControllerFrees ImplementsAllocation
