SPECIFICATION Spec
CONSTANTS
  s1 = s1
  s2 = s2
  k1 = k1
  k2 = k2
  Services = {s1}
  Environments = {"dev"}
  Clusters = {k1}
  EnvOf <- AllDev
  Constraints <- LeavesDev
  Editable = {s1}
  Labelled = {s1}
  Removable = {s1, k1}
  MaxClaims = 1
  MayFail = TRUE
  Resyncs = FALSE
INVARIANTS TypeOK NoDuplicates
CHECK_DEADLOCK FALSE
