SPECIFICATION FairSpec
CONSTANTS
  s1 = s1
  s2 = s2
  k1 = k1
  k2 = k2
  Services = {s1}
  Environments = {"dev"}
  Clusters = {k1}
  EnvOf <- AllDev
  Constraints <- Unconstrained
  Editable = {s1}
  Labelled = {}
  Removable = {s1}
  MaxClaims = 0
  MayFail = FALSE
  Resyncs = TRUE
PROPERTIES DeletedUnlisted
\* Refuted as well: PROPERTY EntryUpdated
