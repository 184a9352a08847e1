SPECIFICATION FairSpec
CONSTANTS
  s1 = s1
  s2 = s2
  k1 = k1
  k2 = k2
  Services = {s1}
  Environments = {"dev"}
  Clusters = {k1}
  EnvOf <- AllDev
  Constraints <- Unconstrained
  Editable = {}
  Labelled = {s1}
  Removable = {}
  MaxClaims = 1
  MayFail = FALSE
  Resyncs = TRUE
PROPERTY LabelledAreClaimed
CHECK_DEADLOCK FALSE
\* Refuted as well: INVARIANT ListsAvailable
\* Passes: PROPERTY CatalogConverges
