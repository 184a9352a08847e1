SPECIFICATION FairSpec
CONSTANTS
  s1 = s1
  s2 = s2
  k1 = k1
  k2 = k2
  Services = {}
  Environments = {"dev"}
  Clusters = {k1, k2}
  EnvOf <- AllDev
  Constraints <- Unconstrained
  Editable = {}
  Labelled = {}
  Removable = {k1}
  MaxClaims = 1
  MayFail = FALSE
  Resyncs = TRUE
INVARIANT CatalogEnsured
CHECK_DEADLOCK FALSE
\* Refuted as well: INVARIANT CopyRemoved
\* Passes, with the fairness: PROPERTY NamespaceConverges
