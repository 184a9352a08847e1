SPECIFICATION FairSpec
CONSTANTS
  k1 = k1
  k2 = k2
  n1 = n1
  n2 = n2
  Clusters = {k1}
  Namespaces = {n1, n2}
  Role <- Roles
  Parts <- Names
  NoCluster = NoCluster
  Deletable = {k1}
  MaxVersion = 2
  MayFail = TRUE
  Resyncs = TRUE
INVARIANTS TypeOK AgentsAreFound
PROPERTIES AgentsConverge
CHECK_DEADLOCK FALSE
