SPECIFICATION FairSpec
CONSTANTS
  k1 = k1
  k2 = k2
  n1 = n1
  n2 = n2
  Clusters = {k1, k2}
  Namespaces = {n1}
  Role <- Roles
  Parts <- Names
  NoCluster = NoCluster
  Deletable = {}
  MaxVersion = 1
  MayFail = FALSE
  Resyncs = TRUE
PROPERTIES AgentsPushed
CHECK_DEADLOCK FALSE
