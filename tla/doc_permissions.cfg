SPECIFICATION Spec
CONSTANTS
  k1 = k1
  k2 = k2
  n1 = n1
  n2 = n2
  Clusters = {k1}
  Namespaces = {n1, n2}
  Role <- Roles
  Parts <- Names
  NoCluster = NoCluster
  Deletable = {k1}
  MaxVersion = 0
  MayFail = FALSE
  Resyncs = TRUE
INVARIANTS PermissionsRemoved
CHECK_DEADLOCK FALSE
