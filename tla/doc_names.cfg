\* Two ClusterEnvironments whose RoleBindings are given one name: the second
\* one's is not created, and the agents it pushes are not found again.
SPECIFICATION Spec
CONSTANTS
  k1 = k1
  k2 = k2
  n1 = n1
  n2 = n2
  Clusters = {k1, k2}
  Namespaces = {n1, n2}
  Role <- SameRoles
  Parts <- Names
  NoCluster = NoCluster
  Deletable = {}
  MaxVersion = 0
  MayFail = FALSE
  Resyncs = FALSE
INVARIANTS AgentsAreFound
CHECK_DEADLOCK FALSE
