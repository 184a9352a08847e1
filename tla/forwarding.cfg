SPECIFICATION FairSpec
CONSTANTS
  k1 = k1
  k2 = k2
  i1 = i1
  i2 = i2
  n1 = n1
  n2 = n2
  Clusters = {k1, k2}
  Items = {i1}
  Names = {n1}
  ClusterOf <- FirstCluster
  NameOf <- OneName
  NoCopy = NoCopy
  NoInformer = NoInformer
  NoEvent = NoEvent
  Flows <- AllFlows
  Ops = {"edit", "delete", "delete agent", "deny", "reconcile"}
  MaxMade = 1
  MayFail = TRUE
  MayCrash = TRUE
INVARIANTS TypeOK GoneIsReleased
PROPERTIES DeletedWithItem ItemsForwarded DeletionReleases
CHECK_DEADLOCK FALSE
