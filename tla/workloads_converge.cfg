SPECIFICATION FairSpec
CONSTANTS
  w1 = w1
  w2 = w2
  p1 = p1
  p2 = p2
  Workloads = {w1}
  Secrets = {p1}
  NoSecret = NoSecret
  Labels = {"all"}
  UserEnv = {}
  Finalized = TRUE
  Ops = {"delete secret", "delete binding", "stop"}
  MayFail = TRUE
  MayCrash = FALSE
  Backlog = 1
PROPERTIES WorkloadsConverge DeletionEnds
CHECK_DEADLOCK FALSE
