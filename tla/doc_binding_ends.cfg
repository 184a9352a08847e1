SPECIFICATION FairSpec
CONSTANTS
  w1 = w1
  w2 = w2
  p1 = p1
  p2 = p2
  Workloads = {w1}
  Secrets = {p1}
  NoSecret = NoSecret
  Labels = {"all"}
  UserEnv = {}
  Finalized = TRUE
  Ops = {"delete binding", "delete workload", "stop"}
  MayFail = FALSE
  MayCrash = TRUE
  Backlog = 1
PROPERTY DeletionEnds
CHECK_DEADLOCK FALSE
