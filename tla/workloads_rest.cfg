SPECIFICATION Spec
CONSTANTS
  w1 = w1
  w2 = w2
  p1 = p1
  p2 = p2
  Workloads = {w1, w2}
  Secrets = {p1}
  NoSecret = NoSecret
  Labels = {"all"}
  UserEnv = {}
  Finalized = FALSE
  Ops = {"respec", "delete workload"}
  MayFail = FALSE
  MayCrash = TRUE
  Backlog = 1
SYMMETRY Symmetry
INVARIANTS TypeOK RestIsSettled
CHECK_DEADLOCK FALSE
