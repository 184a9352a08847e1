SPECIFICATION Spec
CONSTANTS
  w1 = w1
  w2 = w2
  p1 = p1
  p2 = p2
  Workloads = {w1}
  Secrets = {p1, p2}
  NoSecret = NoSecret
  Labels = {"all"}
  UserEnv = {}
  Finalized = FALSE
  Ops = {"respec", "replace"}
  MayFail = FALSE
  MayCrash = FALSE
  Backlog = 1
INVARIANT UpdateIsProjected
CHECK_DEADLOCK FALSE
