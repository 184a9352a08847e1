SPECIFICATION Spec
CONSTANTS
  w1 = w1
  w2 = w2
  p1 = p1
  p2 = p2
  Workloads = {w1}
  Secrets = {p1}
  NoSecret = NoSecret
  Labels = {"all", "some"}
  UserEnv = {"own root"}
  Finalized = FALSE
  Ops = {}
  MayFail = FALSE
  MayCrash = FALSE
  Backlog = 1
INVARIANT OnlySelectedBound
CHECK_DEADLOCK FALSE
\* Refuted as well: INVARIANT RootIsUsed
