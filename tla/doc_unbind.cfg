SPECIFICATION Spec
CONSTANTS
  w1 = w1
  w2 = w2
  p1 = p1
  p2 = p2
  Workloads = {w1}
  Secrets = {p1}
  NoSecret = NoSecret
  Labels = {"all"}
  UserEnv = {}
  Finalized = TRUE
  Ops = {"delete binding"}
  MayFail = FALSE
  MayCrash = FALSE
  Backlog = 1
INVARIANT DeletionUnbinds
CHECK_DEADLOCK FALSE
\* Also with Finalized = FALSE.
