SPECIFICATION FairSpec
CONSTANTS
  c1 = c1
  c2 = c2
  k1 = k1
  k2 = k2
  n1 = n1
  n2 = n2
  Classes = {c1}
  Kind <- OneKind
  Constraints <- DevOnly
  Nil = Nil
  Clusters = {k1, k2}
  Environment <- AllDev
  Namespaces <- OneNamespace
  MaxVersion <- TwoThenOne
  MaxLag = 1
  MayFail = FALSE
  Resyncs = TRUE
PROPERTY ClassDeletionEnds
CHECK_DEADLOCK FALSE
\* Refuted as well: PROPERTY CopiesRemoved, with Resyncs = FALSE PROPERTY PushConverges,
\* and with Classes = {c1, c2} INVARIANT OneClassPerKind
