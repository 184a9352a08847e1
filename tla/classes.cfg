SPECIFICATION FairSpec
CONSTANTS
  c1 = c1
  c2 = c2
  k1 = k1
  k2 = k2
  n1 = n1
  n2 = n2
  Classes = {c1, c2}
  Kind <- OneKind
  Constraints <- DevOrProd
  Nil = Nil
  Clusters = {k1}
  Environment <- AllDev
  Namespaces <- TwoNamespaces
  MaxVersion <- TwoThenOne
  MaxLag = 1
  MayFail = TRUE
  Resyncs = TRUE
INVARIANTS TypeOK OneManaged
PROPERTIES LiveKeepsCopies PushConverges OnlyMissingCopiesBlock
CHECK_DEADLOCK FALSE
