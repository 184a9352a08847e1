SPECIFICATION FairSpec
CONSTANTS
  c1 = c1
  c2 = c2
  o1 = o1
  o2 = o2
  n1 = n1
  n2 = n2
  Classes = {c1}
  Objects = {o1}
  Names = {n1}
  ClassOf <- OneClass
  NameOf <- OwnName
  NoReg = NoReg
  NoInformer = NoInformer
  NoEvent = NoEvent
  Ops = {"delete", "update class", "delete class"}
  MaxPushes = 1
  MayFail = FALSE
  MayCrash = FALSE
PROPERTY DeletedUnregistered
CHECK_DEADLOCK FALSE
\* Refuted as well: PROPERTY ClassUpdateReaches, PROPERTY ClassDeletionUnregisters, PROPERTY InformerStopped
