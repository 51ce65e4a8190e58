SPECIFICATION FairSpec
CONSTANTS
  Threads = {t1, t2, t3}
  Values = {1, 2}
  NoValue = NoValue
  InitiallyLocked <- Unset
  MaxLen = 3
INVARIANTS
  TypeOK
  MutualExclusion
  IInv
PROPERTIES
  ImplementsStack
  CallsReturn
