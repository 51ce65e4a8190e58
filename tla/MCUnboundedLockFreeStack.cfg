SPECIFICATION FairSpec
CONSTANTS
  Threads = {t1, t2}
  Blocks = {bottom, n1, n2}
  Bottom = bottom
  nullptr = nullptr
  Values = {t1, t2}
  Pushed <- MCPushed
  NoValue = NoValue
INVARIANTS
  TypeOK
  NoDanglingPointer
  ReferencesConserved
  LocalCountBounded
  NoLeak
  IInv
PROPERTIES
  ImplementsStack
  LockFree
\* A stack that has been destroyed is not used any more.
CHECK_DEADLOCK FALSE
