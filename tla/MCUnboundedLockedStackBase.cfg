SPECIFICATION FairSpec
CONSTANTS
  Threads = {t1, t2}
  Values = {1, 2}
  NoValue = NoValue
  InitiallyLocked <- Uninitialised
  MaxLen = 2
PROPERTIES
  CallsReturn
