SPECIFICATION FairSpec
CONSTANTS
  Writers = {w1, w2}
  Readers = {r1}
  ChunkCount = 2
  Chunk = {0, 1}
  InitValue <- MCInitValue
  NoValue = NoValue
  CounterModulus = 6
  MaxOverlap = 2
INVARIANTS
  TypeOK
  IInv
  NoTornRead
PROPERTIES
  ImplementsRegister
  StoresComplete
  LoadReturns
