SPECIFICATION FairSpec
CONSTANTS
  Readers = {r1}
  BufferSize = 2
  ChunkCount = 2
  MessageSize <- MCMessageSize
  CounterModulus = 8
  MaxLag = 4
  MaxWrites = 16
INVARIANTS
  TypeOK
  SequenceCountsMessages
  IInv
PROPERTIES
  ImplementsLog
  ReadReturns
