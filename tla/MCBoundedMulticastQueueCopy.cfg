SPECIFICATION Spec
CONSTANTS
  Readers = {r1, r2}
  BufferSize = 2
  ChunkCount = 2
  MessageSize <- MCMessageSize
  CounterModulus = 8
  MaxLag = 4
  MaxWrites = 5
SYMMETRY MCSymmetry
PROPERTIES
  ImplementsLog
