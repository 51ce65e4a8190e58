SPECIFICATION Spec
CONSTANTS
  Threads = {t1, t2}
  BufferSize <- MCBufferSize
  GenerationModulus = 64
SYMMETRY MCSymmetry
INVARIANTS
  EmptyQueueAcceptsEmplace
\* The queue's life ends with its destructor.
CHECK_DEADLOCK FALSE
