SPECIFICATION FairSpec
CONSTANTS
  Threads = {t1, t2}
  BufferSize <- MCBufferSize
  GenerationModulus = 64
PROPERTIES
  FirstLapServed
\* The queue's life ends with its destructor.
CHECK_DEADLOCK FALSE
