SPECIFICATION Spec
CONSTANTS
  Threads = {t1, t2, t3}
  BufferSize <- MCBufferSize
  GenerationModulus = 64
SYMMETRY MCSymmetry
INVARIANTS
  TypeOK
  IInv
  ExclusiveSlot
  TicketOrder
  GenerationParity
  NoLeak
PROPERTIES
  NotRefusedInFirstLap
\* The queue's life ends with its destructor.
CHECK_DEADLOCK FALSE
