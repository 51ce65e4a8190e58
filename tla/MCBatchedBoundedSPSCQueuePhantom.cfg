SPECIFICATION Spec
CONSTANTS
  BufferSize <- MCBufferSize
  SlotSize = 16
  MaxSlotDequeues = 3
  MaxSize = 16
INVARIANTS
  NoPhantomDequeue
\* MaxSlotDequeues and MaxSize end the run.
CHECK_DEADLOCK FALSE
