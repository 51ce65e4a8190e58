SPECIFICATION MCSpec
CONSTANTS
  BufferSize <- MCBufferSize
  Values <- MCValues
  MovedFrom <- MCMovedFrom
  NoValue = NoValue
INVARIANTS
  TypeOK
  IInv
  NoSlotRace
PROPERTIES
  ImplementsFIFO
  Progress
