SPECIFICATION Spec
CONSTANTS
  a = a
  b = b
  d = d
  NoTime = NoTime
  Stamps <- StampsOf
  Items = {a, b}
  Controllers = {d}
  Reference = NoTime
  BufferDuration = 1
  FlushOnStop = TRUE
  LastInput = 1
  MaxTime = 4
  MaxOffset = 1
INVARIANTS
  BufferAgrees
  InOnePlace
  DispatchedInOrder
  NotBeforeItsTime
  FlushedAtTheEnd
PROPERTY
  StopEnds
CHECK_DEADLOCK FALSE
