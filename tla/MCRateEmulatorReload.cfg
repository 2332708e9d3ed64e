SPECIFICATION Spec
CONSTANTS
  a = a
  b = b
  d = d
  NoTime = NoTime
  Stamps <- StampsOf
  Items = {a}
  Controllers = {}
  Reference = 0
  BufferDuration = 1
  FlushOnStop = FALSE
  LastInput = 1
  MaxTime = 3
  MaxOffset = 0
PROPERTY
  PushedIsDispatched
CHECK_DEADLOCK FALSE
