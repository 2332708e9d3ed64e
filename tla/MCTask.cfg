SPECIFICATION Spec
CONSTANTS
  Callers = {c1, c2}
  Waiter = waiter
  MaxWork = 2
INVARIANTS
  TypeOK
  OneStarterOneStopper
  EventsOnce
  DoneIsFinal
PROPERTIES
  StatusInOrder
  CancelledEnds
  ImplementsLifecycle
CHECK_DEADLOCK FALSE
