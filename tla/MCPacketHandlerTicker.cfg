SPECIFICATION Spec
CONSTANTS
  n1 = n1
  n2 = n2
  p1 = p1
  p2 = p2
  p3 = p3
  p4 = p4
  u1 = u1
  u2 = u2
  None = None
  Noders = {n1}
  Users = {}
  Packets = {p1, p2, p3, p4}
  NoderOf <- FromOne
  StreamOf <- LastDiffers
  InitialOf <- Announced
  Keeper = "ticker"
  MaxAllocated = 4
INVARIANTS
  PacketsKeepWhatTheyCameWith
CHECK_DEADLOCK FALSE
