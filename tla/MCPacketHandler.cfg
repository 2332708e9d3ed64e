SPECIFICATION Spec
CONSTANTS
  n1 = n1
  n2 = n2
  p1 = p1
  p2 = p2
  p3 = p3
  p4 = p4
  u1 = u1
  u2 = u2
  None = None
  Noders = {n1, n2}
  Users = {u1}
  Packets = {p1, p2, p3}
  NoderOf <- From
  StreamOf <- StreamsOf
  InitialOf <- Announced
  Keeper = "handler"
  MaxAllocated = 6
INVARIANTS
  TypeOK
  CountsAgree
  PoolHoldsTheRest
  PacketsKeepWhatTheyCameWith
  DescriptorsKeepWhatTheySaid
CHECK_DEADLOCK FALSE
