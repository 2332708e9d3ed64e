SPECIFICATION Spec
CONSTANTS
  F = flow
  g1 = g1
  g2 = g2
  n1 = n1
  n2 = n2
  n3 = n3
  u1 = u1
  u2 = u2
  Groups = {g1, g2}
  Nodes = {n1, n2, n3}
  GroupOf <- TwoOfThree
  Order <- ByIdThree
  Initial = {g1, g2, n1, n2, n3}
  Edges <- Join
  WhenAllGroupsAreDone = TRUE
  WhenGroupStops = {n1, n2}
  WhenAllParentsAreDone = {n3}
  WhenAllChildrenAreDone = {}
  SelfEnding = {n1, n3}
  Users = {u1}
  Programs <- StartStop
INVARIANTS
  NothingOutlivesItsParent
  FreedWhenIdle
  ReleasedIsDisconnected
PROPERTIES
  EachImplementsLifecycle
  NodeStopsForAReason
CHECK_DEADLOCK FALSE
