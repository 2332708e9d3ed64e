SPECIFICATION Spec
CONSTANTS
  F = flow
  g1 = g1
  g2 = g2
  n1 = n1
  n2 = n2
  n3 = n3
  u1 = u1
  u2 = u2
  Groups = {g1}
  Nodes = {n1, n2}
  GroupOf <- Pair
  Order <- ByIdPair
  Initial = {g1, n1, n2}
  Edges <- Edge
  WhenAllGroupsAreDone = FALSE
  WhenGroupStops = {n1}
  WhenAllParentsAreDone = {}
  WhenAllChildrenAreDone = {}
  SelfEnding = {}
  Users = {u1, u2}
  Programs <- StartClose
PROPERTY
  ClosedFlowEnds
CHECK_DEADLOCK FALSE
