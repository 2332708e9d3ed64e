SPECIFICATION Spec
CONSTANTS
  F = flow
  g1 = g1
  g2 = g2
  n1 = n1
  n2 = n2
  n3 = n3
  u1 = u1
  u2 = u2
  Groups = {g1}
  Nodes = {n1}
  GroupOf <- One
  Order <- ByIdOne
  Initial = {g1, n1}
  Edges <- NoEdge
  WhenAllGroupsAreDone = FALSE
  WhenGroupStops = {n1}
  WhenAllParentsAreDone = {}
  WhenAllChildrenAreDone = {}
  SelfEnding = {n1}
  Users = {u1}
  Programs <- OnlyStart
PROPERTY
  EmptyGroupEnds
CHECK_DEADLOCK FALSE
