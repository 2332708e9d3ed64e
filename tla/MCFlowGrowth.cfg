SPECIFICATION Spec
CONSTANTS
  F = flow
  g1 = g1
  g2 = g2
  n1 = n1
  n2 = n2
  n3 = n3
  u1 = u1
  u2 = u2
  Groups = {g1, g2}
  Nodes = {n1, n2, n3}
  GroupOf <- TwoOfThree
  Order <- ByIdThree
  Initial = {g1, n1, n2}
  Edges <- NoEdge
  WhenAllGroupsAreDone = FALSE
  WhenGroupStops = {n1, n2, n3}
  WhenAllParentsAreDone = {n2, n3}
  WhenAllChildrenAreDone = {n1, n2}
  SelfEnding = {n1}
  Users = {u1, u2}
  Programs <- Grow
INVARIANTS
  TypeOK
  LinksAgree
CHECK_DEADLOCK FALSE
