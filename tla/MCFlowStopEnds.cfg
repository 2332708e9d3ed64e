SPECIFICATION Spec
CONSTANTS
  F = flow
  g1 = g1
  g2 = g2
  n1 = n1
  n2 = n2
  n3 = n3
  u1 = u1
  u2 = u2
  Groups = {g1, g2}
  Nodes = {n1, n2, n3}
  GroupOf <- TwoOfThree
  Order <- ByIdThree
  Initial = {g1, g2, n1, n2, n3}
  Edges <- Chain
  WhenAllGroupsAreDone = FALSE
  WhenGroupStops = {n1}
  WhenAllParentsAreDone = {n3}
  WhenAllChildrenAreDone = {n2}
  SelfEnding = {}
  Users = {u1, u2}
  Programs <- StartVsStop
PROPERTY
  StopEnds
CHECK_DEADLOCK FALSE
