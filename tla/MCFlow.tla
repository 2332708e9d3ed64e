------------------------------- MODULE MCFlow -------------------------------
(***************************************************************************)
(* Small flows for TLC.  A node's number is its id.                         *)
(***************************************************************************)
EXTENDS Flow

CONSTANTS g1, g2, n1, n2, n3, u1, u2

ByIdThree == <<g1, g2, n1, n2, n3>>
TwoOfThree == n1 :> g1 @@ n2 :> g1 @@ n3 :> g2
ByIdOne == <<g1, n1>>
One == n1 :> g1
ByIdPair == <<g1, n1, n2>>
Pair == n1 :> g1 @@ n2 :> g1

Join == {<<n1, n3>>, <<n2, n3>>}
(* n2 waits for its child n1 to stop, n3 for its parent n1. *)
Chain == {<<n2, n1>>, <<n1, n3>>}
Edge == {<<n1, n2>>}
NoEdge == {}

Begin == <<Op("start", F)>>
End == <<Op("stop", F)>>

OnlyStart == u1 :> {Begin}
StartVsStop == u1 :> {Begin} @@ u2 :> {End}
StartStop == u1 :> {Begin \o End}
StartClose == u1 :> {Begin \o <<Op("close", F)>>} @@ u2 :> {<<>>, End}

(* While the flow runs, a group is created, started and connected to the other  *)
(* one, two users make the same connection, and the new group's nodes are      *)
(* disconnected.                                                               *)
Grow ==
  u1 :> {Begin \o Connect(n1, n2)
           \o <<Op("new", g2), Op("new", n3), Op("startGroup", g2)>>
           \o Connect(n2, n3) \o <<Op("disconnectNodes", g2)>>}
  @@ u2 :> {Connect(n1, n2)}
=============================================================================
