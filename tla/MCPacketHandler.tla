-------------------------- MODULE MCPacketHandler ---------------------------
(***************************************************************************)
(* Two parents, the first of which changes its codec parameters once, for    *)
(* TLC.                                                                      *)
(***************************************************************************)
EXTENDS PacketHandler

CONSTANTS n1, n2, p1, p2, p3, p4, u1, u2

From == [p \in Packets |-> IF p = p2 THEN n2 ELSE n1]
StreamsOf == [p \in Packets |-> CASE p = p1 -> "a" [] p = p2 -> "b" [] OTHER -> "c"]
Announced == [n \in Noders |-> IF n = n1 THEN "a" ELSE "b"]

(* One parent whose last packet comes with other codec parameters.             *)
FromOne == [p \in Packets |-> n1]
LastDiffers == [p \in Packets |-> IF p = p4 THEN "b" ELSE "a"]

=============================================================================
