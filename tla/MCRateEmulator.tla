--------------------------- MODULE MCRateEmulator ---------------------------
(***************************************************************************)
(* Two packets, of the same timestamp or not and in either order, and one   *)
(* that a demuxer controls the rate of, for TLC.                             *)
(***************************************************************************)
EXTENDS RateEmulator

CONSTANTS a, b, d

StampsOf == [i \in Items \cup Controllers |-> CASE i = a -> {2, 3} [] i = b -> {3} [] i = d -> {1}]

=============================================================================
