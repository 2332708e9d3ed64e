------------------------------- MODULE MCTask -------------------------------
(* Task for TLC: two callers are enough for every pair of racing calls, and   *)
(* the Waiter is the third party; two sub-tasks let one end before the other.   *)
EXTENDS Task

=============================================================================
