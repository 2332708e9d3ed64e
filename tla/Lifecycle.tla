------------------------------ MODULE Lifecycle ------------------------------
(***************************************************************************)
(* What a task of astiflow (a flow, a group or a node: pkg/astiflow/task.go)*)
(* promises the code around it.  A task goes through its statuses in order, *)
(* never skips one, is done only once the work it was given is over, and is *)
(* released (its parent stops waiting for it) only after it is done.        *)
(*                                                                          *)
(* Task.tla and Flow.tla describe how the code does it and are checked to   *)
(* implement this module.                                                   *)
(***************************************************************************)
EXTENDS Naturals

VARIABLES
  status,    \* the task's Status
  busy,      \* TRUE while a sub-task of the task is pending
  released   \* TRUE once the parent no longer waits for the task

lvars == <<status, busy, released>>

Status == {"created", "starting", "running", "stopping", "done"}

(* status.go: "Must be in order of execution". *)
Rank(s) == CASE s = "created"  -> 0
             [] s = "starting" -> 1
             [] s = "running"  -> 2
             [] s = "stopping" -> 3
             [] s = "done"     -> 4

-----------------------------------------------------------------------------

LInit == status = "created" /\ busy = FALSE /\ released = FALSE

Advance(from, to) == status = from /\ status' = to

LStart == Advance("created", "starting") /\ UNCHANGED <<busy, released>>
LRun   == Advance("starting", "running") /\ UNCHANGED <<busy, released>>
LStop  == Advance("running", "stopping") /\ UNCHANGED <<busy, released>>

(* Work is handed over to a live task, and ends at any time.                 *)
LLoad   == /\ status \in {"starting", "running"} /\ busy' = TRUE
           /\ UNCHANGED <<status, released>>
LUnload == busy /\ busy' = FALSE /\ UNCHANGED <<status, released>>

LFinish == ~busy /\ Advance("stopping", "done") /\ UNCHANGED <<busy, released>>

LRelease == /\ status = "done" /\ ~released
            /\ released' = TRUE
            /\ UNCHANGED <<status, busy>>

LNext == LStart \/ LRun \/ LStop \/ LLoad \/ LUnload \/ LFinish \/ LRelease

LSafety == LInit /\ [][LNext]_lvars

(* A task that is stopping gets its work to end, then finishes: nothing is   *)
(* promised of a task that nobody stops.                                     *)
LSpec == /\ LSafety
         /\ WF_lvars(status = "stopping" /\ LUnload)
         /\ WF_lvars(LFinish)
         /\ WF_lvars(LRelease)

=============================================================================
