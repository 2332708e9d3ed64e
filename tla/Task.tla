-------------------------------- MODULE Task --------------------------------
(***************************************************************************)
(* One task (pkg/astiflow/task.go): the state machine under every flow,     *)
(* group and node.  Any number of goroutines call start, stop and the       *)
(* closer's Close on it at any time; start ends by spawning the task's own  *)
(* goroutine, called Waiter here, which waits for the context and takes the   *)
(* task to done.                                                            *)
(*                                                                          *)
(* A step is a critical section of t.m (none of them blocks or calls back)  *)
(* or what runs between two of them: an emitted event, a callback, a        *)
(* cancellation, a wait.  The calls that fail only return an error and are  *)
(* not steps.  The task's sub-tasks are goroutines the start callback       *)
(* launches (the tc().Do(...) of every Noder.Start), here a counter.        *)
(***************************************************************************)
EXTENDS Naturals, Sequences

CONSTANTS
  Callers,   \* goroutines that call start, stop and Close
  Waiter,      \* the goroutine start spawns
  MaxWork    \* bound: the most sub-tasks the start callback launches

ASSUME TaskAssumption == Waiter \notin Callers /\ MaxWork \in Nat

VARIABLES
  status,    \* t.s
  ctx,       \* t.ctx: "none" until start creates it
  parentCtx, \* the context start receives
  work,      \* sub-tasks of t.t that are not done
  closer,    \* t.c
  events,    \* history: the events t.e emitted, in order
  pc         \* where each goroutine is in task.go

vars == <<status, ctx, parentCtx, work, closer, events, pc>>

Threads == Callers \cup {Waiter}
Status == {"created", "starting", "running", "stopping", "done"}
EventNames == {"starting", "running", "stopping", "closed", "done"}

StartLabels == {"emitStarting", "onStart", "setRunning", "emitRunning", "spawn"}
StopLabels == {"emitStopping", "cancel", "onStop"}
CloseLabels == {"closeCancel", "closeEnd"}
WaiterLabels == {"unborn", "awaitCtx", "check", "awaitWork", "close", "setDone",
               "emitDone", "release", "released"}
Labels == {"idle"} \cup StartLabels \cup StopLabels \cup CloseLabels \cup WaiterLabels

TypeOK ==
  /\ status \in Status
  /\ ctx \in {"none", "live", "cancelled"}
  /\ parentCtx \in {"live", "cancelled"}
  /\ work \in 0 .. MaxWork
  /\ closer \in {"open", "closing", "closed"}
  /\ events \in Seq(EventNames)
  /\ pc \in [Threads -> Labels]

Init ==
  /\ status = "created"
  /\ ctx = "none"
  /\ parentCtx = "live"
  /\ work = 0
  /\ closer = "open"
  /\ events = <<>>
  /\ pc = [t \in Threads |-> IF t = Waiter THEN "unborn" ELSE "idle"]

Step(t, from, to) == pc[t] = from /\ pc' = [pc EXCEPT ![t] = to]
Emit(e) == events' = Append(events, e)
Cancelled == IF ctx = "live" THEN "cancelled" ELSE ctx

-----------------------------------------------------------------------------
(* start *)

(* Mutant: the status is not checked under the lock.                         *)
StartUnchecked(c) ==
  /\ Step(c, "idle", "emitStarting")
  /\ parentCtx = "live"
  /\ status' = "starting" /\ ctx' = "live"
  /\ UNCHANGED <<parentCtx, work, closer, events>>

Start(c) ==
  /\ Step(c, "idle", "emitStarting")
  /\ status = "created" /\ parentCtx = "live"
  /\ status' = "starting" /\ ctx' = "live"
  /\ UNCHANGED <<parentCtx, work, closer, events>>

EmitStarting(c) ==
  /\ Step(c, "emitStarting", "onStart")
  /\ Emit("starting")
  /\ UNCHANGED <<status, ctx, parentCtx, work, closer>>

(* The callback launches sub-tasks and is given the cancel function: it may   *)
(* have cancelled the context by the time it returns.                        *)
OnStart(c) ==
  /\ Step(c, "onStart", "setRunning")
  /\ work' \in 0 .. MaxWork
  /\ ctx' \in {ctx, "cancelled"}
  /\ UNCHANGED <<status, parentCtx, closer, events>>

(* The status is not read again: nothing else may have moved it meanwhile.    *)
SetRunning(c) ==
  /\ Step(c, "setRunning", "emitRunning")
  /\ status' = "running"
  /\ UNCHANGED <<ctx, parentCtx, work, closer, events>>

EmitRunning(c) ==
  /\ Step(c, "emitRunning", "spawn")
  /\ Emit("running")
  /\ UNCHANGED <<status, ctx, parentCtx, work, closer>>

Spawn(c) ==
  /\ pc[c] = "spawn"
  /\ pc' = [pc EXCEPT ![c] = "idle", ![Waiter] = "awaitCtx"]
  /\ UNCHANGED <<status, ctx, parentCtx, work, closer, events>>

-----------------------------------------------------------------------------
(* stop and stopUnsafe, which callers and the Waiter share *)

(* Mutant: a task that is starting may be stopped.                           *)
StopWhileStarting(c) ==
  /\ Step(c, "idle", "emitStopping")
  /\ status \in {"starting", "running"} /\ status' = "stopping"
  /\ UNCHANGED <<ctx, parentCtx, work, closer, events>>

Stop(c) ==
  /\ Step(c, "idle", "emitStopping")
  /\ status = "running" /\ status' = "stopping"
  /\ UNCHANGED <<ctx, parentCtx, work, closer, events>>

EmitStopping(t) ==
  /\ Step(t, "emitStopping", "cancel")
  /\ Emit("stopping")
  /\ UNCHANGED <<status, ctx, parentCtx, work, closer>>

CancelCtx(t) ==
  /\ Step(t, "cancel", "onStop")
  /\ ctx' = Cancelled
  /\ UNCHANGED <<status, parentCtx, work, closer, events>>

OnStop(t) ==
  /\ Step(t, "onStop", IF t = Waiter THEN "awaitWork" ELSE "idle")
  /\ UNCHANGED <<status, ctx, parentCtx, work, closer, events>>

-----------------------------------------------------------------------------
(* The closer: Close locks it for the whole call, runs the functions it      *)
(* holds and forgets them, the one newTask added (the cancellation) last,    *)
(* then the closed callback, which emits the event.  On a closed closer it   *)
(* finds nothing left to do.                                                 *)

(* Mutant: Close blocks on a closer that is closed.                          *)
CloseOnce(t) ==
  /\ pc[t] = IF t = Waiter THEN "close" ELSE "idle"
  /\ closer = "open" /\ closer' = "closing"
  /\ pc' = [pc EXCEPT ![t] = "closeCancel"]
  /\ UNCHANGED <<status, ctx, parentCtx, work, events>>

CloseBegin(t) ==
  /\ pc[t] = IF t = Waiter THEN "close" ELSE "idle"
  /\ \/ /\ closer = "open" /\ closer' = "closing"
        /\ pc' = [pc EXCEPT ![t] = "closeCancel"]
     \/ /\ t = Waiter /\ closer = "closed"
        /\ pc' = [pc EXCEPT ![t] = "setDone"]
        /\ UNCHANGED closer
  /\ UNCHANGED <<status, ctx, parentCtx, work, events>>

(* t.cancel is nil, and there is nothing to cancel, before start.            *)
CloseCancel(t) ==
  /\ Step(t, "closeCancel", "closeEnd")
  /\ ctx' = Cancelled
  /\ UNCHANGED <<status, parentCtx, work, closer, events>>

CloseEnd(t) ==
  /\ Step(t, "closeEnd", IF t = Waiter THEN "setDone" ELSE "idle")
  /\ closer' = "closed"
  /\ Emit("closed")
  /\ UNCHANGED <<status, ctx, parentCtx, work>>

-----------------------------------------------------------------------------
(* The Waiter *)

AwaitCtx ==
  /\ Step(Waiter, "awaitCtx", "check")
  /\ ctx = "cancelled"
  /\ UNCHANGED <<status, ctx, parentCtx, work, closer, events>>

(* Mutant: what somebody else stops is not waited for.                       *)
CheckSkipsWait ==
  /\ pc[Waiter] = "check"
  /\ \/ /\ status = "running" /\ status' = "stopping"
        /\ pc' = [pc EXCEPT ![Waiter] = "emitStopping"]
     \/ /\ status # "running"
        /\ pc' = [pc EXCEPT ![Waiter] = "setDone"]
        /\ UNCHANGED status
  /\ UNCHANGED <<ctx, parentCtx, work, closer, events>>

(* "Make sure task is properly stopped": a task nobody stopped stops here.    *)
Check ==
  /\ pc[Waiter] = "check"
  /\ \/ /\ status = "running" /\ status' = "stopping"
        /\ pc' = [pc EXCEPT ![Waiter] = "emitStopping"]
     \/ /\ status # "running"
        /\ pc' = [pc EXCEPT ![Waiter] = "awaitWork"]
        /\ UNCHANGED status
  /\ UNCHANGED <<ctx, parentCtx, work, closer, events>>

(* Mutant: the task is closed without waiting for its sub-tasks.             *)
NoWait ==
  /\ Step(Waiter, "awaitWork", "close")
  /\ UNCHANGED <<status, ctx, parentCtx, work, closer, events>>

AwaitWork ==
  /\ Step(Waiter, "awaitWork", "close")
  /\ work = 0
  /\ UNCHANGED <<status, ctx, parentCtx, work, closer, events>>

SetDone ==
  /\ Step(Waiter, "setDone", "emitDone")
  /\ status' = "done"
  /\ UNCHANGED <<ctx, parentCtx, work, closer, events>>

EmitDone ==
  /\ Step(Waiter, "emitDone", "release")
  /\ Emit("done")
  /\ UNCHANGED <<status, ctx, parentCtx, work, closer>>

Release ==
  /\ Step(Waiter, "release", "released")
  /\ UNCHANGED <<status, ctx, parentCtx, work, closer, events>>

-----------------------------------------------------------------------------
(* The environment: the parent's context and the sub-tasks' goroutines *)

ParentCancel ==
  /\ parentCtx = "live" /\ parentCtx' = "cancelled"
  /\ ctx' = Cancelled
  /\ UNCHANGED <<status, work, closer, events, pc>>

(* A sub-task may cancel the task's context (the end of its input).          *)
WorkerCancel ==
  /\ work > 0 /\ ctx = "live" /\ ctx' = "cancelled"
  /\ UNCHANGED <<status, parentCtx, work, closer, events, pc>>

(* Mutant: a sub-task is done twice.                                         *)
WorkerExitTwice ==
  /\ pc[Waiter] # "unborn" /\ work' = work - 1
  /\ UNCHANGED <<status, ctx, parentCtx, closer, events, pc>>

WorkerExit ==
  /\ work > 0 /\ work' = work - 1
  /\ UNCHANGED <<status, ctx, parentCtx, closer, events, pc>>

-----------------------------------------------------------------------------

(* What a goroutine does once it is inside a call.                           *)
StartSteps(c) ==
  EmitStarting(c) \/ OnStart(c) \/ SetRunning(c) \/ EmitRunning(c) \/ Spawn(c)
StopSteps(t) == EmitStopping(t) \/ CancelCtx(t) \/ OnStop(t)
CloseSteps(t) == CloseCancel(t) \/ CloseEnd(t)
WaiterSteps == \/ AwaitCtx \/ Check \/ AwaitWork \/ CloseBegin(Waiter)
             \/ SetDone \/ EmitDone \/ Release

Next ==
  \/ \E c \in Callers : Start(c) \/ Stop(c) \/ CloseBegin(c) \/ StartSteps(c)
  \/ \E t \in Threads : StopSteps(t) \/ CloseSteps(t)
  \/ WaiterSteps
  \/ ParentCancel \/ WorkerCancel \/ WorkerExit

(* Goroutines are scheduled, so a call that began goes on, and a sub-task    *)
(* whose context is cancelled returns.  Nobody is obliged to make a call, to *)
(* cancel, or to return before that.                                         *)
Fairness ==
  /\ \A c \in Callers : WF_vars(StartSteps(c))
  /\ \A t \in Threads : WF_vars(StopSteps(t) \/ CloseSteps(t))
  /\ WF_vars(WaiterSteps)
  /\ WF_vars(ctx = "cancelled" /\ WorkerExit)

Spec == Init /\ [][Next]_vars /\ Fairness

-----------------------------------------------------------------------------
(* Properties *)

Life == INSTANCE Lifecycle WITH busy <- work > 0, released <- pc[Waiter] = "released"

(* The task implements what a task promises: the statuses in order, done only *)
(* without pending work, released after done, and an end to every stop.       *)
ImplementsLifecycle == Life!LSpec

(* The two statuses that concurrent callers could both reach are entered by   *)
(* one goroutine: whatever the race between two start calls, or between stop  *)
(* calls and the Waiter, the callbacks of start and stop run once.              *)
OneStarterOneStopper ==
  /\ \A t, u \in Threads : {pc[t], pc[u]} \subseteq StartLabels => t = u
  /\ \A t, u \in Threads : {pc[t], pc[u]} \subseteq StopLabels => t = u

(* Every event is emitted at most once: the group and the flow remove a node  *)
(* and count their members on these events.                                  *)
EventsOnce ==
  \A i, j \in 1 .. Len(events) : events[i] = events[j] => i = j

(* A task is done only when its goroutines have returned and its resources    *)
(* were freed, and from then on no call on it changes that.                   *)
DoneIsFinal ==
  status = "done" => work = 0 /\ closer = "closed" /\ ctx = "cancelled"

(* status.go, "Must be in order of execution": no interleaving of calls takes *)
(* the status back or over a status.                                          *)
StatusInOrder ==
  [][Life!Rank(status') \in {Life!Rank(status), Life!Rank(status) + 1}]_vars

(* However a started task is stopped (stop, its context, its parent's, its    *)
(* closer, its own work), it is done and its parent is released.              *)
CancelledEnds == ctx = "cancelled" ~> pc[Waiter] = "released"

=============================================================================
