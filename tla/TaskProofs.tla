----------------------------- MODULE TaskProofs -----------------------------
(***************************************************************************)
(* Proofs about Task.tla, for any set of callers and any number of         *)
(* sub-tasks.                                                               *)
(***************************************************************************)
EXTENDS Task, TLAPS

CallerLabels == {"idle"} \cup StartLabels \cup StopLabels \cup CloseLabels
BeforeRunning == {"emitStarting", "onStart", "setRunning"}
Ending == StopLabels \cup CloseLabels \cup {"awaitWork", "close", "setDone"}
Ended == {"emitDone", "release", "released"}
Waited == CloseLabels \cup {"close", "setDone"} \cup Ended

(* Who may be where.                                                          *)
Places ==
  /\ \A c \in Callers : pc[c] \in CallerLabels
  /\ pc[Waiter] \in WaiterLabels \cup StopLabels \cup CloseLabels

(* The thread that starts the task is the only one between created and        *)
(* spawn, and the status tells how far it got.                                *)
Starting ==
  /\ \A t \in Threads : pc[t] \in StartLabels =>
       /\ pc[Waiter] = "unborn"
       /\ status # "created"
       /\ status = "starting" <=> pc[t] \in BeforeRunning
       /\ \A u \in Threads : pc[u] \in StartLabels => t = u
  /\ status = "starting" => \E c \in Callers : pc[c] \in BeforeRunning
  /\ status = "created" => ctx = "none" /\ pc[Waiter] = "unborn"
  /\ ctx = "none" => status = "created" /\ work = 0

(* The thread that set stopping is the only one in stopUnsafe.                *)
Stopping ==
  \A t \in Threads : pc[t] \in StopLabels =>
    /\ status \in {"stopping", "done"}
    /\ \A u \in Threads : pc[u] \in StopLabels => t = u

(* Where the Waiter is tells the status, the context, the work, the closer.    *)
Waiting ==
  /\ pc[Waiter] \in {"awaitCtx", "check"} => status \in {"running", "stopping"}
  /\ pc[Waiter] \in Ending => status = "stopping"
  /\ pc[Waiter] \in Ended <=> status = "done"
  /\ pc[Waiter] \notin {"unborn", "awaitCtx"} => ctx = "cancelled"
  /\ pc[Waiter] \in Waited => work = 0

(* The closer is a lock that is never taken again.                            *)
Closing ==
  /\ \A t \in Threads : pc[t] \in CloseLabels =>
       /\ closer = "closing"
       /\ \A u \in Threads : pc[u] \in CloseLabels => t = u
  /\ pc[Waiter] \in {"setDone"} \cup Ended => closer = "closed"

IInv == TypeOK /\ Places /\ Starting /\ Stopping /\ Waiting /\ Closing

-----------------------------------------------------------------------------

LEMMA InitIInv == Init => IInv
<1> SUFFICES ASSUME Init PROVE IInv
  OBVIOUS
<1> USE TaskAssumption DEF Init, Threads
<1>1. TypeOK
  BY DEF TypeOK, Labels, StartLabels, StopLabels, CloseLabels, WaiterLabels, Status
<1>2. /\ pc[Waiter] = "unborn"
      /\ \A c \in Callers : pc[c] = "idle"
  OBVIOUS
<1>3. Places /\ Starting /\ Stopping /\ Waiting /\ Closing
  BY <1>2
  DEF Places, Starting, Stopping, Waiting, Closing, CallerLabels, BeforeRunning,
      Ending, Ended, Waited, StartLabels, StopLabels, CloseLabels, WaiterLabels
<1>4. QED
  BY <1>1, <1>3 DEF IInv

LEMMA StepIInv == IInv /\ [Next]_vars => IInv'
<1> SUFFICES ASSUME IInv, [Next]_vars PROVE IInv'
  OBVIOUS
<1> USE TaskAssumption
    DEF IInv, TypeOK, Places, Starting, Stopping, Waiting, Closing, Threads, Step, Emit,
        Cancelled, Labels, CallerLabels, BeforeRunning, Ending, Ended, Waited,
        StartLabels, StopLabels, CloseLabels, WaiterLabels, Status, EventNames
<1>1. ASSUME NEW c \in Callers, Start(c) PROVE IInv'
  BY <1>1 DEF Start
<1>2. ASSUME NEW c \in Callers, EmitStarting(c) PROVE IInv'
  BY <1>2 DEF EmitStarting
<1>3. ASSUME NEW c \in Callers, OnStart(c) PROVE IInv'
  BY <1>3 DEF OnStart
<1>4. ASSUME NEW c \in Callers, SetRunning(c) PROVE IInv'
  BY <1>4 DEF SetRunning
<1>5. ASSUME NEW c \in Callers, EmitRunning(c) PROVE IInv'
  BY <1>5 DEF EmitRunning
<1>6. ASSUME NEW c \in Callers, Spawn(c) PROVE IInv'
  BY <1>6 DEF Spawn
<1>7. ASSUME NEW c \in Callers, Stop(c) PROVE IInv'
  BY <1>7 DEF Stop
<1>8. ASSUME NEW t \in Threads, EmitStopping(t) PROVE IInv'
  BY <1>8 DEF EmitStopping
<1>9. ASSUME NEW t \in Threads, CancelCtx(t) PROVE IInv'
  BY <1>9 DEF CancelCtx
<1>10. ASSUME NEW t \in Threads, OnStop(t) PROVE IInv'
  BY <1>10 DEF OnStop
<1>11. ASSUME NEW t \in Threads, CloseBegin(t) PROVE IInv'
  BY <1>11 DEF CloseBegin
<1>12. ASSUME NEW t \in Threads, CloseCancel(t) PROVE IInv'
  BY <1>12 DEF CloseCancel
<1>13. ASSUME NEW t \in Threads, CloseEnd(t) PROVE IInv'
  BY <1>13 DEF CloseEnd
<1>14. CASE AwaitCtx
  BY <1>14 DEF AwaitCtx
<1>15. CASE Check
  BY <1>15 DEF Check
<1>16. CASE AwaitWork
  BY <1>16 DEF AwaitWork
<1>17. CASE SetDone
  BY <1>17 DEF SetDone
<1>18. CASE EmitDone
  BY <1>18 DEF EmitDone
<1>19. CASE Release
  BY <1>19 DEF Release
<1>20. CASE ParentCancel
  BY <1>20 DEF ParentCancel
<1>21. CASE WorkerCancel
  BY <1>21 DEF WorkerCancel
<1>22. CASE WorkerExit
  BY <1>22 DEF WorkerExit
<1>23. CASE UNCHANGED vars
  BY <1>23 DEF vars
<1>24. QED
  BY <1>1, <1>2, <1>3, <1>4, <1>5, <1>6, <1>7, <1>8, <1>9, <1>10, <1>11, <1>12,
     <1>13, <1>14, <1>15, <1>16, <1>17, <1>18, <1>19, <1>20, <1>21, <1>22, <1>23
  DEF Next, StartSteps, StopSteps, CloseSteps, WaiterSteps

LEMMA Invariance == Spec => []IInv
  BY InitIInv, StepIInv, PTL DEF Spec

(* The variables stay within their types, whatever the callers do.            *)
THEOREM TypeCorrect == Spec => []TypeOK
<1>1. IInv => TypeOK
  BY DEF IInv
<1>2. QED
  BY <1>1, Invariance, PTL

(* Racing start calls start the task once, and racing stop calls, the Waiter   *)
(* among them, run stopUnsafe once.                                           *)
THEOREM OneStarterOneStopperHolds == Spec => []OneStarterOneStopper
<1>1. IInv => OneStarterOneStopper
  BY DEF IInv, Starting, Stopping, OneStarterOneStopper
<1>2. QED
  BY <1>1, Invariance, PTL

(* A done task has no goroutine left, and its resources are freed.            *)
THEOREM DoneIsFinalHolds == Spec => []DoneIsFinal
<1>1. IInv => DoneIsFinal
  BY DEF IInv, Waiting, Closing, Ended, Waited, DoneIsFinal
<1>2. QED
  BY <1>1, Invariance, PTL

-----------------------------------------------------------------------------
(* The statuses in order, and the refinement of the task's promise.           *)

LifeVars == <<status, work > 0, pc[Waiter] = "released">>

LEMMA InitLife == Init => Life!LInit
  BY TaskAssumption DEF Init, Life!LInit, Threads

(* Each step of the task is a step of its lifecycle or leaves it alone.        *)
LEMMA StepLife == IInv /\ [Next]_vars => [Life!LNext]_LifeVars
<1> SUFFICES ASSUME IInv, [Next]_vars PROVE [Life!LNext]_LifeVars
  OBVIOUS
<1> USE TaskAssumption
    DEF LifeVars, Life!LNext, Life!Advance, Step, Threads
<1>0. /\ work \in Nat /\ pc \in [Threads -> Labels] /\ Waiter \in Threads
      /\ \A c \in Callers : c # Waiter /\ c \in Threads
  BY DEF IInv, TypeOK
<1> USE <1>0
<1>1. ASSUME NEW c \in Callers, Start(c) PROVE Life!LStart
  BY <1>1 DEF Start, Life!LStart
<1>2. ASSUME NEW c \in Callers, EmitStarting(c) PROVE UNCHANGED LifeVars
  BY <1>2 DEF EmitStarting
<1>3. ASSUME NEW c \in Callers, OnStart(c)
      PROVE  Life!LLoad \/ Life!LUnload \/ UNCHANGED LifeVars
  <2>1. status = "starting"
    BY <1>3 DEF OnStart, IInv, Starting, StartLabels, BeforeRunning
  <2>2. status' = status /\ pc'[Waiter] = pc[Waiter]
    BY <1>3 DEF OnStart
  <2>3. CASE work' > 0
    BY <2>1, <2>2, <2>3 DEF Life!LLoad
  <2>4. CASE ~(work' > 0) /\ work > 0
    BY <2>1, <2>2, <2>4 DEF Life!LUnload
  <2>5. CASE ~(work' > 0) /\ ~(work > 0)
    BY <2>2, <2>5
  <2>6. QED
    BY <2>3, <2>4, <2>5
<1>4. ASSUME NEW c \in Callers, SetRunning(c) PROVE Life!LRun
  <2>1. status = "starting"
    BY <1>4 DEF SetRunning, IInv, Starting, StartLabels, BeforeRunning
  <2>2. QED
    BY <1>4, <2>1 DEF SetRunning, Life!LRun
<1>5. ASSUME NEW c \in Callers, EmitRunning(c) \/ Spawn(c)
      PROVE  UNCHANGED LifeVars
  <2>1. pc[Waiter] = "unborn"
    BY <1>5 DEF EmitRunning, Spawn, IInv, Starting, StartLabels
  <2>2. QED
    BY <1>5, <2>1 DEF EmitRunning, Spawn
<1>6. ASSUME NEW c \in Callers, Stop(c) PROVE Life!LStop
  BY <1>6 DEF Stop, Life!LStop
<1>7. ASSUME NEW t \in Threads, StopSteps(t) \/ CloseSteps(t) \/ CloseBegin(t)
      PROVE  UNCHANGED LifeVars
  BY <1>7 DEF StopSteps, CloseSteps, EmitStopping, CancelCtx, OnStop, CloseBegin,
              CloseCancel, CloseEnd
<1>8. CASE AwaitCtx \/ AwaitWork \/ EmitDone \/ ParentCancel \/ WorkerCancel
  BY <1>8 DEF AwaitCtx, AwaitWork, EmitDone, ParentCancel, WorkerCancel
<1>9. CASE Check
  <2>1. CASE status = "running"
    BY <1>9, <2>1 DEF Check, Life!LStop
  <2>2. CASE status # "running"
    BY <1>9, <2>2 DEF Check
  <2>3. QED
    BY <2>1, <2>2
<1>10. CASE SetDone
  <2>1. status = "stopping" /\ work = 0
    BY <1>10 DEF SetDone, IInv, Waiting, Ending, Waited
  <2>2. QED
    BY <1>10, <2>1 DEF SetDone, Life!LFinish
<1>11. CASE Release
  <2>1. status = "done"
    BY <1>11 DEF Release, IInv, Waiting, Ended
  <2>2. QED
    BY <1>11, <2>1 DEF Release, Life!LRelease
<1>12. CASE WorkerExit
  <2>1. status' = status /\ pc'[Waiter] = pc[Waiter] /\ work > 0 /\ work' = work - 1
    BY <1>12 DEF WorkerExit
  <2>2. CASE work = 1
    BY <2>1, <2>2 DEF Life!LUnload
  <2>3. CASE work > 1
    BY <2>1, <2>3
  <2>4. QED
    BY <2>1, <2>2, <2>3
<1>13. CASE UNCHANGED vars
  BY <1>13 DEF vars
<1>14. QED
  BY <1>1, <1>2, <1>3, <1>4, <1>5, <1>6, <1>7, <1>8, <1>9, <1>10, <1>11, <1>12, <1>13
  DEF Next, StartSteps, WaiterSteps

(* The task implements the safety part of its promise.                        *)
THEOREM ImplementsLifecycleSafety == Spec => Life!LSafety
  BY InitLife, StepLife, Invariance, PTL DEF Spec, Life!LSafety, Life!lvars, LifeVars

(* No interleaving moves the status back, or over a status.                   *)
THEOREM StatusInOrderHolds == Spec => StatusInOrder
<1>1. IInv /\ [Next]_vars => [Life!Rank(status') \in {Life!Rank(status), Life!Rank(status) + 1}]_vars
  <2> SUFFICES ASSUME IInv, [Next]_vars
               PROVE  Life!Rank(status') \in {Life!Rank(status), Life!Rank(status) + 1}
    OBVIOUS
  <2>1. CASE status' = status
    BY <2>1
  <2>2. CASE Life!LStart \/ Life!LRun \/ Life!LStop \/ Life!LFinish
    BY <2>2 DEF Life!LStart, Life!LRun, Life!LStop, Life!LFinish, Life!Advance, Life!Rank
  <2>3. QED
    BY <2>1, <2>2, StepLife
    DEF LifeVars, Life!LNext, Life!LLoad, Life!LUnload, Life!LRelease
<1>2. QED
  BY <1>1, Invariance, PTL DEF Spec, StatusInOrder

-----------------------------------------------------------------------------
(* No event is emitted twice.                                                 *)

Emitted(e) == \E i \in 1 .. Len(events) : events[i] = e

(* What is still to be emitted, by status and by whoever is about to emit it.  *)
NotYet ==
  /\ status = "created" => ~Emitted("starting")
  /\ status \in {"created", "starting"} => ~Emitted("running")
  /\ status \in {"created", "starting", "running"} => ~Emitted("stopping")
  /\ closer # "closed" => ~Emitted("closed")
  /\ pc[Waiter] \notin {"release", "released"} => ~Emitted("done")
  /\ \A t \in Threads :
       /\ pc[t] = "emitStarting" => ~Emitted("starting")
       /\ pc[t] = "emitRunning" => ~Emitted("running")
       /\ pc[t] = "emitStopping" => ~Emitted("stopping")

EInv == EventsOnce /\ NotYet

LEMMA EmitNew ==
  ASSUME events \in Seq(EventNames), NEW e \in EventNames,
         EventsOnce, ~Emitted(e), Emit(e)
  PROVE  /\ EventsOnce'
         /\ \A x : Emitted(x)' <=> Emitted(x) \/ x = e
<1>1. /\ Len(events') = Len(events) + 1
      /\ Len(events) \in Nat
      /\ events'[Len(events) + 1] = e
      /\ \A i \in 1 .. Len(events) : events'[i] = events[i]
  BY DEF Emit
<1>2. EventsOnce'
  BY <1>1 DEF EventsOnce, Emitted
<1>3. ASSUME NEW x PROVE Emitted(x)' <=> Emitted(x) \/ x = e
  BY <1>1 DEF Emitted
<1>4. QED
  BY <1>2, <1>3

LEMMA StepEInv == IInv /\ EInv /\ [Next]_vars => EInv'
<1> SUFFICES ASSUME IInv, EInv, [Next]_vars PROVE EInv'
  OBVIOUS
<1>0. /\ events \in Seq(EventNames) /\ pc \in [Threads -> Labels]
      /\ Waiter \in Threads /\ \A c \in Callers : c # Waiter /\ c \in Threads
  BY TaskAssumption DEF IInv, TypeOK, Threads
<1> USE <1>0 DEF EInv, NotYet, Step
<1>1. ASSUME events' = events PROVE EventsOnce' /\ \A x : Emitted(x)' <=> Emitted(x)
  BY <1>1 DEF EventsOnce, Emitted
<1>2. ASSUME NEW c \in Callers, Start(c) PROVE EInv'
  BY <1>1, <1>2 DEF Start
<1>3. ASSUME NEW c \in Callers, EmitStarting(c) PROVE EInv'
  <2>1. EventsOnce' /\ \A x : Emitted(x)' <=> Emitted(x) \/ x = "starting"
    BY <1>3, EmitNew DEF EmitStarting, EventNames
  <2>2. status = "starting" /\ \A t \in Threads : pc[t] = "emitStarting" => t = c
    BY <1>3 DEF EmitStarting, IInv, Starting, StartLabels, BeforeRunning
  <2>3. QED
    BY <1>3, <2>1, <2>2 DEF EmitStarting
<1>4. ASSUME NEW c \in Callers, EmitRunning(c) PROVE EInv'
  <2>1. EventsOnce' /\ \A x : Emitted(x)' <=> Emitted(x) \/ x = "running"
    BY <1>4, EmitNew DEF EmitRunning, EventNames
  <2>2. /\ status \notin {"created", "starting"}
        /\ \A t \in Threads : pc[t] = "emitRunning" => t = c
    BY <1>4 DEF EmitRunning, IInv, Starting, StartLabels, BeforeRunning
  <2>3. QED
    BY <1>4, <2>1, <2>2 DEF EmitRunning
<1>5. ASSUME NEW t \in Threads, EmitStopping(t) PROVE EInv'
  <2>1. EventsOnce' /\ \A x : Emitted(x)' <=> Emitted(x) \/ x = "stopping"
    BY <1>5, EmitNew DEF EmitStopping, EventNames
  <2>2. /\ status \in {"stopping", "done"}
        /\ \A u \in Threads : pc[u] = "emitStopping" => u = t
    BY <1>5 DEF EmitStopping, IInv, Stopping, StopLabels
  <2>3. QED
    BY <1>5, <2>1, <2>2 DEF EmitStopping
<1>6. ASSUME NEW t \in Threads, CloseEnd(t) PROVE EInv'
  <2>1. closer = "closing"
    BY <1>6 DEF CloseEnd, IInv, Closing, CloseLabels
  <2>2. EventsOnce' /\ \A x : Emitted(x)' <=> Emitted(x) \/ x = "closed"
    BY <1>6, <2>1, EmitNew DEF CloseEnd, EventNames
  <2>3. QED
    BY <1>6, <2>1, <2>2 DEF CloseEnd
<1>7. CASE EmitDone
  <2>1. EventsOnce' /\ \A x : Emitted(x)' <=> Emitted(x) \/ x = "done"
    BY <1>7, EmitNew DEF EmitDone, EventNames
  <2>2. QED
    BY <1>7, <2>1 DEF EmitDone
<1>8. ASSUME NEW c \in Callers, OnStart(c) \/ SetRunning(c) \/ Spawn(c) \/ Stop(c)
      PROVE  EInv'
  <2>1. events' = events
    BY <1>8 DEF OnStart, SetRunning, Spawn, Stop
  <2> USE <1>1, <2>1
  <2>2. CASE OnStart(c)
    BY <2>2 DEF OnStart
  <2>3. CASE SetRunning(c)
    BY <2>3 DEF SetRunning, IInv, Starting, StartLabels, BeforeRunning
  <2>4. CASE Spawn(c)
    BY <2>4 DEF Spawn, IInv, Starting, StartLabels
  <2>5. CASE Stop(c)
    BY <2>5 DEF Stop
  <2>6. QED
    BY <1>8, <2>2, <2>3, <2>4, <2>5
<1>9. ASSUME NEW t \in Threads, CancelCtx(t) \/ OnStop(t) \/ CloseBegin(t) \/ CloseCancel(t)
      PROVE  EInv'
  BY <1>1, <1>9 DEF CancelCtx, OnStop, CloseBegin, CloseCancel
<1>10. CASE AwaitCtx \/ Check \/ AwaitWork \/ SetDone \/ Release
  <2>1. SetDone => status = "stopping"
    BY DEF SetDone, IInv, Waiting, Ending
  <2>2. QED
    BY <1>1, <1>10, <2>1 DEF AwaitCtx, Check, AwaitWork, SetDone, Release
<1>11. CASE ParentCancel \/ WorkerCancel \/ WorkerExit \/ UNCHANGED vars
  BY <1>1, <1>11 DEF ParentCancel, WorkerCancel, WorkerExit, vars
<1>12. QED
  BY <1>2, <1>3, <1>4, <1>5, <1>6, <1>7, <1>8, <1>9, <1>10, <1>11
  DEF Next, StartSteps, StopSteps, CloseSteps, WaiterSteps

(* A listener hears of each stage of a task at most once.                      *)
THEOREM EventsOnceHolds == Spec => []EventsOnce
<1>1. Init => EInv
  BY DEF Init, EInv, EventsOnce, NotYet, Emitted
<1>2. EInv => EventsOnce
  BY DEF EInv
<1>3. QED
  BY <1>1, <1>2, Invariance, StepEInv, PTL DEF Spec

=============================================================================
