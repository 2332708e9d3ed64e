------------------------------ MODULE Monitorer ------------------------------
(***************************************************************************)
(* The monitorer of the monitor plugins (monitorer/monitorer.go): it hears *)
(* the events of a flow and keeps two deltas, cd (what is there, handed to *)
(* whoever catches up) and d (what changed since the last period, handed   *)
(* to OnDelta and replaced).  Every handler writes cd under mc and then d  *)
(* under md, so that a period, a catch up or the handler of another        *)
(* goroutine may come in between: each half is a step here.                *)
(*                                                                         *)
(* The flow is seen through the events it emits.  A script lists the steps *)
(* of the handlers in the order one goroutine runs them: UserThread, which *)
(* makes, connects and starts things, then one goroutine per node and one  *)
(* per group, which emit when it is done.                                  *)
(***************************************************************************)
EXTENDS FlowMirror, Selection

CONSTANTS Nodes, Groups,      \* their ids
          GroupOf,            \* [Nodes -> Groups]
          StatsOf,            \* [Nodes -> Seq(stat ids)]
          Programs,           \* what flows may do: records [user, ends, flowStats, gone]
          MaxPeriods          \* bound: periods of the stater

UserThread == 0
Threads == {UserThread} \cup Nodes \cup Groups

VARIABLES
    script,    \* [Threads -> Seq(steps)], what is left of each goroutine's handlers
    cd, d,     \* the catch-up delta and the pending one
    valuers,   \* stats registered in the delta stater
    stater,    \* [pc, sampled, delta] of the stater's goroutine
    period,    \* periods elapsed, which are also the values sampled
    told       \* history: what the deltas handed over add up to
monitorerVars == <<script, cd, d, valuers, stater, period, told>>

---------------------------------------------------------------------------
(* The steps of each handler, in order.                                    *)

Step(do, of) == [do |-> do, of |-> of]

\* monitorNode: every stat is registered, then announced.
StatCreated(s)  == <<Step("AddValuer", s), Step("StatInCatchUp", s), Step("StatInDelta", s)>>
NodeCreated(n)  == FlattenSeq([i \in DOMAIN StatsOf[n] |->
                                  StatCreated([id |-> StatsOf[n][i], node |-> n])])
NodeRunning(n)  == <<Step("NodeInCatchUp", n), Step("NodeInDelta", n)>>
\* Mutant: the stats leave the stater first.
NodeDoneValuersFirst(n) == <<Step("RemoveValuers", n), Step("DropStats", n),
                             Step("DropNode", n), Step("NodeDoneInDelta", n)>>
NodeDone(n)     == <<Step("DropStats", n), Step("RemoveValuers", n),
                     Step("DropNode", n), Step("NodeDoneInDelta", n)>>
Connected(c)    == <<Step("LinkInCatchUp", c), Step("LinkInDelta", c)>>
Disconnected(c) == <<Step("DropLink", c), Step("CutInDelta", c)>>
GroupRunning(g) == <<Step("GroupInCatchUp", g), Step("GroupInDelta", g)>>
GroupDone(g)    == <<Step("DropGroup", g), Step("GroupDoneInDelta", g)>>

\* Steps that leave a handler between the two deltas it writes.
SecondHalves == {"StatInDelta", "NodeInDelta", "RemoveValuers", "DropNode", "NodeDoneInDelta",
                 "LinkInDelta", "CutInDelta", "GroupInDelta", "GroupDoneInDelta"}

\* A node's goroutine ends after the user made it run, a group's after its
\* own start and after its nodes.
MayRun(t) ==
    /\ t \in Nodes  => \A i \in DOMAIN script[UserThread] :
                          script[UserThread][i] # Step("NodeInDelta", t)
    /\ t \in Groups => /\ \A i \in DOMAIN script[UserThread] :
                             script[UserThread][i] # Step("GroupInDelta", t)
                       /\ \A n \in Nodes : GroupOf[n] = t => script[n] = <<>>

Runs(t, do) == /\ script[t] # <<>> /\ Head(script[t]).do = do /\ MayRun(t)
               /\ script' = [script EXCEPT ![t] = Tail(@)]
Subject(t) == Head(script[t]).of

ScriptOf(p) == [t \in Threads |-> IF t = UserThread THEN p.user ELSE p.ends[t]]

---------------------------------------------------------------------------
(* What programs are.                                                      *)

Stats == UNION {{[id |-> i, node |-> n] : i \in ToSet(StatsOf[n])} : n \in Nodes}
Links == Nodes \X Nodes

\* The handlers a goroutine may run.
HandlersOf(t) ==
    {Connected(c) : c \in Links} \cup {Disconnected(c) : c \in Links} \cup
        (IF t = UserThread
         THEN {StatCreated(s) : s \in Stats} \cup {NodeRunning(n) : n \in Nodes}
                \cup {GroupRunning(g) : g \in Groups}
         ELSE IF t \in Nodes THEN {NodeDone(t)} ELSE {GroupDone(t)})

\* Each from its first step to its last, one after the other.
MadeOf(s, handlers) == \A i \in DOMAIN s : \E h \in handlers : \E k \in DOMAIN h :
    /\ k <= i /\ i - k + Len(h) <= Len(s)
    /\ \A j \in DOMAIN h : s[i - k + j] = h[j]

\* Ids are given once (flow.go: groupCount, nodeCount), and a group or a node is made, starts and
\* is done once (task.go); a node has its stats when it starts, and a group that is done
\* has waited for those of its nodes that started (group.go: onTaskStart; task.go: start).
\* How often and where nodes are connected is free.
IsProgram(p) == LET sc == ScriptOf(p) IN
    /\ \A t \in Threads : sc[t] \in Seq(ToSet(sc[t])) /\ MadeOf(sc[t], HandlersOf(t))
    /\ \A t, u \in Threads : \A i \in DOMAIN sc[t], j \in DOMAIN sc[u] :
           sc[t][i] = sc[u][j] /\ ~(t = u /\ i = j) =>
               sc[t][i].do \in {"LinkInCatchUp", "LinkInDelta", "DropLink", "CutInDelta"}
    /\ \A n \in Nodes : sc[n] # <<>> =>
           \A i \in DOMAIN p.user : p.user[i].do = "StatInDelta" /\ p.user[i].of.node = n =>
               \E j \in DOMAIN p.user : j > i /\ p.user[j] = Step("NodeInDelta", n)
    /\ \A n \in Nodes : Step("GroupDoneInDelta", GroupOf[n]) \in ToSet(sc[GroupOf[n]])
                        /\ Step("NodeInDelta", n) \in ToSet(p.user) =>
           Step("NodeDoneInDelta", n) \in ToSet(sc[n])
    /\ p.flowStats \in Seq(ToSet(p.flowStats)) /\ IsInjective(p.flowStats)
    /\ \A s \in Stats : s.id \notin ToSet(p.flowStats)

ASSUME IdsAssumption ==
    /\ UserThread \notin Nodes \cup Groups
    /\ \A m, n \in Nodes : m # n => ToSet(StatsOf[m]) \cap ToSet(StatsOf[n]) = {}
ASSUME ProgramsAssumption == \A p \in Programs : IsProgram(p)

\* What the code does not promise, since deltas add before they remove: each pair
\* of nodes is linked once at most, and before the goroutine that cuts it gets there.
LinkedInTurn(p) == LET sc == ScriptOf(p) IN
    /\ \A t, u \in Threads : \A i \in DOMAIN sc[t], j \in DOMAIN sc[u] :
           sc[t][i] = sc[u][j] => t = u /\ i = j
    /\ \A t, u \in Threads : \A i \in DOMAIN sc[t], j \in DOMAIN sc[u] :
           sc[t][i].do = "DropLink" /\ sc[u][j] = Step("LinkInDelta", sc[t][i].of) =>
               \/ t = u /\ j < i
               \/ u = UserThread /\ \E k \in DOMAIN sc[u] : k > j /\
                      \/ t \in Nodes /\ sc[u][k] = Step("NodeInDelta", t)
                      \/ t \in Groups /\ sc[u][k] = Step("GroupInDelta", t)

---------------------------------------------------------------------------
(* The handlers, half by half.                                             *)

\* ds.Add: the stater samples the stat from now on.
AddValuer(t) == /\ Runs(t, "AddValuer")
                /\ valuers' = valuers \cup {Subject(t).id}
                /\ UNCHANGED <<cd, d, stater, period, told>>
StatInCatchUp(t) == /\ Runs(t, "StatInCatchUp")
                    /\ cd' = [cd EXCEPT !.newStats = Append(@, Subject(t))]
                    /\ UNCHANGED <<d, valuers, stater, period, told>>
StatInDelta(t) == /\ Runs(t, "StatInDelta")
                  /\ d' = [d EXCEPT !.newStats = Append(@, Subject(t))]
                  /\ UNCHANGED <<cd, valuers, stater, period, told>>

\* EventNameNodeRunning.
NodeInCatchUp(t) ==
    /\ Runs(t, "NodeInCatchUp")
    /\ cd' = [cd EXCEPT !.startedNodes = Append(@, [id |-> Subject(t), group |-> GroupOf[Subject(t)]])]
    /\ UNCHANGED <<d, valuers, stater, period, told>>
NodeInDelta(t) ==
    /\ Runs(t, "NodeInDelta")
    /\ d' = [d EXCEPT !.startedNodes = Append(@, [id |-> Subject(t), group |-> GroupOf[Subject(t)]])]
    /\ UNCHANGED <<cd, valuers, stater, period, told>>

\* EventNameNodeDone: its stats leave cd, then the stater, then it leaves cd.
DropStats(t) ==
    /\ Runs(t, "DropStats")
    /\ cd' = [cd EXCEPT !.newStats =
                 Selected(@, {s \in ToSet(@) : s.id \notin ToSet(StatsOf[Subject(t)])})]
    /\ UNCHANGED <<d, valuers, stater, period, told>>
RemoveValuers(t) ==
    /\ Runs(t, "RemoveValuers")
    /\ valuers' = valuers \ ToSet(StatsOf[Subject(t)])
    /\ UNCHANGED <<cd, d, stater, period, told>>
\* Mutant: the ids of groups are compared.
DropNodesOfGroup(t) ==
    /\ Runs(t, "DropNode")
    /\ cd' = [cd EXCEPT !.startedNodes = Selected(@, {n \in ToSet(@) : n.group # GroupOf[Subject(t)]})]
    /\ UNCHANGED <<d, valuers, stater, period, told>>
DropNode(t) ==
    /\ Runs(t, "DropNode")
    /\ cd' = [cd EXCEPT !.startedNodes = Selected(@, {n \in ToSet(@) : n.id # Subject(t)})]
    /\ UNCHANGED <<d, valuers, stater, period, told>>
NodeDoneInDelta(t) ==
    /\ Runs(t, "NodeDoneInDelta")
    /\ d' = [d EXCEPT !.doneNodes = Append(@, Subject(t))]
    /\ UNCHANGED <<cd, valuers, stater, period, told>>

\* EventNameNodeChildAdded and EventNameNodeChildRemoved.
LinkInCatchUp(t) == /\ Runs(t, "LinkInCatchUp")
                    /\ cd' = [cd EXCEPT !.connected = Append(@, Subject(t))]
                    /\ UNCHANGED <<d, valuers, stater, period, told>>
LinkInDelta(t) == /\ Runs(t, "LinkInDelta")
                  /\ d' = [d EXCEPT !.connected = Append(@, Subject(t))]
                  /\ UNCHANGED <<cd, valuers, stater, period, told>>
DropLink(t) == /\ Runs(t, "DropLink")
               /\ cd' = [cd EXCEPT !.connected = Selected(@, ToSet(@) \ {Subject(t)})]
               /\ UNCHANGED <<d, valuers, stater, period, told>>
CutInDelta(t) == /\ Runs(t, "CutInDelta")
                 /\ d' = [d EXCEPT !.disconnected = Append(@, Subject(t))]
                 /\ UNCHANGED <<cd, valuers, stater, period, told>>

\* EventNameGroupRunning and EventNameGroupDone.
GroupInCatchUp(t) == /\ Runs(t, "GroupInCatchUp")
                     /\ cd' = [cd EXCEPT !.startedGroups = Append(@, Subject(t))]
                     /\ UNCHANGED <<d, valuers, stater, period, told>>
GroupInDelta(t) == /\ Runs(t, "GroupInDelta")
                   /\ d' = [d EXCEPT !.startedGroups = Append(@, Subject(t))]
                   /\ UNCHANGED <<cd, valuers, stater, period, told>>
DropGroup(t) == /\ Runs(t, "DropGroup")
                /\ cd' = [cd EXCEPT !.startedGroups = Selected(@, ToSet(@) \ {Subject(t)})]
                /\ UNCHANGED <<d, valuers, stater, period, told>>
GroupDoneInDelta(t) == /\ Runs(t, "GroupDoneInDelta")
                       /\ d' = [d EXCEPT !.doneGroups = Append(@, Subject(t))]
                       /\ UNCHANGED <<cd, valuers, stater, period, told>>

Handle(t) == \/ AddValuer(t) \/ StatInCatchUp(t) \/ StatInDelta(t)
             \/ NodeInCatchUp(t) \/ NodeInDelta(t)
             \/ DropStats(t) \/ RemoveValuers(t) \/ DropNode(t) \/ NodeDoneInDelta(t)
             \/ LinkInCatchUp(t) \/ LinkInDelta(t) \/ DropLink(t) \/ CutInDelta(t)
             \/ GroupInCatchUp(t) \/ GroupInDelta(t) \/ DropGroup(t) \/ GroupDoneInDelta(t)

---------------------------------------------------------------------------
(* The stater's goroutine: it samples, then calls onStats.                 *)

Idle == [pc |-> "idle", sampled |-> {}, delta |-> NoDelta]

\* The valuers are read under the stater's lock, which onStats does not hold.
Sample == /\ stater.pc = "idle" /\ period < MaxPeriods
          /\ period' = period + 1
          /\ stater' = [stater EXCEPT !.pc = "sampled", !.sampled = valuers]
          /\ UNCHANGED <<script, cd, d, valuers, told>>

\* Mutant: d is handed over, not replaced.
SwapDeltaKeeps == /\ stater.pc = "sampled"
                  /\ stater' = [stater EXCEPT !.pc = "swapped", !.delta = d]
                  /\ UNCHANGED <<script, cd, d, valuers, period, told>>

\* onStats takes d under md and leaves an empty one.
SwapDelta == /\ stater.pc = "sampled"
             /\ stater' = [stater EXCEPT !.pc = "swapped", !.delta = d]
             /\ d' = NoDelta
             /\ UNCHANGED <<script, cd, valuers, period, told>>

\* Delta.empty looks twice at StartedGroups and never at StartedNodes.
IsEmpty(dl) ==
    /\ dl.connected = <<>> /\ dl.disconnected = <<>>
    /\ dl.doneGroups = <<>> /\ dl.doneNodes = <<>>
    /\ dl.newStats = <<>> /\ dl.startedGroups = <<>>
    /\ dl.startedGroups = <<>> /\ DOMAIN dl.values = {}

Sampled == [s \in stater.sampled |-> period]

\* The delta that goes to OnDelta, if any.
Handed == [stater.delta EXCEPT !.values = Sampled]
HandsOver == stater.pc = "swapped" /\ ~IsEmpty(Handed)

\* What someone who adds the deltas up knows: a delta adds before it removes.
Told(t, dl) ==
    [groups |-> (t.groups \cup ToSet(dl.startedGroups)) \ ToSet(dl.doneGroups),
     nodes  |-> (t.nodes \cup ToSet(dl.startedNodes))
                    \ {n \in t.nodes \cup ToSet(dl.startedNodes) : n.id \in ToSet(dl.doneNodes)},
     stats  |-> {s \in t.stats \cup ToSet(dl.newStats) : s.node \notin ToSet(dl.doneNodes)},
     links  |-> (t.links \cup ToSet(dl.connected)) \ ToSet(dl.disconnected),
     untold |-> t.untold]

\* The rest of onStats: values go to both deltas (to cd without mc), OnDelta is called.
Deliver == /\ stater.pc = "swapped"
           /\ cd' = [cd EXCEPT !.values = Sampled]
           /\ told' = IF HandsOver THEN Told(told, Handed)
                     ELSE [told EXCEPT !.untold = @ \cup ToSet(Handed.startedNodes)]
           /\ stater' = Idle
           /\ UNCHANGED <<script, d, valuers, period>>

---------------------------------------------------------------------------
\* CatchUp copies cd under mc.  onStats may be writing the values at that very
\* moment: some of them are there, or still those of the period before.
CatchUps ==
    {cd} \cup (IF stater.pc = "swapped"
               THEN {[cd EXCEPT !.values = [s \in written |-> period]] : written \in SUBSET stater.sampled}
               ELSE {})

\* monitorFlow announces the stats of the flow before anyone listens.
MonitorFlow(p) ==
    /\ script = ScriptOf(p)
    /\ cd = [NoDelta EXCEPT !.newStats =
                [i \in DOMAIN p.flowStats |-> [id |-> p.flowStats[i], node |-> NoNode]]]
    /\ d = cd
    /\ valuers = ToSet(p.flowStats)
    /\ stater = Idle
    /\ period = p.gone
    /\ told = [groups |-> {}, nodes |-> {}, stats |-> {}, links |-> {}, untold |-> {}]

MonitorerInit == \E p \in Programs : MonitorFlow(p)
MonitorerNext == (\E t \in Threads : Handle(t)) \/ Sample \/ SwapDelta \/ Deliver
MonitorerSpec == MonitorerInit /\ [][MonitorerNext]_monitorerVars

---------------------------------------------------------------------------
BetweenHandlers == \A t \in Threads : script[t] # <<>> => Head(script[t]).do \notin SecondHalves

\* What is still to be told: the delta the stater holds, then the pending one.
ToldInTheEnd == Told(Told(told, stater.delta), d)

\* What cd says is what the deltas add up to, whatever the goroutines' order,
\* once no handler is between its two halves.  The exception is the code's: a
\* node alone in its delta, with no stat to sample, is never told (empty()
\* reads StartedGroups in its place).
CatchUpAgrees ==
    BetweenHandlers =>
        /\ ToldInTheEnd.groups = ToSet(cd.startedGroups)
        /\ ToldInTheEnd.links = ToSet(cd.connected)
        /\ ToldInTheEnd.stats = ToSet(cd.newStats)
        /\ ToldInTheEnd.nodes \ told.untold = ToSet(cd.startedNodes) \ told.untold

\* A stat is sampled from before it is announced until after it is withdrawn:
\* what catches up never shows a stat whose values have stopped.
StatsShownAreSampled == \A s \in ToSet(cd.newStats) : s.id \in valuers
=============================================================================
