-------------------------------- MODULE Flow --------------------------------
(***************************************************************************)
(* A flow, its groups and their nodes (pkg/astiflow/flow.go, group.go,      *)
(* node.go on top of task.go): who starts, stops, waits for, closes and     *)
(* disconnects whom.                                                        *)
(*                                                                          *)
(* Each of them is a task.  A task's callbacks and the handlers of its      *)
(* events run on the goroutine that starts, stops or ends it and call into  *)
(* other tasks, so what a goroutine has left to do is a stack of operations *)
(* (todo): an action executes the operation at the head of a goroutine's    *)
(* stack, up to where the code releases a lock or calls out, and pushes the *)
(* calls it makes.  Goroutines interleave between any two operations.       *)
(*                                                                          *)
(* Left out: the events no handler of the package answers to (created is    *)
(* handled, done is handled; starting, running, stopping, closed, added and *)
(* removed are only logged or forwarded), plugins, and errors, which every  *)
(* caller inside the package drops or logs.                                 *)
(***************************************************************************)
EXTENDS Naturals, Sequences, FiniteSets, SequencesExt, Selection

CONSTANTS
  F,                      \* the flow
  Groups, Nodes,
  GroupOf,                \* [Nodes -> Groups]
  Order,                  \* the groups and nodes by id
  Initial,                \* those of Order that exist before the flow starts
  Edges,                  \* the <<parent, child>> connected before the flow starts
  WhenAllGroupsAreDone,   \* FlowStopOptions
  WhenGroupStops,         \* NodeStopOptions: the nodes that have each set
  WhenAllParentsAreDone,
  WhenAllChildrenAreDone,
  SelfEnding,             \* the nodes whose Noder may cancel its own context
  Users,                  \* goroutines of the program that uses the package
  Programs                \* [Users -> the sequences of calls each may make]

Tasks == {F} \cup Groups \cup Nodes
Threads == Users \cup Tasks   \* each started task has a goroutine, named after it

(* What the users of the package may call.                                    *)
UserCalls ==
  [op : {"start"}, t : {F}, u : Tasks]
  \cup [op : {"stop", "close"}, t : {F} \cup Groups, u : Tasks]
  \cup [op : {"startGroup", "disconnectNodes"}, t : Groups, u : Tasks]
  \cup [op : {"new"}, t : Groups \cup Nodes, u : Tasks]
  \cup [op : {"addChild", "addParent", "removeChild", "removeParent"}, t : Nodes, u : Nodes]

ASSUME FlowAssumption ==
  /\ F \notin Groups \cup Nodes /\ Groups \cap Nodes = {} /\ Users \cap Tasks = {}
  /\ GroupOf \in [Nodes -> Groups]
  /\ Order \in Seq(Groups \cup Nodes) /\ ToSet(Order) = Groups \cup Nodes /\ IsInjective(Order)
  /\ Initial \subseteq Groups \cup Nodes /\ Edges \subseteq Nodes \X Nodes
  /\ WhenAllGroupsAreDone \in BOOLEAN
  /\ WhenGroupStops \cup WhenAllParentsAreDone \cup WhenAllChildrenAreDone \subseteq Nodes
  /\ \A u \in Users : Programs[u] \subseteq Seq(UserCalls)

VARIABLES
  status, ctx,  \* each task's t.s and t.ctx
  closer,       \* each task's t.c: "none" until the task is created
  attached,     \* the tasks their parent's t.t waits for
  working,      \* the nodes whose Noder's goroutine runs
  members,      \* f.gs and each g.ns
  children, parents,  \* each node's maps of nodes
  watchers,     \* each node's done handlers that other nodes added to stop themselves
  todo          \* each goroutine's stack of operations

vars == <<status, ctx, closer, attached, working, members, children, parents, watchers, todo>>
links == <<children, parents, watchers>>
runtime == <<status, ctx, attached, working>>

Parent(t) == IF t \in Nodes THEN GroupOf[t] ELSE F
Subs(t) == {c \in Groups \cup Nodes : Parent(c) = t}
Sorted(S) == Selected(Order, S)

Op(name, t) == [op |-> name, t |-> t, u |-> t]
Op2(name, t, u) == [op |-> name, t |-> t, u |-> u]
Each(name, s) == [i \in DOMAIN s |-> Op(name, s[i])]

(* Mutant: the child keeps its parent.                                        *)
DisconnectHalf(src, dst) ==
  <<Op2("removeChild", src, dst)>>

(* disconnect(dst) and connect(dst).                                          *)
Disconnect(src, dst) ==
  <<Op2("removeChild", src, dst), Op2("removeParent", dst, src)>>
Connect(src, dst) == <<Op2("addChild", src, dst), Op2("addParent", dst, src)>>

Watch(by, kind) == [by |-> by, kind |-> kind]
Watches == [by : Nodes, kind : {"children", "parents"}]

(* The users' calls, those the package makes itself, and what the two of a    *)
(* watch are called for.                                                      *)
Calls ==
  UserCalls
  \cup [op : {"newTask", "store", "remove"}, t : Groups \cup Nodes, u : Tasks]
  \cup [op : {"start", "onStart", "setRunning", "spawn", "stop", "cancel", "onStop", "awaitCtx",
              "awaitWork", "close", "closed", "setDone", "emitDone", "release"}, t : Tasks, u : Tasks]
  \cup [op : {"disconnectParents", "disconnectChildren", "parents", "children"}, t : Nodes, u : Tasks]
  \cup [op : {"unwatchChild", "unwatchParent"}, t : Nodes, u : Nodes]

TypeOK ==
  /\ status \in [Tasks -> {"created", "starting", "running", "stopping", "done"}]
  /\ ctx \in [Tasks -> {"none", "live", "cancelled"}]
  /\ closer \in [Tasks -> {"none", "open", "closing", "closed"}]
  /\ attached \subseteq Tasks
  /\ working \subseteq Nodes
  /\ members \in [{F} \cup Groups -> Seq(Groups \cup Nodes)]
  /\ \A t \in {F} \cup Groups : members[t] \in Seq(Subs(t))
  /\ children \in [Nodes -> SUBSET Nodes]
  /\ parents \in [Nodes -> SUBSET Nodes]
  /\ watchers \in [Nodes -> Seq(Watches)]
  /\ todo \in [Threads -> Seq(Calls)]

(* The watches of the edges connected before the flow starts.                  *)
InitialWatchers(n) ==
  LET by == Sorted(Nodes)
      asChild == Selected(by, {m \in WhenAllChildrenAreDone : <<m, n>> \in Edges})
      asParent == Selected(by, {m \in WhenAllParentsAreDone : <<n, m>> \in Edges})
  IN [i \in DOMAIN asChild |-> Watch(asChild[i], "children")]
     \o [i \in DOMAIN asParent |-> Watch(asParent[i], "parents")]

Init ==
  /\ status = [t \in Tasks |-> "created"]
  /\ ctx = [t \in Tasks |-> "none"]
  /\ closer = [t \in Tasks |-> IF t = F \/ t \in Initial THEN "open" ELSE "none"]
  /\ attached = {}
  /\ working = {}
  /\ members = [t \in {F} \cup Groups |-> Sorted(Subs(t) \cap Initial)]
  /\ children = [n \in Nodes |-> {m \in Nodes : <<n, m>> \in Edges}]
  /\ parents = [n \in Nodes |-> {m \in Nodes : <<m, n>> \in Edges}]
  /\ watchers = [n \in Nodes |-> InitialWatchers(n)]
  /\ \E p \in [Users -> UNION {Programs[u] : u \in Users}] :
       /\ \A u \in Users : p[u] \in Programs[u]
       /\ todo = [th \in Threads |-> IF th \in Users THEN p[th] ELSE <<>>]

At(th, name) == todo[th] # <<>> /\ Head(todo[th]).op = name
Arg(th) == Head(todo[th]).t
Arg2(th) == Head(todo[th]).u
Call(th, ops) == todo' = [todo EXCEPT ![th] = ops \o Tail(@)]
Return(th) == Call(th, <<>>)
CancelledNow(t) == IF ctx[t] = "live" THEN "cancelled" ELSE ctx[t]

-----------------------------------------------------------------------------
(* Creation *)

(* NewGroup and NewNode refuse a parent that is too far: the status is read    *)
(* before the task is created and stored.                                    *)
New(th) ==
  /\ At(th, "new")
  /\ LET t == Arg(th) IN
       IF status[Parent(t)] \in (IF t \in Nodes THEN {"created"}
                                 ELSE {"created", "starting", "running"})
         THEN Call(th, <<Op("newTask", t), Op("store", t)>>)
         ELSE Return(th)
  /\ UNCHANGED <<runtime, closer, members, links>>

NewTask(th) ==
  /\ At(th, "newTask") /\ Return(th)
  /\ closer' = [closer EXCEPT ![Arg(th)] = "open"]
  /\ UNCHANGED <<runtime, members, links>>

(* Mutant: every new task is stored in the flow's list.                       *)
StoreInFlow(th) ==
  /\ At(th, "store") /\ Return(th)
  /\ members' = [members EXCEPT ![F] = Append(@, Arg(th))]
  /\ UNCHANGED <<runtime, closer, links>>

(* The parent's handler of the created event.                                *)
Store(th) ==
  /\ At(th, "store") /\ Return(th)
  /\ members' = [members EXCEPT ![Parent(Arg(th))] = Append(@, Arg(th))]
  /\ UNCHANGED <<runtime, closer, links>>

-----------------------------------------------------------------------------
(* Start *)

(* Group.Start: the flow's status is read, then the task is started.          *)
StartGroup(th) ==
  /\ At(th, "startGroup")
  /\ IF status[F] \in {"starting", "running"}
       THEN Call(th, <<Op("start", Arg(th))>>)
       ELSE Return(th)
  /\ UNCHANGED <<runtime, closer, members, links>>

Start(th) ==
  /\ At(th, "start")
  /\ LET t == Arg(th) IN
       IF status[t] = "created"
         THEN /\ status' = [status EXCEPT ![t] = "starting"]
              /\ ctx' = [ctx EXCEPT ![t] = "live"]
              /\ attached' = attached \cup {t}
              /\ Call(th, <<Op("onStart", t), Op("setRunning", t), Op("spawn", t)>>)
         ELSE Return(th) /\ UNCHANGED <<status, ctx, attached>>
  /\ UNCHANGED <<working, closer, members, links>>

(* A flow starts its groups and a group its nodes, from a copy of the list; a  *)
(* node's Noder launches its goroutine.                                      *)
OnStart(th) ==
  /\ At(th, "onStart")
  /\ LET t == Arg(th) IN
       /\ Call(th, CASE t = F -> Each("startGroup", members[F])
                     [] t \in Groups -> Each("start", members[t])
                     [] t \in Nodes -> <<>>)
       /\ working' = working \cup ({t} \cap Nodes)
  /\ UNCHANGED <<status, ctx, attached, closer, members, links>>

SetRunning(th) ==
  /\ At(th, "setRunning") /\ Return(th)
  /\ status' = [status EXCEPT ![Arg(th)] = "running"]
  /\ UNCHANGED <<ctx, attached, working, closer, members, links>>

Spawn(th) ==
  /\ At(th, "spawn")
  /\ LET t == Arg(th) IN
       todo' = [todo EXCEPT ![th] = Tail(@),
                            ![t] = <<Op("awaitCtx", t), Op("awaitWork", t), Op("close", t),
                                     Op("setDone", t), Op("emitDone", t), Op("release", t)>>]
  /\ UNCHANGED <<runtime, closer, members, links>>

-----------------------------------------------------------------------------
(* Stop *)

Stopping(th, t) ==
  /\ status' = [status EXCEPT ![t] = "stopping"]
  /\ Call(th, <<Op("cancel", t), Op("onStop", t)>>)

(* Mutant: a task that is starting may be stopped.                            *)
StopWhileStarting(th) ==
  /\ At(th, "stop")
  /\ IF status[Arg(th)] \in {"starting", "running"}
       THEN Stopping(th, Arg(th))
       ELSE Return(th) /\ UNCHANGED status
  /\ UNCHANGED <<ctx, attached, working, closer, members, links>>

(* A task that is not running is left alone: it is stopped already, or this is *)
(* an error that no caller inside the package acts on.                       *)
Stop(th) ==
  /\ At(th, "stop")
  /\ IF status[Arg(th)] = "running"
       THEN Stopping(th, Arg(th))
       ELSE Return(th) /\ UNCHANGED status
  /\ UNCHANGED <<ctx, attached, working, closer, members, links>>

Cancel(th) ==
  /\ At(th, "cancel") /\ Return(th)
  /\ ctx' = [ctx EXCEPT ![Arg(th)] = CancelledNow(Arg(th))]
  /\ UNCHANGED <<status, attached, working, closer, members, links>>

OnStop(th) ==
  /\ At(th, "onStop")
  /\ LET t == Arg(th) IN
       Call(th, CASE t = F -> Each("stop", members[F])
                  [] t \in Groups ->
                       Each("stop", Selected(members[t], WhenGroupStops))
                  [] t \in Nodes -> <<>>)
  /\ UNCHANGED <<runtime, closer, members, links>>

-----------------------------------------------------------------------------
(* The goroutine of a task *)

AwaitCtx(th) ==
  /\ At(th, "awaitCtx")
  /\ ctx[Arg(th)] = "cancelled"
  /\ IF status[Arg(th)] = "running"
       THEN Stopping(th, Arg(th))
       ELSE Return(th) /\ UNCHANGED status
  /\ UNCHANGED <<ctx, attached, working, closer, members, links>>

(* Mutants: the task waits only for its own goroutine, or only for the tasks    *)
(* under it.                                                                  *)
AwaitOwnWork(th) ==
  /\ At(th, "awaitWork") /\ Return(th)
  /\ Arg(th) \notin working
  /\ UNCHANGED <<runtime, closer, members, links>>

AwaitSubs(th) ==
  /\ At(th, "awaitWork") /\ Return(th)
  /\ Subs(Arg(th)) \cap attached = {}
  /\ UNCHANGED <<runtime, closer, members, links>>

AwaitWork(th) ==
  /\ At(th, "awaitWork") /\ Return(th)
  /\ Arg(th) \notin working /\ Subs(Arg(th)) \cap attached = {}
  /\ UNCHANGED <<runtime, closer, members, links>>

(* Mutant: the children are not closed.                                       *)
CloseAlone(th) ==
  /\ At(th, "close")
  /\ LET t == Arg(th) IN
       \/ /\ closer[t] = "open"
          /\ closer' = [closer EXCEPT ![t] = "closing"]
          /\ Call(th, <<Op("cancel", t), Op("closed", t)>>)
       \/ /\ closer[t] = "closed"
          /\ Return(th) /\ UNCHANGED closer
  /\ UNCHANGED <<runtime, members, links>>

(* Close locks the closer, runs its functions from the last added to the       *)
(* first, the children's Close among them and the task's cancellation last,   *)
(* and forgets them.                                                         *)
Close(th) ==
  /\ At(th, "close")
  /\ LET t == Arg(th)
         opened == Selected(Reverse(Order), {c \in Subs(t) : closer[c] # "none"})
     IN \/ /\ closer[t] = "open"
           /\ closer' = [closer EXCEPT ![t] = "closing"]
           /\ Call(th, Each("close", opened) \o <<Op("cancel", t), Op("closed", t)>>)
        \/ /\ closer[t] = "closed"
           /\ Return(th) /\ UNCHANGED closer
  /\ UNCHANGED <<runtime, members, links>>

Closed(th) ==
  /\ At(th, "closed") /\ Return(th)
  /\ closer' = [closer EXCEPT ![Arg(th)] = "closed"]
  /\ UNCHANGED <<runtime, members, links>>

SetDone(th) ==
  /\ At(th, "setDone") /\ Return(th)
  /\ status' = [status EXCEPT ![Arg(th)] = "done"]
  /\ UNCHANGED <<ctx, attached, working, closer, members, links>>

(* Mutant: the handlers that the parent's one removes are not called.           *)
EmitDoneLive(th) ==
  /\ At(th, "emitDone")
  /\ LET t == Arg(th) IN
       Call(th, CASE t = F -> <<>>
                  [] t \in Groups -> <<Op("remove", t)>>
                  [] t \in Nodes ->
                       <<Op("disconnectParents", t), Op("disconnectChildren", t), Op("remove", t)>>)
  /\ UNCHANGED <<runtime, closer, members, links>>

(* The done event.  Emit calls a copy of the handlers, in the order they were  *)
(* added: the parent's first, then those of the connected nodes, even if the  *)
(* parent's handler disconnects them meanwhile.                              *)
EmitDone(th) ==
  /\ At(th, "emitDone")
  /\ LET t == Arg(th) IN
       Call(th, CASE t = F -> <<>>
                  [] t \in Groups -> <<Op("remove", t)>>
                  [] t \in Nodes ->
                       <<Op("disconnectParents", t), Op("disconnectChildren", t), Op("remove", t)>>
                       \o [i \in DOMAIN watchers[t] |->
                             Op(watchers[t][i].kind, watchers[t][i].by)])
  /\ UNCHANGED <<runtime, closer, members, links>>

Release(th) ==
  /\ At(th, "release") /\ Return(th)
  /\ attached' = attached \ {Arg(th)}
  /\ UNCHANGED <<status, ctx, working, closer, members, links>>

-----------------------------------------------------------------------------
(* The handlers of the done event *)

DisconnectParents(th) ==
  /\ At(th, "disconnectParents")
  /\ LET n == Arg(th) IN
       Call(th, FlattenSeq([i \in DOMAIN Sorted(parents[n]) |->
                              Disconnect(Sorted(parents[n])[i], n)]))
  /\ UNCHANGED <<runtime, closer, members, links>>

DisconnectChildren(th) ==
  /\ At(th, "disconnectChildren")
  /\ LET n == Arg(th) IN
       Call(th, FlattenSeq([i \in DOMAIN Sorted(children[n]) |->
                              Disconnect(n, Sorted(children[n])[i])]))
  /\ UNCHANGED <<runtime, closer, members, links>>

(* Group.DisconnectNodes: each node in turn, from a copy of the list.         *)
DisconnectNodes(th) ==
  /\ At(th, "disconnectNodes")
  /\ Call(th, FlattenSeq([i \in DOMAIN members[Arg(th)] |->
       LET n == members[Arg(th)][i]
       IN <<Op("disconnectParents", n), Op("disconnectChildren", n)>>]))
  /\ UNCHANGED <<runtime, closer, members, links>>

(* The parent forgets the task; with the last one gone it stops.              *)
RemoveMember(th) ==
  /\ At(th, "remove")
  /\ LET t == Arg(th)
         p == Parent(t)
         left == Selected(members[p], Subs(p) \ {t})
     IN /\ members' = [members EXCEPT ![p] = left]
        /\ IF left = <<>> /\ (p = F => WhenAllGroupsAreDone)
             THEN Call(th, <<Op("stop", p)>>)
             ELSE Return(th)
  /\ UNCHANGED <<runtime, closer, links>>

(* Mutant: one done parent, or child, is enough.                                *)
WatchedOne(th, kind, nodes) ==
  /\ At(th, kind) /\ Call(th, <<Op("stop", Arg(th))>>)
  /\ UNCHANGED <<runtime, closer, members, links>>

(* A watching node whose remaining parents, or children, are all done stops.  *)
Watched(th, kind, nodes) ==
  /\ At(th, kind)
  /\ IF \A m \in nodes : status[m] = "done"
       THEN Call(th, <<Op("stop", Arg(th))>>)
       ELSE Return(th)
  /\ UNCHANGED <<runtime, closer, members, links>>

WatchedParents(th) == At(th, "parents") /\ Watched(th, "parents", parents[Arg(th)])
WatchedChildren(th) == At(th, "children") /\ Watched(th, "children", children[Arg(th)])

-----------------------------------------------------------------------------
(* Connections *)

(* Mutant: a child that is there already is added, and watched, again.          *)
AddChildAgain(th) ==
  /\ At(th, "addChild") /\ Return(th)
  /\ LET n == Arg(th)
         i == Arg2(th)
     IN /\ children' = [children EXCEPT ![n] = @ \cup {i}]
        /\ watchers' = IF n \in WhenAllChildrenAreDone
                         THEN [watchers EXCEPT ![i] = Append(@, Watch(n, "children"))]
                         ELSE watchers
  /\ UNCHANGED <<runtime, closer, members, parents>>

AddChild(th) ==
  /\ At(th, "addChild") /\ Return(th)
  /\ LET n == Arg(th)
         i == Arg2(th)
     IN IF i \in children[n]
          THEN UNCHANGED <<children, watchers>>
          ELSE /\ children' = [children EXCEPT ![n] = @ \cup {i}]
               /\ watchers' = IF n \in WhenAllChildrenAreDone
                                THEN [watchers EXCEPT ![i] = Append(@, Watch(n, "children"))]
                                ELSE watchers
  /\ UNCHANGED <<runtime, closer, members, parents>>

AddParent(th) ==
  /\ At(th, "addParent") /\ Return(th)
  /\ LET n == Arg(th)
         i == Arg2(th)
     IN IF i \in parents[n]
          THEN UNCHANGED <<parents, watchers>>
          ELSE /\ parents' = [parents EXCEPT ![n] = @ \cup {i}]
               /\ watchers' = IF n \in WhenAllParentsAreDone
                                THEN [watchers EXCEPT ![i] = Append(@, Watch(n, "parents"))]
                                ELSE watchers
  /\ UNCHANGED <<runtime, closer, members, children>>

(* The node is deleted under the lock; the event that ends the watch is emitted *)
(* after it, and only if there was something to delete.                       *)
RemoveChild(th) ==
  /\ At(th, "removeChild")
  /\ LET n == Arg(th)
         i == Arg2(th)
     IN /\ children' = [children EXCEPT ![n] = @ \ {i}]
        /\ Call(th, IF i \in children[n] /\ n \in WhenAllChildrenAreDone
                      THEN <<Op2("unwatchChild", n, i)>> ELSE <<>>)
  /\ UNCHANGED <<runtime, closer, members, parents, watchers>>

RemoveParent(th) ==
  /\ At(th, "removeParent")
  /\ LET n == Arg(th)
         i == Arg2(th)
     IN /\ parents' = [parents EXCEPT ![n] = @ \ {i}]
        /\ Call(th, IF i \in parents[n] /\ n \in WhenAllParentsAreDone
                      THEN <<Op2("unwatchParent", n, i)>> ELSE <<>>)
  /\ UNCHANGED <<runtime, closer, members, children, watchers>>

(* Every handler of the removed event that was added for this node answers.    *)
Unwatch(th, op, kind) ==
  /\ At(th, op) /\ Return(th)
  /\ watchers' = [watchers EXCEPT ![Arg2(th)] =
                    Selected(@, Watches \ {Watch(Arg(th), kind)})]
  /\ UNCHANGED <<runtime, closer, members, children, parents>>

UnwatchChild(th) == Unwatch(th, "unwatchChild", "children")
UnwatchParent(th) == Unwatch(th, "unwatchParent", "parents")

-----------------------------------------------------------------------------
(* The environment: the context given to Flow.Start and the Noders *)

NoderCancel(n) ==
  /\ n \in SelfEnding \cap working /\ ctx[n] = "live"
  /\ ctx' = [ctx EXCEPT ![n] = "cancelled"]
  /\ UNCHANGED <<status, attached, working, closer, members, links, todo>>

NoderExit(n) ==
  /\ n \in working /\ ctx[n] = "cancelled"
  /\ working' = working \ {n}
  /\ UNCHANGED <<status, ctx, attached, closer, members, links, todo>>

-----------------------------------------------------------------------------

ThreadStep(th) ==
  /\ todo[th] # <<>>
  /\ \/ New(th) \/ NewTask(th) \/ Store(th)
     \/ StartGroup(th) \/ Start(th) \/ OnStart(th) \/ SetRunning(th) \/ Spawn(th)
     \/ Stop(th) \/ Cancel(th) \/ OnStop(th)
     \/ AwaitCtx(th) \/ AwaitWork(th) \/ Close(th) \/ Closed(th)
     \/ SetDone(th) \/ EmitDone(th) \/ Release(th)
     \/ DisconnectParents(th) \/ DisconnectChildren(th) \/ DisconnectNodes(th)
     \/ RemoveMember(th)
     \/ WatchedParents(th) \/ WatchedChildren(th)
     \/ AddChild(th) \/ AddParent(th) \/ RemoveChild(th) \/ RemoveParent(th)
     \/ UnwatchChild(th) \/ UnwatchParent(th)

Next ==
  \/ \E th \in Threads : ThreadStep(th)
  \/ \E n \in Nodes : NoderCancel(n) \/ NoderExit(n)

(* Goroutines are scheduled and a Noder returns once its context is cancelled; *)
(* it cancels the context itself only if it wants to.                         *)
Fairness ==
  /\ \A th \in Threads : WF_vars(ThreadStep(th))
  /\ \A n \in Nodes : WF_vars(NoderExit(n))

Spec == Init /\ [][Next]_vars /\ Fairness

-----------------------------------------------------------------------------
(* Properties *)

Busy(t) == t \in working \/ Subs(t) \cap attached # {}

Life(t) == INSTANCE Lifecycle
  WITH status <- status[t], busy <- Busy(t),
       released <- status[t] = "done" /\ t \notin attached

(* Every task of the tree keeps a task's promise: its statuses in order, work   *)
(* handed over only while it starts or runs, and done only once its sub-tasks  *)
(* are done, seen by their parents and released.                              *)
EachImplementsLifecycle ==
  /\ \A t \in Tasks : Life(t)!LInit
  /\ [][\A t \in Tasks : Life(t)!LNext \/ UNCHANGED Life(t)!lvars]_vars

(* A task that is done leaves nothing behind it that still runs.              *)
NothingOutlivesItsParent ==
  \A t \in Tasks \ {F} :
    status[Parent(t)] = "done" => status[t] \in {"created", "done"}

(* When nobody calls Close, the resources of a task are freed only after every *)
(* goroutine under it has returned.                                           *)
FreedWhenIdle ==
  \A n \in Nodes : n \in working =>
    closer[n] = "open" /\ closer[GroupOf[n]] = "open" /\ closer[F] = "open"

(* A running node stops for one of the reasons its options name, or because    *)
(* its context was cancelled.                                                 *)
Justified(n) ==
  \/ ctx[n] = "cancelled"
  \/ n \in WhenGroupStops /\ status[GroupOf[n]] \in {"stopping", "done"}
  \/ /\ n \in WhenAllParentsAreDone
     /\ \A p \in Nodes : <<p, n>> \in Edges => status[p] = "done"
  \/ /\ n \in WhenAllChildrenAreDone
     /\ \A c \in Nodes : <<n, c>> \in Edges => status[c] = "done"

NodeStopsForAReason ==
  [][\A n \in Nodes :
       status[n] = "running" /\ status'[n] = "stopping" => Justified(n)]_vars

(* A released node is connected to nothing, and no node dispatches to it,      *)
(* whichever of the two ends of an edge were done first, or together.         *)
ReleasedIsDisconnected ==
  \A n \in Nodes : status[n] = "done" /\ n \notin attached =>
    /\ children[n] = {} /\ parents[n] = {}
    /\ \A m \in Nodes : n \notin children[m]

(* The two ends of an edge agree on it, and each end that has to stop with the  *)
(* other watches it exactly once, unless a goroutine is between the two ends.  *)
(* (This is for users who connect, or one who takes down what it connected: one  *)
(* who takes down what another is connecting may leave it at one end.)        *)
BetweenEnds(th, n, m) ==
  /\ \E op \in {"addParent", "unwatchChild", "removeParent", "unwatchParent"} : At(th, op)
  /\ {Arg(th), Arg2(th)} = {n, m}

TimesWatched(n, w) == Cardinality({i \in DOMAIN watchers[n] : watchers[n][i] = w})

LinksAgree ==
  \A n, m \in {x \in Nodes : status[x] # "done"} :
    (\A th \in Threads : ~BetweenEnds(th, n, m)) =>
      /\ m \in children[n] <=> n \in parents[m]
      /\ TimesWatched(m, Watch(n, "children")) =
           (IF m \in children[n] /\ n \in WhenAllChildrenAreDone THEN 1 ELSE 0)
      /\ TimesWatched(n, Watch(m, "parents")) =
           (IF m \in children[n] /\ m \in WhenAllParentsAreDone THEN 1 ELSE 0)

(* A flow that was told to stop, or whose context or closer cancelled it, gets  *)
(* to the end of everything it started, and no goroutine of it stays blocked.  *)
StopEnds ==
  status[F] = "stopping" ~> \A t \in Tasks : todo[t] = <<>> /\ t \notin attached

(* Closing a started flow ends everything it started, the nodes that its stop    *)
(* would leave running too.                                                   *)
ClosedFlowEnds ==
  closer[F] = "closed" ~> \A t \in Tasks : todo[t] = <<>> /\ t \notin attached

(* group.go:80, "All nodes are done / Stop group": a started group that has no *)
(* node left ends.                                                            *)
EmptyGroupEnds ==
  \A g \in Groups :
    status[g] \in {"starting", "running"} /\ members[g] = <<>> ~> status[g] = "done"
=============================================================================
