------------------------------ MODULE FlowProofs ------------------------------
(***************************************************************************)
(* Proofs about Flow.tla, for any tree of groups and nodes, any users and    *)
(* any programs of theirs: the life of its tasks, then the end of what a     *)
(* flow holds.                                                               *)
(***************************************************************************)
EXTENDS Flow, SequenceLemmas, FiniteSetTheorems

Reserved == {"awaitCtx", "awaitWork", "setDone", "emitDone", "release"}
Marked == Reserved \cup {"startGroup", "start", "onStart", "setRunning", "spawn"}
QuietCalls == {c \in Calls : c.op \notin Marked}

(* A stack has an operation on a task above d others.                          *)
Mark(s, d, name, t) ==
  /\ Len(s) - d \in 1 .. Len(s)
  /\ s[Len(s) - d].op = name /\ s[Len(s) - d].t = t

(* A start that is under way: what is left of it follows in this order, the    *)
(* task is starting until it is set running, the goroutine of its end is not   *)
(* born yet and will be once.                                                 *)
StartOrder ==
  \A th \in Threads, d \in Nat, t \in Tasks :
    /\ Mark(todo[th], d, "onStart", t) => d > 0 /\ Mark(todo[th], d - 1, "setRunning", t)
    /\ Mark(todo[th], d, "setRunning", t) => d > 0 /\ Mark(todo[th], d - 1, "spawn", t)

Underway ==
  \A t \in Tasks :
    status[t] = "starting" <=> \E th \in Threads, d \in Nat : Mark(todo[th], d, "setRunning", t)

SpawnsOnce ==
  \A th \in Threads, d \in Nat, t \in Tasks : Mark(todo[th], d, "spawn", t) =>
    /\ todo[t] = <<>> /\ status[t] \in {"starting", "running", "stopping"}
    /\ \A r \in Threads, e \in Nat : Mark(todo[r], e, "spawn", t) => r = th /\ e = d

(* A group or a node is started inside the start of what it belongs to.        *)
StartedInside ==
  \A th \in Threads, d \in Nat, t \in Groups \cup Nodes :
    Mark(todo[th], d, "start", t) \/ Mark(todo[th], d, "startGroup", t) =>
      \E e \in Nat : e < d /\ Mark(todo[th], e, "setRunning", Parent(t))

Starts == StartOrder /\ Underway /\ SpawnsOnce /\ StartedInside

(* A task's goroutine has the rest of its end at the bottom of its stack, and   *)
(* nobody else does.                                                          *)
Place == [awaitCtx |-> 5, awaitWork |-> 4, setDone |-> 2, emitDone |-> 1, release |-> 0]

Ends ==
  /\ \A th \in Threads, d \in Nat, t \in Tasks, name \in Reserved :
       Mark(todo[th], d, name, t) => th = t /\ d = Place[name]
  /\ \A t \in Tasks :
       /\ todo[t] # <<>> => Mark(todo[t], 0, "release", t)
       /\ Mark(todo[t], 2, "setDone", t) => Mark(todo[t], 1, "emitDone", t)
       /\ Mark(todo[t], 4, "awaitWork", t) => Mark(todo[t], 2, "setDone", t)
       /\ Mark(todo[t], 5, "awaitCtx", t) => Mark(todo[t], 4, "awaitWork", t)

(* How far the goroutine of a task is goes with its status and its work.       *)
Idle(t) == t \notin working /\ Subs(t) \cap attached = {}

Phases ==
  \A t \in Tasks :
    /\ todo[t] # <<>> \/ status[t] \in {"starting", "running", "stopping"} => t \in attached
    /\ t \in attached \/ t \in working => status[t] # "created"
    /\ Mark(todo[t], 5, "awaitCtx", t) => status[t] \in {"running", "stopping"}
    /\ Mark(todo[t], 2, "setDone", t) =>
         IF Mark(todo[t], 5, "awaitCtx", t) THEN status[t] \in {"running", "stopping"}
         ELSE status[t] = "stopping"
    /\ Mark(todo[t], 2, "setDone", t) /\ ~Mark(todo[t], 4, "awaitWork", t) => Idle(t)
    /\ todo[t] # <<>> /\ ~Mark(todo[t], 2, "setDone", t) => status[t] = "done"
    /\ status[t] = "done" => Idle(t)

LifeInv == TypeOK /\ Starts /\ Ends /\ Phases

-----------------------------------------------------------------------------
(* The tree *)

LEMMA Tree ==
  /\ F \in Tasks /\ Groups \subseteq Tasks /\ Nodes \subseteq Tasks /\ Tasks \subseteq Threads
  /\ \A t \in Tasks : Parent(t) \in {F} \cup Groups /\ Parent(t) \in Tasks
  /\ \A t \in Groups \cup Nodes : t \in Subs(Parent(t)) /\ t # F
  /\ \A t \in Tasks : Subs(t) \subseteq Groups \cup Nodes
  /\ \A u \in Users : u \notin Tasks
BY FlowAssumption DEF Tasks, Threads, Parent, Subs

LEMMA SortedProperties ==
  ASSUME NEW S
  PROVE  /\ Sorted(S) \in Seq((Groups \cup Nodes) \cap S)
         /\ ToSet(Sorted(S)) = (Groups \cup Nodes) \cap S
<1> DEFINE V == Groups \cup Nodes
<1>1. Order \in Seq(V) /\ ToSet(Order) = V
  BY FlowAssumption
<1> HIDE DEF V
<1>2. Selected(Order, S) \in Seq(V \cap S) /\ ToSet(Selected(Order, S)) = ToSet(Order) \cap S
  BY <1>1, SelectedProperties
<1> QED BY <1>1, <1>2 DEF Sorted, V

-----------------------------------------------------------------------------
(* The calls that operations make *)

LEMMA EachQuiet ==
  ASSUME NEW s \in Seq(Tasks), NEW name \in {"stop", "close"}
  PROVE  Each(name, s) \in Seq(QuietCalls)
<1>1. \A t \in Tasks : Op(name, t) \in QuietCalls
  BY DEF Op, QuietCalls, Calls, Marked, Reserved
<1>2. DOMAIN s = 1 .. Len(s) /\ Len(s) \in Nat /\ \A i \in 1 .. Len(s) : s[i] \in Tasks
  OBVIOUS
<1> QED BY <1>1, <1>2 DEF Each

LEMMA DisconnectQuiet ==
  ASSUME NEW n \in Nodes, NEW m \in Nodes
  PROVE  Disconnect(n, m) \in Seq(QuietCalls)
<1>1. Op2("removeChild", n, m) \in QuietCalls /\ Op2("removeParent", m, n) \in QuietCalls
  BY DEF Op2, QuietCalls, Calls, UserCalls, Marked, Reserved
<1> QED BY <1>1 DEF Disconnect

LEMMA FlattenQuiet ==
  ASSUME NEW seqs \in Seq(Seq(QuietCalls))
  PROVE  FlattenSeq(seqs) \in Seq(QuietCalls)
<1> DEFINE C == Seq(QuietCalls)
<1>1. C \in SUBSET Seq(QuietCalls) /\ <<>> \in C /\ \A a, b \in C : a \o b \in C
  OBVIOUS
<1>2. seqs \in Seq(C)
  OBVIOUS
<1> HIDE DEF C
<1>3. FlattenSeq(seqs) \in C
  BY <1>1, <1>2, FlattenProperties
<1> QED BY <1>3 DEF C

LEMMA HeadTail ==
  ASSUME TypeOK, NEW th \in Threads, todo[th] # <<>>
  PROVE  /\ todo[th] \in Seq(Calls) /\ Len(todo[th]) \in Nat \ {0}
         /\ Head(todo[th]) = todo[th][1] /\ Head(todo[th]) \in Calls
         /\ Tail(todo[th]) \in Seq(Calls)
         /\ Arg(th) \in Tasks /\ Arg2(th) \in Tasks
<1>1. todo[th] \in Seq(Calls)
  BY DEF TypeOK
<1>2. Head(todo[th]) \in Calls
  BY <1>1
<1>3. \A c \in Calls : c.t \in Tasks /\ c.u \in Tasks
  BY Tree DEF Calls, UserCalls, Tasks
<1> QED BY <1>1, <1>2, <1>3 DEF Arg, Arg2

(* What an operation is about.                                                *)
LEMMA Arguments ==
  ASSUME TypeOK, NEW th \in Threads, NEW name, At(th, name)
  PROVE  /\ name \in {"new", "newTask", "store", "remove"} => Arg(th) \in Groups \cup Nodes
         /\ name \in {"startGroup", "disconnectNodes"} => Arg(th) \in Groups
         /\ name \in {"addChild", "addParent", "removeChild", "removeParent", "unwatchChild",
                      "unwatchParent"} => Arg(th) \in Nodes /\ Arg2(th) \in Nodes
         /\ name \in {"disconnectParents", "disconnectChildren", "parents", "children"} =>
              Arg(th) \in Nodes
<1>1. Head(todo[th]) \in Calls /\ Head(todo[th]).op = name
  BY HeadTail DEF At
<1> QED BY <1>1 DEF Calls, UserCalls, Arg, Arg2

(* An operation calls nothing that belongs to a start or to the end of a task.  *)
Quiet(th) == todo[th] # <<>> /\ \E ops \in Seq(QuietCalls) : Call(th, ops)

LEMMA QuietReturn ==
  ASSUME NEW th, NEW name, At(th, name), Return(th)
  PROVE  Quiet(th)
<1>1. <<>> \in Seq(QuietCalls)
  OBVIOUS
<1> QED BY <1>1 DEF Quiet, Return, At

LEMMA QuietOp ==
  ASSUME NEW t \in Tasks
  PROVE  /\ \A name \in {"stop", "close", "cancel", "closed", "onStop"} : Op(name, t) \in QuietCalls
         /\ t \in Groups \cup Nodes =>
              \A name \in {"new", "newTask", "store", "remove"} : Op(name, t) \in QuietCalls
         /\ t \in Nodes =>
              \A name \in {"disconnectParents", "disconnectChildren", "parents", "children"} :
                Op(name, t) \in QuietCalls
         /\ \A u \in Nodes : t \in Nodes =>
              \A name \in {"unwatchChild", "unwatchParent"} : Op2(name, t, u) \in QuietCalls
BY DEF Op, Op2, QuietCalls, Calls, UserCalls, Marked, Reserved

LEMMA NewQuiet ==
  ASSUME TypeOK, NEW th \in Threads, New(th)
  PROVE  Quiet(th)
<1>1. At(th, "new") /\ Arg(th) \in Groups \cup Nodes /\ Arg(th) \in Tasks
  BY Arguments, Tree DEF New
<1>2. <<Op("newTask", Arg(th)), Op("store", Arg(th))>> \in Seq(QuietCalls)
  BY <1>1, QuietOp
<1>3. CASE Call(th, <<Op("newTask", Arg(th)), Op("store", Arg(th))>>)
  BY <1>1, <1>2, <1>3 DEF Quiet, At
<1>4. CASE Return(th)
  BY <1>1, <1>4, QuietReturn
<1> QED BY <1>3, <1>4 DEF New

LEMMA OnStopQuiet ==
  ASSUME TypeOK, NEW th \in Threads, OnStop(th)
  PROVE  Quiet(th)
<1> DEFINE t == Arg(th)
<1>1. todo[th] # <<>> /\ t \in Tasks
  BY HeadTail DEF OnStop, At
<1>2. CASE t = F
  <2>1. members[F] \in Seq(Tasks)
    BY Tree DEF TypeOK
  <2>2. Each("stop", members[F]) \in Seq(QuietCalls)
    BY <2>1, EachQuiet
  <2> QED BY <1>1, <1>2, <2>2, FlowAssumption DEF OnStop, Quiet
<1>3. CASE t \in Groups
  <2>1. members[t] \in Seq(Tasks)
    BY <1>3, Tree DEF TypeOK
  <2>2. Selected(members[t], WhenGroupStops) \in Seq(Tasks \cap WhenGroupStops)
    BY <2>1, SelectedProperties
  <2>3. Each("stop", Selected(members[t], WhenGroupStops)) \in Seq(QuietCalls)
    BY <2>2, EachQuiet
  <2> QED BY <1>1, <1>3, <2>3, FlowAssumption DEF OnStop, Quiet
<1>4. CASE t \in Nodes
  <2>1. <<>> \in Seq(QuietCalls)
    OBVIOUS
  <2> QED BY <1>1, <1>4, <2>1, FlowAssumption DEF OnStop, Quiet
<1> QED BY <1>1, <1>2, <1>3, <1>4 DEF Tasks

LEMMA CloseQuiet ==
  ASSUME TypeOK, NEW th \in Threads, Close(th)
  PROVE  Quiet(th)
<1> DEFINE t == Arg(th)
           opened == Selected(Reverse(Order), {c \in Subs(t) : closer[c] # "none"})
<1>1. todo[th] # <<>> /\ t \in Tasks /\ At(th, "close")
  BY HeadTail DEF Close, At
<1>2. CASE Return(th)
  BY <1>1, <1>2, QuietReturn
<1>3. CASE Call(th, Each("close", opened) \o <<Op("cancel", t), Op("closed", t)>>)
  <2>1. Reverse(Order) \in Seq(Tasks)
    BY FlowAssumption, Tree DEF Reverse
  <2>2. opened \in Seq(Tasks)
    <3> DEFINE s == Reverse(Order)
               S == {c \in Subs(t) : closer[c] # "none"}
    <3> HIDE DEF s, S
    <3>1. s \in Seq(Tasks) => Selected(s, S) \in Seq(Tasks \cap S)
      BY SelectedProperties
    <3>2. Seq(Tasks \cap S) \subseteq Seq(Tasks)
      OBVIOUS
    <3> QED BY <2>1, <3>1, <3>2 DEF s, S
  <2>3. Each("close", opened) \in Seq(QuietCalls)
    BY <2>2, EachQuiet
  <2>4. <<Op("cancel", t), Op("closed", t)>> \in Seq(QuietCalls)
    BY <1>1, QuietOp
  <2>5. Each("close", opened) \o <<Op("cancel", t), Op("closed", t)>> \in Seq(QuietCalls)
    <3> HIDE DEF opened
    <3> QED BY <2>3, <2>4
  <2> QED BY <1>1, <1>3, <2>5 DEF Quiet
<1> QED BY <1>2, <1>3 DEF Close

LEMMA DisconnectParentsQuiet ==
  ASSUME TypeOK, NEW th \in Threads, DisconnectParents(th)
  PROVE  Quiet(th)
<1> DEFINE n == Arg(th)
           ps == Sorted(parents[n])
           calls == [i \in DOMAIN ps |-> Disconnect(ps[i], n)]
<1>1. todo[th] # <<>> /\ n \in Nodes /\ Call(th, FlattenSeq(calls))
  BY Arguments DEF DisconnectParents, At
<1>2. ps \in Seq(Nodes)
  <2>1. (Groups \cup Nodes) \cap parents[n] \subseteq Nodes
    BY <1>1 DEF TypeOK
  <2>2. ps \in Seq((Groups \cup Nodes) \cap parents[n])
    BY SortedProperties
  <2> HIDE DEF ps
  <2> QED BY <2>1, <2>2
<1>3. calls \in Seq(Seq(QuietCalls))
  <2>1. \A i \in DOMAIN ps : calls[i] \in Seq(QuietCalls)
    BY <1>1, <1>2, DisconnectQuiet
  <2> QED BY <1>2, <2>1
<1>4. FlattenSeq(calls) \in Seq(QuietCalls)
  BY <1>3, FlattenQuiet
<1> QED BY <1>1, <1>4 DEF Quiet

LEMMA DisconnectChildrenQuiet ==
  ASSUME TypeOK, NEW th \in Threads, DisconnectChildren(th)
  PROVE  Quiet(th)
<1> DEFINE n == Arg(th)
           cs == Sorted(children[n])
           calls == [i \in DOMAIN cs |-> Disconnect(n, cs[i])]
<1>1. todo[th] # <<>> /\ n \in Nodes /\ Call(th, FlattenSeq(calls))
  BY Arguments DEF DisconnectChildren, At
<1>2. cs \in Seq(Nodes)
  <2>1. (Groups \cup Nodes) \cap children[n] \subseteq Nodes
    BY <1>1 DEF TypeOK
  <2>2. cs \in Seq((Groups \cup Nodes) \cap children[n])
    BY SortedProperties
  <2> HIDE DEF cs
  <2> QED BY <2>1, <2>2
<1>3. calls \in Seq(Seq(QuietCalls))
  <2>1. \A i \in DOMAIN cs : calls[i] \in Seq(QuietCalls)
    BY <1>1, <1>2, DisconnectQuiet
  <2> QED BY <1>2, <2>1
<1>4. FlattenSeq(calls) \in Seq(QuietCalls)
  BY <1>3, FlattenQuiet
<1> QED BY <1>1, <1>4 DEF Quiet

LEMMA DisconnectNodesQuiet ==
  ASSUME TypeOK, NEW th \in Threads, DisconnectNodes(th)
  PROVE  Quiet(th)
<1> DEFINE s == members[Arg(th)]
           Both(n) == <<Op("disconnectParents", n), Op("disconnectChildren", n)>>
           calls == [i \in DOMAIN s |-> Both(s[i])]
<1>1. todo[th] # <<>> /\ Arg(th) \in Groups /\ Call(th, FlattenSeq(calls))
  BY Arguments DEF DisconnectNodes, At
<1>2. s \in Seq(Nodes)
  <2>1. Subs(Arg(th)) \subseteq Nodes
    BY <1>1, FlowAssumption DEF Subs, Parent
  <2> QED BY <1>1, <2>1 DEF TypeOK
<1>3. calls \in Seq(Seq(QuietCalls))
  <2>1. \A i \in DOMAIN s : s[i] \in Nodes /\ s[i] \in Tasks
    BY <1>2, Tree
  <2>2. \A i \in DOMAIN s : Both(s[i]) \in Seq(QuietCalls)
    BY <2>1, QuietOp
  <2> HIDE DEF Both, s
  <2> QED BY <1>2, <2>2
<1>4. FlattenSeq(calls) \in Seq(QuietCalls)
  BY <1>3, FlattenQuiet
<1> QED BY <1>1, <1>4 DEF Quiet

LEMMA RemoveMemberQuiet ==
  ASSUME TypeOK, NEW th \in Threads, RemoveMember(th)
  PROVE  Quiet(th)
<1>1. At(th, "remove") /\ todo[th] # <<>> /\ Parent(Arg(th)) \in Tasks
  BY Arguments, Tree DEF RemoveMember, At
<1>2. <<Op("stop", Parent(Arg(th)))>> \in Seq(QuietCalls)
  BY <1>1, QuietOp
<1>3. CASE Call(th, <<Op("stop", Parent(Arg(th)))>>)
  BY <1>1, <1>2, <1>3 DEF Quiet
<1>4. CASE Return(th)
  BY <1>1, <1>4, QuietReturn
<1> QED BY <1>3, <1>4 DEF RemoveMember

LEMMA WatchedQuiet ==
  ASSUME TypeOK, NEW th \in Threads, WatchedParents(th) \/ WatchedChildren(th)
  PROVE  Quiet(th)
<1>1. todo[th] # <<>> /\ Arg(th) \in Tasks
  BY HeadTail DEF WatchedParents, WatchedChildren, At
<1>2. <<Op("stop", Arg(th))>> \in Seq(QuietCalls)
  BY <1>1, QuietOp
<1>3. CASE Call(th, <<Op("stop", Arg(th))>>)
  BY <1>1, <1>2, <1>3 DEF Quiet
<1>4. CASE Return(th)
  BY <1>1, <1>4, QuietReturn DEF WatchedParents, WatchedChildren
<1> QED BY <1>3, <1>4 DEF WatchedParents, WatchedChildren, Watched

LEMMA UnlinkQuiet ==
  ASSUME TypeOK, NEW th \in Threads, RemoveChild(th) \/ RemoveParent(th)
  PROVE  Quiet(th)
<1>1. /\ todo[th] # <<>> /\ Arg(th) \in Nodes /\ Arg2(th) \in Nodes /\ Arg(th) \in Tasks
  BY Arguments, HeadTail DEF RemoveChild, RemoveParent, At
<1>2. /\ <<>> \in Seq(QuietCalls)
      /\ <<Op2("unwatchChild", Arg(th), Arg2(th))>> \in Seq(QuietCalls)
      /\ <<Op2("unwatchParent", Arg(th), Arg2(th))>> \in Seq(QuietCalls)
  BY <1>1, QuietOp
<1>3. CASE RemoveChild(th)
  BY <1>1, <1>2, <1>3 DEF Quiet, RemoveChild
<1>4. CASE RemoveParent(th)
  BY <1>1, <1>2, <1>4 DEF Quiet, RemoveParent
<1> QED BY <1>3, <1>4

LEMMA StopQuiet ==
  ASSUME TypeOK, NEW th \in Threads, Stop(th) \/ AwaitCtx(th)
  PROVE  Quiet(th)
<1>1. todo[th] # <<>> /\ Arg(th) \in Tasks
  BY HeadTail DEF Stop, AwaitCtx, At
<1>2. <<Op("cancel", Arg(th)), Op("onStop", Arg(th))>> \in Seq(QuietCalls)
  BY <1>1, QuietOp
<1>3. CASE Stopping(th, Arg(th))
  BY <1>1, <1>2, <1>3 DEF Quiet, Stopping
<1>4. CASE Return(th)
  BY <1>1, <1>4, QuietReturn DEF Stop, AwaitCtx
<1> QED BY <1>3, <1>4 DEF Stop, AwaitCtx

LEMMA EmitDoneQuiet ==
  ASSUME TypeOK, NEW th \in Threads, EmitDone(th)
  PROVE  Quiet(th)
<1> DEFINE t == Arg(th)
           own == <<Op("disconnectParents", t), Op("disconnectChildren", t), Op("remove", t)>>
           ws == watchers[t]
           watches == [i \in DOMAIN ws |-> Op(ws[i].kind, ws[i].by)]
<1>1. todo[th] # <<>> /\ t \in Tasks
  BY HeadTail DEF EmitDone, At
<1>2. CASE t = F
  <2>1. <<>> \in Seq(QuietCalls)
    OBVIOUS
  <2> QED BY <1>1, <1>2, <2>1, FlowAssumption DEF EmitDone, Quiet
<1>3. CASE t \in Groups
  <2>1. <<Op("remove", t)>> \in Seq(QuietCalls)
    BY <1>1, <1>3, QuietOp
  <2> QED BY <1>1, <1>3, <2>1, FlowAssumption DEF EmitDone, Quiet
<1>4. CASE t \in Nodes
  <2>1. own \in Seq(QuietCalls)
    BY <1>1, <1>4, QuietOp
  <2>2. ws \in Seq(Watches)
    BY <1>4 DEF TypeOK
  <2>3. \A i \in DOMAIN ws : Op(ws[i].kind, ws[i].by) \in QuietCalls
    <3> HIDE DEF ws
    <3>1. \A i \in DOMAIN ws : ws[i] \in Watches
      BY <2>2
    <3>2. \A w \in Watches : w.by \in Nodes /\ w.kind \in {"children", "parents"}
      BY DEF Watches
    <3>3. \A w \in Watches : Op(w.kind, w.by) \in QuietCalls
      BY <3>2, QuietOp, Tree
    <3> QED BY <3>1, <3>3
  <2>4. watches \in Seq(QuietCalls)
    <3> HIDE DEF ws
    <3> QED BY <2>2, <2>3
  <2>5. own \o watches \in Seq(QuietCalls)
    <3> HIDE DEF own, watches
    <3> QED BY <2>1, <2>4
  <2> QED BY <1>1, <1>4, <2>5, FlowAssumption DEF EmitDone, Quiet
<1> QED BY <1>1, <1>2, <1>3, <1>4 DEF Tasks

(* Only these calls belong to a start.                                        *)
Starting(th) == StartGroup(th) \/ Start(th) \/ OnStart(th) \/ Spawn(th)

LEMMA Quietness ==
  ASSUME TypeOK, NEW th \in Threads, ThreadStep(th)
  PROVE  Quiet(th) \/ Starting(th)
<1>1. CASE New(th)
  BY <1>1, NewQuiet
<1>2. CASE OnStop(th) \/ Stop(th) \/ AwaitCtx(th)
  BY <1>2, OnStopQuiet, StopQuiet
<1>3. CASE Close(th) \/ EmitDone(th)
  BY <1>3, CloseQuiet, EmitDoneQuiet
<1>4. CASE DisconnectParents(th) \/ DisconnectChildren(th) \/ DisconnectNodes(th)
  BY <1>4, DisconnectParentsQuiet, DisconnectChildrenQuiet, DisconnectNodesQuiet
<1>5. CASE RemoveMember(th) \/ WatchedParents(th) \/ WatchedChildren(th)
  BY <1>5, RemoveMemberQuiet, WatchedQuiet
<1>6. CASE RemoveChild(th) \/ RemoveParent(th)
  BY <1>6, UnlinkQuiet
<1>7. CASE NewTask(th) \/ Store(th) \/ SetRunning(th) \/ Cancel(th) \/ AwaitWork(th) \/ Closed(th)
  BY <1>7, QuietReturn DEF NewTask, Store, SetRunning, Cancel, AwaitWork, Closed
<1>8. CASE SetDone(th) \/ Release(th) \/ AddChild(th) \/ AddParent(th) \/ UnwatchChild(th) \/ UnwatchParent(th)
  BY <1>8, QuietReturn DEF SetDone, Release, AddChild, AddParent, UnwatchChild, UnwatchParent, Unwatch
<1> QED BY <1>1, <1>2, <1>3, <1>4, <1>5, <1>6, <1>7, <1>8 DEF ThreadStep, Starting

-----------------------------------------------------------------------------
(* Types *)

LEMMA CallType ==
  ASSUME TypeOK, NEW th \in Threads, todo[th] # <<>>, NEW ops \in Seq(Calls), Call(th, ops)
  PROVE  todo' \in [Threads -> Seq(Calls)]
<1>1. ops \o Tail(todo[th]) \in Seq(Calls)
  BY HeadTail
<1> QED BY <1>1 DEF Call, TypeOK

LEMMA StartOp ==
  ASSUME NEW t \in Tasks
  PROVE  /\ \A name \in {"start", "onStart", "setRunning", "spawn", "awaitCtx", "awaitWork", "close",
                      "setDone", "emitDone", "release"} : Op(name, t) \in Calls
         /\ t \in Groups => Op("startGroup", t) \in Calls
BY DEF Op, Calls, UserCalls

LEMMA StartingType ==
  ASSUME TypeOK, NEW th \in Threads, Starting(th)
  PROVE  todo' \in [Threads -> Seq(Calls)]
<1> DEFINE t == Arg(th)
<1>1. todo[th] # <<>> /\ t \in Tasks
  BY HeadTail DEF Starting, StartGroup, Start, OnStart, Spawn, At
<1>2. <<>> \in Seq(Calls)
  OBVIOUS
<1>3. CASE StartGroup(th)
  <2>1. <<Op("start", t)>> \in Seq(Calls)
    BY <1>1, StartOp
  <2> QED BY <1>1, <1>2, <1>3, <2>1, CallType DEF StartGroup, Return
<1>4. CASE Start(th)
  <2>1. <<Op("onStart", t), Op("setRunning", t), Op("spawn", t)>> \in Seq(Calls)
    BY <1>1, StartOp
  <2> QED BY <1>1, <1>2, <1>4, <2>1, CallType DEF Start, Return
<1>5. CASE OnStart(th)
  <2>1. CASE t \in Nodes
    BY <1>1, <1>2, <1>5, <2>1, CallType, FlowAssumption DEF OnStart
  <2>2. CASE t = F
    <3>1. members[F] \in Seq(Groups)
      <4>1. Subs(F) \subseteq Groups
        BY FlowAssumption DEF Subs, Parent
      <4> QED BY <4>1 DEF TypeOK
    <3>2. Each("startGroup", members[F]) \in Seq(Calls)
      <4>1. \A g \in Groups : Op("startGroup", g) \in Calls
        BY StartOp, Tree
      <4> QED BY <3>1, <4>1 DEF Each
    <3> QED BY <1>1, <1>5, <2>2, <3>2, CallType, FlowAssumption DEF OnStart
  <2>3. CASE t \in Groups
    <3>1. members[t] \in Seq(Tasks)
      BY <2>3, Tree DEF TypeOK
    <3>2. Each("start", members[t]) \in Seq(Calls)
      <4>1. \A c \in Tasks : Op("start", c) \in Calls
        BY StartOp
      <4> QED BY <3>1, <4>1 DEF Each
    <3> QED BY <1>1, <1>5, <2>3, <3>2, CallType, FlowAssumption DEF OnStart
  <2> QED BY <1>1, <2>1, <2>2, <2>3 DEF Tasks
<1>6. CASE Spawn(th)
  <2> DEFINE ends == <<Op("awaitCtx", t), Op("awaitWork", t), Op("close", t),
                       Op("setDone", t), Op("emitDone", t), Op("release", t)>>
  <2>1. ends \in Seq(Calls)
    BY <1>1, StartOp
  <2>2. Tail(todo[th]) \in Seq(Calls) /\ todo \in [Threads -> Seq(Calls)]
    BY <1>1, HeadTail DEF TypeOK
  <2>3. todo' = [todo EXCEPT ![th] = Tail(@), ![t] = ends]
    BY <1>6 DEF Spawn
  <2> HIDE DEF ends
  <2> QED BY <2>1, <2>2, <2>3
<1> QED BY <1>3, <1>4, <1>5, <1>6 DEF Starting

LEMMA TodoType ==
  ASSUME TypeOK, NEW th \in Threads, ThreadStep(th)
  PROVE  todo' \in [Threads -> Seq(Calls)]
<1>1. CASE Quiet(th)
  <2>1. PICK ops \in Seq(QuietCalls) : Call(th, ops)
    BY <1>1 DEF Quiet
  <2>2. ops \in Seq(Calls)
    BY DEF QuietCalls
  <2> QED BY <1>1, <2>1, <2>2, CallType DEF Quiet
<1>2. CASE Starting(th)
  BY <1>2, StartingType
<1> QED BY <1>1, <1>2, Quietness

LEMMA MembersType ==
  ASSUME TypeOK, NEW th \in Threads, Store(th) \/ RemoveMember(th)
  PROVE  /\ members' \in [{F} \cup Groups -> Seq(Groups \cup Nodes)]
         /\ \A t \in {F} \cup Groups : members'[t] \in Seq(Subs(t))
<1> DEFINE t == Arg(th)
           p == Parent(t)
<1>1. t \in Groups \cup Nodes /\ p \in {F} \cup Groups /\ t \in Subs(p) /\ Subs(p) \subseteq Groups \cup Nodes
  BY Arguments, Tree DEF Store, RemoveMember
<1>2. members[p] \in Seq(Subs(p)) /\ members[p] \in Seq(Groups \cup Nodes)
  BY <1>1 DEF TypeOK
<1>3. CASE Store(th)
  <2>1. Append(members[p], t) \in Seq(Subs(p)) /\ Append(members[p], t) \in Seq(Groups \cup Nodes)
    BY <1>1, <1>2
  <2>2. members' = [members EXCEPT ![p] = Append(@, t)]
    BY <1>3 DEF Store
  <2> HIDE DEF p, t
  <2> QED BY <1>1, <2>1, <2>2 DEF TypeOK
<1>4. CASE RemoveMember(th)
  <2> DEFINE left == Selected(members[p], Subs(p) \ {t})
  <2>1. left \in Seq(Subs(p))
    <3>1. left \in Seq(Subs(p) \cap (Subs(p) \ {t}))
      BY <1>2, SelectedProperties
    <3> HIDE DEF left
    <3> QED BY <3>1
  <2>2. left \in Seq(Groups \cup Nodes)
    <3> HIDE DEF left
    <3> QED BY <1>1, <2>1
  <2>3. members' = [members EXCEPT ![p] = left]
    BY <1>4 DEF RemoveMember
  <2> HIDE DEF p, t, left
  <2> QED BY <1>1, <2>1, <2>2, <2>3 DEF TypeOK
<1> QED BY <1>3, <1>4

LEMMA LinksType ==
  ASSUME TypeOK, NEW th \in Threads,
         \/ AddChild(th) \/ AddParent(th) \/ RemoveChild(th) \/ RemoveParent(th)
         \/ UnwatchChild(th) \/ UnwatchParent(th)
  PROVE  /\ children' \in [Nodes -> SUBSET Nodes] /\ parents' \in [Nodes -> SUBSET Nodes]
         /\ watchers' \in [Nodes -> Seq(Watches)]
<1> DEFINE n == Arg(th)
           i == Arg2(th)
<1>1. n \in Nodes /\ i \in Nodes
  BY Arguments DEF AddChild, AddParent, RemoveChild, RemoveParent, UnwatchChild, UnwatchParent, Unwatch
<1>2. Watch(n, "children") \in Watches /\ Watch(n, "parents") \in Watches
  BY <1>1 DEF Watch, Watches
<1>3. watchers[i] \in Seq(Watches)
  BY <1>1 DEF TypeOK
<1>4. /\ Append(watchers[i], Watch(n, "children")) \in Seq(Watches)
      /\ Append(watchers[i], Watch(n, "parents")) \in Seq(Watches)
  BY <1>2, <1>3
<1>5. CASE AddChild(th)
  <2>1. /\ children' = children \/ children' = [children EXCEPT ![n] = @ \cup {i}]
        /\ watchers' = watchers \/ watchers' = [watchers EXCEPT ![i] = Append(@, Watch(n, "children"))]
        /\ parents' = parents
    BY <1>5 DEF AddChild
  <2> HIDE DEF n, i
  <2>2. [watchers EXCEPT ![i] = Append(@, Watch(n, "children"))] \in [Nodes -> Seq(Watches)]
    BY <1>1, <1>4 DEF TypeOK
  <2>3. [children EXCEPT ![n] = @ \cup {i}] \in [Nodes -> SUBSET Nodes]
    BY <1>1 DEF TypeOK
  <2> QED BY <2>1, <2>2, <2>3 DEF TypeOK
<1>6. CASE AddParent(th)
  <2>1. /\ parents' = parents \/ parents' = [parents EXCEPT ![n] = @ \cup {i}]
        /\ watchers' = watchers \/ watchers' = [watchers EXCEPT ![i] = Append(@, Watch(n, "parents"))]
        /\ children' = children
    BY <1>6 DEF AddParent
  <2> HIDE DEF n, i
  <2>2. [watchers EXCEPT ![i] = Append(@, Watch(n, "parents"))] \in [Nodes -> Seq(Watches)]
    BY <1>1, <1>4 DEF TypeOK
  <2>3. [parents EXCEPT ![n] = @ \cup {i}] \in [Nodes -> SUBSET Nodes]
    BY <1>1 DEF TypeOK
  <2> QED BY <2>1, <2>2, <2>3 DEF TypeOK
<1>7. CASE RemoveChild(th)
  BY <1>1, <1>7 DEF RemoveChild, TypeOK
<1>8. CASE RemoveParent(th)
  BY <1>1, <1>8 DEF RemoveParent, TypeOK
<1>9. CASE UnwatchChild(th) \/ UnwatchParent(th)
  <2>1. \A S : Selected(watchers[i], S) \in Seq(Watches)
    <3> TAKE S
    <3>1. Selected(watchers[i], S) \in Seq(Watches \cap S)
      BY <1>3, SelectedProperties
    <3> QED BY <3>1
  <2>2. \E S : watchers' = [watchers EXCEPT ![i] = Selected(@, S)]
    BY <1>9 DEF UnwatchChild, UnwatchParent, Unwatch
  <2>3. watchers' \in [Nodes -> Seq(Watches)]
    <3> HIDE DEF i
    <3> QED BY <1>1, <2>1, <2>2 DEF TypeOK
  <2>4. UNCHANGED <<children, parents>>
    BY <1>9 DEF UnwatchChild, UnwatchParent, Unwatch
  <2> QED BY <2>3, <2>4 DEF TypeOK
<1> QED BY <1>5, <1>6, <1>7, <1>8, <1>9

LEMMA RuntimeType ==
  ASSUME TypeOK, NEW th \in Threads, ThreadStep(th)
  PROVE  /\ status' \in [Tasks -> {"created", "starting", "running", "stopping", "done"}]
         /\ ctx' \in [Tasks -> {"none", "live", "cancelled"}]
         /\ closer' \in [Tasks -> {"none", "open", "closing", "closed"}]
         /\ attached' \subseteq Tasks
         /\ working' \subseteq Nodes
<1>1. Arg(th) \in Tasks
  BY HeadTail DEF ThreadStep
<1>2. ctx[Arg(th)] \in {"none", "live", "cancelled"}
  BY <1>1 DEF TypeOK
<1>3. CASE New(th) \/ Store(th) \/ StartGroup(th) \/ Spawn(th) \/ OnStop(th) \/ AwaitWork(th) \/ EmitDone(th)
  BY <1>3 DEF TypeOK, New, Store, StartGroup, Spawn, OnStop, AwaitWork, EmitDone, runtime
<1>4. CASE Start(th) \/ SetRunning(th) \/ SetDone(th) \/ Release(th)
  BY <1>1, <1>4 DEF TypeOK, Start, SetRunning, SetDone, Release
<1>5. CASE OnStart(th)
  BY <1>1, <1>5 DEF TypeOK, OnStart
<1>6. CASE Stop(th) \/ AwaitCtx(th)
  BY <1>1, <1>6 DEF TypeOK, Stop, AwaitCtx, Stopping
<1>7. CASE Cancel(th)
  BY <1>1, <1>2, <1>7 DEF TypeOK, Cancel, CancelledNow
<1>8. CASE NewTask(th) \/ Close(th) \/ Closed(th)
  BY <1>1, <1>8 DEF TypeOK, NewTask, Close, Closed, runtime
<1>9. CASE DisconnectParents(th) \/ DisconnectChildren(th) \/ DisconnectNodes(th) \/ RemoveMember(th)
  BY <1>9 DEF TypeOK, DisconnectParents, DisconnectChildren, DisconnectNodes, RemoveMember, runtime
<1>10. CASE WatchedParents(th) \/ WatchedChildren(th)
  BY <1>10 DEF TypeOK, WatchedParents, WatchedChildren, Watched, runtime
<1>11. CASE \/ AddChild(th) \/ AddParent(th) \/ RemoveChild(th) \/ RemoveParent(th)
            \/ UnwatchChild(th) \/ UnwatchParent(th)
  BY <1>11 DEF TypeOK, AddChild, AddParent, RemoveChild, RemoveParent, UnwatchChild, UnwatchParent, Unwatch, runtime
<1> QED BY <1>3, <1>4, <1>5, <1>6, <1>7, <1>8, <1>9, <1>10, <1>11 DEF ThreadStep

(* Most operations leave the lists of members and the connections alone.       *)
LEMMA Untouched ==
  ASSUME NEW th, ThreadStep(th)
  PROVE  /\ UNCHANGED members \/ Store(th) \/ RemoveMember(th)
         /\ \/ UNCHANGED links
            \/ AddChild(th) \/ AddParent(th) \/ RemoveChild(th) \/ RemoveParent(th)
            \/ UnwatchChild(th) \/ UnwatchParent(th)
<1>1. CASE New(th) \/ NewTask(th) \/ Store(th) \/ StartGroup(th) \/ Start(th) \/ OnStart(th) \/ SetRunning(th) \/ Spawn(th)
  BY <1>1 DEF New, NewTask, Store, StartGroup, Start, OnStart, SetRunning, Spawn
<1>2. CASE Stop(th) \/ Cancel(th) \/ OnStop(th) \/ AwaitCtx(th) \/ AwaitWork(th) \/ Close(th) \/ Closed(th)
  BY <1>2 DEF Stop, Cancel, OnStop, AwaitCtx, AwaitWork, Close, Closed
<1>3. CASE SetDone(th) \/ EmitDone(th) \/ Release(th) \/ DisconnectParents(th) \/ DisconnectChildren(th)
           \/ DisconnectNodes(th) \/ RemoveMember(th)
  BY <1>3 DEF SetDone, EmitDone, Release, DisconnectParents, DisconnectChildren, DisconnectNodes, RemoveMember
<1>4. CASE WatchedParents(th) \/ WatchedChildren(th)
  BY <1>4 DEF WatchedParents, WatchedChildren, Watched
<1>5. CASE \/ AddChild(th) \/ AddParent(th) \/ RemoveChild(th) \/ RemoveParent(th)
           \/ UnwatchChild(th) \/ UnwatchParent(th)
  BY <1>5 DEF AddChild, AddParent, RemoveChild, RemoveParent, UnwatchChild, UnwatchParent, Unwatch
<1> QED BY <1>1, <1>2, <1>3, <1>4, <1>5 DEF ThreadStep

LEMMA TypeStep == TypeOK /\ [Next]_vars => TypeOK'
<1> SUFFICES ASSUME TypeOK, [Next]_vars PROVE TypeOK'
  OBVIOUS
<1>1. ASSUME NEW th \in Threads, ThreadStep(th) PROVE TypeOK'
  <2>1. /\ members' \in [{F} \cup Groups -> Seq(Groups \cup Nodes)]
        /\ \A t \in {F} \cup Groups : members'[t] \in Seq(Subs(t))
    BY <1>1, Untouched, MembersType DEF TypeOK
  <2>2. /\ children' \in [Nodes -> SUBSET Nodes] /\ parents' \in [Nodes -> SUBSET Nodes]
        /\ watchers' \in [Nodes -> Seq(Watches)]
    BY <1>1, Untouched, LinksType DEF TypeOK, links
  <2>3. todo' \in [Threads -> Seq(Calls)]
    BY <1>1, TodoType
  <2> QED BY <1>1, <2>1, <2>2, <2>3, RuntimeType DEF TypeOK
<1>2. ASSUME NEW n \in Nodes, NoderCancel(n) \/ NoderExit(n) PROVE TypeOK'
  BY <1>2, Tree DEF TypeOK, NoderCancel, NoderExit, links
<1>3. CASE UNCHANGED vars
  BY <1>3 DEF TypeOK, vars
<1> QED BY <1>1, <1>2, <1>3 DEF Next

LEMMA InitialWatchersType ==
  ASSUME NEW n \in Nodes
  PROVE  InitialWatchers(n) \in Seq(Watches)
<1> DEFINE by == Sorted(Nodes)
           asChild == Selected(by, {m \in WhenAllChildrenAreDone : <<m, n>> \in Edges})
           asParent == Selected(by, {m \in WhenAllParentsAreDone : <<n, m>> \in Edges})
<1>1. by \in Seq(Nodes)
  <2>1. (Groups \cup Nodes) \cap Nodes = Nodes
    OBVIOUS
  <2> QED BY <2>1, SortedProperties
<1>2. \A S : Selected(by, S) \in Seq(Nodes)
  <2> TAKE S
  <2> HIDE DEF by
  <2>1. Selected(by, S) \in Seq(Nodes \cap S)
    BY <1>1, SelectedProperties
  <2> QED BY <2>1
<1>3. \A m \in Nodes, kind \in {"children", "parents"} : Watch(m, kind) \in Watches
  BY DEF Watch, Watches
<1>4. \A s \in Seq(Nodes), kind \in {"children", "parents"} :
        [i \in DOMAIN s |-> Watch(s[i], kind)] \in Seq(Watches)
  BY <1>3
<1>5. asChild \in Seq(Nodes) /\ asParent \in Seq(Nodes)
  BY <1>2
<1> DEFINE ws == [i \in DOMAIN asChild |-> Watch(asChild[i], "children")]
           vs == [i \in DOMAIN asParent |-> Watch(asParent[i], "parents")]
<1>6. ws \in Seq(Watches) /\ vs \in Seq(Watches)
  <2> HIDE DEF asChild, asParent
  <2> QED BY <1>4, <1>5
<1>7. InitialWatchers(n) = ws \o vs
  BY DEF InitialWatchers
<1> HIDE DEF ws, vs
<1> QED BY <1>6, <1>7

LEMMA TypeInit == Init => TypeOK
<1> SUFFICES ASSUME Init PROVE TypeOK
  OBVIOUS
<1>1. \A t \in {F} \cup Groups : members[t] \in Seq(Subs(t)) /\ members[t] \in Seq(Groups \cup Nodes)
  <2> TAKE t \in {F} \cup Groups
  <2>1. members[t] = Sorted(Subs(t) \cap Initial)
    BY DEF Init
  <2>2. members[t] \in Seq((Groups \cup Nodes) \cap (Subs(t) \cap Initial))
    BY <2>1, SortedProperties
  <2> QED BY <2>2
<1>2. members \in [{F} \cup Groups -> Seq(Groups \cup Nodes)]
  BY <1>1 DEF Init
<1>3. watchers \in [Nodes -> Seq(Watches)]
  BY InitialWatchersType DEF Init
<1>4. todo \in [Threads -> Seq(Calls)]
  <2>1. \A u \in Users : Programs[u] \subseteq Seq(Calls)
    BY FlowAssumption DEF Calls
  <2>2. PICK p \in [Users -> UNION {Programs[u] : u \in Users}] :
          /\ \A u \in Users : p[u] \in Programs[u]
          /\ todo = [th \in Threads |-> IF th \in Users THEN p[th] ELSE <<>>]
    BY DEF Init
  <2>3. \A th \in Threads : (IF th \in Users THEN p[th] ELSE <<>>) \in Seq(Calls)
    BY <2>1, <2>2
  <2> QED BY <2>2, <2>3
<1> QED BY <1>1, <1>2, <1>3, <1>4 DEF Init, TypeOK

(* The variables keep their types, for any tree of groups and nodes, any edges  *)
(* and options, and whatever the users call: no operation is called on what it  *)
(* is not made for, and a task is a member of nothing but its parent.           *)
THEOREM TypeCorrect == Spec => []TypeOK
<1> QED BY TypeInit, TypeStep, PTL DEF Spec

-----------------------------------------------------------------------------
(* What a step leaves on the stacks *)

Top(th) == Len(todo[th]) - 1

LEMMA Marks ==
  ASSUME NEW V, NEW s \in Seq(V), s # <<>>, NEW ops \in Seq(V), NEW d \in Nat, NEW name, NEW t
  PROVE  Mark(ops \o Tail(s), d, name, t) <=>
           \/ d < Len(s) - 1 /\ Mark(s, d, name, t)
           \/ \E j \in 1 .. Len(ops) :
                d = Len(s) - 1 + Len(ops) - j /\ ops[j].op = name /\ ops[j].t = t
<1> DEFINE n == ops \o Tail(s)
<1>1. /\ Len(s) \in Nat \ {0} /\ Len(ops) \in Nat
      /\ Tail(s) \in Seq(V) /\ Len(Tail(s)) = Len(s) - 1
      /\ \A i \in 1 .. Len(s) - 1 : Tail(s)[i] = s[i + 1]
  OBVIOUS
<1>2. /\ Len(n) = Len(ops) + Len(s) - 1
      /\ \A i \in 1 .. Len(ops) : n[i] = ops[i]
      /\ \A i \in 1 .. Len(ops) + Len(s) - 1 : i > Len(ops) => n[i] = Tail(s)[i - Len(ops)]
  BY <1>1
<1> HIDE DEF n
<1>3. CASE d < Len(s) - 1
  <2>1. /\ Len(n) - d \in 1 .. Len(n) /\ Len(n) - d > Len(ops)
        /\ Len(n) - d - Len(ops) \in 1 .. Len(s) - 1
        /\ Len(n) - d - Len(ops) + 1 = Len(s) - d /\ Len(s) - d \in 1 .. Len(s)
    BY <1>1, <1>2, <1>3
  <2>2. n[Len(n) - d] = s[Len(s) - d]
    BY <1>1, <1>2, <2>1
  <2>3. \A j \in 1 .. Len(ops) : d # Len(s) - 1 + Len(ops) - j
    BY <1>1, <1>3
  <2> QED BY <1>3, <2>1, <2>2, <2>3 DEF Mark, n
<1>4. CASE ~(d < Len(s) - 1)
  <2> DEFINE j == Len(n) - d
  <2>1. j \in 1 .. Len(n) <=> j \in 1 .. Len(ops)
    BY <1>1, <1>2, <1>4
  <2>2. \A k \in 1 .. Len(ops) : d = Len(s) - 1 + Len(ops) - k <=> k = j
    BY <1>1, <1>2
  <2>3. j \in 1 .. Len(ops) => n[j] = ops[j]
    BY <1>2
  <2> HIDE DEF j
  <2>4. Mark(n, d, name, t) <=> j \in 1 .. Len(ops) /\ ops[j].op = name /\ ops[j].t = t
    BY <2>1, <2>3 DEF Mark, j
  <2> QED BY <1>4, <2>2, <2>4 DEF n
<1> QED BY <1>3, <1>4

LEMMA TopMark ==
  ASSUME TypeOK, NEW th \in Threads, NEW name, At(th, name)
  PROVE  /\ Top(th) \in Nat /\ Mark(todo[th], Top(th), name, Arg(th))
         /\ \A d \in Nat : \A nm, t : Mark(todo[th], d, nm, t) =>
              d <= Top(th) /\ (d = Top(th) => nm = name /\ t = Arg(th))
<1>1. /\ Len(todo[th]) \in Nat \ {0} /\ Head(todo[th]) = todo[th][1] /\ Head(todo[th]).op = name
      /\ todo[th] # <<>>
  BY HeadTail DEF At
<1>2. Len(todo[th]) - Top(th) = 1
  BY <1>1 DEF Top
<1> QED BY <1>1, <1>2 DEF Top, Mark, Arg

(* An operation that calls nothing of the kind takes one mark away at most.    *)
LEMMA QuietMarks ==
  ASSUME TypeOK, NEW th \in Threads, Quiet(th)
  PROVE  /\ \A r \in Threads, d \in Nat, name \in Marked, t \in Tasks :
              Mark(todo'[r], d, name, t) <=> Mark(todo[r], d, name, t) /\ ~(r = th /\ d = Top(th))
         /\ \A r \in Threads : r # th => todo'[r] = todo[r]
<1>1. PICK ops \in Seq(QuietCalls) : Call(th, ops)
  BY DEF Quiet
<1>2. /\ todo[th] \in Seq(Calls) /\ todo[th] # <<>> /\ ops \in Seq(Calls)
      /\ Len(todo[th]) \in Nat \ {0} /\ todo \in [Threads -> Seq(Calls)]
  BY HeadTail DEF Quiet, QuietCalls, TypeOK
<1>3. todo'[th] = ops \o Tail(todo[th]) /\ \A r \in Threads : r # th => todo'[r] = todo[r]
  BY <1>1, <1>2 DEF Call
<1>4. \A j \in 1 .. Len(ops) : ops[j].op \notin Marked
  BY DEF QuietCalls
<1>5. ASSUME NEW d \in Nat, NEW name \in Marked, NEW t \in Tasks
      PROVE  Mark(todo'[th], d, name, t) <=> Mark(todo[th], d, name, t) /\ d # Top(th)
  <2>1. Mark(todo'[th], d, name, t) <=> d < Len(todo[th]) - 1 /\ Mark(todo[th], d, name, t)
    BY <1>2, <1>3, <1>4, Marks
  <2>2. Mark(todo[th], d, name, t) => d <= Len(todo[th]) - 1
    BY <1>2 DEF Mark
  <2> QED BY <1>2, <2>1, <2>2 DEF Top
<1> QED BY <1>3, <1>5

Keeps ==
  /\ \A r \in Threads, d \in Nat, name \in Marked, t \in Tasks :
       Mark(todo'[r], d, name, t) <=> Mark(todo[r], d, name, t)
  /\ \A t \in Tasks : todo'[t] = <<>> <=> todo[t] = <<>>

LEMMA NotEmpty ==
  ASSUME NEW s, NEW d \in Nat, NEW name, NEW t, Mark(s, d, name, t)
  PROVE  s # <<>>
BY DEF Mark

LEMMA QuietKeeps ==
  ASSUME TypeOK, Ends, NEW th \in Threads, Quiet(th), NEW name, name \notin Marked, At(th, name)
  PROVE  Keeps
<1>1. ASSUME NEW r \in Threads, NEW d \in Nat, NEW nm \in Marked, NEW t \in Tasks
      PROVE  Mark(todo'[r], d, nm, t) <=> Mark(todo[r], d, nm, t)
  <2>1. Mark(todo'[r], d, nm, t) <=> Mark(todo[r], d, nm, t) /\ ~(r = th /\ d = Top(th))
    BY <1>1, QuietMarks
  <2>2. \A k : \A x, y : Mark(todo[th], k, x, y) /\ k \in Nat /\ k = Top(th) => x = name
    BY TopMark
  <2> QED BY <1>1, <2>1, <2>2
<1>2. ASSUME NEW t \in Tasks PROVE todo'[t] = <<>> <=> todo[t] = <<>>
  <2>1. CASE t # th
    BY <2>1, QuietMarks, Tree
  <2>2. CASE t = th
    <3>1. todo[t] # <<>>
      BY <2>2 DEF Quiet
    <3>2. Mark(todo[t], 0, "release", t)
      BY <3>1 DEF Ends
    <3>3. Mark(todo'[t], 0, "release", t)
      BY <1>1, <3>2, Tree DEF Marked, Reserved
    <3> QED BY <3>1, <3>3, NotEmpty
  <2> QED BY <2>1, <2>2
<1> QED BY <1>1, <1>2 DEF Keeps

StartMarks == {"startGroup", "start", "onStart", "setRunning", "spawn"}

LEMMA KeepStarts ==
  ASSUME Starts,
         \A r \in Threads, d \in Nat, name \in StartMarks, t \in Tasks :
           Mark(todo'[r], d, name, t) <=> Mark(todo[r], d, name, t),
         \A t \in Tasks : todo[t] = <<>> => todo'[t] = <<>>,
         \A t \in Tasks : status'[t] = "starting" <=> status[t] = "starting",
         \A t \in Tasks : todo[t] = <<>> /\ status[t] \in {"starting", "running", "stopping"} =>
           status'[t] \in {"starting", "running", "stopping"}
  PROVE  Starts'
<1>1. /\ \A r \in Threads, d \in Nat, t \in Tasks :
           Mark(todo'[r], d, "onStart", t) <=> Mark(todo[r], d, "onStart", t)
      /\ \A r \in Threads, d \in Nat, t \in Tasks :
           Mark(todo'[r], d, "setRunning", t) <=> Mark(todo[r], d, "setRunning", t)
      /\ \A r \in Threads, d \in Nat, t \in Tasks :
           Mark(todo'[r], d, "spawn", t) <=> Mark(todo[r], d, "spawn", t)
      /\ \A r \in Threads, d \in Nat, t \in Tasks :
           Mark(todo'[r], d, "start", t) <=> Mark(todo[r], d, "start", t)
      /\ \A r \in Threads, d \in Nat, t \in Tasks :
           Mark(todo'[r], d, "startGroup", t) <=> Mark(todo[r], d, "startGroup", t)
  BY DEF StartMarks
<1>2. StartOrder'
  <2>1. \A d \in Nat : d > 0 => d - 1 \in Nat
    OBVIOUS
  <2> QED BY <1>1, <2>1 DEF Starts, StartOrder
<1>3. Underway'
  BY <1>1 DEF Starts, Underway
<1>4. SpawnsOnce'
  BY <1>1 DEF Starts, SpawnsOnce
<1>5. StartedInside'
  BY <1>1, Tree DEF Starts, StartedInside
<1> QED BY <1>2, <1>3, <1>4, <1>5 DEF Starts

LEMMA KeepEnds ==
  ASSUME Ends,
         \A r \in Threads, d \in Nat, name \in Reserved, t \in Tasks :
           Mark(todo'[r], d, name, t) <=> Mark(todo[r], d, name, t),
         \A t \in Tasks : todo[t] = <<>> => todo'[t] = <<>>
  PROVE  Ends'
<1>1. /\ \A r \in Threads, d \in Nat, t \in Tasks :
           Mark(todo'[r], d, "awaitCtx", t) <=> Mark(todo[r], d, "awaitCtx", t)
      /\ \A r \in Threads, d \in Nat, t \in Tasks :
           Mark(todo'[r], d, "awaitWork", t) <=> Mark(todo[r], d, "awaitWork", t)
      /\ \A r \in Threads, d \in Nat, t \in Tasks :
           Mark(todo'[r], d, "setDone", t) <=> Mark(todo[r], d, "setDone", t)
      /\ \A r \in Threads, d \in Nat, t \in Tasks :
           Mark(todo'[r], d, "emitDone", t) <=> Mark(todo[r], d, "emitDone", t)
      /\ \A r \in Threads, d \in Nat, t \in Tasks :
           Mark(todo'[r], d, "release", t) <=> Mark(todo[r], d, "release", t)
  BY DEF Reserved
<1> QED BY <1>1, Tree DEF Ends

LEMMA KeepPhases ==
  ASSUME Phases, Keeps, UNCHANGED <<status, attached>>, working' \subseteq working
  PROVE  Phases'
<1>1. \A t \in Tasks : Idle(t) => Idle(t)'
  BY DEF Idle
<1>2. /\ \A t \in Tasks : Mark(todo'[t], 5, "awaitCtx", t) <=> Mark(todo[t], 5, "awaitCtx", t)
      /\ \A t \in Tasks : Mark(todo'[t], 4, "awaitWork", t) <=> Mark(todo[t], 4, "awaitWork", t)
      /\ \A t \in Tasks : Mark(todo'[t], 2, "setDone", t) <=> Mark(todo[t], 2, "setDone", t)
  BY Tree DEF Keeps, Marked, Reserved
<1> HIDE DEF Idle
<1> QED BY <1>1, <1>2 DEF Phases, Keeps

LEMMA KeepAll ==
  ASSUME LifeInv, Keeps, UNCHANGED <<status, attached>>, working' \subseteq working
  PROVE  Starts' /\ Ends' /\ Phases'
BY KeepStarts, KeepEnds, KeepPhases DEF LifeInv, Keeps, Marked, StartMarks

-----------------------------------------------------------------------------
(* The steps of a start *)

LEMMA StopStep ==
  ASSUME LifeInv, NEW th \in Threads, Stop(th)
  PROVE  Starts' /\ Ends' /\ Phases'
<1> DEFINE t0 == Arg(th)
<1>1. At(th, "stop") /\ "stop" \notin Marked /\ TypeOK /\ Ends /\ t0 \in Tasks
  BY HeadTail DEF Stop, LifeInv, Marked, Reserved, At
<1>2. Keeps
  BY <1>1, StopQuiet, QuietKeeps
<1>3. CASE UNCHANGED status
  BY <1>2, <1>3, KeepAll DEF Stop
<1>4. CASE status[t0] = "running" /\ status' = [status EXCEPT ![t0] = "stopping"]
  <2>1. /\ status'[t0] = "stopping"
        /\ \A t \in Tasks : t # t0 => status'[t] = status[t]
    BY <1>1, <1>4 DEF TypeOK
  <2>2. Starts'
    BY <1>2, <1>4, <2>1, KeepStarts DEF Keeps, LifeInv, Marked, StartMarks
  <2>3. Ends'
    BY <1>2, KeepEnds DEF LifeInv, Keeps, Marked
  <2>4. Phases'
    <3>1. \A t \in Tasks : Idle(t)' <=> Idle(t)
      BY DEF Idle, Stop
    <3>2. /\ \A t \in Tasks : Mark(todo'[t], 5, "awaitCtx", t) <=> Mark(todo[t], 5, "awaitCtx", t)
          /\ \A t \in Tasks : Mark(todo'[t], 4, "awaitWork", t) <=> Mark(todo[t], 4, "awaitWork", t)
          /\ \A t \in Tasks : Mark(todo'[t], 2, "setDone", t) <=> Mark(todo[t], 2, "setDone", t)
      BY <1>2, Tree DEF Keeps, Marked, Reserved
    <3>3. UNCHANGED <<attached, working>>
      BY DEF Stop
    <3> QED BY <1>2, <1>4, <2>1, <3>1, <3>2, <3>3 DEF LifeInv, Phases, Keeps
  <2> QED BY <2>2, <2>3, <2>4
<1> QED BY <1>3, <1>4 DEF Stop, Stopping

LEMMA SetRunningStep ==
  ASSUME LifeInv, NEW th \in Threads, SetRunning(th)
  PROVE  Starts' /\ Ends' /\ Phases'
<1> DEFINE t0 == Arg(th)
           D == Top(th)
<1>1. At(th, "setRunning") /\ TypeOK /\ t0 \in Tasks /\ todo[th] # <<>>
  BY HeadTail DEF SetRunning, LifeInv, At
<1>2. /\ D \in Nat /\ Mark(todo[th], D, "setRunning", t0)
      /\ \A d \in Nat : \A nm, t : Mark(todo[th], d, nm, t) =>
           d <= D /\ (d = D => nm = "setRunning" /\ t = t0)
  BY <1>1, TopMark
<1>3. Quiet(th)
  BY <1>1, QuietReturn DEF SetRunning
<1>4. /\ \A r \in Threads, d \in Nat, name \in Marked, t \in Tasks :
           Mark(todo'[r], d, name, t) <=> Mark(todo[r], d, name, t) /\ ~(r = th /\ d = D)
      /\ \A r \in Threads : r # th => todo'[r] = todo[r]
  BY <1>1, <1>3, QuietMarks
<1>5. /\ status'[t0] = "running"
      /\ \A t \in Tasks : t # t0 => status'[t] = status[t]
      /\ UNCHANGED <<attached, working>>
  BY <1>1 DEF TypeOK, SetRunning
<1>6. D > 0 /\ D - 1 \in Nat /\ Mark(todo[th], D - 1, "spawn", t0)
  BY <1>1, <1>2 DEF LifeInv, Starts, StartOrder
<1>7. todo[t0] = <<>> /\ t0 # th /\ status[t0] = "starting"
  BY <1>1, <1>2, <1>6 DEF LifeInv, Starts, SpawnsOnce, Underway
<1>8. \A r \in Threads, d \in Nat : Mark(todo[r], d, "setRunning", t0) => r = th /\ d = D
  <2> SUFFICES ASSUME NEW r \in Threads, NEW d \in Nat, Mark(todo[r], d, "setRunning", t0)
               PROVE  r = th /\ d = D
    OBVIOUS
  <2>0. d > 0 /\ Mark(todo[r], d - 1, "spawn", t0)
    BY <1>1 DEF LifeInv, Starts, StartOrder
  <2>1. d - 1 \in Nat /\ Mark(todo[r], d - 1, "spawn", t0)
    BY <2>0
  <2>2. r = th /\ d - 1 = D - 1
    BY <1>1, <1>6, <2>1 DEF LifeInv, Starts, SpawnsOnce
  <2> QED BY <1>2, <2>2
<1> HIDE DEF t0, D
<1>9. Starts'
  <2>1. StartOrder'
    <3> SUFFICES ASSUME NEW r \in Threads, NEW d \in Nat, NEW t \in Tasks
                 PROVE  /\ Mark(todo'[r], d, "onStart", t) => d > 0 /\ Mark(todo'[r], d - 1, "setRunning", t)
                        /\ Mark(todo'[r], d, "setRunning", t) => d > 0 /\ Mark(todo'[r], d - 1, "spawn", t)
      BY DEF StartOrder
    <3>1. d > 0 => d - 1 \in Nat /\ d - 1 < d
      OBVIOUS
    <3>2. "onStart" \in Marked /\ "setRunning" \in Marked /\ "spawn" \in Marked
      BY DEF Marked
    <3>3. r = th => d <= D \/ (~Mark(todo[r], d, "onStart", t) /\ ~Mark(todo[r], d, "setRunning", t))
      BY <1>2
    <3>4. d > 0 => (r = th /\ d <= D => d - 1 # D)
      BY <1>2
    <3>5. /\ Mark(todo[r], d, "onStart", t) => d > 0 /\ Mark(todo[r], d - 1, "setRunning", t)
          /\ Mark(todo[r], d, "setRunning", t) => d > 0 /\ Mark(todo[r], d - 1, "spawn", t)
      BY DEF LifeInv, Starts, StartOrder
    <3> QED BY <1>4, <3>1, <3>2, <3>3, <3>4, <3>5
  <2>2. Underway'
    <3>1. \A r \in Threads, d \in Nat : ~Mark(todo'[r], d, "setRunning", t0)
      BY <1>1, <1>4, <1>8 DEF Marked
    <3>2. \A r \in Threads, d \in Nat, t \in Tasks : t # t0 =>
            (Mark(todo'[r], d, "setRunning", t) <=> Mark(todo[r], d, "setRunning", t))
      BY <1>2, <1>4 DEF Marked
    <3> QED BY <1>5, <3>1, <3>2 DEF LifeInv, Starts, Underway
  <2>3. SpawnsOnce'
    <3>1. \A r \in Threads, d \in Nat, t \in Tasks :
            Mark(todo'[r], d, "spawn", t) => Mark(todo[r], d, "spawn", t)
      BY <1>4 DEF Marked
    <3>2. \A t \in Tasks : todo[t] = <<>> => t # th /\ todo'[t] = <<>>
      BY <1>1, <1>4, Tree
    <3> QED BY <1>5, <3>1, <3>2 DEF LifeInv, Starts, SpawnsOnce
  <2>4. StartedInside'
    <3> SUFFICES ASSUME NEW r \in Threads, NEW d \in Nat, NEW t \in Groups \cup Nodes,
                        Mark(todo'[r], d, "start", t) \/ Mark(todo'[r], d, "startGroup", t)
                 PROVE  \E e \in Nat : e < d /\ Mark(todo'[r], e, "setRunning", Parent(t))
      BY DEF StartedInside
    <3>1. Mark(todo[r], d, "start", t) \/ Mark(todo[r], d, "startGroup", t)
      BY <1>4, Tree DEF Marked
    <3>2. PICK e \in Nat : e < d /\ Mark(todo[r], e, "setRunning", Parent(t))
      BY <3>1 DEF LifeInv, Starts, StartedInside
    <3>3. ~(r = th /\ e = D)
      BY <1>2, <3>1, <3>2
    <3> QED BY <1>4, <3>2, <3>3, Tree DEF Marked
  <2> QED BY <2>1, <2>2, <2>3, <2>4 DEF Starts
<1>10. \A r \in Threads, d \in Nat, name \in Reserved, t \in Tasks :
         Mark(todo'[r], d, name, t) <=> Mark(todo[r], d, name, t)
  BY <1>2, <1>4 DEF Marked, Reserved
<1>11. \A t \in Tasks : todo'[t] = <<>> <=> todo[t] = <<>>
  <2> TAKE t \in Tasks
  <2>1. CASE t # th
    BY <1>4, <2>1, Tree
  <2>2. CASE t = th
    <3>1. Mark(todo'[t], 0, "release", t)
      BY <1>1, <1>10, <2>2, Tree DEF LifeInv, Ends, Reserved
    <3> QED BY <1>1, <2>2, <3>1, NotEmpty
  <2> QED BY <2>1, <2>2
<1>12. Ends'
  BY <1>10, <1>11, KeepEnds DEF LifeInv
<1>13. Phases'
  <2>1. \A t \in Tasks : Idle(t)' <=> Idle(t)
    BY <1>5 DEF Idle
  <2>2. /\ \A t \in Tasks : Mark(todo'[t], 5, "awaitCtx", t) <=> Mark(todo[t], 5, "awaitCtx", t)
        /\ \A t \in Tasks : Mark(todo'[t], 4, "awaitWork", t) <=> Mark(todo[t], 4, "awaitWork", t)
        /\ \A t \in Tasks : Mark(todo'[t], 2, "setDone", t) <=> Mark(todo[t], 2, "setDone", t)
    BY <1>10, Tree DEF Reserved
  <2>3. ~Mark(todo[t0], 2, "setDone", t0) /\ ~Mark(todo[t0], 5, "awaitCtx", t0)
    BY <1>7, NotEmpty
  <2> QED BY <1>1, <1>5, <1>7, <1>11, <2>1, <2>2, <2>3 DEF LifeInv, Phases
<1> QED BY <1>9, <1>12, <1>13

-----------------------------------------------------------------------------
(* The steps of an end *)

(* The goroutine of a task goes one place further.                            *)
Advances(th, name) ==
  /\ th = Arg(th) /\ th \in Tasks /\ Top(th) = Place[name] /\ todo[th] # <<>>
  /\ \A d \in Nat : \A nm, t : Mark(todo[th], d, nm, t) => d <= Top(th)
  /\ \A r \in Threads, d \in Nat, nm \in StartMarks, t \in Tasks :
       Mark(todo'[r], d, nm, t) <=> Mark(todo[r], d, nm, t)
  /\ \A r \in Threads, d \in Nat, nm \in Reserved, t \in Tasks :
       Mark(todo'[r], d, nm, t) <=> Mark(todo[r], d, nm, t) /\ ~(r = th /\ nm = name)
  /\ \A t \in Tasks : t # th => todo'[t] = todo[t]
  /\ \A t \in Tasks : todo[t] = <<>> => todo'[t] = <<>>

LEMMA EndMarks ==
  ASSUME LifeInv, NEW th \in Threads, NEW name \in Reserved, At(th, name), Quiet(th)
  PROVE  Advances(th, name)
<1>1. TypeOK /\ todo[th] # <<>> /\ Arg(th) \in Tasks
  BY HeadTail DEF LifeInv, At
<1>2. /\ Top(th) \in Nat /\ Mark(todo[th], Top(th), name, Arg(th))
      /\ \A d \in Nat : \A nm, t : Mark(todo[th], d, nm, t) =>
           d <= Top(th) /\ (d = Top(th) => nm = name /\ t = Arg(th))
  BY <1>1, TopMark
<1>3. /\ \A r \in Threads, d \in Nat, nm \in Marked, t \in Tasks :
           Mark(todo'[r], d, nm, t) <=> Mark(todo[r], d, nm, t) /\ ~(r = th /\ d = Top(th))
      /\ \A r \in Threads : r # th => todo'[r] = todo[r]
  BY <1>1, QuietMarks
<1>4. \A r \in Threads, d \in Nat, t \in Tasks, nm \in Reserved :
        Mark(todo[r], d, nm, t) => r = t /\ d = Place[nm]
  BY DEF LifeInv, Ends
<1>5. th = Arg(th) /\ Top(th) = Place[name]
  BY <1>1, <1>2, <1>4
<1>6. Reserved \subseteq Marked /\ StartMarks \subseteq Marked /\ name \notin StartMarks
  BY DEF Reserved, Marked, StartMarks
<1>7. \A r \in Threads, d \in Nat, nm \in StartMarks, t \in Tasks :
        Mark(todo'[r], d, nm, t) <=> Mark(todo[r], d, nm, t)
  BY <1>2, <1>3, <1>6
<1>8. \A r \in Threads, d \in Nat, nm \in Reserved, t \in Tasks :
        Mark(todo'[r], d, nm, t) <=> Mark(todo[r], d, nm, t) /\ ~(r = th /\ nm = name)
  <2> TAKE r \in Threads, d \in Nat, nm \in Reserved, t \in Tasks
  <2>1. Mark(todo[r], d, nm, t) /\ r = th => (d = Top(th) <=> nm = name)
    BY <1>2, <1>4, <1>5
  <2> QED BY <1>3, <1>6, <2>1
<1>9. \A t \in Tasks : t # th => todo'[t] = todo[t]
  BY <1>3, Tree
<1>10. \A t \in Tasks : todo[t] = <<>> => todo'[t] = <<>>
  BY <1>1, <1>5, <1>9
<1> QED BY <1>1, <1>2, <1>5, <1>7, <1>8, <1>9, <1>10 DEF Advances

LEMMA AwaitCtxStep ==
  ASSUME LifeInv, NEW th \in Threads, AwaitCtx(th)
  PROVE  Starts' /\ Ends' /\ Phases'
<1>1. At(th, "awaitCtx") /\ Quiet(th) /\ "awaitCtx" \in Reserved /\ TypeOK
  BY StopQuiet DEF AwaitCtx, LifeInv, Reserved
<1>2. /\ th = Arg(th) /\ th \in Tasks /\ Top(th) = 5 /\ todo[th] # <<>>
      /\ \A r \in Threads, d \in Nat, nm \in StartMarks, t \in Tasks :
           Mark(todo'[r], d, nm, t) <=> Mark(todo[r], d, nm, t)
      /\ \A r \in Threads, d \in Nat, nm \in Reserved, t \in Tasks :
           Mark(todo'[r], d, nm, t) <=> Mark(todo[r], d, nm, t) /\ ~(r = th /\ nm = "awaitCtx")
      /\ \A t \in Tasks : t # th => todo'[t] = todo[t]
      /\ \A t \in Tasks : todo[t] = <<>> => todo'[t] = <<>>
  <2>1. Advances(th, "awaitCtx")
    BY <1>1, EndMarks
  <2>2. Place["awaitCtx"] = 5
    BY DEF Place
  <2> QED BY <2>1, <2>2 DEF Advances
<1>3. Mark(todo[th], 5, "awaitCtx", th)
  BY <1>1, <1>2, TopMark
<1>4. /\ Mark(todo[th], 4, "awaitWork", th) /\ Mark(todo[th], 2, "setDone", th)
      /\ status[th] \in {"running", "stopping"}
  BY <1>2, <1>3 DEF LifeInv, Ends, Phases
<1>5. status'[th] = "stopping" /\ \A t \in Tasks : t # th => status'[t] = status[t]
  BY <1>2, <1>4 DEF AwaitCtx, Stopping, LifeInv, TypeOK
<1>6. Starts'
  BY <1>2, <1>4, <1>5, KeepStarts DEF LifeInv
<1>7. /\ \A r \in Threads, d \in Nat, nm \in {"awaitWork", "setDone", "emitDone", "release"}, t \in Tasks :
           Mark(todo'[r], d, nm, t) <=> Mark(todo[r], d, nm, t)
      /\ \A t \in Tasks : Mark(todo'[t], 5, "awaitCtx", t) <=> Mark(todo[t], 5, "awaitCtx", t) /\ t # th
  BY <1>2, Tree DEF Reserved
<1>8. Ends'
  <2>1. \A r \in Threads, d \in Nat, t \in Tasks, nm \in Reserved :
          Mark(todo'[r], d, nm, t) => r = t /\ d = Place[nm]
    BY <1>2 DEF LifeInv, Ends
  <2>2. /\ \A t \in Tasks : Mark(todo'[t], 0, "release", t) <=> Mark(todo[t], 0, "release", t)
        /\ \A t \in Tasks : Mark(todo'[t], 1, "emitDone", t) <=> Mark(todo[t], 1, "emitDone", t)
        /\ \A t \in Tasks : Mark(todo'[t], 2, "setDone", t) <=> Mark(todo[t], 2, "setDone", t)
        /\ \A t \in Tasks : Mark(todo'[t], 4, "awaitWork", t) <=> Mark(todo[t], 4, "awaitWork", t)
    BY <1>7, Tree
  <2> QED BY <1>2, <1>7, <2>1, <2>2 DEF LifeInv, Ends
<1>9. Phases'
  <2>1. \A t \in Tasks : Idle(t)' <=> Idle(t)
    BY DEF Idle, AwaitCtx
  <2>2. /\ \A t \in Tasks : Mark(todo'[t], 2, "setDone", t) <=> Mark(todo[t], 2, "setDone", t)
        /\ \A t \in Tasks : Mark(todo'[t], 4, "awaitWork", t) <=> Mark(todo[t], 4, "awaitWork", t)
        /\ UNCHANGED <<attached, working>>
    BY <1>7, Tree DEF AwaitCtx
  <2> QED BY <1>2, <1>4, <1>5, <1>7, <2>1, <2>2 DEF LifeInv, Phases
<1> QED BY <1>6, <1>8, <1>9

LEMMA AwaitWorkStep ==
  ASSUME LifeInv, NEW th \in Threads, AwaitWork(th)
  PROVE  Starts' /\ Ends' /\ Phases'
<1>1. At(th, "awaitWork") /\ Quiet(th) /\ "awaitWork" \in Reserved /\ TypeOK
  BY QuietReturn DEF AwaitWork, LifeInv, Reserved
<1>2. /\ th = Arg(th) /\ th \in Tasks /\ Top(th) = 4 /\ todo[th] # <<>>
      /\ \A d \in Nat : \A nm, t : Mark(todo[th], d, nm, t) => d <= Top(th)
      /\ \A r \in Threads, d \in Nat, nm \in StartMarks, t \in Tasks :
           Mark(todo'[r], d, nm, t) <=> Mark(todo[r], d, nm, t)
      /\ \A r \in Threads, d \in Nat, nm \in Reserved, t \in Tasks :
           Mark(todo'[r], d, nm, t) <=> Mark(todo[r], d, nm, t) /\ ~(r = th /\ nm = "awaitWork")
      /\ \A t \in Tasks : t # th => todo'[t] = todo[t]
      /\ \A t \in Tasks : todo[t] = <<>> => todo'[t] = <<>>
  <2>1. Advances(th, "awaitWork")
    BY <1>1, EndMarks
  <2>2. Place["awaitWork"] = 4
    BY DEF Place
  <2> QED BY <2>1, <2>2 DEF Advances
<1>3. ~Mark(todo[th], 5, "awaitCtx", th)
  BY <1>2
<1>4. Idle(th)
  BY <1>2 DEF AwaitWork, Idle
<1>5. Starts'
  BY <1>2, KeepStarts DEF LifeInv, AwaitWork, runtime
<1>6. /\ \A t \in Tasks : Mark(todo'[t], 0, "release", t) <=> Mark(todo[t], 0, "release", t)
      /\ \A t \in Tasks : Mark(todo'[t], 1, "emitDone", t) <=> Mark(todo[t], 1, "emitDone", t)
      /\ \A t \in Tasks : Mark(todo'[t], 2, "setDone", t) <=> Mark(todo[t], 2, "setDone", t)
      /\ \A t \in Tasks : Mark(todo'[t], 4, "awaitWork", t) <=> Mark(todo[t], 4, "awaitWork", t) /\ t # th
      /\ \A t \in Tasks : Mark(todo'[t], 5, "awaitCtx", t) <=> Mark(todo[t], 5, "awaitCtx", t)
  BY <1>2, Tree DEF Reserved
<1>7. Ends'
  <2>1. \A r \in Threads, d \in Nat, t \in Tasks, nm \in Reserved :
          Mark(todo'[r], d, nm, t) => r = t /\ d = Place[nm]
    BY <1>2 DEF LifeInv, Ends
  <2> QED BY <1>2, <1>3, <1>6, <2>1 DEF LifeInv, Ends
<1>8. Phases'
  <2>1. \A t \in Tasks : Idle(t)' <=> Idle(t)
    BY DEF Idle, AwaitWork, runtime
  <2>2. UNCHANGED <<status, attached, working>>
    BY DEF AwaitWork, runtime
  <2> QED BY <1>2, <1>4, <1>6, <2>1, <2>2 DEF LifeInv, Phases
<1> QED BY <1>5, <1>7, <1>8

(* A task becomes done from stopping, with no work left.                       *)
LEMMA DoneFrom ==
  ASSUME LifeInv, NEW th \in Threads, SetDone(th)
  PROVE  th \in Tasks /\ th = Arg(th) /\ status[th] = "stopping" /\ Idle(th) /\ th \in attached
<1>1. At(th, "setDone") /\ Quiet(th) /\ "setDone" \in Reserved /\ TypeOK
  BY QuietReturn DEF SetDone, LifeInv, Reserved
<1>2. /\ th = Arg(th) /\ th \in Tasks /\ Top(th) = 2 /\ todo[th] # <<>>
      /\ \A d \in Nat : \A nm, t : Mark(todo[th], d, nm, t) => d <= Top(th)
  <2>1. Advances(th, "setDone")
    BY <1>1, EndMarks
  <2>2. Place["setDone"] = 2
    BY DEF Place
  <2> QED BY <2>1, <2>2 DEF Advances
<1>3. Mark(todo[th], 2, "setDone", th)
  BY <1>1, <1>2, TopMark
<1>4. ~Mark(todo[th], 5, "awaitCtx", th) /\ ~Mark(todo[th], 4, "awaitWork", th)
  BY <1>2
<1> QED BY <1>2, <1>3, <1>4 DEF LifeInv, Phases

LEMMA SetDoneStep ==
  ASSUME LifeInv, NEW th \in Threads, SetDone(th)
  PROVE  Starts' /\ Ends' /\ Phases'
<1>1. At(th, "setDone") /\ Quiet(th) /\ "setDone" \in Reserved /\ TypeOK
  BY QuietReturn DEF SetDone, LifeInv, Reserved
<1>2. /\ th = Arg(th) /\ th \in Tasks /\ Top(th) = 2 /\ todo[th] # <<>>
      /\ \A d \in Nat : \A nm, t : Mark(todo[th], d, nm, t) => d <= Top(th)
      /\ \A r \in Threads, d \in Nat, nm \in StartMarks, t \in Tasks :
           Mark(todo'[r], d, nm, t) <=> Mark(todo[r], d, nm, t)
      /\ \A r \in Threads, d \in Nat, nm \in Reserved, t \in Tasks :
           Mark(todo'[r], d, nm, t) <=> Mark(todo[r], d, nm, t) /\ ~(r = th /\ nm = "setDone")
      /\ \A t \in Tasks : t # th => todo'[t] = todo[t]
      /\ \A t \in Tasks : todo[t] = <<>> => todo'[t] = <<>>
  <2>1. Advances(th, "setDone")
    BY <1>1, EndMarks
  <2>2. Place["setDone"] = 2
    BY DEF Place
  <2> QED BY <2>1, <2>2 DEF Advances
<1>3. ~Mark(todo[th], 5, "awaitCtx", th) /\ ~Mark(todo[th], 4, "awaitWork", th)
  BY <1>2
<1>4. status[th] = "stopping" /\ Idle(th) /\ th \in attached
  BY DoneFrom
<1>5. status'[th] = "done" /\ \A t \in Tasks : t # th => status'[t] = status[t]
  BY <1>2 DEF SetDone, LifeInv, TypeOK
<1>6. Starts'
  BY <1>2, <1>4, <1>5, KeepStarts DEF LifeInv
<1>7. /\ \A t \in Tasks : Mark(todo'[t], 0, "release", t) <=> Mark(todo[t], 0, "release", t)
      /\ \A t \in Tasks : Mark(todo'[t], 1, "emitDone", t) <=> Mark(todo[t], 1, "emitDone", t)
      /\ \A t \in Tasks : Mark(todo'[t], 2, "setDone", t) <=> Mark(todo[t], 2, "setDone", t) /\ t # th
      /\ \A t \in Tasks : Mark(todo'[t], 4, "awaitWork", t) <=> Mark(todo[t], 4, "awaitWork", t)
      /\ \A t \in Tasks : Mark(todo'[t], 5, "awaitCtx", t) <=> Mark(todo[t], 5, "awaitCtx", t)
  BY <1>2, Tree DEF Reserved
<1>8. Ends'
  <2>1. \A r \in Threads, d \in Nat, t \in Tasks, nm \in Reserved :
          Mark(todo'[r], d, nm, t) => r = t /\ d = Place[nm]
    BY <1>2 DEF LifeInv, Ends
  <2> QED BY <1>2, <1>3, <1>7, <2>1 DEF LifeInv, Ends
<1>9. Phases'
  <2>1. \A t \in Tasks : Idle(t)' <=> Idle(t)
    BY DEF Idle, SetDone
  <2>2. UNCHANGED <<attached, working>>
    BY DEF SetDone
  <2> QED BY <1>2, <1>3, <1>4, <1>5, <1>7, <2>1, <2>2 DEF LifeInv, Phases
<1> QED BY <1>6, <1>8, <1>9

LEMMA EmitDoneStep ==
  ASSUME LifeInv, NEW th \in Threads, EmitDone(th)
  PROVE  Starts' /\ Ends' /\ Phases'
<1>1. At(th, "emitDone") /\ Quiet(th) /\ "emitDone" \in Reserved /\ TypeOK
  BY EmitDoneQuiet DEF EmitDone, LifeInv, Reserved
<1>2. /\ th = Arg(th) /\ th \in Tasks /\ Top(th) = 1 /\ todo[th] # <<>>
      /\ \A d \in Nat : \A nm, t : Mark(todo[th], d, nm, t) => d <= Top(th)
      /\ \A r \in Threads, d \in Nat, nm \in StartMarks, t \in Tasks :
           Mark(todo'[r], d, nm, t) <=> Mark(todo[r], d, nm, t)
      /\ \A r \in Threads, d \in Nat, nm \in Reserved, t \in Tasks :
           Mark(todo'[r], d, nm, t) <=> Mark(todo[r], d, nm, t) /\ ~(r = th /\ nm = "emitDone")
      /\ \A t \in Tasks : t # th => todo'[t] = todo[t]
      /\ \A t \in Tasks : todo[t] = <<>> => todo'[t] = <<>>
  <2>1. Advances(th, "emitDone")
    BY <1>1, EndMarks
  <2>2. Place["emitDone"] = 1
    BY DEF Place
  <2> QED BY <2>1, <2>2 DEF Advances
<1>3. ~Mark(todo[th], 2, "setDone", th)
  BY <1>2
<1>4. UNCHANGED <<status, attached, working>>
  BY DEF EmitDone, runtime
<1>5. Starts'
  BY <1>2, <1>4, KeepStarts DEF LifeInv
<1>6. /\ \A t \in Tasks : Mark(todo'[t], 0, "release", t) <=> Mark(todo[t], 0, "release", t)
      /\ \A t \in Tasks : Mark(todo'[t], 1, "emitDone", t) <=> Mark(todo[t], 1, "emitDone", t) /\ t # th
      /\ \A t \in Tasks : Mark(todo'[t], 2, "setDone", t) <=> Mark(todo[t], 2, "setDone", t)
      /\ \A t \in Tasks : Mark(todo'[t], 4, "awaitWork", t) <=> Mark(todo[t], 4, "awaitWork", t)
      /\ \A t \in Tasks : Mark(todo'[t], 5, "awaitCtx", t) <=> Mark(todo[t], 5, "awaitCtx", t)
  BY <1>2, Tree DEF Reserved
<1>7. Ends'
  <2>1. \A r \in Threads, d \in Nat, t \in Tasks, nm \in Reserved :
          Mark(todo'[r], d, nm, t) => r = t /\ d = Place[nm]
    BY <1>2 DEF LifeInv, Ends
  <2> QED BY <1>2, <1>3, <1>6, <2>1 DEF LifeInv, Ends
<1>8. Phases'
  <2>1. \A t \in Tasks : Idle(t)' <=> Idle(t)
    BY <1>4 DEF Idle
  <2> QED BY <1>2, <1>4, <1>6, <2>1 DEF LifeInv, Phases
<1> QED BY <1>5, <1>7, <1>8

(* A task is released when it is done, and its goroutine ends.                 *)
LEMMA ReleasedWhen ==
  ASSUME LifeInv, NEW th \in Threads, Release(th)
  PROVE  /\ th \in Tasks /\ th = Arg(th) /\ status[th] = "done" /\ th \in attached
         /\ todo'[th] = <<>>
<1>1. At(th, "release") /\ Quiet(th) /\ "release" \in Reserved /\ TypeOK
  BY QuietReturn DEF Release, LifeInv, Reserved
<1>2. /\ th = Arg(th) /\ th \in Tasks /\ Top(th) = 0 /\ todo[th] # <<>>
      /\ \A d \in Nat : \A nm, t : Mark(todo[th], d, nm, t) => d <= Top(th)
  <2>1. Advances(th, "release")
    BY <1>1, EndMarks
  <2>2. Place["release"] = 0
    BY DEF Place
  <2> QED BY <2>1, <2>2 DEF Advances
<1>3. ~Mark(todo[th], 2, "setDone", th)
  BY <1>2
<1>4. todo'[th] = <<>>
  <2>1. todo[th] \in Seq(Calls) /\ todo[th] # <<>> /\ Len(todo[th]) = 1
    BY <1>1, <1>2, HeadTail DEF Top
  <2>2. Tail(todo[th]) \in Seq(Calls) /\ Len(Tail(todo[th])) = 0
    BY <2>1
  <2>4. <<>> \o Tail(todo[th]) = <<>>
    <3>1. \A s \in Seq(Calls) : Len(s) = 0 => <<>> \o s = <<>>
      OBVIOUS
    <3> QED BY <2>2, <3>1
  <2>3. todo' = [todo EXCEPT ![th] = <<>> \o Tail(@)]
    BY DEF Release, Return, Call
  <2> QED BY <1>1, <2>4, <2>3 DEF TypeOK
<1> QED BY <1>2, <1>3, <1>4 DEF LifeInv, Phases

LEMMA ReleaseStep ==
  ASSUME LifeInv, NEW th \in Threads, Release(th)
  PROVE  Starts' /\ Ends' /\ Phases'
<1>1. At(th, "release") /\ Quiet(th) /\ "release" \in Reserved /\ TypeOK
  BY QuietReturn DEF Release, LifeInv, Reserved
<1>2. /\ th = Arg(th) /\ th \in Tasks /\ Top(th) = 0 /\ todo[th] # <<>>
      /\ \A d \in Nat : \A nm, t : Mark(todo[th], d, nm, t) => d <= Top(th)
      /\ \A r \in Threads, d \in Nat, nm \in StartMarks, t \in Tasks :
           Mark(todo'[r], d, nm, t) <=> Mark(todo[r], d, nm, t)
      /\ \A r \in Threads, d \in Nat, nm \in Reserved, t \in Tasks :
           Mark(todo'[r], d, nm, t) <=> Mark(todo[r], d, nm, t) /\ ~(r = th /\ nm = "release")
      /\ \A t \in Tasks : t # th => todo'[t] = todo[t]
      /\ \A t \in Tasks : todo[t] = <<>> => todo'[t] = <<>>
  <2>1. Advances(th, "release")
    BY <1>1, EndMarks
  <2>2. Place["release"] = 0
    BY DEF Place
  <2> QED BY <2>1, <2>2 DEF Advances
<1>3. /\ ~Mark(todo[th], 2, "setDone", th) /\ ~Mark(todo[th], 4, "awaitWork", th)
      /\ ~Mark(todo[th], 5, "awaitCtx", th) /\ ~Mark(todo[th], 1, "emitDone", th)
  BY <1>2
<1>4. todo'[th] = <<>> /\ status[th] = "done"
  BY ReleasedWhen
<1>5. attached' = attached \ {th} /\ UNCHANGED <<status, working>>
  BY <1>2 DEF Release
<1>6. Starts'
  BY <1>2, <1>5, KeepStarts DEF LifeInv
<1>7. /\ \A t \in Tasks : Mark(todo'[t], 0, "release", t) <=> Mark(todo[t], 0, "release", t) /\ t # th
      /\ \A t \in Tasks : Mark(todo'[t], 1, "emitDone", t) <=> Mark(todo[t], 1, "emitDone", t)
      /\ \A t \in Tasks : Mark(todo'[t], 2, "setDone", t) <=> Mark(todo[t], 2, "setDone", t)
      /\ \A t \in Tasks : Mark(todo'[t], 4, "awaitWork", t) <=> Mark(todo[t], 4, "awaitWork", t)
      /\ \A t \in Tasks : Mark(todo'[t], 5, "awaitCtx", t) <=> Mark(todo[t], 5, "awaitCtx", t)
  BY <1>2, Tree DEF Reserved
<1>8. Ends'
  <2>1. \A r \in Threads, d \in Nat, t \in Tasks, nm \in Reserved :
          Mark(todo'[r], d, nm, t) => r = t /\ d = Place[nm]
    BY <1>2 DEF LifeInv, Ends
  <2> QED BY <1>2, <1>3, <1>4, <1>7, <2>1 DEF LifeInv, Ends
<1>9. Phases'
  <2>1. \A t \in Tasks : Idle(t) => Idle(t)'
    BY <1>5 DEF Idle
  <2>2. \A t \in Tasks : t \in attached' <=> t \in attached /\ t # th
    BY <1>5
  <2> HIDE DEF Idle
  <2> QED BY <1>2, <1>3, <1>4, <1>5, <1>7, <2>1, <2>2 DEF LifeInv, Phases
<1> QED BY <1>6, <1>8, <1>9

-----------------------------------------------------------------------------
(* The steps that begin a start *)

(* A call that may belong to a start replaces the operation it is made by.     *)
LEMMA CallMarks ==
  ASSUME TypeOK, NEW th \in Threads, todo[th] # <<>>, NEW ops \in Seq(Calls), Call(th, ops)
  PROVE  /\ \A d \in Nat : \A name, t :
              Mark(todo'[th], d, name, t) <=>
                \/ d < Top(th) /\ Mark(todo[th], d, name, t)
                \/ \E j \in 1 .. Len(ops) :
                     d = Top(th) + Len(ops) - j /\ ops[j].op = name /\ ops[j].t = t
         /\ \A r \in Threads : r # th => todo'[r] = todo[r]
<1>1. /\ todo[th] \in Seq(Calls) /\ Len(todo[th]) \in Nat \ {0} /\ todo \in [Threads -> Seq(Calls)]
  BY HeadTail DEF TypeOK
<1>2. todo'[th] = ops \o Tail(todo[th]) /\ \A r \in Threads : r # th => todo'[r] = todo[r]
  BY <1>1 DEF Call
<1> QED BY <1>1, <1>2, Marks DEF Top

(* A goroutine that starts something has the rest of it, or of what it is       *)
(* called by, left to do.                                                     *)
LEMMA NotEmptied ==
  ASSUME LifeInv, NEW th \in Threads, todo[th] # <<>>, NEW name \in StartMarks, At(th, name),
         \A d \in Nat : \A nm, t : d < Top(th) /\ Mark(todo[th], d, nm, t) => Mark(todo'[th], d, nm, t)
  PROVE  th \in Tasks => todo'[th] # <<>>
<1> SUFFICES ASSUME th \in Tasks PROVE todo'[th] # <<>>
  OBVIOUS
<1>1. Mark(todo[th], 0, "release", th)
  BY DEF LifeInv, Ends
<1>2. /\ Top(th) \in Nat
      /\ \A d \in Nat : \A nm, t : Mark(todo[th], d, nm, t) =>
           d <= Top(th) /\ (d = Top(th) => nm = name)
  BY TopMark DEF LifeInv
<1>3. name # "release"
  BY DEF StartMarks
<1>4. 0 < Top(th)
  BY <1>1, <1>2, <1>3
<1>5. Mark(todo'[th], 0, "release", th)
  BY <1>1, <1>4
<1> QED BY <1>5, NotEmpty

(* What is at the end of a task's goroutine stays there while it starts others. *)
LEMMA EndsKept ==
  ASSUME LifeInv, NEW th \in Threads, todo[th] # <<>>, NEW name \in StartMarks, At(th, name),
         NEW ops \in Seq(Calls), Call(th, ops), \A j \in 1 .. Len(ops) : ops[j].op \notin Reserved
  PROVE  /\ \A r \in Threads, d \in Nat, nm \in Reserved, t \in Tasks :
              Mark(todo'[r], d, nm, t) <=> Mark(todo[r], d, nm, t)
         /\ \A t \in Tasks : todo'[t] = <<>> <=> todo[t] = <<>>
         /\ Ends'
<1>1. /\ \A d \in Nat : \A nm, t :
           Mark(todo'[th], d, nm, t) <=>
             \/ d < Top(th) /\ Mark(todo[th], d, nm, t)
             \/ \E j \in 1 .. Len(ops) :
                  d = Top(th) + Len(ops) - j /\ ops[j].op = nm /\ ops[j].t = t
      /\ \A r \in Threads : r # th => todo'[r] = todo[r]
  BY CallMarks DEF LifeInv
<1>2. /\ Top(th) \in Nat
      /\ \A d \in Nat : \A nm, t : Mark(todo[th], d, nm, t) =>
           d <= Top(th) /\ (d = Top(th) => nm = name)
  BY TopMark DEF LifeInv
<1>3. \A r \in Threads, d \in Nat, nm \in Reserved, t \in Tasks :
        Mark(todo'[r], d, nm, t) <=> Mark(todo[r], d, nm, t)
  <2> TAKE r \in Threads, d \in Nat, nm \in Reserved, t \in Tasks
  <2>1. nm # name
    BY DEF Reserved, StartMarks
  <2>2. Mark(todo[th], d, nm, t) => d < Top(th)
    BY <1>2, <2>1
  <2>3. \A j \in 1 .. Len(ops) : ops[j].op # nm
    OBVIOUS
  <2> QED BY <1>1, <2>2, <2>3
<1>4. \A t \in Tasks : todo'[t] = <<>> <=> todo[t] = <<>>
  <2>1. th \in Tasks => todo'[th] # <<>>
    BY <1>1, NotEmptied
  <2> QED BY <1>1, <2>1, Tree
<1> QED BY <1>3, <1>4, KeepEnds DEF LifeInv

(* What does not go further in a start leaves the starts and the ends as they    *)
(* are.                                                                       *)
LEMMA SameStarts ==
  ASSUME LifeInv, UNCHANGED <<status, attached, working>>,
         \A r \in Threads, d \in Nat, nm \in {"onStart", "setRunning", "spawn"}, t \in Tasks :
           Mark(todo'[r], d, nm, t) <=> Mark(todo[r], d, nm, t),
         \A r \in Threads, d \in Nat, t \in Groups \cup Nodes :
           Mark(todo'[r], d, "start", t) \/ Mark(todo'[r], d, "startGroup", t) =>
             Mark(todo[r], d, "start", t) \/ Mark(todo[r], d, "startGroup", t),
         \A r \in Threads, d \in Nat, nm \in Reserved, t \in Tasks :
           Mark(todo'[r], d, nm, t) <=> Mark(todo[r], d, nm, t),
         \A t \in Tasks : todo'[t] = <<>> <=> todo[t] = <<>>
  PROVE  Starts' /\ Phases'
<1>1. StartOrder'
  <2>1. \A d \in Nat : d > 0 => d - 1 \in Nat
    OBVIOUS
  <2> QED BY <2>1 DEF LifeInv, Starts, StartOrder
<1>2. Underway'
  BY DEF LifeInv, Starts, Underway
<1>3. SpawnsOnce'
  <2>1. \A r \in Threads, d \in Nat, t \in Tasks :
          Mark(todo'[r], d, "spawn", t) <=> Mark(todo[r], d, "spawn", t)
    OBVIOUS
  <2> QED BY <2>1 DEF LifeInv, Starts, SpawnsOnce
<1>4. StartedInside'
  <2> SUFFICES ASSUME NEW r \in Threads, NEW d \in Nat, NEW t \in Groups \cup Nodes,
                      Mark(todo'[r], d, "start", t) \/ Mark(todo'[r], d, "startGroup", t)
               PROVE  \E e \in Nat : e < d /\ Mark(todo'[r], e, "setRunning", Parent(t))
    BY DEF StartedInside
  <2>1. PICK e \in Nat : e < d /\ Mark(todo[r], e, "setRunning", Parent(t))
    BY DEF LifeInv, Starts, StartedInside
  <2> QED BY <2>1, Tree
<1>5. Phases'
  <2>1. \A t \in Tasks : Idle(t)' <=> Idle(t)
    BY DEF Idle
  <2>2. /\ \A t \in Tasks : Mark(todo'[t], 5, "awaitCtx", t) <=> Mark(todo[t], 5, "awaitCtx", t)
        /\ \A t \in Tasks : Mark(todo'[t], 4, "awaitWork", t) <=> Mark(todo[t], 4, "awaitWork", t)
        /\ \A t \in Tasks : Mark(todo'[t], 2, "setDone", t) <=> Mark(todo[t], 2, "setDone", t)
    BY Tree DEF Reserved
  <2> QED BY <2>1, <2>2 DEF LifeInv, Phases
<1> QED BY <1>1, <1>2, <1>3, <1>4, <1>5 DEF Starts

LEMMA StartGroupStep ==
  ASSUME LifeInv, NEW th \in Threads, StartGroup(th)
  PROVE  Starts' /\ Ends' /\ Phases'
<1> DEFINE g == Arg(th)
           D == Top(th)
<1>1. At(th, "startGroup") /\ TypeOK /\ g \in Groups /\ g \in Tasks /\ todo[th] # <<>>
  BY Arguments, Tree DEF StartGroup, LifeInv, At
<1>2. PICK ops \in Seq(Calls) :
        /\ Call(th, ops)
        /\ \A j \in 1 .. Len(ops) : ops[j] = Op("start", g) /\ j = 1 /\ Len(ops) = 1
  <2>1. CASE Call(th, <<Op("start", g)>>)
    <3> DEFINE o == <<Op("start", g)>>
    <3>1. o \in Seq(Calls) /\ Len(o) = 1 /\ o[1] = Op("start", g)
      BY <1>1, StartOp
    <3>2. Call(th, o)
      BY <2>1
    <3> HIDE DEF o
    <3>3. \A j \in 1 .. Len(o) : j = 1
      BY <3>1
    <3>4. \A j \in 1 .. Len(o) : o[j] = Op("start", g) /\ j = 1 /\ Len(o) = 1
      BY <3>1, <3>3
    <3> QED BY <3>1, <3>2, <3>4
  <2>2. CASE Return(th)
    <3> DEFINE o == <<>>
    <3>1. o \in Seq(Calls) /\ Len(o) = 0 /\ Call(th, o)
      BY <2>2 DEF Return
    <3> HIDE DEF o
    <3>2. \A j \in 1 .. Len(o) : FALSE
      BY <3>1
    <3> QED BY <3>1, <3>2
  <2> QED BY <2>1, <2>2 DEF StartGroup
<1>3. \A j \in 1 .. Len(ops) : ops[j].op = "start" /\ ops[j].t = g
  BY <1>2 DEF Op
<1>4. /\ D \in Nat /\ Mark(todo[th], D, "startGroup", g)
      /\ \A d \in Nat : \A nm, t : Mark(todo[th], d, nm, t) =>
           d <= D /\ (d = D => nm = "startGroup" /\ t = g)
  BY <1>1, TopMark
<1>5. /\ \A d \in Nat : \A nm, t :
           Mark(todo'[th], d, nm, t) <=>
             \/ d < D /\ Mark(todo[th], d, nm, t)
             \/ \E j \in 1 .. Len(ops) :
                  d = D + Len(ops) - j /\ ops[j].op = nm /\ ops[j].t = t
      /\ \A r \in Threads : r # th => todo'[r] = todo[r]
  BY <1>1, <1>2, CallMarks
<1> HIDE DEF g, D
<1>6. \A d \in Nat : \A nm, t :
        Mark(todo'[th], d, nm, t) =>
          Mark(todo[th], d, nm, t) \/ (d = D /\ nm = "start" /\ t = g)
  BY <1>2, <1>3, <1>4, <1>5
<1>7. /\ \A r \in Threads, d \in Nat, nm \in Reserved, t \in Tasks :
           Mark(todo'[r], d, nm, t) <=> Mark(todo[r], d, nm, t)
      /\ \A t \in Tasks : todo'[t] = <<>> <=> todo[t] = <<>>
      /\ Ends'
  <2>1. "startGroup" \in StartMarks /\ \A j \in 1 .. Len(ops) : ops[j].op \notin Reserved
    BY <1>3 DEF StartMarks, Reserved
  <2> QED BY <1>1, <1>2, <2>1, EndsKept
<1>8. UNCHANGED <<status, attached, working>>
  BY DEF StartGroup, runtime
<1>9. \A r \in Threads, d \in Nat, nm \in {"onStart", "setRunning", "spawn"}, t \in Tasks :
        Mark(todo'[r], d, nm, t) <=> Mark(todo[r], d, nm, t)
  BY <1>4, <1>5, <1>6
<1>10. \A r \in Threads, d \in Nat, t \in Groups \cup Nodes :
         Mark(todo'[r], d, "start", t) \/ Mark(todo'[r], d, "startGroup", t) =>
           Mark(todo[r], d, "start", t) \/ Mark(todo[r], d, "startGroup", t)
  <2> TAKE r \in Threads, d \in Nat, t \in Groups \cup Nodes
  <2>1. CASE r # th
    BY <1>5, <2>1
  <2>2. CASE r = th
    BY <1>4, <1>6, <2>2
  <2> QED BY <2>1, <2>2
<1> QED BY <1>7, <1>8, <1>9, <1>10, SameStarts

(* A task is started once, inside the start of its parent.                     *)
LEMMA StartedWhen ==
  ASSUME LifeInv, NEW th \in Threads, At(th, "start"), NEW t \in Tasks, t = Arg(th), t # F
  PROVE  status[Parent(t)] = "starting"
<1>1. t \in Groups \cup Nodes /\ TypeOK
  BY DEF Tasks, LifeInv
<1>2. Top(th) \in Nat /\ Mark(todo[th], Top(th), "start", t)
  BY <1>1, TopMark
<1>3. \E e \in Nat : Mark(todo[th], e, "setRunning", Parent(t))
  BY <1>1, <1>2 DEF LifeInv, Starts, StartedInside
<1> QED BY <1>3, Tree DEF LifeInv, Starts, Underway

LEMMA StartStep ==
  ASSUME LifeInv, NEW th \in Threads, Start(th)
  PROVE  Starts' /\ Ends' /\ Phases'
<1> DEFINE t0 == Arg(th)
           D == Top(th)
<1>1. At(th, "start") /\ TypeOK /\ t0 \in Tasks /\ todo[th] # <<>> /\ "start" \in StartMarks
  BY HeadTail DEF Start, LifeInv, At, StartMarks
<1>2. /\ D \in Nat /\ Mark(todo[th], D, "start", t0)
      /\ \A d \in Nat : \A nm, t : Mark(todo[th], d, nm, t) =>
           d <= D /\ (d = D => nm = "start" /\ t = t0)
  BY <1>1, TopMark
<1>3. CASE status[t0] # "created"
  <2> DEFINE o == <<>>
  <2>1. o \in Seq(Calls) /\ Len(o) = 0 /\ Call(th, o) /\ UNCHANGED <<status, attached, working>>
    BY <1>3 DEF Start, Return
  <2> HIDE DEF o, D
  <2>2. \A j \in 1 .. Len(o) : FALSE
    BY <2>1
  <2>3. /\ \A d \in Nat : \A nm, t : Mark(todo'[th], d, nm, t) <=> d < D /\ Mark(todo[th], d, nm, t)
        /\ \A r \in Threads : r # th => todo'[r] = todo[r]
    BY <1>1, <2>1, <2>2, CallMarks DEF D
  <2>4. /\ \A r \in Threads, d \in Nat, nm \in Reserved, t \in Tasks :
             Mark(todo'[r], d, nm, t) <=> Mark(todo[r], d, nm, t)
        /\ \A t \in Tasks : todo'[t] = <<>> <=> todo[t] = <<>>
        /\ Ends'
    BY <1>1, <2>1, <2>2, EndsKept
  <2>5. \A r \in Threads, d \in Nat, nm \in {"onStart", "setRunning", "spawn"}, t \in Tasks :
          Mark(todo'[r], d, nm, t) <=> Mark(todo[r], d, nm, t)
    BY <1>2, <2>3
  <2>6. \A r \in Threads, d \in Nat, t \in Groups \cup Nodes :
          Mark(todo'[r], d, "start", t) \/ Mark(todo'[r], d, "startGroup", t) =>
            Mark(todo[r], d, "start", t) \/ Mark(todo[r], d, "startGroup", t)
    BY <2>3
  <2> QED BY <2>1, <2>4, <2>5, <2>6, SameStarts
<1>4. CASE status[t0] = "created"
  <2> DEFINE o == <<Op("onStart", t0), Op("setRunning", t0), Op("spawn", t0)>>
  <2>1. /\ Call(th, o) /\ UNCHANGED working
        /\ status'[t0] = "starting" /\ \A t \in Tasks : t # t0 => status'[t] = status[t]
        /\ attached' = attached \cup {t0}
    BY <1>1, <1>4 DEF Start, TypeOK
  <2>2. /\ o \in Seq(Calls) /\ Len(o) = 3
        /\ o[1].op = "onStart" /\ o[2].op = "setRunning" /\ o[3].op = "spawn"
        /\ o[1].t = t0 /\ o[2].t = t0 /\ o[3].t = t0
    <3>1. Op("onStart", t0) \in Calls /\ Op("setRunning", t0) \in Calls /\ Op("spawn", t0) \in Calls
      BY <1>1, StartOp
    <3>2. o \in Seq(Calls) /\ Len(o) = 3
      BY <3>1
    <3>3. o[1] = Op("onStart", t0) /\ o[2] = Op("setRunning", t0) /\ o[3] = Op("spawn", t0)
      OBVIOUS
    <3> QED BY <3>2, <3>3 DEF Op
  <2> HIDE DEF o, D, t0
  <2>3. /\ \A d \in Nat : \A nm, t :
             Mark(todo'[th], d, nm, t) <=>
               \/ d < D /\ Mark(todo[th], d, nm, t)
               \/ \E j \in 1 .. Len(o) : d = D + Len(o) - j /\ o[j].op = nm /\ o[j].t = t
        /\ \A r \in Threads : r # th => todo'[r] = todo[r]
    BY <1>1, <2>1, <2>2, CallMarks DEF D
  <2>4. \A j \in 1 .. Len(o) : j = 1 \/ j = 2 \/ j = 3
    BY <2>2
  <2>5. \A d \in Nat : \A t :
          (\E j \in 1 .. Len(o) : d = D + Len(o) - j /\ o[j].op = "onStart" /\ o[j].t = t) <=>
            (t = t0 /\ d = D + 2)
    <3>1. 1 \in 1 .. Len(o) /\ 2 \in 1 .. Len(o) /\ 3 \in 1 .. Len(o)
      BY <2>2
    <3> QED BY <1>2, <2>2, <2>4, <3>1
  <2>15. \A d \in Nat : \A t :
          (\E j \in 1 .. Len(o) : d = D + Len(o) - j /\ o[j].op = "setRunning" /\ o[j].t = t) <=>
            (t = t0 /\ d = D + 1)
    <3>1. 1 \in 1 .. Len(o) /\ 2 \in 1 .. Len(o) /\ 3 \in 1 .. Len(o)
      BY <2>2
    <3> QED BY <1>2, <2>2, <2>4, <3>1
  <2>16. \A d \in Nat : \A t :
          (\E j \in 1 .. Len(o) : d = D + Len(o) - j /\ o[j].op = "spawn" /\ o[j].t = t) <=>
            (t = t0 /\ d = D)
    <3>1. 1 \in 1 .. Len(o) /\ 2 \in 1 .. Len(o) /\ 3 \in 1 .. Len(o)
      BY <2>2
    <3> QED BY <1>2, <2>2, <2>4, <3>1
  <2>14. \A d \in Nat : \A t :
          /\ Mark(todo'[th], d, "onStart", t) <=>
               (d < D /\ Mark(todo[th], d, "onStart", t)) \/ (t = t0 /\ d = D + 2)
          /\ Mark(todo'[th], d, "setRunning", t) <=>
               (d < D /\ Mark(todo[th], d, "setRunning", t)) \/ (t = t0 /\ d = D + 1)
          /\ Mark(todo'[th], d, "spawn", t) <=>
               (d < D /\ Mark(todo[th], d, "spawn", t)) \/ (t = t0 /\ d = D)
          /\ Mark(todo'[th], d, "start", t) => Mark(todo[th], d, "start", t)
          /\ Mark(todo'[th], d, "startGroup", t) => Mark(todo[th], d, "startGroup", t)
    <3>1. \A j \in 1 .. Len(o) : o[j].op # "start" /\ o[j].op # "startGroup"
      BY <2>2, <2>4
    <3> TAKE d \in Nat
    <3> TAKE t
    <3>2. Mark(todo'[th], d, "onStart", t) <=>
            (d < D /\ Mark(todo[th], d, "onStart", t)) \/ (t = t0 /\ d = D + 2)
      <4> DEFINE E == \E j \in 1 .. Len(o) : d = D + Len(o) - j /\ o[j].op = "onStart" /\ o[j].t = t
      <4>1. Mark(todo'[th], d, "onStart", t) <=> (d < D /\ Mark(todo[th], d, "onStart", t)) \/ E
        BY <2>3
      <4>2. E <=> (t = t0 /\ d = D + 2)
        BY <2>5
      <4> HIDE DEF E
      <4> QED BY <4>1, <4>2
    <3>3. Mark(todo'[th], d, "setRunning", t) <=>
            (d < D /\ Mark(todo[th], d, "setRunning", t)) \/ (t = t0 /\ d = D + 1)
      BY <2>3, <2>15
    <3>4. Mark(todo'[th], d, "spawn", t) <=>
            (d < D /\ Mark(todo[th], d, "spawn", t)) \/ (t = t0 /\ d = D)
      BY <2>3, <2>16
    <3>5. /\ Mark(todo'[th], d, "start", t) => Mark(todo[th], d, "start", t)
          /\ Mark(todo'[th], d, "startGroup", t) => Mark(todo[th], d, "startGroup", t)
      BY <2>3, <3>1
    <3> QED BY <3>2, <3>3, <3>4, <3>5
  <2>6. /\ \A r \in Threads, d \in Nat, nm \in Reserved, t \in Tasks :
             Mark(todo'[r], d, nm, t) <=> Mark(todo[r], d, nm, t)
        /\ \A t \in Tasks : todo'[t] = <<>> <=> todo[t] = <<>>
        /\ Ends'
    <3>1. \A j \in 1 .. Len(o) : o[j].op \notin Reserved
      BY <2>2, <2>4 DEF Reserved
    <3> QED BY <1>1, <2>1, <2>2, <3>1, EndsKept
  <2>7. todo[t0] = <<>> /\ t0 # th
    BY <1>1, <1>4 DEF LifeInv, Phases, t0
  <2>8. \A r \in Threads, d \in Nat :
          /\ ~Mark(todo[r], d, "spawn", t0)
          /\ ~Mark(todo[r], d, "setRunning", t0)
          /\ ~Mark(todo[r], d, "onStart", t0)
    <3>1. \A r \in Threads, d \in Nat : ~Mark(todo[r], d, "spawn", t0)
      BY <1>1, <1>4 DEF LifeInv, Starts, SpawnsOnce, t0
    <3>2. \A r \in Threads, d \in Nat : ~Mark(todo[r], d, "setRunning", t0)
      BY <1>1, <1>4 DEF LifeInv, Starts, Underway, t0
    <3>3. \A d \in Nat : d > 0 => d - 1 \in Nat
      OBVIOUS
    <3>4. \A r \in Threads, d \in Nat : Mark(todo[r], d, "onStart", t0) =>
            d > 0 /\ Mark(todo[r], d - 1, "setRunning", t0)
      BY <1>1 DEF LifeInv, Starts, StartOrder, t0
    <3> QED BY <3>1, <3>2, <3>3, <3>4
  <2>9. \A r \in Threads, d \in Nat, nm \in {"onStart", "setRunning", "spawn"}, t \in Tasks : t # t0 =>
          (Mark(todo'[r], d, nm, t) <=> Mark(todo[r], d, nm, t))
    <3> SUFFICES ASSUME NEW r \in Threads, NEW d \in Nat, NEW nm \in {"onStart", "setRunning", "spawn"},
                        NEW t \in Tasks, t # t0
                 PROVE  Mark(todo'[r], d, nm, t) <=> Mark(todo[r], d, nm, t)
      OBVIOUS
    <3>1. Mark(todo'[th], d, nm, t) <=> d < D /\ Mark(todo[th], d, nm, t)
      BY <2>14
    <3>2. Mark(todo[th], d, nm, t) => d < D
      BY <1>2
    <3> QED BY <2>3, <3>1, <3>2
  <2>10. \A r \in Threads, d \in Nat :
           /\ Mark(todo'[r], d, "onStart", t0) <=> r = th /\ d = D + 2
           /\ Mark(todo'[r], d, "setRunning", t0) <=> r = th /\ d = D + 1
           /\ Mark(todo'[r], d, "spawn", t0) <=> r = th /\ d = D
    <3> TAKE r \in Threads, d \in Nat
    <3>1. CASE r # th
      BY <2>3, <2>8, <3>1
    <3>2. CASE r = th
      <4>1. /\ Mark(todo'[th], d, "onStart", t0) <=> d = D + 2
            /\ Mark(todo'[th], d, "setRunning", t0) <=> d = D + 1
            /\ Mark(todo'[th], d, "spawn", t0) <=> d = D
        BY <2>8, <2>14
      <4> QED BY <3>2, <4>1
    <3> QED BY <3>1, <3>2
  <2>11. Starts'
    <3>1. StartOrder'
      <4> SUFFICES ASSUME NEW r \in Threads, NEW d \in Nat, NEW t \in Tasks
                   PROVE  /\ Mark(todo'[r], d, "onStart", t) => d > 0 /\ Mark(todo'[r], d - 1, "setRunning", t)
                          /\ Mark(todo'[r], d, "setRunning", t) => d > 0 /\ Mark(todo'[r], d - 1, "spawn", t)
        BY DEF StartOrder
      <4>1. d > 0 => d - 1 \in Nat
        OBVIOUS
      <4>2. CASE t = t0
        <5>1. d = D + 2 => d > 0 /\ d - 1 = D + 1
          BY <1>2
        <5>2. d = D + 1 => d > 0 /\ d - 1 = D
          BY <1>2
        <5>3. D + 1 \in Nat /\ D \in Nat
          BY <1>2
        <5> QED BY <2>10, <4>2, <5>1, <5>2, <5>3
      <4>3. CASE t # t0
        <5>1. /\ Mark(todo[r], d, "onStart", t) => d > 0 /\ Mark(todo[r], d - 1, "setRunning", t)
              /\ Mark(todo[r], d, "setRunning", t) => d > 0 /\ Mark(todo[r], d - 1, "spawn", t)
          BY DEF LifeInv, Starts, StartOrder
        <5> QED BY <2>9, <4>1, <4>3, <5>1
      <4> QED BY <4>2, <4>3
    <3>2. Underway'
      <4>1. D + 1 \in Nat
        BY <1>2
      <4>2. Mark(todo'[th], D + 1, "setRunning", t0)
        BY <2>10, <4>1
      <4>3. \A t \in Tasks : t # t0 =>
              (status'[t] = "starting" <=> \E r \in Threads, d \in Nat : Mark(todo'[r], d, "setRunning", t))
        BY <2>1, <2>9 DEF LifeInv, Starts, Underway
      <4> QED BY <2>1, <4>1, <4>2, <4>3 DEF Underway
    <3>3. SpawnsOnce'
      <4>1. \A r \in Threads, d \in Nat : Mark(todo'[r], d, "spawn", t0) =>
              /\ todo'[t0] = <<>> /\ status'[t0] = "starting"
              /\ \A q \in Threads, e \in Nat : Mark(todo'[q], e, "spawn", t0) => q = r /\ e = d
        BY <1>1, <2>1, <2>6, <2>7, <2>10 DEF t0
      <4>2. \A r \in Threads, d \in Nat, t \in Tasks : t # t0 /\ Mark(todo'[r], d, "spawn", t) =>
              /\ todo'[t] = <<>> /\ status'[t] \in {"starting", "running", "stopping"}
              /\ \A q \in Threads, e \in Nat : Mark(todo'[q], e, "spawn", t) => q = r /\ e = d
        <5>1. \A r \in Threads, d \in Nat, t \in Tasks : t # t0 =>
                (Mark(todo'[r], d, "spawn", t) <=> Mark(todo[r], d, "spawn", t))
          BY <2>9
        <5> SUFFICES ASSUME NEW r \in Threads, NEW d \in Nat, NEW t \in Tasks,
                            t # t0, Mark(todo'[r], d, "spawn", t)
                     PROVE  /\ todo'[t] = <<>> /\ status'[t] \in {"starting", "running", "stopping"}
                            /\ \A q \in Threads, e \in Nat :
                                 Mark(todo'[q], e, "spawn", t) => q = r /\ e = d
          OBVIOUS
        <5>2. /\ todo[t] = <<>> /\ status[t] \in {"starting", "running", "stopping"}
              /\ \A q \in Threads, e \in Nat : Mark(todo[q], e, "spawn", t) => q = r /\ e = d
          BY <5>1 DEF LifeInv, Starts, SpawnsOnce
        <5>3. \A q \in Threads, e \in Nat : Mark(todo'[q], e, "spawn", t) => q = r /\ e = d
          BY <5>1, <5>2
        <5>4. todo'[t] = <<>>
          BY <2>6, <5>2
        <5>5. status'[t] = status[t]
          BY <2>1
        <5> QED BY <5>2, <5>3, <5>4, <5>5
      <4> QED BY <4>1, <4>2 DEF SpawnsOnce
    <3>4. StartedInside'
      <4> SUFFICES ASSUME NEW r \in Threads, NEW d \in Nat, NEW t \in Groups \cup Nodes,
                          Mark(todo'[r], d, "start", t) \/ Mark(todo'[r], d, "startGroup", t)
                   PROVE  \E e \in Nat : e < d /\ Mark(todo'[r], e, "setRunning", Parent(t))
        BY DEF StartedInside
      <4>1. Mark(todo[r], d, "start", t) \/ Mark(todo[r], d, "startGroup", t)
        <5>1. CASE r # th
          BY <2>3, <5>1
        <5>2. CASE r = th
          BY <2>14, <5>2
        <5> QED BY <5>1, <5>2
      <4>2. PICK e \in Nat : e < d /\ Mark(todo[r], e, "setRunning", Parent(t))
        BY <4>1 DEF LifeInv, Starts, StartedInside
      <4>3. Parent(t) # t0 /\ Parent(t) \in Tasks
        BY <2>8, <4>2, Tree
      <4> QED BY <2>9, <4>2, <4>3
    <3> QED BY <3>1, <3>2, <3>3, <3>4 DEF Starts
  <2>12. Phases'
    <3>1. \A t \in Tasks : status[t] # "starting" => (Idle(t) => Idle(t)')
      <4> SUFFICES ASSUME NEW t \in Tasks, status[t] # "starting", Idle(t) PROVE Idle(t)'
        OBVIOUS
      <4>1. t0 \notin Subs(t)
        <5>1. t0 \in Subs(t) => t0 # F /\ Parent(t0) = t
          BY Tree DEF Subs
        <5>2. t0 # F => status[Parent(t0)] = "starting"
          BY <1>1, StartedWhen DEF t0
        <5> QED BY <5>1, <5>2
      <4> QED BY <2>1, <4>1 DEF Idle
    <3>2. /\ \A t \in Tasks : Mark(todo'[t], 5, "awaitCtx", t) <=> Mark(todo[t], 5, "awaitCtx", t)
          /\ \A t \in Tasks : Mark(todo'[t], 4, "awaitWork", t) <=> Mark(todo[t], 4, "awaitWork", t)
          /\ \A t \in Tasks : Mark(todo'[t], 2, "setDone", t) <=> Mark(todo[t], 2, "setDone", t)
      BY <2>6, Tree DEF Reserved
    <3>3. ~Mark(todo[t0], 5, "awaitCtx", t0) /\ ~Mark(todo[t0], 2, "setDone", t0) /\ todo[t0] = <<>>
      BY <2>7, NotEmpty
    <3>4. \A t \in Tasks : t \in attached' <=> t \in attached \/ t = t0
      BY <2>1
    <3>5. ASSUME NEW t \in Tasks, t = t0
          PROVE  /\ t \in attached' /\ status'[t] = "starting" /\ todo'[t] = <<>>
                 /\ ~Mark(todo'[t], 5, "awaitCtx", t) /\ ~Mark(todo'[t], 2, "setDone", t)
      BY <2>1, <2>6, <3>2, <3>3, <3>4, <3>5
    <3>6. ASSUME NEW t \in Tasks, t # t0
          PROVE  /\ status'[t] = status[t] /\ (t \in attached' <=> t \in attached)
                 /\ (todo'[t] = <<>> <=> todo[t] = <<>>)
                 /\ (t \in working' <=> t \in working)
      BY <2>1, <2>6, <3>4, <3>6
    <3> HIDE DEF Idle
    <3> QED BY <3>1, <3>2, <3>5, <3>6 DEF LifeInv, Phases
  <2> QED BY <2>6, <2>11, <2>12
<1> QED BY <1>3, <1>4

(* A flow starts its groups, a group its nodes.                                *)
LEMMA OnStartCalls ==
  ASSUME TypeOK, NEW th \in Threads, OnStart(th)
  PROVE  \E o \in Seq(Calls) :
           /\ Call(th, o)
           /\ \A j \in 1 .. Len(o) : o[j].op \in {"start", "startGroup"} /\ o[j].t \in Subs(Arg(th))
<1> DEFINE t == Arg(th)
<1>1. todo[th] # <<>> /\ t \in Tasks
  BY HeadTail DEF OnStart, At
<1>2. ASSUME NEW s \in Seq(Subs(t)), NEW name \in {"start", "startGroup"},
             \A c \in Subs(t) : Op(name, c) \in Calls
      PROVE  /\ Each(name, s) \in Seq(Calls)
             /\ \A j \in 1 .. Len(Each(name, s)) : Each(name, s)[j].op = name /\ Each(name, s)[j].t \in Subs(t)
  <2> HIDE DEF t
  <2>1. Len(s) \in Nat /\ DOMAIN s = 1 .. Len(s) /\ \A j \in 1 .. Len(s) : s[j] \in Subs(t)
    OBVIOUS
  <2>2. Each(name, s) = [i \in 1 .. Len(s) |-> Op(name, s[i])]
    BY <2>1 DEF Each
  <2>3. Each(name, s) \in Seq(Calls) /\ Len(Each(name, s)) = Len(s)
    BY <1>2, <2>1, <2>2
  <2>4. \A j \in 1 .. Len(s) : Each(name, s)[j] = Op(name, s[j])
    BY <2>2
  <2>5. \A nm, c : Op(nm, c).op = nm /\ Op(nm, c).t = c
    BY DEF Op
  <2>6. \A j \in 1 .. Len(s) : Each(name, s)[j].op = name /\ Each(name, s)[j].t \in Subs(t)
    BY <2>1, <2>4, <2>5
  <2> QED BY <2>3, <2>6
<1>3. CASE t = F
  <2>1. members[F] \in Seq(Subs(t)) /\ Subs(t) \subseteq Groups
    BY <1>3, FlowAssumption DEF Subs, Parent, TypeOK
  <2>2. \A c \in Subs(t) : Op("startGroup", c) \in Calls
    BY <2>1, StartOp, Tree
  <2>3. Call(th, Each("startGroup", members[F]))
    BY <1>3, FlowAssumption DEF OnStart
  <2> HIDE DEF t
  <2> DEFINE o == Each("startGroup", members[F])
  <2>4. o \in Seq(Calls) /\ \A j \in 1 .. Len(o) : o[j].op = "startGroup" /\ o[j].t \in Subs(t)
    BY <1>2, <2>1, <2>2
  <2> HIDE DEF o
  <2>5. Call(th, o)
    BY <2>3 DEF o
  <2> QED BY <2>4, <2>5 DEF t
<1>4. CASE t \in Groups
  <2>1. members[t] \in Seq(Subs(t)) /\ Subs(t) \subseteq Tasks
    BY <1>1, <1>4, Tree DEF TypeOK, Tasks
  <2>2. \A c \in Subs(t) : Op("start", c) \in Calls
    BY <2>1, StartOp
  <2>3. Call(th, Each("start", members[t]))
    BY <1>4, FlowAssumption DEF OnStart
  <2> HIDE DEF t
  <2> DEFINE o == Each("start", members[t])
  <2>4. o \in Seq(Calls) /\ \A j \in 1 .. Len(o) : o[j].op = "start" /\ o[j].t \in Subs(t)
    BY <1>2, <2>1, <2>2
  <2> HIDE DEF o
  <2>5. Call(th, o)
    BY <2>3 DEF o
  <2> QED BY <2>4, <2>5 DEF t
<1>5. CASE t \in Nodes
  <2> DEFINE o == <<>>
  <2>1. o \in Seq(Calls) /\ Len(o) = 0 /\ Call(th, o)
    BY <1>5, FlowAssumption DEF OnStart
  <2> HIDE DEF o
  <2>2. \A j \in 1 .. Len(o) : FALSE
    BY <2>1
  <2> QED BY <2>1, <2>2
<1> QED BY <1>1, <1>3, <1>4, <1>5 DEF Tasks

LEMMA OnStartStep ==
  ASSUME LifeInv, NEW th \in Threads, OnStart(th)
  PROVE  Starts' /\ Ends' /\ Phases'
<1> DEFINE t0 == Arg(th)
           D == Top(th)
<1>1. At(th, "onStart") /\ TypeOK /\ t0 \in Tasks /\ todo[th] # <<>> /\ "onStart" \in StartMarks
  BY HeadTail DEF OnStart, LifeInv, At, StartMarks
<1>2. /\ D \in Nat /\ Mark(todo[th], D, "onStart", t0)
      /\ \A d \in Nat : \A nm, t : Mark(todo[th], d, nm, t) =>
           d <= D /\ (d = D => nm = "onStart" /\ t = t0)
  BY <1>1, TopMark
<1>3. PICK o \in Seq(Calls) :
        /\ Call(th, o)
        /\ \A j \in 1 .. Len(o) : o[j].op \in {"start", "startGroup"} /\ o[j].t \in Subs(t0)
  BY <1>1, OnStartCalls
<1>4. /\ \A d \in Nat : \A nm, t :
           Mark(todo'[th], d, nm, t) <=>
             \/ d < D /\ Mark(todo[th], d, nm, t)
             \/ \E j \in 1 .. Len(o) : d = D + Len(o) - j /\ o[j].op = nm /\ o[j].t = t
      /\ \A r \in Threads : r # th => todo'[r] = todo[r]
  BY <1>1, <1>3, CallMarks
<1>5. /\ \A r \in Threads, d \in Nat, nm \in Reserved, t \in Tasks :
           Mark(todo'[r], d, nm, t) <=> Mark(todo[r], d, nm, t)
      /\ \A t \in Tasks : todo'[t] = <<>> <=> todo[t] = <<>>
      /\ Ends'
  <2>1. \A j \in 1 .. Len(o) : o[j].op \notin Reserved
    BY <1>3 DEF Reserved
  <2> QED BY <1>1, <1>3, <2>1, EndsKept
<1>6. /\ UNCHANGED <<status, attached>> /\ working' = working \cup ({t0} \cap Nodes)
  BY DEF OnStart
<1>7. D > 0 /\ D - 1 \in Nat /\ Mark(todo[th], D - 1, "setRunning", t0)
  BY <1>1, <1>2 DEF LifeInv, Starts, StartOrder
<1>8. status[t0] = "starting"
  BY <1>1, <1>7 DEF LifeInv, Starts, Underway
<1> HIDE DEF t0, D
<1>9. \A d \in Nat : \A t :
        /\ Mark(todo'[th], d, "onStart", t) <=> d < D /\ Mark(todo[th], d, "onStart", t)
        /\ Mark(todo'[th], d, "setRunning", t) <=> d < D /\ Mark(todo[th], d, "setRunning", t)
        /\ Mark(todo'[th], d, "spawn", t) <=> d < D /\ Mark(todo[th], d, "spawn", t)
  <2>1. \A j \in 1 .. Len(o) : o[j].op # "onStart" /\ o[j].op # "setRunning" /\ o[j].op # "spawn"
    BY <1>3
  <2> SUFFICES ASSUME NEW d \in Nat, NEW t
               PROVE  /\ Mark(todo'[th], d, "onStart", t) <=> d < D /\ Mark(todo[th], d, "onStart", t)
                      /\ Mark(todo'[th], d, "setRunning", t) <=>
                           d < D /\ Mark(todo[th], d, "setRunning", t)
                      /\ Mark(todo'[th], d, "spawn", t) <=> d < D /\ Mark(todo[th], d, "spawn", t)
    OBVIOUS
  <2>2. Mark(todo'[th], d, "onStart", t) <=> d < D /\ Mark(todo[th], d, "onStart", t)
    BY <1>4, <2>1
  <2>3. Mark(todo'[th], d, "setRunning", t) <=> d < D /\ Mark(todo[th], d, "setRunning", t)
    BY <1>4, <2>1
  <2>4. Mark(todo'[th], d, "spawn", t) <=> d < D /\ Mark(todo[th], d, "spawn", t)
    BY <1>4, <2>1
  <2> QED BY <2>2, <2>3, <2>4
<1>10. \A r \in Threads, d \in Nat, t \in Tasks :
         /\ Mark(todo'[r], d, "onStart", t) => Mark(todo[r], d, "onStart", t)
         /\ Mark(todo'[r], d, "setRunning", t) <=> Mark(todo[r], d, "setRunning", t)
         /\ Mark(todo'[r], d, "spawn", t) <=> Mark(todo[r], d, "spawn", t)
  <2> TAKE r \in Threads, d \in Nat, t \in Tasks
  <2>1. CASE r # th
    BY <1>4, <2>1
  <2>2. CASE r = th
    <3>1. /\ Mark(todo[th], d, "setRunning", t) => d < D
          /\ Mark(todo[th], d, "spawn", t) => d < D
      BY <1>2
    <3>2. /\ Mark(todo'[th], d, "onStart", t) <=> d < D /\ Mark(todo[th], d, "onStart", t)
          /\ Mark(todo'[th], d, "setRunning", t) <=> d < D /\ Mark(todo[th], d, "setRunning", t)
          /\ Mark(todo'[th], d, "spawn", t) <=> d < D /\ Mark(todo[th], d, "spawn", t)
      BY <1>9
    <3> QED BY <2>2, <3>1, <3>2
  <2> QED BY <2>1, <2>2
<1>11. Starts'
  <2>1. StartOrder'
    <3>1. \A d \in Nat : d > 0 => d - 1 \in Nat
      OBVIOUS
    <3> QED BY <1>10, <3>1 DEF LifeInv, Starts, StartOrder
  <2>2. Underway'
    BY <1>6, <1>10 DEF LifeInv, Starts, Underway
  <2>3. SpawnsOnce'
    BY <1>5, <1>6, <1>10 DEF LifeInv, Starts, SpawnsOnce
  <2>4. StartedInside'
    <3> SUFFICES ASSUME NEW r \in Threads, NEW d \in Nat, NEW t \in Groups \cup Nodes,
                        Mark(todo'[r], d, "start", t) \/ Mark(todo'[r], d, "startGroup", t)
                 PROVE  \E e \in Nat : e < d /\ Mark(todo'[r], e, "setRunning", Parent(t))
      BY DEF StartedInside
    <3>1. \/ Mark(todo[r], d, "start", t) \/ Mark(todo[r], d, "startGroup", t)
          \/ r = th /\ t \in Subs(t0) /\ d >= D
      <4>1. CASE r # th
        BY <1>4, <4>1
      <4>2. CASE r = th
        <5>1. \A j \in 1 .. Len(o) : D + Len(o) - j >= D
          BY <1>2
        <5> QED BY <1>3, <1>4, <4>2, <5>1
      <4> QED BY <4>1, <4>2
    <3>2. CASE Mark(todo[r], d, "start", t) \/ Mark(todo[r], d, "startGroup", t)
      <4>1. PICK e \in Nat : e < d /\ Mark(todo[r], e, "setRunning", Parent(t))
        BY <3>2 DEF LifeInv, Starts, StartedInside
      <4> QED BY <1>10, <4>1, Tree
    <3>3. CASE r = th /\ t \in Subs(t0) /\ d >= D
      <4>1. Parent(t) = t0 /\ D - 1 < d
        BY <1>2, <3>3 DEF Subs
      <4>2. Mark(todo'[th], D - 1, "setRunning", t0)
        BY <1>1, <1>7, <1>10 DEF t0
      <4> QED BY <1>7, <3>3, <4>1, <4>2
    <3> QED BY <3>1, <3>2, <3>3
  <2> QED BY <2>1, <2>2, <2>3, <2>4 DEF Starts
<1>12. Phases'
  <2>1. \A t \in Tasks : t # t0 => (Idle(t)' <=> Idle(t))
    BY <1>6 DEF Idle
  <2>2. /\ \A t \in Tasks : Mark(todo'[t], 5, "awaitCtx", t) <=> Mark(todo[t], 5, "awaitCtx", t)
        /\ \A t \in Tasks : Mark(todo'[t], 4, "awaitWork", t) <=> Mark(todo[t], 4, "awaitWork", t)
        /\ \A t \in Tasks : Mark(todo'[t], 2, "setDone", t) <=> Mark(todo[t], 2, "setDone", t)
    BY <1>5, Tree DEF Reserved
  <2>3. \A t \in Tasks : t \in working' => t \in working \/ t = t0
    BY <1>6
  <2> QED BY <1>5, <1>6, <1>8, <2>1, <2>2, <2>3 DEF LifeInv, Phases
<1> QED BY <1>5, <1>11, <1>12

(* The calls that the goroutine of a task is born with.                         *)
LEMMA EndCalls ==
  ASSUME NEW t \in Tasks, NEW ends,
         ends = <<Op("awaitCtx", t), Op("awaitWork", t), Op("close", t),
                  Op("setDone", t), Op("emitDone", t), Op("release", t)>>
  PROVE  /\ \A d \in Nat, nm \in StartMarks : \A u : ~Mark(ends, d, nm, u)
         /\ \A d \in Nat, nm \in Reserved : \A u : Mark(ends, d, nm, u) => u = t /\ d = Place[nm]
         /\ Mark(ends, 5, "awaitCtx", t) /\ Mark(ends, 4, "awaitWork", t) /\ Mark(ends, 2, "setDone", t)
         /\ Mark(ends, 1, "emitDone", t) /\ Mark(ends, 0, "release", t)
<1>1. /\ Len(ends) = 6
      /\ ends[1].op = "awaitCtx" /\ ends[2].op = "awaitWork" /\ ends[3].op = "close"
      /\ ends[4].op = "setDone" /\ ends[5].op = "emitDone" /\ ends[6].op = "release"
  BY DEF Op
<1>2. /\ ends[1].t = t /\ ends[2].t = t /\ ends[3].t = t
      /\ ends[4].t = t /\ ends[5].t = t /\ ends[6].t = t
  BY DEF Op
<1>3. ASSUME NEW d \in Nat, NEW nm, NEW u, Mark(ends, d, nm, u)
      PROVE  /\ d \in 0 .. 5 /\ ends[6 - d].op = nm /\ ends[6 - d].t = u
  BY <1>1, <1>3 DEF Mark
<1>4. \A d \in 0 .. 5 : d = 0 \/ d = 1 \/ d = 2 \/ d = 3 \/ d = 4 \/ d = 5
  OBVIOUS
<1>5. \A d \in Nat, nm \in StartMarks : \A u : ~Mark(ends, d, nm, u)
  <2> SUFFICES ASSUME NEW d \in Nat, NEW nm \in StartMarks, NEW u, Mark(ends, d, nm, u) PROVE FALSE
    OBVIOUS
  <2>1. d \in 0 .. 5 /\ ends[6 - d].op = nm
    BY <1>3
  <2>2. ends[6 - d].op \notin StartMarks
    BY <1>1, <1>4, <2>1 DEF StartMarks
  <2> QED BY <2>1, <2>2
<1>6. \A d \in Nat, nm \in Reserved : \A u : Mark(ends, d, nm, u) => u = t /\ d = Place[nm]
  <2> SUFFICES ASSUME NEW d \in Nat, NEW nm \in Reserved, NEW u, Mark(ends, d, nm, u)
               PROVE  u = t /\ d = Place[nm]
    OBVIOUS
  <2>1. d \in 0 .. 5 /\ ends[6 - d].op = nm /\ ends[6 - d].t = u
    BY <1>3
  <2>2. u = t
    BY <1>2, <1>4, <2>1
  <2>3. d # 3
    BY <1>1, <2>1 DEF Reserved
  <2>4. d = Place[ends[6 - d].op]
    BY <1>1, <1>4, <2>1, <2>3 DEF Place
  <2> QED BY <2>1, <2>2, <2>4
<1>7. /\ Mark(ends, 5, "awaitCtx", t) /\ Mark(ends, 4, "awaitWork", t) /\ Mark(ends, 2, "setDone", t)
      /\ Mark(ends, 1, "emitDone", t) /\ Mark(ends, 0, "release", t)
  BY <1>1, <1>2 DEF Mark
<1> QED BY <1>5, <1>6, <1>7

LEMMA SpawnStep ==
  ASSUME LifeInv, NEW th \in Threads, Spawn(th)
  PROVE  Starts' /\ Ends' /\ Phases'
<1> DEFINE t0 == Arg(th)
           D == Top(th)
           ends == <<Op("awaitCtx", t0), Op("awaitWork", t0), Op("close", t0),
                     Op("setDone", t0), Op("emitDone", t0), Op("release", t0)>>
<1>1. At(th, "spawn") /\ TypeOK /\ t0 \in Tasks /\ todo[th] # <<>> /\ t0 \in Threads
  BY HeadTail, Tree DEF Spawn, LifeInv, At
<1>2. /\ D \in Nat /\ Mark(todo[th], D, "spawn", t0)
      /\ \A d \in Nat : \A nm, t : Mark(todo[th], d, nm, t) =>
           d <= D /\ (d = D => nm = "spawn" /\ t = t0)
  BY <1>1, TopMark
<1>3. /\ todo[t0] = <<>> /\ status[t0] \in {"starting", "running", "stopping"}
      /\ \A r \in Threads, e \in Nat : Mark(todo[r], e, "spawn", t0) => r = th /\ e = D
  BY <1>1, <1>2 DEF LifeInv, Starts, SpawnsOnce
<1>4. t0 # th
  BY <1>1, <1>3
<1>5. status[t0] \in {"running", "stopping"} /\ t0 \in attached
  <2>1. ASSUME NEW r \in Threads, NEW d \in Nat, Mark(todo[r], d, "setRunning", t0) PROVE FALSE
    <3>1. d > 0 /\ Mark(todo[r], d - 1, "spawn", t0)
      BY <1>1, <2>1 DEF LifeInv, Starts, StartOrder
    <3>2. d - 1 \in Nat /\ r = th /\ d - 1 = D
      BY <1>3, <3>1
    <3>3. d <= D
      BY <1>2, <2>1, <3>2
    <3> QED BY <1>2, <3>2, <3>3
  <2>2. status[t0] # "starting"
    BY <1>1, <2>1 DEF LifeInv, Starts, Underway
  <2> QED BY <1>1, <1>3, <2>2 DEF LifeInv, Phases
<1>6. UNCHANGED <<status, attached, working>>
  BY DEF Spawn, runtime
<1>7. /\ todo'[t0] = ends /\ todo'[th] = Tail(todo[th])
      /\ \A r \in Threads : r # th /\ r # t0 => todo'[r] = todo[r]
  <2>1. todo' = [todo EXCEPT ![th] = Tail(@), ![t0] = ends]
    BY DEF Spawn
  <2> HIDE DEF ends, t0
  <2> QED BY <1>1, <1>4, <2>1 DEF TypeOK
<1>8. /\ \A d \in Nat, nm \in StartMarks : \A u : ~Mark(todo'[t0], d, nm, u)
      /\ \A d \in Nat, nm \in Reserved : \A u : Mark(todo'[t0], d, nm, u) => u = t0 /\ d = Place[nm]
      /\ Mark(todo'[t0], 5, "awaitCtx", t0) /\ Mark(todo'[t0], 4, "awaitWork", t0)
      /\ Mark(todo'[t0], 2, "setDone", t0)
      /\ Mark(todo'[t0], 1, "emitDone", t0) /\ Mark(todo'[t0], 0, "release", t0)
  BY <1>1, <1>7, EndCalls
<1>9. ends # <<>>
  OBVIOUS
<1> HIDE DEF t0, D, ends
<1>10. \A d \in Nat : \A nm, u : Mark(todo'[th], d, nm, u) <=> d < D /\ Mark(todo[th], d, nm, u)
  <2>1. todo[th] \in Seq(Calls) /\ Len(todo[th]) \in Nat \ {0} /\ Tail(todo[th]) \in Seq(Calls)
    BY <1>1, HeadTail
  <2> DEFINE o == <<>>
  <2>2. o \in Seq(Calls) /\ Len(o) = 0 /\ todo'[th] = o \o Tail(todo[th])
    <3>1. \A s \in Seq(Calls) : <<>> \o s = s
      OBVIOUS
    <3> QED BY <1>7, <2>1, <3>1
  <2> HIDE DEF o
  <2>3. \A j \in 1 .. Len(o) : FALSE
    BY <2>2
  <2>4. \A d \in Nat : \A nm, u :
          Mark(o \o Tail(todo[th]), d, nm, u) <=>
            \/ d < Len(todo[th]) - 1 /\ Mark(todo[th], d, nm, u)
            \/ \E j \in 1 .. Len(o) : d = Len(todo[th]) - 1 + Len(o) - j /\ o[j].op = nm /\ o[j].t = u
    <3> TAKE d \in Nat
    <3> TAKE nm, u
    <3> DEFINE V == Calls
               s == todo[th]
    <3>1. s \in Seq(V) /\ s # <<>> /\ o \in Seq(V)
      BY <1>1, <2>1, <2>2
    <3> HIDE DEF V, s
    <3>2. Mark(o \o Tail(s), d, nm, u) <=>
            \/ d < Len(s) - 1 /\ Mark(s, d, nm, u)
            \/ \E j \in 1 .. Len(o) : d = Len(s) - 1 + Len(o) - j /\ o[j].op = nm /\ o[j].t = u
      BY <3>1, Marks
    <3> QED BY <3>2 DEF s
  <2> QED BY <2>2, <2>3, <2>4 DEF D, Top
<1>11. \A d \in Nat : \A nm, u : ~Mark(todo[t0], d, nm, u)
  BY <1>3, NotEmpty
<1>12. \A r \in Threads, d \in Nat, nm \in StartMarks, t \in Tasks :
         Mark(todo'[r], d, nm, t) <=> Mark(todo[r], d, nm, t) /\ ~(r = th /\ d = D)
  <2> TAKE r \in Threads, d \in Nat, nm \in StartMarks, t \in Tasks
  <2>1. CASE r = th
    BY <1>2, <1>10, <2>1
  <2>2. CASE r = t0
    BY <1>4, <1>8, <1>11, <2>2 DEF StartMarks
  <2>3. CASE r # th /\ r # t0
    BY <1>7, <2>3
  <2> QED BY <2>1, <2>2, <2>3
<1>13. \A r \in Threads, d \in Nat, nm \in Reserved, t \in Tasks :
         r # t0 => (Mark(todo'[r], d, nm, t) <=> Mark(todo[r], d, nm, t))
  <2> TAKE r \in Threads, d \in Nat, nm \in Reserved, t \in Tasks
  <2>1. nm # "spawn"
    BY DEF Reserved
  <2>2. Mark(todo[th], d, nm, t) => d < D
    BY <1>2, <2>1
  <2> QED BY <1>7, <1>10, <2>2
<1>14. \A t \in Tasks : t # t0 => (todo'[t] = <<>> <=> todo[t] = <<>>)
  <2>1. "spawn" \in StartMarks
    BY DEF StartMarks
  <2>2. th \in Tasks => todo'[th] # <<>>
    BY <1>1, <1>10, <2>1, NotEmptied DEF D
  <2> QED BY <1>1, <1>7, <2>2, Tree
<1>15. Starts'
  <2>1. StartOrder'
    <3> SUFFICES ASSUME NEW r \in Threads, NEW d \in Nat, NEW t \in Tasks
                 PROVE  /\ Mark(todo'[r], d, "onStart", t) => d > 0 /\ Mark(todo'[r], d - 1, "setRunning", t)
                        /\ Mark(todo'[r], d, "setRunning", t) => d > 0 /\ Mark(todo'[r], d - 1, "spawn", t)
      BY DEF StartOrder
    <3>1. d > 0 => d - 1 \in Nat /\ d - 1 < d
      OBVIOUS
    <3>2. "onStart" \in StartMarks /\ "setRunning" \in StartMarks /\ "spawn" \in StartMarks
      BY DEF StartMarks
    <3>3. r = th => d <= D \/ (~Mark(todo[r], d, "onStart", t) /\ ~Mark(todo[r], d, "setRunning", t))
      BY <1>2
    <3>4. d > 0 => (r = th /\ d <= D => d - 1 # D)
      BY <1>2
    <3>5. /\ Mark(todo[r], d, "onStart", t) => d > 0 /\ Mark(todo[r], d - 1, "setRunning", t)
          /\ Mark(todo[r], d, "setRunning", t) => d > 0 /\ Mark(todo[r], d - 1, "spawn", t)
      BY DEF LifeInv, Starts, StartOrder
    <3> QED BY <1>12, <3>1, <3>2, <3>3, <3>4, <3>5
  <2>2. \A r \in Threads, d \in Nat, t \in Tasks :
          Mark(todo'[r], d, "setRunning", t) <=> Mark(todo[r], d, "setRunning", t)
    <3>1. \A d \in Nat, t \in Tasks : Mark(todo[th], d, "setRunning", t) => d # D
      BY <1>2
    <3> QED BY <1>12, <3>1 DEF StartMarks
  <2>3. Underway'
    BY <1>6, <2>2 DEF LifeInv, Starts, Underway
  <2>4. SpawnsOnce'
    <3>1. \A r \in Threads, d \in Nat, t \in Tasks :
            Mark(todo'[r], d, "spawn", t) => Mark(todo[r], d, "spawn", t) /\ t # t0
      BY <1>3, <1>12 DEF StartMarks
    <3> QED BY <1>6, <1>14, <3>1 DEF LifeInv, Starts, SpawnsOnce
  <2>5. StartedInside'
    <3> SUFFICES ASSUME NEW r \in Threads, NEW d \in Nat, NEW t \in Groups \cup Nodes,
                        Mark(todo'[r], d, "start", t) \/ Mark(todo'[r], d, "startGroup", t)
                 PROVE  \E e \in Nat : e < d /\ Mark(todo'[r], e, "setRunning", Parent(t))
      BY DEF StartedInside
    <3>1. Mark(todo[r], d, "start", t) \/ Mark(todo[r], d, "startGroup", t)
      BY <1>12, Tree DEF StartMarks
    <3>2. PICK e \in Nat : e < d /\ Mark(todo[r], e, "setRunning", Parent(t))
      BY <3>1 DEF LifeInv, Starts, StartedInside
    <3> QED BY <2>2, <3>2, Tree
  <2> QED BY <2>1, <2>3, <2>4, <2>5 DEF Starts
<1>16. ASSUME NEW t \in Tasks, t # t0
       PROVE  /\ Mark(todo'[t], 5, "awaitCtx", t) <=> Mark(todo[t], 5, "awaitCtx", t)
              /\ Mark(todo'[t], 4, "awaitWork", t) <=> Mark(todo[t], 4, "awaitWork", t)
              /\ Mark(todo'[t], 2, "setDone", t) <=> Mark(todo[t], 2, "setDone", t)
              /\ Mark(todo'[t], 1, "emitDone", t) <=> Mark(todo[t], 1, "emitDone", t)
              /\ Mark(todo'[t], 0, "release", t) <=> Mark(todo[t], 0, "release", t)
  BY <1>13, <1>16, Tree DEF Reserved
<1>17. ASSUME NEW t \in Tasks, t = t0
       PROVE  /\ Mark(todo'[t], 5, "awaitCtx", t) /\ Mark(todo'[t], 4, "awaitWork", t)
              /\ Mark(todo'[t], 2, "setDone", t) /\ Mark(todo'[t], 1, "emitDone", t)
              /\ Mark(todo'[t], 0, "release", t) /\ todo'[t] # <<>>
  BY <1>7, <1>8, <1>9, <1>17
<1>18. Ends'
  <2>1. \A r \in Threads, d \in Nat, t \in Tasks, nm \in Reserved :
          Mark(todo'[r], d, nm, t) => r = t /\ d = Place[nm]
    <3> TAKE r \in Threads, d \in Nat, t \in Tasks, nm \in Reserved
    <3>1. CASE r = t0
      BY <1>8, <3>1 DEF Reserved, Place
    <3>2. CASE r # t0
      BY <1>13, <3>2 DEF LifeInv, Ends
    <3> QED BY <3>1, <3>2
  <2> QED BY <1>14, <1>16, <1>17, <2>1 DEF LifeInv, Ends
<1>19. Phases'
  <2>1. \A t \in Tasks : Idle(t)' <=> Idle(t)
    BY <1>6 DEF Idle
  <2>2. status[t0] # "done" /\ status[t0] # "created"
    BY <1>5
  <2> HIDE DEF Idle
  <2>3. ASSUME NEW t \in Tasks, t # t0
        PROVE  /\ todo'[t] # <<>> \/ status[t] \in {"starting", "running", "stopping"} => t \in attached
               /\ t \in attached \/ t \in working => status[t] # "created"
               /\ Mark(todo'[t], 5, "awaitCtx", t) => status[t] \in {"running", "stopping"}
               /\ Mark(todo'[t], 2, "setDone", t) =>
                    IF Mark(todo'[t], 5, "awaitCtx", t) THEN status[t] \in {"running", "stopping"}
                    ELSE status[t] = "stopping"
               /\ Mark(todo'[t], 2, "setDone", t) /\ ~Mark(todo'[t], 4, "awaitWork", t) => Idle(t)
               /\ todo'[t] # <<>> /\ ~Mark(todo'[t], 2, "setDone", t) => status[t] = "done"
               /\ status[t] = "done" => Idle(t)
    BY <1>14, <1>16, <2>3 DEF LifeInv, Phases
  <2> QED BY <1>5, <1>6, <1>17, <2>1, <2>2, <2>3 DEF Phases
<1> QED BY <1>15, <1>18, <1>19

-----------------------------------------------------------------------------
(* The life of every task *)

(* The operations of neither a start nor the end of a task.                    *)
LEMMA OtherStep ==
  ASSUME LifeInv, NEW th \in Threads, ThreadStep(th), ~Starting(th),
         ~(SetRunning(th) \/ Stop(th) \/ AwaitCtx(th) \/ AwaitWork(th) \/ SetDone(th) \/ EmitDone(th) \/ Release(th))
  PROVE  Keeps /\ UNCHANGED <<status, attached, working>>
<1>1. /\ UNCHANGED <<status, attached, working>>
      /\ \/ At(th, "new") \/ At(th, "newTask") \/ At(th, "store") \/ At(th, "cancel") \/ At(th, "onStop")
         \/ At(th, "close") \/ At(th, "closed") \/ At(th, "disconnectParents")
         \/ At(th, "disconnectChildren") \/ At(th, "disconnectNodes") \/ At(th, "remove")
         \/ At(th, "parents") \/ At(th, "children") \/ At(th, "addChild") \/ At(th, "addParent")
         \/ At(th, "removeChild") \/ At(th, "removeParent") \/ At(th, "unwatchChild")
         \/ At(th, "unwatchParent")
  <2>1. CASE New(th) \/ NewTask(th) \/ Store(th) \/ Cancel(th) \/ OnStop(th) \/ Close(th) \/ Closed(th)
    BY <2>1 DEF New, NewTask, Store, Cancel, OnStop, Close, Closed, runtime
  <2>2. CASE DisconnectParents(th) \/ DisconnectChildren(th) \/ DisconnectNodes(th) \/ RemoveMember(th)
    BY <2>2 DEF DisconnectParents, DisconnectChildren, DisconnectNodes, RemoveMember, runtime
  <2>3. CASE WatchedParents(th) \/ WatchedChildren(th)
    BY <2>3 DEF WatchedParents, WatchedChildren, Watched, runtime
  <2>4. CASE \/ AddChild(th) \/ AddParent(th) \/ RemoveChild(th) \/ RemoveParent(th)
             \/ UnwatchChild(th) \/ UnwatchParent(th)
    BY <2>4 DEF AddChild, AddParent, RemoveChild, RemoveParent, UnwatchChild, UnwatchParent, Unwatch, runtime
  <2> QED BY <2>1, <2>2, <2>3, <2>4 DEF ThreadStep, Starting
<1>2. PICK name : At(th, name) /\ name \notin Marked
  BY <1>1 DEF Marked, Reserved
<1>3. Quiet(th)
  BY Quietness DEF LifeInv
<1> QED BY <1>1, <1>2, <1>3, QuietKeeps DEF LifeInv

LEMMA LifeStep == LifeInv /\ [Next]_vars => LifeInv'
<1> SUFFICES ASSUME LifeInv, [Next]_vars PROVE Starts' /\ Ends' /\ Phases'
  BY TypeStep DEF LifeInv
<1>1. ASSUME NEW th \in Threads, ThreadStep(th) PROVE Starts' /\ Ends' /\ Phases'
  <2>1. CASE Starting(th)
    BY <2>1, StartGroupStep, StartStep, OnStartStep, SpawnStep DEF Starting
  <2>2. CASE SetRunning(th) \/ Stop(th)
    BY <2>2, SetRunningStep, StopStep
  <2>3. CASE AwaitCtx(th) \/ AwaitWork(th) \/ SetDone(th) \/ EmitDone(th) \/ Release(th)
    BY <2>3, AwaitCtxStep, AwaitWorkStep, SetDoneStep, EmitDoneStep, ReleaseStep
  <2>4. CASE ~Starting(th) /\ ~(SetRunning(th) \/ Stop(th) \/ AwaitCtx(th) \/ AwaitWork(th) \/ SetDone(th) \/ EmitDone(th) \/ Release(th))
    BY <1>1, <2>4, OtherStep, KeepAll
  <2> QED BY <2>1, <2>2, <2>3, <2>4
<1>2. CASE UNCHANGED <<todo, status, attached>> /\ working' \subseteq working
  <2>1. Keeps
    BY <1>2 DEF Keeps
  <2> QED BY <1>2, <2>1, KeepAll
<1>3. ASSUME NEW n \in Nodes, NoderCancel(n) \/ NoderExit(n)
      PROVE  UNCHANGED <<todo, status, attached>> /\ working' \subseteq working
  BY <1>3 DEF NoderCancel, NoderExit
<1> QED BY <1>1, <1>2, <1>3 DEF Next, vars

(* Groups are started by their flow alone: a user who starts a group after the   *)
(* flow's status was read may start it in a flow that has ended, which is the    *)
(* race of Group.Start.                                                      *)
OnlyFlowStarts ==
  \A u \in Users : \A p \in Programs[u] : \A i \in DOMAIN p : p[i].op # "startGroup"

LEMMA LifeInit == OnlyFlowStarts /\ Init => LifeInv
<1> SUFFICES ASSUME OnlyFlowStarts, Init PROVE Starts /\ Ends /\ Phases
  BY TypeInit DEF LifeInv
<1>1. \A t \in Tasks : todo[t] = <<>>
  BY Tree DEF Init
<1>2. /\ \A t \in Tasks : status[t] = "created"
      /\ attached = {} /\ working = {}
  BY DEF Init
<1>3. \A u \in Users : /\ todo[u] \in Seq(UserCalls)
                      /\ \A i \in DOMAIN todo[u] : todo[u][i].op # "startGroup"
  <2>1. PICK p \in [Users -> UNION {Programs[u] : u \in Users}] :
          /\ \A u \in Users : p[u] \in Programs[u]
          /\ todo = [th \in Threads |-> IF th \in Users THEN p[th] ELSE <<>>]
    BY DEF Init
  <2>2. \A u \in Users : todo[u] = p[u]
    BY <2>1 DEF Threads
  <2> QED BY <2>1, <2>2, FlowAssumption DEF OnlyFlowStarts
<1>4. \A x \in UserCalls : x.op \in Marked /\ x.op # "startGroup" => x.op = "start" /\ x.t = F
  BY DEF UserCalls, Marked, Reserved
<1>5. ASSUME NEW r \in Threads, NEW d \in Nat, NEW nm \in Marked, NEW t \in Tasks, Mark(todo[r], d, nm, t)
      PROVE  nm = "start" /\ t = F
  <2>1. r \in Users
    BY <1>1, <1>5, NotEmpty DEF Threads
  <2>2. Len(todo[r]) - d \in DOMAIN todo[r]
    BY <1>3, <1>5, <2>1 DEF Mark
  <2>3. todo[r][Len(todo[r]) - d] \in UserCalls
    BY <1>3, <2>1, <2>2
  <2> DEFINE c == todo[r][Len(todo[r]) - d]
  <2>4. c.op = nm /\ c.t = t
    BY <1>5 DEF Mark
  <2>5. c.op # "startGroup"
    BY <1>3, <2>1, <2>2
  <2>6. c \in UserCalls
    BY <2>3
  <2> HIDE DEF c
  <2>7. c.op \in Marked
    BY <2>4
  <2>8. c.op = "start" /\ c.t = F
    BY ONLY <1>4, <2>5, <2>6, <2>7
  <2> QED BY <2>4, <2>8
<1>6. \A r \in Threads, d \in Nat, t \in Tasks :
        /\ ~Mark(todo[r], d, "onStart", t) /\ ~Mark(todo[r], d, "setRunning", t)
        /\ ~Mark(todo[r], d, "spawn", t) /\ ~Mark(todo[r], d, "startGroup", t)
        /\ Mark(todo[r], d, "start", t) => t = F
  <2>1. {"onStart", "setRunning", "spawn", "startGroup", "start"} \subseteq Marked
    BY DEF Marked
  <2> QED BY <1>5, <2>1
<1>7. Starts
  BY <1>2, <1>6, Tree DEF Starts, StartOrder, Underway, SpawnsOnce, StartedInside
<1>8. \A r \in Threads, d \in Nat, nm \in Reserved, t \in Tasks : ~Mark(todo[r], d, nm, t)
  BY <1>5 DEF Marked, Reserved
<1>9. Ends
  BY <1>1, <1>8, Tree, NotEmpty DEF Ends
<1>10. Phases
  BY <1>1, <1>2, NotEmpty DEF Phases
<1> QED BY <1>7, <1>9, <1>10

LEMMA LifeHolds == OnlyFlowStarts => (Spec => []LifeInv)
<1>1. CASE OnlyFlowStarts
  <2>1. Init => LifeInv
    BY <1>1, LifeInit
  <2> QED BY <2>1, LifeStep, PTL DEF Spec
<1> QED BY <1>1

(* Whatever the users call, if they leave the start of groups to their flow: a   *)
(* task that is done leaves no task behind it that still starts, runs or stops.  *)
(* Its goroutine waited for them, and none is started once it does not start any *)
(* more itself.                                                               *)
THEOREM NothingOutlives == OnlyFlowStarts => (Spec => []NothingOutlivesItsParent)
<1>1. LifeInv => NothingOutlivesItsParent
  <2> SUFFICES ASSUME LifeInv, NEW t \in Tasks \ {F}, status[Parent(t)] = "done"
               PROVE  status[t] \in {"created", "done"}
    BY DEF NothingOutlivesItsParent
  <2>1. t \in Subs(Parent(t)) /\ Parent(t) \in Tasks
    BY Tree DEF Tasks
  <2>2. t \notin attached
    BY <2>1 DEF LifeInv, Phases, Idle
  <2> QED BY <2>2 DEF LifeInv, Phases, TypeOK
<1>2. CASE OnlyFlowStarts
  BY <1>1, <1>2, LifeHolds, PTL
<1> QED BY <1>2

-----------------------------------------------------------------------------
(* Every task keeps a task's promise *)

Kept(t) == Life(t)!LNext \/ UNCHANGED Life(t)!lvars

LEMMA Unmoved ==
  ASSUME NEW t \in Tasks, status'[t] = status[t], Busy(t)' <=> Busy(t), t \in attached' <=> t \in attached
  PROVE  Kept(t)
<1>1. Busy(t)' = Busy(t) /\ (status'[t] = "done" /\ t \notin attached') = (status[t] = "done" /\ t \notin attached)
  <2>1. Busy(t) \in BOOLEAN /\ Busy(t)' \in BOOLEAN
    BY DEF Busy
  <2> QED BY <2>1
<1> QED BY <1>1 DEF Kept, Life!lvars

LEMMA Moved ==
  ASSUME NEW t \in Tasks, Busy(t)' <=> Busy(t),
         \/ status[t] = "created" /\ status'[t] = "starting"
         \/ status[t] = "starting" /\ status'[t] = "running"
         \/ status[t] = "running" /\ status'[t] = "stopping"
  PROVE  Kept(t)
<1>1. Busy(t)' = Busy(t) /\ (status'[t] = "done" /\ t \notin attached') = (status[t] = "done" /\ t \notin attached)
  <2>1. Busy(t) \in BOOLEAN /\ Busy(t)' \in BOOLEAN
    BY DEF Busy
  <2> QED BY <2>1
<1> QED BY <1>1 DEF Kept, Life!LNext, Life!LStart, Life!LRun, Life!LStop, Life!Advance

LEMMA Loaded ==
  ASSUME NEW t \in Tasks, Busy(t)', status'[t] = status[t], status[t] \in {"starting", "running"}
  PROVE  Kept(t)
<1>1. Busy(t)' = TRUE /\ (status'[t] = "done" /\ t \notin attached') = (status[t] = "done" /\ t \notin attached)
  OBVIOUS
<1> QED BY <1>1 DEF Kept, Life!LNext, Life!LLoad

LEMMA Unloaded ==
  ASSUME NEW t \in Tasks, Busy(t), status'[t] = status[t], t \in attached' <=> t \in attached
  PROVE  Kept(t)
<1>1. (status'[t] = "done" /\ t \notin attached') = (status[t] = "done" /\ t \notin attached)
  OBVIOUS
<1>2. CASE ~Busy(t)'
  <2>1. Busy(t)' = FALSE
    BY <1>2
  <2> QED BY <1>1, <2>1 DEF Kept, Life!LNext, Life!LUnload
<1>3. CASE Busy(t)'
  BY <1>3, Unmoved
<1> QED BY <1>2, <1>3

LEMMA Finished ==
  ASSUME NEW t \in Tasks, ~Busy(t), ~Busy(t)', status[t] = "stopping", status'[t] = "done", t \in attached'
  PROVE  Kept(t)
<1>1. Busy(t)' = Busy(t) /\ (status'[t] = "done" /\ t \notin attached') = (status[t] = "done" /\ t \notin attached)
  <2>1. Busy(t) \in BOOLEAN /\ Busy(t)' \in BOOLEAN
    BY DEF Busy
  <2> QED BY <2>1
<1> QED BY <1>1 DEF Kept, Life!LNext, Life!LFinish, Life!Advance

LEMMA LetGo ==
  ASSUME NEW t \in Tasks, Busy(t)' <=> Busy(t), status'[t] = status[t], status[t] = "done",
         t \in attached, t \notin attached'
  PROVE  Kept(t)
<1>1. /\ Busy(t)' = Busy(t) /\ (status'[t] = "done" /\ t \notin attached') = TRUE
      /\ ~(status[t] = "done" /\ t \notin attached)
  <2>1. Busy(t) \in BOOLEAN /\ Busy(t)' \in BOOLEAN
    BY DEF Busy
  <2> QED BY <2>1
<1> QED BY <1>1 DEF Kept, Life!LNext, Life!LRelease

LEMMA NotItsOwn ==
  ASSUME NEW t \in Tasks
  PROVE  t \notin Subs(t) /\ \A p : t \in Subs(p) => t # F /\ p = Parent(t)
BY FlowAssumption DEF Subs, Parent

LEMMA StartKept ==
  ASSUME LifeInv, NEW th \in Threads, Start(th), NEW t \in Tasks
  PROVE  Kept(t)
<1> DEFINE t0 == Arg(th)
<1>1. At(th, "start") /\ TypeOK /\ t0 \in Tasks
  BY HeadTail DEF Start, LifeInv, At
<1>2. CASE status[t0] # "created"
  <2>1. UNCHANGED <<status, attached, working>>
    BY <1>2 DEF Start
  <2> QED BY <2>1, Unmoved DEF Busy
<1>3. CASE status[t0] = "created"
  <2>1. /\ UNCHANGED working /\ attached' = attached \cup {t0}
        /\ status'[t0] = "starting" /\ \A c \in Tasks : c # t0 => status'[c] = status[c]
    BY <1>1, <1>3 DEF Start, TypeOK
  <2>2. CASE t = t0
    <3>1. Busy(t)' <=> Busy(t)
      BY <1>1, <2>1, <2>2, NotItsOwn DEF Busy
    <3> QED BY <1>3, <2>1, <2>2, <3>1, Moved
  <2>3. CASE t # t0 /\ t0 \in Subs(t)
    <3>1. status[t] = "starting"
      BY <1>1, <2>3, NotItsOwn, StartedWhen
    <3>2. Busy(t)'
      BY <2>1, <2>3 DEF Busy
    <3> QED BY <2>1, <2>3, <3>1, <3>2, Loaded
  <2>4. CASE t # t0 /\ t0 \notin Subs(t)
    <3>1. Busy(t)' <=> Busy(t)
      BY <2>1, <2>4 DEF Busy
    <3> QED BY <2>1, <2>4, <3>1, Unmoved
  <2> QED BY <2>2, <2>3, <2>4
<1> QED BY <1>2, <1>3

LEMMA OnStartKept ==
  ASSUME LifeInv, NEW th \in Threads, OnStart(th), NEW t \in Tasks
  PROVE  Kept(t)
<1> DEFINE t0 == Arg(th)
<1>1. At(th, "onStart") /\ TypeOK /\ t0 \in Tasks
  BY HeadTail DEF OnStart, LifeInv, At
<1>2. UNCHANGED <<status, attached>> /\ working' = working \cup ({t0} \cap Nodes)
  BY DEF OnStart
<1>3. CASE t = t0 /\ t \in Nodes
  <2>1. Top(th) \in Nat /\ Mark(todo[th], Top(th), "onStart", t0)
    BY <1>1, TopMark
  <2>2. Top(th) > 0 /\ Mark(todo[th], Top(th) - 1, "setRunning", t0)
    BY <1>1, <2>1 DEF LifeInv, Starts, StartOrder
  <2>3. Top(th) - 1 \in Nat
    BY <2>1, <2>2
  <2>4. status[t] = "starting"
    BY <1>1, <1>3, <2>2, <2>3 DEF LifeInv, Starts, Underway
  <2>5. Busy(t)'
    BY <1>2, <1>3 DEF Busy
  <2> QED BY <1>2, <2>4, <2>5, Loaded
<1>4. CASE ~(t = t0 /\ t \in Nodes)
  <2>1. Busy(t)' <=> Busy(t)
    BY <1>2, <1>4 DEF Busy
  <2> QED BY <1>2, <2>1, Unmoved
<1> QED BY <1>3, <1>4

LEMMA StatusKept ==
  ASSUME LifeInv, NEW th \in Threads, NEW t \in Tasks,
         SetRunning(th) \/ Stop(th) \/ AwaitCtx(th) \/ SetDone(th)
  PROVE  Kept(t)
<1> DEFINE t0 == Arg(th)
<1>1. TypeOK /\ t0 \in Tasks
  BY HeadTail DEF SetRunning, Stop, AwaitCtx, SetDone, LifeInv, At
<1>2. UNCHANGED <<attached, working>>
  BY DEF SetRunning, Stop, AwaitCtx, SetDone
<1>3. Busy(t)' <=> Busy(t)
  BY <1>2 DEF Busy
<1>4. CASE SetRunning(th)
  <2>1. At(th, "setRunning")
    BY <1>4 DEF SetRunning
  <2>2. status[t0] = "starting"
    <3>1. Top(th) \in Nat /\ Mark(todo[th], Top(th), "setRunning", t0)
      BY <1>1, <2>1, TopMark
    <3> QED BY <1>1, <3>1 DEF LifeInv, Starts, Underway
  <2>3. status'[t0] = "running" /\ \A c \in Tasks : c # t0 => status'[c] = status[c]
    BY <1>1, <1>4 DEF SetRunning, TypeOK
  <2> QED BY <1>2, <1>3, <2>2, <2>3, Moved, Unmoved
<1>5. CASE Stop(th) \/ AwaitCtx(th)
  <2>1. \/ UNCHANGED status
        \/ status[t0] = "running" /\ status' = [status EXCEPT ![t0] = "stopping"]
    BY <1>5 DEF Stop, AwaitCtx, Stopping
  <2>2. \/ status'[t] = status[t]
        \/ status[t] = "running" /\ status'[t] = "stopping"
    BY <1>1, <2>1 DEF TypeOK
  <2> QED BY <1>2, <1>3, <2>2, Moved, Unmoved
<1>6. CASE SetDone(th)
  <2>1. th = t0 /\ status[th] = "stopping" /\ Idle(th) /\ th \in attached
    BY <1>6, DoneFrom
  <2>2. status'[th] = "done" /\ \A c \in Tasks : c # th => status'[c] = status[c]
    BY <1>1, <1>6, <2>1 DEF SetDone, TypeOK
  <2>3. ~Busy(th)
    BY <2>1 DEF Busy, Idle
  <2>4. CASE t = th
    BY <1>2, <1>3, <2>1, <2>2, <2>3, <2>4, Finished
  <2>5. CASE t # th
    BY <1>2, <1>3, <2>2, <2>5, Unmoved
  <2> QED BY <2>4, <2>5
<1> QED BY <1>4, <1>5, <1>6

LEMMA ReleaseKept ==
  ASSUME LifeInv, NEW th \in Threads, Release(th), NEW t \in Tasks
  PROVE  Kept(t)
<1>1. th \in Tasks /\ th = Arg(th) /\ status[th] = "done" /\ th \in attached
  BY ReleasedWhen
<1>2. attached' = attached \ {th} /\ UNCHANGED <<status, working>>
  BY <1>1 DEF Release
<1>3. CASE t = th
  <2>1. Busy(t)' <=> Busy(t)
    BY <1>2, <1>3, NotItsOwn DEF Busy
  <2> QED BY <1>1, <1>2, <1>3, <2>1, LetGo
<1>4. CASE t # th /\ th \in Subs(t)
  <2>1. Busy(t)
    BY <1>1, <1>4 DEF Busy
  <2> QED BY <1>2, <1>4, <2>1, Unloaded
<1>5. CASE t # th /\ th \notin Subs(t)
  <2>1. Busy(t)' <=> Busy(t)
    BY <1>2, <1>5 DEF Busy
  <2> QED BY <1>2, <1>5, <2>1, Unmoved
<1> QED BY <1>3, <1>4, <1>5

LEMMA RestKept ==
  ASSUME LifeInv, NEW th \in Threads, ThreadStep(th), NEW t \in Tasks,
         ~Start(th), ~OnStart(th), ~Release(th),
         ~(SetRunning(th) \/ Stop(th) \/ AwaitCtx(th) \/ SetDone(th))
  PROVE  Kept(t)
<1>1. UNCHANGED <<status, attached, working>>
  <2>1. CASE StartGroup(th) \/ Spawn(th) \/ AwaitWork(th) \/ EmitDone(th)
    BY <2>1 DEF StartGroup, Spawn, AwaitWork, EmitDone, runtime
  <2>2. CASE ~(StartGroup(th) \/ Spawn(th) \/ AwaitWork(th) \/ EmitDone(th))
    BY <2>2, OtherStep DEF Starting
  <2> QED BY <2>1, <2>2
<1>2. Busy(t)' <=> Busy(t)
  BY <1>1 DEF Busy
<1> QED BY <1>1, <1>2, Unmoved

LEMMA KeptStep == LifeInv /\ [Next]_vars => \A t \in Tasks : Kept(t)
<1> SUFFICES ASSUME LifeInv, [Next]_vars, NEW t \in Tasks PROVE Kept(t)
  OBVIOUS
<1>1. ASSUME NEW th \in Threads, ThreadStep(th) PROVE Kept(t)
  BY <1>1, StartKept, OnStartKept, StatusKept, ReleaseKept, RestKept
<1>2. CASE UNCHANGED <<status, attached, working>>
  <2>1. Busy(t)' <=> Busy(t)
    BY <1>2 DEF Busy
  <2> QED BY <1>2, <2>1, Unmoved
<1>3. ASSUME NEW n \in Nodes, NoderExit(n) PROVE Kept(t)
  <2>1. n \in working /\ working' = working \ {n} /\ UNCHANGED <<status, attached>>
    BY <1>3 DEF NoderExit
  <2>2. CASE t = n
    <3>1. Busy(t)
      BY <2>1, <2>2 DEF Busy
    <3> QED BY <2>1, <3>1, Unloaded
  <2>3. CASE t # n
    <3>1. Busy(t)' <=> Busy(t)
      BY <2>1, <2>3 DEF Busy
    <3> QED BY <2>1, <3>1, Unmoved
  <2> QED BY <2>2, <2>3
<1>4. ASSUME NEW n \in Nodes, NoderCancel(n) PROVE UNCHANGED <<status, attached, working>>
  BY <1>4 DEF NoderCancel
<1> QED BY <1>1, <1>2, <1>3, <1>4 DEF Next, vars

LEMMA KeptInit == Init => \A t \in Tasks : Life(t)!LInit
<1> SUFFICES ASSUME Init, NEW t \in Tasks PROVE Life(t)!LInit
  OBVIOUS
<1>1. status[t] = "created" /\ ~Busy(t)
  BY DEF Init, Busy
<1>2. Busy(t) = FALSE /\ (status[t] = "done" /\ t \notin attached) = FALSE
  BY <1>1
<1> QED BY <1>1, <1>2 DEF Life!LInit

(* Every task of a tree implements the lifecycle, each step of the flow a step   *)
(* or a stutter of each task: statuses in order, work handed over only while it *)
(* starts or runs, done only with no sub-task left and released only when done. *)
THEOREM EachKeepsItsPromise == OnlyFlowStarts => (Spec => EachImplementsLifecycle)
<1>1. CASE OnlyFlowStarts
  <2>1. LifeInv /\ [Next]_vars => (\A t \in Tasks : Life(t)!LNext \/ UNCHANGED Life(t)!lvars)
    BY KeptStep DEF Kept
  <2>2. Init => \A t \in Tasks : Life(t)!LInit
    BY KeptInit
  <2>3. Spec => []LifeInv
    BY <1>1, LifeHolds
  <2> QED BY <2>1, <2>2, <2>3, PTL DEF Spec, EachImplementsLifecycle
<1> QED BY <1>1

---------------------------------------------------------------------------
(* The end of what a flow holds: when resources are freed, why nodes stop,  *)
(* and what is left of their connections.                                  *)

(* The call that a stack has above d others.                                  *)
Has(s, d, c) == Len(s) - d \in 1 .. Len(s) /\ s[Len(s) - d] = c

(* The calls that an operation makes.                                         *)
Makes(c, x) ==
  LET t == c.t
  IN \/ c.op = "new" /\ x \in {Op("newTask", t), Op("store", t)}
     \/ c.op = "startGroup" /\ x = Op("start", t)
     \/ c.op = "start" /\ status[t] = "created" /\ x.op \in {"onStart", "setRunning", "spawn"} /\ x.t = t
     \/ /\ c.op = "onStart" /\ t \in {F} \cup Groups
        /\ x.op \in {"start", "startGroup"} /\ x.t \in ToSet(members[t])
     \/ c.op \in {"stop", "awaitCtx"} /\ status[t] = "running" /\ x \in {Op("cancel", t), Op("onStop", t)}
     \/ c.op = "onStop" /\ x.op = "stop" /\ x.t \in Subs(t) /\ (t \in Groups => x.t \in WhenGroupStops)
     \/ /\ c.op = "close"
        /\ x \in {Op("cancel", t), Op("closed", t)} \/ (x.op = "close" /\ x.t \in Subs(t))
     \/ c.op = "emitDone" /\ (\/ x.op = "remove"
                              \/ t \in Nodes /\ x \in {Op("disconnectParents", t), Op("disconnectChildren", t)}
                              \/ t \in Nodes /\ \E w \in ToSet(watchers[t]) : x = Op(w.kind, w.by))
     \/ /\ c.op = "disconnectParents"
        /\ \E p \in parents[t] : x \in {Op2("removeChild", p, t), Op2("removeParent", t, p)}
     \/ /\ c.op = "disconnectChildren"
        /\ \E m \in children[t] : x \in {Op2("removeChild", t, m), Op2("removeParent", m, t)}
     \/ c.op = "disconnectNodes" /\ x.op \in {"disconnectParents", "disconnectChildren"} /\ x.t \in Subs(t)
     \/ c.op = "remove" /\ x = Op("stop", Parent(t))
     \/ c.op = "parents" /\ x = Op("stop", t) /\ \A m \in parents[t] : status[m] = "done"
     \/ c.op = "children" /\ x = Op("stop", t) /\ \A m \in children[t] : status[m] = "done"
     \/ c.op = "removeChild" /\ x = Op2("unwatchChild", t, c.u)
     \/ c.op = "removeParent" /\ x = Op2("unwatchParent", t, c.u)

Made(c) == {x \in Calls : Makes(c, x)}

-----------------------------------------------------------------------------
(* What a step leaves on the stacks *)

LEMMA Items ==
  ASSUME NEW V, NEW s \in Seq(V), s # <<>>, NEW ops \in Seq(V), NEW d \in Nat, NEW c
  PROVE  Has(ops \o Tail(s), d, c) <=>
           \/ d < Len(s) - 1 /\ Has(s, d, c)
           \/ \E j \in 1 .. Len(ops) : d = Len(s) - 1 + Len(ops) - j /\ ops[j] = c
<1> DEFINE n == ops \o Tail(s)
<1>1. /\ Len(s) \in Nat \ {0} /\ Len(ops) \in Nat
      /\ Tail(s) \in Seq(V) /\ Len(Tail(s)) = Len(s) - 1
      /\ \A i \in 1 .. Len(s) - 1 : Tail(s)[i] = s[i + 1]
  OBVIOUS
<1>2. /\ Len(n) = Len(ops) + Len(s) - 1
      /\ \A i \in 1 .. Len(ops) : n[i] = ops[i]
      /\ \A i \in 1 .. Len(ops) + Len(s) - 1 : i > Len(ops) => n[i] = Tail(s)[i - Len(ops)]
  BY <1>1
<1> HIDE DEF n
<1>3. CASE d < Len(s) - 1
  <2>1. /\ Len(n) - d \in 1 .. Len(n) /\ Len(n) - d > Len(ops)
        /\ Len(n) - d - Len(ops) \in 1 .. Len(s) - 1
        /\ Len(n) - d - Len(ops) + 1 = Len(s) - d /\ Len(s) - d \in 1 .. Len(s)
    BY <1>1, <1>2, <1>3
  <2>2. n[Len(n) - d] = s[Len(s) - d]
    BY <1>1, <1>2, <2>1
  <2>3. \A j \in 1 .. Len(ops) : d # Len(s) - 1 + Len(ops) - j
    BY <1>1, <1>3
  <2> QED BY <1>3, <2>1, <2>2, <2>3 DEF Has, n
<1>4. CASE ~(d < Len(s) - 1)
  <2> DEFINE j == Len(n) - d
  <2>1. j \in 1 .. Len(n) <=> j \in 1 .. Len(ops)
    BY <1>1, <1>2, <1>4
  <2>2. \A k \in 1 .. Len(ops) : d = Len(s) - 1 + Len(ops) - k <=> k = j
    BY <1>1, <1>2
  <2>3. j \in 1 .. Len(ops) => n[j] = ops[j]
    BY <1>2
  <2> HIDE DEF j
  <2>4. Has(n, d, c) <=> j \in 1 .. Len(ops) /\ ops[j] = c
    BY <2>1, <2>3 DEF Has, j
  <2> QED BY <1>4, <2>2, <2>4 DEF n
<1> QED BY <1>3, <1>4

(* The calls an operation makes replace it on its goroutine's stack.           *)
LEMMA Stacks ==
  ASSUME TypeOK, NEW th \in Threads, todo[th] # <<>>, NEW ops \in Seq(Calls), Call(th, ops)
  PROVE  /\ \A r \in Threads : r # th => todo'[r] = todo[r]
         /\ \A d \in Nat : \A c :
              Has(todo'[th], d, c) <=>
                \/ d < Top(th) /\ Has(todo[th], d, c)
                \/ \E j \in 1 .. Len(ops) : d = Top(th) + Len(ops) - j /\ ops[j] = c
<1>1. /\ todo[th] \in Seq(Calls) /\ Len(todo[th]) \in Nat \ {0} /\ todo \in [Threads -> Seq(Calls)]
  BY HeadTail DEF TypeOK
<1>2. todo'[th] = ops \o Tail(todo[th]) /\ \A r \in Threads : r # th => todo'[r] = todo[r]
  BY <1>1 DEF Call
<1> QED BY <1>1, <1>2, Items DEF Top

LEMMA TopItem ==
  ASSUME TypeOK, NEW th \in Threads, todo[th] # <<>>
  PROVE  /\ Top(th) \in Nat /\ Has(todo[th], Top(th), Head(todo[th])) /\ Head(todo[th]) \in Calls
         /\ \A d \in Nat : \A c : Has(todo[th], d, c) =>
              d <= Top(th) /\ (d = Top(th) => c = Head(todo[th]))
<1>1. /\ Len(todo[th]) \in Nat \ {0} /\ Head(todo[th]) = todo[th][1] /\ Head(todo[th]) \in Calls
  BY HeadTail
<1>2. Len(todo[th]) - Top(th) = 1
  BY <1>1 DEF Top
<1> QED BY <1>1, <1>2 DEF Top, Has

LEMMA ItemMark ==
  ASSUME NEW s, NEW d, NEW c
  PROVE  /\ Has(s, d, c) => Mark(s, d, c.op, c.t)
         /\ \A name, t : Mark(s, d, name, t) => \E x : Has(s, d, x) /\ x.op = name /\ x.t = t
BY DEF Has, Mark

-----------------------------------------------------------------------------
(* What operations call *)

LEMMA OwnSet ==
  ASSUME NEW V, NEW s \in Seq(V)
  PROVE  s \in Seq(ToSet(s))
<1>1. DOMAIN s = 1 .. Len(s) /\ Len(s) \in Nat
  OBVIOUS
<1>2. \A i \in 1 .. Len(s) : s[i] \in ToSet(s)
  BY <1>1 DEF ToSet
<1>3. s = [i \in 1 .. Len(s) |-> s[i]]
  OBVIOUS
<1> QED BY <1>1, <1>2, <1>3

LEMMA EachIn ==
  ASSUME NEW S, NEW W, NEW s \in Seq(S), NEW name, \A e \in S : Op(name, e) \in W
  PROVE  Each(name, s) \in Seq(W)
<1>1. DOMAIN s = 1 .. Len(s) /\ Len(s) \in Nat /\ \A i \in 1 .. Len(s) : s[i] \in S
  OBVIOUS
<1> QED BY <1>1 DEF Each

LEMMA FlattenIn ==
  ASSUME NEW W, NEW seqs \in Seq(Seq(W))
  PROVE  FlattenSeq(seqs) \in Seq(W)
<1> DEFINE C == Seq(W)
<1>1. C \in SUBSET Seq(W) /\ <<>> \in C /\ \A a, b \in C : a \o b \in C
  OBVIOUS
<1>2. seqs \in Seq(C)
  OBVIOUS
<1> HIDE DEF C
<1>3. FlattenSeq(seqs) \in C
  BY <1>1, <1>2, FlattenProperties
<1> QED BY <1>3 DEF C

(* A call of a name is made of what it says.                                   *)
LEMMA OpParts ==
  ASSUME NEW name, NEW t, NEW u
  PROVE  Op(name, t).op = name /\ Op(name, t).t = t
         /\ Op2(name, t, u).op = name /\ Op2(name, t, u).t = t /\ Op2(name, t, u).u = u
BY DEF Op, Op2

Making(th) == \E ops \in Seq(Made(Head(todo[th]))) : Call(th, ops)

LEMMA MakesNothing ==
  ASSUME NEW th, Return(th)
  PROVE  Making(th)
<1>1. <<>> \in Seq(Made(Head(todo[th])))
  OBVIOUS
<1> QED BY <1>1 DEF Making, Return

LEMMA HeadOf ==
  ASSUME TypeOK, NEW th \in Threads, NEW name, At(th, name)
  PROVE  /\ todo[th] # <<>> /\ Head(todo[th]) \in Calls
         /\ Head(todo[th]).op = name /\ Head(todo[th]).t = Arg(th) /\ Head(todo[th]).u = Arg2(th)
         /\ Arg(th) \in Tasks
BY HeadTail DEF At, Arg, Arg2

LEMMA NewMakes ==
  ASSUME TypeOK, NEW th \in Threads, New(th)
  PROVE  Making(th)
<1> DEFINE c == Head(todo[th])
           t == Arg(th)
<1>1. At(th, "new") /\ c.op = "new" /\ c.t = t /\ t \in Groups \cup Nodes /\ t \in Tasks
  BY Arguments, HeadOf DEF New
<1>2. Op("newTask", t) \in Made(c) /\ Op("store", t) \in Made(c)
  BY <1>1, QuietOp DEF Made, Makes, QuietCalls
<1>3. <<Op("newTask", t), Op("store", t)>> \in Seq(Made(c))
  BY <1>2
<1>4. CASE Call(th, <<Op("newTask", t), Op("store", t)>>)
  BY <1>3, <1>4 DEF Making
<1> QED BY <1>4, MakesNothing DEF New

LEMMA StartMakes ==
  ASSUME TypeOK, NEW th \in Threads, StartGroup(th) \/ Start(th)
  PROVE  Making(th)
<1> DEFINE c == Head(todo[th])
           t == Arg(th)
<1>1. CASE StartGroup(th)
  <2>1. c.op = "startGroup" /\ c.t = t /\ t \in Tasks
    BY <1>1, HeadOf DEF StartGroup
  <2>2. Op("start", t) \in Made(c)
    BY <2>1, StartOp DEF Made, Makes
  <2>3. <<Op("start", t)>> \in Seq(Made(c))
    BY <2>2
  <2>4. CASE Call(th, <<Op("start", t)>>)
    BY <2>3, <2>4 DEF Making
  <2> QED BY <1>1, <2>4, MakesNothing DEF StartGroup
<1>2. CASE Start(th) /\ status[t] = "created"
  <2>1. c.op = "start" /\ c.t = t /\ t \in Tasks /\ status[c.t] = "created"
    BY <1>2, HeadOf DEF Start
  <2>2. Op("onStart", t) \in Made(c) /\ Op("setRunning", t) \in Made(c) /\ Op("spawn", t) \in Made(c)
    <3>1. \A name \in {"onStart", "setRunning", "spawn"} :
            Op(name, t) \in Calls /\ Op(name, t).op = name /\ Op(name, t).t = t
      BY <2>1, StartOp DEF Op
    <3> HIDE DEF c, t
    <3>2. \A name \in {"onStart", "setRunning", "spawn"} : Makes(c, Op(name, t))
      BY <2>1, <3>1 DEF Makes
    <3> QED BY <3>1, <3>2 DEF Made
  <2>3. <<Op("onStart", t), Op("setRunning", t), Op("spawn", t)>> \in Seq(Made(c))
    BY <2>2
  <2>4. Call(th, <<Op("onStart", t), Op("setRunning", t), Op("spawn", t)>>)
    BY <1>2 DEF Start
  <2> QED BY <2>3, <2>4 DEF Making
<1>3. CASE Start(th) /\ status[t] # "created"
  BY <1>3, MakesNothing DEF Start
<1> QED BY <1>1, <1>2, <1>3

LEMMA OnStartMakes ==
  ASSUME TypeOK, NEW th \in Threads, OnStart(th)
  PROVE  Making(th)
<1> DEFINE c == Head(todo[th])
           t == Arg(th)
<1>1. c.op = "onStart" /\ c.t = t /\ t \in Tasks
  BY HeadOf DEF OnStart
<1>2. ASSUME t \in {F} \cup Groups, NEW name \in {"start", "startGroup"},
             \A e \in ToSet(members[t]) : Op(name, e) \in Calls
      PROVE  Each(name, members[t]) \in Seq(Made(c))
  <2>1. members[t] \in Seq(ToSet(members[t]))
    BY <1>2, OwnSet DEF TypeOK
  <2> HIDE DEF c, t
  <2>2. \A e \in ToSet(members[t]) : Op(name, e) \in Made(c)
    <3>1. \A e : Op(name, e).op = name /\ Op(name, e).t = e
      BY DEF Op
    <3>2. \A e \in ToSet(members[t]) : Makes(c, Op(name, e))
      BY <1>1, <1>2, <3>1 DEF Makes
    <3> QED BY <1>2, <3>2 DEF Made
  <2> QED BY <2>1, <2>2, EachIn
<1>3. CASE t = F
  <2>1. \A e \in ToSet(members[t]) : Op("startGroup", e) \in Calls
    <3>1. members[t] \in Seq(Subs(t)) /\ Subs(t) \subseteq Groups
      BY <1>3, FlowAssumption DEF Subs, Parent, TypeOK
    <3>2. \A e \in ToSet(members[t]) : e \in Groups /\ e \in Tasks
      <4> HIDE DEF t
      <4> QED BY <3>1, Tree DEF ToSet
    <3> QED BY <3>2, StartOp
  <2>2. Each("startGroup", members[t]) \in Seq(Made(c))
    BY <1>2, <1>3, <2>1
  <2>3. Call(th, Each("startGroup", members[t]))
    BY <1>3, FlowAssumption DEF OnStart
  <2> QED BY <2>2, <2>3 DEF Making
<1>4. CASE t \in Groups
  <2>1. \A e \in ToSet(members[t]) : Op("start", e) \in Calls
    <3>1. members[t] \in Seq(Subs(t)) /\ Subs(t) \subseteq Tasks
      BY <1>4, Tree DEF TypeOK, Tasks
    <3>2. \A e \in ToSet(members[t]) : e \in Tasks
      <4> HIDE DEF t
      <4> QED BY <3>1 DEF ToSet
    <3> QED BY <3>2, StartOp
  <2>2. Each("start", members[t]) \in Seq(Made(c))
    BY <1>2, <1>4, <2>1
  <2>3. Call(th, Each("start", members[t]))
    BY <1>4, FlowAssumption DEF OnStart
  <2> QED BY <2>2, <2>3 DEF Making
<1>5. CASE t \in Nodes
  <2>1. Return(th)
    BY <1>5, FlowAssumption DEF OnStart, Return
  <2> QED BY <2>1, MakesNothing
<1> QED BY <1>1, <1>3, <1>4, <1>5 DEF Tasks

LEMMA StopMakes ==
  ASSUME TypeOK, NEW th \in Threads, Stop(th) \/ AwaitCtx(th)
  PROVE  Making(th)
<1> DEFINE c == Head(todo[th])
           t == Arg(th)
<1>1. c.op \in {"stop", "awaitCtx"} /\ c.t = t /\ t \in Tasks
  BY HeadOf DEF Stop, AwaitCtx
<1>2. CASE status[t] = "running" /\ Stopping(th, t)
  <2>1. Op("cancel", t) \in Made(c) /\ Op("onStop", t) \in Made(c)
    <3>1. Op("cancel", t) \in Calls /\ Op("onStop", t) \in Calls
      BY <1>1, QuietOp DEF QuietCalls
    <3> HIDE DEF c, t
    <3>2. Makes(c, Op("cancel", t)) /\ Makes(c, Op("onStop", t))
      BY <1>1, <1>2 DEF Makes
    <3> QED BY <3>1, <3>2 DEF Made
  <2>2. <<Op("cancel", t), Op("onStop", t)>> \in Seq(Made(c))
    BY <2>1
  <2> QED BY <1>2, <2>2 DEF Making, Stopping
<1> QED BY <1>2, MakesNothing DEF Stop, AwaitCtx

LEMMA OnStopMakes ==
  ASSUME TypeOK, NEW th \in Threads, OnStop(th)
  PROVE  Making(th)
<1> DEFINE c == Head(todo[th])
           t == Arg(th)
<1>1. c.op = "onStop" /\ c.t = t /\ t \in Tasks
  BY HeadOf DEF OnStop
<1>2. \A e \in Subs(t) : (t \in Groups => e \in WhenGroupStops) => Op("stop", e) \in Made(c)
  <2> HIDE DEF c, t
  <2> TAKE e \in Subs(t)
  <2> HAVE t \in Groups => e \in WhenGroupStops
  <2>1. Op("stop", e) \in Calls
    BY <1>1, QuietOp, Tree DEF QuietCalls, Tasks
  <2>2. Op("stop", e).op = "stop" /\ Op("stop", e).t = e
    BY DEF Op
  <2>3. Makes(c, Op("stop", e))
    BY <1>1, <2>2 DEF Makes
  <2> QED BY <2>1, <2>3 DEF Made
<1>3. CASE t = F
  <2>1. members[F] \in Seq(Subs(t)) /\ t \notin Groups
    BY <1>3, FlowAssumption DEF TypeOK
  <2>2. Each("stop", members[F]) \in Seq(Made(c))
    <3> HIDE DEF c, t
    <3> QED BY <1>2, <2>1, EachIn
  <2>3. Call(th, Each("stop", members[F]))
    BY <1>3, FlowAssumption DEF OnStop
  <2> QED BY <2>2, <2>3 DEF Making
<1>4. CASE t \in Groups
  <2>1. Selected(members[t], WhenGroupStops) \in Seq(Subs(t) \cap WhenGroupStops)
    <3>1. members[t] \in Seq(Subs(t))
      BY <1>4 DEF TypeOK
    <3> HIDE DEF t
    <3> QED BY <3>1, SelectedProperties
  <2>2. Each("stop", Selected(members[t], WhenGroupStops)) \in Seq(Made(c))
    <3> HIDE DEF c, t
    <3>1. \A e \in Subs(t) \cap WhenGroupStops : Op("stop", e) \in Made(c)
      BY <1>2
    <3> DEFINE s == Selected(members[t], WhenGroupStops)
    <3> HIDE DEF s
    <3> SUFFICES Each("stop", s) \in Seq(Made(c))
      BY DEF s
    <3>2. s \in Seq(Subs(t) \cap WhenGroupStops)
      BY <2>1 DEF s
    <3> QED BY <3>1, <3>2, EachIn
  <2>3. Call(th, Each("stop", Selected(members[t], WhenGroupStops)))
    BY <1>4, FlowAssumption DEF OnStop
  <2> QED BY <2>2, <2>3 DEF Making
<1>5. CASE t \in Nodes
  <2>1. Return(th)
    BY <1>5, FlowAssumption DEF OnStop, Return
  <2> QED BY <2>1, MakesNothing
<1> QED BY <1>1, <1>3, <1>4, <1>5 DEF Tasks

LEMMA CloseMakes ==
  ASSUME TypeOK, NEW th \in Threads, Close(th)
  PROVE  Making(th)
<1> DEFINE c == Head(todo[th])
           t == Arg(th)
           opened == Selected(Reverse(Order), {e \in Subs(t) : closer[e] # "none"})
<1>1. c.op = "close" /\ c.t = t /\ t \in Tasks
  BY HeadOf DEF Close
<1>2. opened \in Seq(Subs(t))
  <2> DEFINE s == Reverse(Order)
             S == {e \in Subs(t) : closer[e] # "none"}
  <2>1. s \in Seq(Groups \cup Nodes)
    BY FlowAssumption DEF Reverse
  <2>2. S \subseteq Subs(t)
    OBVIOUS
  <2> HIDE DEF s, S
  <2>3. Selected(s, S) \in Seq((Groups \cup Nodes) \cap S)
    BY <2>1, SelectedProperties
  <2>4. Selected(s, S) \in Seq(Subs(t))
    BY <2>2, <2>3
  <2> QED BY <2>4 DEF s, S
<1>3. Each("close", opened) \in Seq(Made(c))
  <2> HIDE DEF c, t, opened
  <2>1. \A e \in Subs(t) : Op("close", e) \in Made(c)
    <3> TAKE e \in Subs(t)
    <3>1. Op("close", e) \in Calls
      BY <1>1, QuietOp, Tree DEF QuietCalls, Tasks
    <3>2. Op("close", e).op = "close" /\ Op("close", e).t = e
      BY DEF Op
    <3>3. Makes(c, Op("close", e))
      BY <1>1, <3>2 DEF Makes
    <3> QED BY <3>1, <3>3 DEF Made
  <2> QED BY <1>2, <2>1, EachIn
<1>4. <<Op("cancel", t), Op("closed", t)>> \in Seq(Made(c))
  <2> HIDE DEF c, t
  <2>1. Op("cancel", t) \in Calls /\ Op("closed", t) \in Calls
    BY <1>1, QuietOp DEF QuietCalls
  <2>2. Makes(c, Op("cancel", t)) /\ Makes(c, Op("closed", t))
    BY <1>1 DEF Makes
  <2>3. Op("cancel", t) \in Made(c) /\ Op("closed", t) \in Made(c)
    BY <2>1, <2>2 DEF Made
  <2> QED BY <2>3
<1>5. CASE Call(th, Each("close", opened) \o <<Op("cancel", t), Op("closed", t)>>)
  <2> DEFINE a == Each("close", opened)
             b == <<Op("cancel", t), Op("closed", t)>>
  <2>1. Call(th, a \o b) /\ a \in Seq(Made(c)) /\ b \in Seq(Made(c))
    BY <1>3, <1>4, <1>5
  <2> HIDE DEF a, b, c
  <2>2. a \o b \in Seq(Made(c))
    BY <2>1
  <2> QED BY <2>1, <2>2 DEF Making, c
<1> QED BY <1>5, MakesNothing DEF Close

LEMMA EmitDoneMakes ==
  ASSUME TypeOK, NEW th \in Threads, EmitDone(th)
  PROVE  Making(th)
<1> DEFINE c == Head(todo[th])
           t == Arg(th)
           ws == watchers[t]
           own == <<Op("disconnectParents", t), Op("disconnectChildren", t), Op("remove", t)>>
           watches == [i \in DOMAIN ws |-> Op(ws[i].kind, ws[i].by)]
<1>1. c.op = "emitDone" /\ c.t = t /\ t \in Tasks
  BY HeadOf DEF EmitDone
<1>2. t \in Groups \cup Nodes => Op("remove", t) \in Made(c)
  <2> HIDE DEF c, t
  <2> HAVE t \in Groups \cup Nodes
  <2>1. Op("remove", t) \in Calls
    BY <1>1, QuietOp DEF QuietCalls
  <2>2. Op("remove", t).op = "remove"
    BY DEF Op
  <2>3. Makes(c, Op("remove", t))
    BY <1>1, <2>2 DEF Makes
  <2> QED BY <2>1, <2>3 DEF Made
<1>3. CASE t = F
  <2>1. Return(th)
    BY <1>3, FlowAssumption DEF EmitDone, Return
  <2> QED BY <2>1, MakesNothing
<1>4. CASE t \in Groups
  <2>1. <<Op("remove", t)>> \in Seq(Made(c))
    BY <1>2, <1>4
  <2>2. Call(th, <<Op("remove", t)>>)
    BY <1>4, FlowAssumption DEF EmitDone
  <2> QED BY <2>1, <2>2 DEF Making
<1>5. CASE t \in Nodes
  <2>1. own \in Seq(Made(c))
    <3>1. Op("disconnectParents", t) \in Calls /\ Op("disconnectChildren", t) \in Calls
      BY <1>1, <1>5, QuietOp DEF QuietCalls
    <3>2. Op("disconnectParents", t) \in Made(c) /\ Op("disconnectChildren", t) \in Made(c)
      <4> HIDE DEF c, t
      <4>1. Makes(c, Op("disconnectParents", t)) /\ Makes(c, Op("disconnectChildren", t))
        BY <1>1, <1>5 DEF Makes
      <4> QED BY <3>1, <4>1 DEF Made
    <3>3. Op("remove", t) \in Made(c)
      BY <1>2, <1>5
    <3> HIDE DEF c
    <3> QED BY <3>2, <3>3
  <2>2. \A w \in ToSet(ws) : Op(w.kind, w.by) \in Made(c)
    <3> TAKE w \in ToSet(ws)
    <3>1. w \in Watches
      BY <1>5 DEF TypeOK, ToSet
    <3>2. w.by \in Nodes /\ w.by \in Tasks /\ w.kind \in {"children", "parents"}
      BY <3>1, Tree DEF Watches
    <3>3. Op(w.kind, w.by) \in Calls
      BY <3>2, QuietOp DEF QuietCalls
    <3>4. Makes(c, Op(w.kind, w.by))
      <4>1. w \in ToSet(watchers[t])
        OBVIOUS
      <4> HIDE DEF c, t
      <4> QED BY <1>1, <1>5, <4>1 DEF Makes
    <3> QED BY <3>3, <3>4 DEF Made
  <2>3. watches \in Seq(Made(c))
    <3>1. ws \in Seq(ToSet(ws))
      BY <1>5, OwnSet DEF TypeOK
    <3> HIDE DEF ws, c
    <3>2. DOMAIN ws = 1 .. Len(ws) /\ Len(ws) \in Nat /\ \A i \in 1 .. Len(ws) : ws[i] \in ToSet(ws)
      BY <3>1
    <3> QED BY <2>2, <3>2
  <2>4. own \o watches \in Seq(Made(c))
    <3> HIDE DEF own, watches, c
    <3> QED BY <2>1, <2>3
  <2>5. Call(th, own \o watches)
    BY <1>5, FlowAssumption DEF EmitDone
  <2> QED BY <2>4, <2>5 DEF Making
<1> QED BY <1>1, <1>3, <1>4, <1>5 DEF Tasks

LEMMA UnlinkOp ==
  ASSUME NEW n \in Nodes, NEW m \in Nodes
  PROVE  /\ Op2("removeChild", n, m) \in Calls /\ Op2("removeParent", m, n) \in Calls
         /\ Op2("unwatchChild", n, m) \in Calls /\ Op2("unwatchParent", n, m) \in Calls
         /\ Op("disconnectParents", n) \in Calls /\ Op("disconnectChildren", n) \in Calls
BY DEF Op, Op2, Calls, UserCalls, Tasks

LEMMA DisconnectMakes ==
  ASSUME TypeOK, NEW th \in Threads, DisconnectParents(th) \/ DisconnectChildren(th)
  PROVE  Making(th)
<1> DEFINE c == Head(todo[th])
           n == Arg(th)
<1>1. CASE DisconnectParents(th)
  <2> DEFINE ps == Sorted(parents[n])
             calls == [i \in DOMAIN ps |-> Disconnect(ps[i], n)]
  <2>1. /\ c.op = "disconnectParents" /\ c.t = n /\ n \in Nodes /\ Call(th, FlattenSeq(calls))
        /\ parents[n] \subseteq Nodes
    BY <1>1, HeadOf, Arguments DEF DisconnectParents, TypeOK
  <2>2. ps \in Seq(parents[n])
    <3>1. ps \in Seq((Groups \cup Nodes) \cap parents[n])
      BY SortedProperties
    <3> HIDE DEF ps, n
    <3> QED BY <3>1
  <2>3. \A p \in parents[n] : Disconnect(p, n) \in Seq(Made(c))
    <3> TAKE p \in parents[n]
    <3> HIDE DEF c, n
    <3>1. Op2("removeChild", p, n) \in Calls /\ Op2("removeParent", n, p) \in Calls
      BY <2>1, UnlinkOp
    <3>2. Makes(c, Op2("removeChild", p, n)) /\ Makes(c, Op2("removeParent", n, p))
      BY <2>1 DEF Makes
    <3>3. Op2("removeChild", p, n) \in Made(c) /\ Op2("removeParent", n, p) \in Made(c)
      BY <3>1, <3>2 DEF Made
    <3> QED BY <3>3 DEF Disconnect
  <2>4. calls \in Seq(Seq(Made(c)))
    <3> HIDE DEF ps, c, n
    <3>1. DOMAIN ps = 1 .. Len(ps) /\ Len(ps) \in Nat /\ \A i \in 1 .. Len(ps) : ps[i] \in parents[n]
      BY <2>2
    <3> QED BY <2>3, <3>1
  <2>5. FlattenSeq(calls) \in Seq(Made(c))
    <3> HIDE DEF calls, c
    <3> QED BY <2>4, FlattenIn
  <2> QED BY <2>1, <2>5 DEF Making
<1>2. CASE DisconnectChildren(th)
  <2> DEFINE cs == Sorted(children[n])
             calls == [i \in DOMAIN cs |-> Disconnect(n, cs[i])]
  <2>1. /\ c.op = "disconnectChildren" /\ c.t = n /\ n \in Nodes /\ Call(th, FlattenSeq(calls))
        /\ children[n] \subseteq Nodes
    BY <1>2, HeadOf, Arguments DEF DisconnectChildren, TypeOK
  <2>2. cs \in Seq(children[n])
    <3>1. cs \in Seq((Groups \cup Nodes) \cap children[n])
      BY SortedProperties
    <3> HIDE DEF cs, n
    <3> QED BY <3>1
  <2>3. \A m \in children[n] : Disconnect(n, m) \in Seq(Made(c))
    <3> TAKE m \in children[n]
    <3> HIDE DEF c, n
    <3>1. Op2("removeChild", n, m) \in Calls /\ Op2("removeParent", m, n) \in Calls
      BY <2>1, UnlinkOp
    <3>2. Makes(c, Op2("removeChild", n, m)) /\ Makes(c, Op2("removeParent", m, n))
      BY <2>1 DEF Makes
    <3>3. Op2("removeChild", n, m) \in Made(c) /\ Op2("removeParent", m, n) \in Made(c)
      BY <3>1, <3>2 DEF Made
    <3> QED BY <3>3 DEF Disconnect
  <2>4. calls \in Seq(Seq(Made(c)))
    <3> HIDE DEF cs, c, n
    <3>1. DOMAIN cs = 1 .. Len(cs) /\ Len(cs) \in Nat /\ \A i \in 1 .. Len(cs) : cs[i] \in children[n]
      BY <2>2
    <3> QED BY <2>3, <3>1
  <2>5. FlattenSeq(calls) \in Seq(Made(c))
    <3> HIDE DEF calls, c
    <3> QED BY <2>4, FlattenIn
  <2> QED BY <2>1, <2>5 DEF Making
<1> QED BY <1>1, <1>2

LEMMA DisconnectNodesMakes ==
  ASSUME TypeOK, NEW th \in Threads, DisconnectNodes(th)
  PROVE  Making(th)
<1> DEFINE c == Head(todo[th])
           s == members[Arg(th)]
           Both(n) == <<Op("disconnectParents", n), Op("disconnectChildren", n)>>
           calls == [i \in DOMAIN s |-> Both(s[i])]
<1>1. c.op = "disconnectNodes" /\ Arg(th) \in Groups /\ Call(th, FlattenSeq(calls))
  BY HeadOf, Arguments DEF DisconnectNodes
<1>2. s \in Seq(Subs(Arg(th))) /\ Subs(Arg(th)) \subseteq Nodes /\ c.t = Arg(th)
  BY <1>1, HeadOf, FlowAssumption DEF TypeOK, Subs, Parent, DisconnectNodes
<1>3. \A n \in Subs(Arg(th)) : Both(n) \in Seq(Made(c))
  <2> TAKE n \in Subs(Arg(th))
  <2>0. n \in Nodes /\ n \in Subs(c.t)
    BY <1>2
  <2> HIDE DEF c
  <2>1. Op("disconnectParents", n) \in Calls /\ Op("disconnectChildren", n) \in Calls
    BY <2>0, UnlinkOp
  <2>2. /\ Op("disconnectParents", n).op = "disconnectParents" /\ Op("disconnectChildren", n).op = "disconnectChildren"
        /\ Op("disconnectParents", n).t = n /\ Op("disconnectChildren", n).t = n
    BY DEF Op
  <2>3. Makes(c, Op("disconnectParents", n)) /\ Makes(c, Op("disconnectChildren", n))
    BY <1>1, <2>0, <2>2 DEF Makes
  <2>4. Op("disconnectParents", n) \in Made(c) /\ Op("disconnectChildren", n) \in Made(c)
    BY <2>1, <2>3 DEF Made
  <2> QED BY <2>4
<1>4. calls \in Seq(Seq(Made(c)))
  <2> HIDE DEF Both, s, c
  <2>1. DOMAIN s = 1 .. Len(s) /\ Len(s) \in Nat /\ \A i \in 1 .. Len(s) : s[i] \in Subs(Arg(th))
    BY <1>2
  <2> QED BY <1>3, <2>1
<1>5. FlattenSeq(calls) \in Seq(Made(c))
  <2> HIDE DEF calls, c
  <2> QED BY <1>4, FlattenIn
<1> QED BY <1>1, <1>5 DEF Making

LEMMA HandlerMakes ==
  ASSUME TypeOK, NEW th \in Threads, RemoveMember(th) \/ WatchedParents(th) \/ WatchedChildren(th)
  PROVE  Making(th)
<1> DEFINE c == Head(todo[th])
           t == Arg(th)
<1>1. ASSUME NEW p \in Tasks, Makes(c, Op("stop", p)), Call(th, <<Op("stop", p)>>)
      PROVE  Making(th)
  <2>1. Op("stop", p) \in Made(c)
    BY <1>1, QuietOp DEF Made, QuietCalls
  <2>2. <<Op("stop", p)>> \in Seq(Made(c))
    BY <2>1
  <2> QED BY <1>1, <2>2 DEF Making
<1>2. CASE RemoveMember(th)
  <2>1. c.op = "remove" /\ c.t = t /\ Parent(t) \in Tasks
    BY <1>2, HeadOf, Tree DEF RemoveMember
  <2>2. Makes(c, Op("stop", Parent(t)))
    <3> HIDE DEF c, t
    <3> QED BY <2>1 DEF Makes
  <2>3. Call(th, <<Op("stop", Parent(t))>>) \/ Return(th)
    BY <1>2 DEF RemoveMember
  <2> QED BY <1>1, <2>1, <2>2, <2>3, MakesNothing
<1>3. CASE WatchedParents(th)
  <2>1. c.op = "parents" /\ c.t = t /\ t \in Tasks
    BY <1>3, HeadOf DEF WatchedParents
  <2>2. Return(th) \/ (Call(th, <<Op("stop", t)>>) /\ \A m \in parents[t] : status[m] = "done")
    BY <1>3 DEF WatchedParents, Watched
  <2>3. (\A m \in parents[t] : status[m] = "done") => Makes(c, Op("stop", t))
    <3> HIDE DEF c, t
    <3> QED BY <2>1 DEF Makes
  <2> QED BY <1>1, <2>1, <2>2, <2>3, MakesNothing
<1>4. CASE WatchedChildren(th)
  <2>1. c.op = "children" /\ c.t = t /\ t \in Tasks
    BY <1>4, HeadOf DEF WatchedChildren
  <2>2. Return(th) \/ (Call(th, <<Op("stop", t)>>) /\ \A m \in children[t] : status[m] = "done")
    BY <1>4 DEF WatchedChildren, Watched
  <2>3. (\A m \in children[t] : status[m] = "done") => Makes(c, Op("stop", t))
    <3> HIDE DEF c, t
    <3> QED BY <2>1 DEF Makes
  <2> QED BY <1>1, <2>1, <2>2, <2>3, MakesNothing
<1> QED BY <1>2, <1>3, <1>4

LEMMA UnlinkMakes ==
  ASSUME TypeOK, NEW th \in Threads, RemoveChild(th) \/ RemoveParent(th)
  PROVE  Making(th)
<1> DEFINE c == Head(todo[th])
           n == Arg(th)
           m == Arg2(th)
<1>1. c.op \in {"removeChild", "removeParent"} /\ c.t = n /\ c.u = m /\ n \in Nodes /\ m \in Nodes
  BY HeadOf, Arguments DEF RemoveChild, RemoveParent
<1>2. ASSUME NEW op, <<c.op, op>> \in {<<"removeChild", "unwatchChild">>, <<"removeParent", "unwatchParent">>}
      PROVE  <<Op2(op, n, m)>> \in Seq(Made(c))
  <2>1. Op2(op, n, m) \in Calls
    BY <1>1, <1>2, UnlinkOp
  <2>2. Makes(c, Op2(op, n, m))
    <3> HIDE DEF c, n, m
    <3> QED BY <1>1, <1>2 DEF Makes
  <2>3. Op2(op, n, m) \in Made(c)
    BY <2>1, <2>2 DEF Made
  <2> QED BY <2>3
<1>3. CASE RemoveChild(th)
  <2>1. c.op = "removeChild"
    BY <1>3, HeadOf DEF RemoveChild
  <2>2. Return(th) \/ Call(th, <<Op2("unwatchChild", n, m)>>)
    BY <1>3 DEF RemoveChild, Return
  <2>3. <<Op2("unwatchChild", n, m)>> \in Seq(Made(c))
    <3> HIDE DEF c, n, m
    <3> QED BY <1>2, <2>1
  <2> QED BY <2>2, <2>3, MakesNothing DEF Making
<1>4. CASE RemoveParent(th)
  <2>1. c.op = "removeParent"
    BY <1>4, HeadOf DEF RemoveParent
  <2>2. Return(th) \/ Call(th, <<Op2("unwatchParent", n, m)>>)
    BY <1>4 DEF RemoveParent, Return
  <2>3. <<Op2("unwatchParent", n, m)>> \in Seq(Made(c))
    <3> HIDE DEF c, n, m
    <3> QED BY <1>2, <2>1
  <2> QED BY <2>2, <2>3, MakesNothing DEF Making
<1> QED BY <1>3, <1>4

LEMMA EveryMakes ==
  ASSUME TypeOK, NEW th \in Threads, ThreadStep(th), ~Spawn(th)
  PROVE  Making(th)
<1>1. CASE New(th) \/ StartGroup(th) \/ Start(th) \/ OnStart(th)
  BY <1>1, NewMakes, StartMakes, OnStartMakes
<1>2. CASE Stop(th) \/ AwaitCtx(th) \/ OnStop(th) \/ Close(th) \/ EmitDone(th)
  BY <1>2, StopMakes, OnStopMakes, CloseMakes, EmitDoneMakes
<1>3. CASE DisconnectParents(th) \/ DisconnectChildren(th) \/ DisconnectNodes(th)
  BY <1>3, DisconnectMakes, DisconnectNodesMakes
<1>4. CASE RemoveMember(th) \/ WatchedParents(th) \/ WatchedChildren(th) \/ RemoveChild(th) \/ RemoveParent(th)
  BY <1>4, HandlerMakes, UnlinkMakes
<1>5. CASE NewTask(th) \/ Store(th) \/ SetRunning(th) \/ Cancel(th) \/ AwaitWork(th) \/ Closed(th)
  BY <1>5, MakesNothing DEF NewTask, Store, SetRunning, Cancel, AwaitWork, Closed
<1>6. CASE SetDone(th) \/ Release(th) \/ AddChild(th) \/ AddParent(th) \/ UnwatchChild(th) \/ UnwatchParent(th)
  BY <1>6, MakesNothing DEF SetDone, Release, AddChild, AddParent, UnwatchChild, UnwatchParent, Unwatch
<1> QED BY <1>1, <1>2, <1>3, <1>4, <1>5, <1>6 DEF ThreadStep

(* What a step leaves on any stack: what was there but for the operation it       *)
(* executes, the calls this one makes and, if it was the last of a start, what   *)
(* the goroutine of the started task has to do.                               *)
Born == {"awaitCtx", "awaitWork", "close", "setDone", "emitDone", "release"}
Executed(r, d, th) == r = th /\ d = Top(th)

LEMMA SpawnItems ==
  ASSUME TypeOK, NEW th \in Threads, Spawn(th), todo[Arg(th)] = <<>>
  PROVE  /\ \A r \in Threads, d \in Nat : \A c :
              Has(todo[r], d, c) /\ ~Executed(r, d, th) => Has(todo'[r], d, c)
         /\ \A r \in Threads, d \in Nat : \A c : Has(todo'[r], d, c) =>
              \/ Has(todo[r], d, c) /\ ~Executed(r, d, th)
              \/ r = c.t /\ c.op \in Born /\ (c.op = "close" => d = 3 /\ Mark(todo'[r], 2, "setDone", r))
<1> DEFINE t0 == Arg(th)
           ends == <<Op("awaitCtx", t0), Op("awaitWork", t0), Op("close", t0),
                     Op("setDone", t0), Op("emitDone", t0), Op("release", t0)>>
<1>1. At(th, "spawn") /\ TypeOK /\ t0 \in Tasks /\ todo[th] # <<>> /\ t0 \in Threads
  BY HeadTail, Tree DEF Spawn, At
<1>2. todo[t0] = <<>>
  OBVIOUS
<1>3. t0 # th
  BY <1>1, <1>2
<1>4. /\ todo'[t0] = ends /\ todo'[th] = Tail(todo[th])
      /\ \A r \in Threads : r # th /\ r # t0 => todo'[r] = todo[r]
  <2>1. todo' = [todo EXCEPT ![th] = Tail(@), ![t0] = ends]
    BY DEF Spawn
  <2> HIDE DEF ends, t0
  <2> QED BY <1>1, <1>3, <2>1 DEF TypeOK
<1>5. \A d \in Nat : \A c : Has(todo'[th], d, c) <=> d < Top(th) /\ Has(todo[th], d, c)
  <2>1. /\ todo[th] \in Seq(Calls) /\ Len(todo[th]) \in Nat \ {0}
        /\ Len(Tail(todo[th])) = Len(todo[th]) - 1
        /\ \A i \in 1 .. Len(todo[th]) - 1 : Tail(todo[th])[i] = todo[th][i + 1]
    BY <1>1, HeadTail
  <2> SUFFICES ASSUME NEW d \in Nat, NEW c
               PROVE  Has(todo'[th], d, c) <=> d < Top(th) /\ Has(todo[th], d, c)
    OBVIOUS
  <2>2. CASE d < Top(th)
    <3>1. Len(todo[th]) - 1 - d \in 1 .. Len(todo[th]) - 1 /\ Len(todo[th]) - d \in 1 .. Len(todo[th])
      BY <2>1, <2>2 DEF Top
    <3>2. Tail(todo[th])[Len(todo[th]) - 1 - d] = todo[th][Len(todo[th]) - d]
      BY <2>1, <3>1
    <3> QED BY <1>4, <2>1, <2>2, <3>1, <3>2 DEF Has
  <2>3. CASE ~(d < Top(th))
    BY <1>4, <2>1, <2>3 DEF Has, Top
  <2> QED BY <2>2, <2>3
<1>6. \A d \in Nat : \A c : Has(todo'[t0], d, c) => c.t = t0 /\ c.op \in Born /\ (c.op = "close" => d = 3)
  <2> SUFFICES ASSUME NEW d \in Nat, NEW c, Has(ends, d, c)
               PROVE  c.t = t0 /\ c.op \in Born /\ (c.op = "close" => d = 3)
    BY <1>4
  <2>1. /\ Len(ends) = 6
        /\ ends[1].op = "awaitCtx" /\ ends[2].op = "awaitWork" /\ ends[3].op = "close"
        /\ ends[4].op = "setDone" /\ ends[5].op = "emitDone" /\ ends[6].op = "release"
        /\ ends[1].t = t0 /\ ends[2].t = t0 /\ ends[3].t = t0
        /\ ends[4].t = t0 /\ ends[5].t = t0 /\ ends[6].t = t0
    BY DEF Op
  <2> HIDE DEF ends, t0
  <2>2. 6 - d \in 1 .. 6 /\ c = ends[6 - d]
    BY <2>1 DEF Has
  <2>3. \E i \in 1 .. 6 : i = 6 - d /\ c = ends[i]
    BY <2>2
  <2> QED BY <2>1, <2>3 DEF Born
<1>7. Mark(todo'[t0], 2, "setDone", t0)
  <2>1. ends = <<Op("awaitCtx", t0), Op("awaitWork", t0), Op("close", t0),
                 Op("setDone", t0), Op("emitDone", t0), Op("release", t0)>>
    OBVIOUS
  <2> HIDE DEF ends
  <2>2. Mark(ends, 2, "setDone", t0)
    BY <1>1, <2>1, EndCalls
  <2> QED BY <1>4, <2>2
<1>8. \A d \in Nat : \A c : Has(todo[th], d, c) => d <= Top(th)
  BY <1>1, TopItem
<1>9. \A d \in Nat : \A c : ~Has(todo[t0], d, c)
  BY <1>2 DEF Has
<1>10. Top(th) \in Nat
  BY <1>1, TopItem
<1> HIDE DEF t0
<1>11. ASSUME NEW r \in Threads, NEW d \in Nat, NEW c, Has(todo[r], d, c), ~Executed(r, d, th)
       PROVE  Has(todo'[r], d, c)
  BY <1>4, <1>5, <1>8, <1>9, <1>10, <1>11 DEF Executed
<1>12. ASSUME NEW r \in Threads, NEW d \in Nat, NEW c, Has(todo'[r], d, c)
       PROVE  \/ Has(todo[r], d, c) /\ ~Executed(r, d, th)
              \/ r = c.t /\ c.op \in Born /\ (c.op = "close" => d = 3 /\ Mark(todo'[r], 2, "setDone", r))
  BY <1>4, <1>5, <1>6, <1>7, <1>10, <1>12 DEF Executed
<1> QED BY <1>11, <1>12

LEMMA AfterAny ==
  ASSUME TypeOK, NEW th \in Threads, ThreadStep(th), Spawn(th) => todo[Arg(th)] = <<>>
  PROVE  /\ \A r \in Threads, d \in Nat : \A c :
              Has(todo[r], d, c) /\ ~Executed(r, d, th) => Has(todo'[r], d, c)
         /\ \A r \in Threads, d \in Nat : \A c : Has(todo'[r], d, c) =>
              \/ Has(todo[r], d, c) /\ ~Executed(r, d, th)
              \/ r = th /\ ~Spawn(th) /\ c \in Calls /\ Makes(Head(todo[th]), c)
              \/ r = c.t /\ c.op \in Born /\ (c.op = "close" => d = 3 /\ Mark(todo'[r], 2, "setDone", r))
<1>1. CASE Spawn(th)
  <2>1. todo[Arg(th)] = <<>>
    BY <1>1
  <2>2. /\ \A r \in Threads, d \in Nat : \A c :
              Has(todo[r], d, c) /\ ~Executed(r, d, th) => Has(todo'[r], d, c)
        /\ \A r \in Threads, d \in Nat : \A c : Has(todo'[r], d, c) =>
              \/ Has(todo[r], d, c) /\ ~Executed(r, d, th)
              \/ r = c.t /\ c.op \in Born /\ (c.op = "close" => d = 3 /\ Mark(todo'[r], 2, "setDone", r))
    BY <1>1, <2>1, SpawnItems
  <2> QED BY <2>2
<1>2. CASE ~Spawn(th)
  <2>1. TypeOK /\ todo[th] # <<>>
    BY DEF ThreadStep
  <2>2. PICK ops \in Seq(Made(Head(todo[th]))) : Call(th, ops)
    BY <1>2, <2>1, EveryMakes DEF Making
  <2>3. ops \in Seq(Calls) /\ \A j \in 1 .. Len(ops) : ops[j] \in Calls /\ Makes(Head(todo[th]), ops[j])
    BY DEF Made
  <2>4. /\ \A r \in Threads : r # th => todo'[r] = todo[r]
        /\ \A d \in Nat : \A c :
              Has(todo'[th], d, c) <=>
                \/ d < Top(th) /\ Has(todo[th], d, c)
                \/ \E j \in 1 .. Len(ops) : d = Top(th) + Len(ops) - j /\ ops[j] = c
    BY <2>1, <2>2, <2>3, Stacks
  <2>5. Top(th) \in Nat /\ \A d \in Nat : \A c : Has(todo[th], d, c) => d <= Top(th)
    BY <2>1, TopItem
  <2>6. ASSUME NEW r \in Threads, NEW d \in Nat, NEW c, Has(todo[r], d, c), ~Executed(r, d, th)
        PROVE  Has(todo'[r], d, c)
    BY <2>4, <2>5, <2>6 DEF Executed
  <2>7. ASSUME NEW r \in Threads, NEW d \in Nat, NEW c, Has(todo'[r], d, c)
        PROVE  \/ Has(todo[r], d, c) /\ ~Executed(r, d, th)
               \/ r = th /\ c \in Calls /\ Makes(Head(todo[th]), c)
    <3>1. CASE r # th
      BY <2>4, <2>7, <3>1 DEF Executed
    <3>2. CASE r = th /\ d < Top(th) /\ Has(todo[th], d, c)
      BY <2>5, <3>2 DEF Executed
    <3>3. CASE r = th /\ \E j \in 1 .. Len(ops) : d = Top(th) + Len(ops) - j /\ ops[j] = c
      <4> HIDE DEF Makes
      <4> QED BY <2>3, <3>3
    <3> QED BY <2>4, <2>7, <3>1, <3>2, <3>3
  <2> QED BY <1>2, <2>6, <2>7
<1> QED BY <1>1, <1>2

LEMMA SpawnsFresh ==
  ASSUME LifeInv, NEW th \in Threads, Spawn(th)
  PROVE  todo[Arg(th)] = <<>>
<1>1. At(th, "spawn") /\ TypeOK /\ Arg(th) \in Tasks
  BY HeadTail DEF Spawn, LifeInv, At
<1>2. Top(th) \in Nat /\ Mark(todo[th], Top(th), "spawn", Arg(th))
  BY <1>1, TopMark
<1> QED BY <1>1, <1>2 DEF LifeInv, Starts, SpawnsOnce

LEMMA AfterStep ==
  ASSUME LifeInv, NEW th \in Threads, ThreadStep(th)
  PROVE  /\ \A r \in Threads, d \in Nat : \A c :
              Has(todo[r], d, c) /\ ~Executed(r, d, th) => Has(todo'[r], d, c)
         /\ \A r \in Threads, d \in Nat : \A c : Has(todo'[r], d, c) =>
              \/ Has(todo[r], d, c) /\ ~Executed(r, d, th)
              \/ r = th /\ ~Spawn(th) /\ c \in Calls /\ Makes(Head(todo[th]), c)
              \/ r = c.t /\ c.op \in Born /\ (c.op = "close" => d = 3 /\ Mark(todo'[r], 2, "setDone", r))
<1>1. TypeOK
  BY DEF LifeInv
<1> QED BY <1>1, SpawnsFresh, AfterAny

-----------------------------------------------------------------------------
(* What lasts *)

(* Nothing runs under a task any more, and nothing will.                       *)
Over(p) == status[p] \in {"stopping", "done"} /\ Idle(p)

LEMMA Lasting ==
  ASSUME LifeInv, [Next]_vars, NEW t \in Tasks
  PROVE  /\ status[t] # "created" => status'[t] # "created"
         /\ status[t] = "created" => status'[t] \in {"created", "starting"}
         /\ status[t] \in {"stopping", "done"} => status'[t] \in {"stopping", "done"}
         /\ status[t] = "done" => status'[t] = "done"
         /\ Over(t) => Over(t)'
<1>1. Kept(t)
  BY KeptStep
<1>2. Over(t) <=> status[t] \in {"stopping", "done"} /\ ~Busy(t)
  BY DEF Over, Idle, Busy
<1>3. Over(t)' <=> status'[t] \in {"stopping", "done"} /\ ~Busy(t)'
  BY DEF Over, Idle, Busy
<1>4. CASE UNCHANGED Life(t)!lvars
  <2>1. status'[t] = status[t] /\ Busy(t)' = Busy(t)
    BY <1>4 DEF Life!lvars
  <2> QED BY <1>2, <1>3, <2>1
<1>5. CASE Life(t)!LStart \/ Life(t)!LRun \/ Life(t)!LStop
  BY <1>2, <1>5 DEF Life!LStart, Life!LRun, Life!LStop, Life!Advance
<1>6. CASE Life(t)!LLoad \/ Life(t)!LUnload
  BY <1>2, <1>3, <1>6 DEF Life!LLoad, Life!LUnload
<1>7. CASE Life(t)!LFinish \/ Life(t)!LRelease
  BY <1>2, <1>3, <1>7 DEF Life!LFinish, Life!LRelease, Life!Advance
<1> QED BY <1>1, <1>4, <1>5, <1>6, <1>7 DEF Kept, Life!LNext

(* Only one of these steps moves a status.                                     *)
LEMMA StatusMoves ==
  ASSUME TypeOK, NEW th \in Threads, ThreadStep(th), NEW t \in Tasks, status'[t] # status[t]
  PROVE  /\ t = Arg(th)
         /\ \/ Start(th) /\ status'[t] = "starting" /\ ctx'[t] = "live"
            \/ SetRunning(th) /\ status'[t] = "running"
            \/ /\ status[t] = "running" /\ status'[t] = "stopping"
               /\ Stop(th) \/ (AwaitCtx(th) /\ ctx[t] = "cancelled")
            \/ SetDone(th) /\ status'[t] = "done"
<1>0. Arg(th) \in Tasks
  BY HeadTail DEF ThreadStep
<1>1. CASE Start(th) \/ SetRunning(th) \/ SetDone(th)
  BY <1>0, <1>1 DEF Start, SetRunning, SetDone, TypeOK
<1>2. CASE Stop(th) \/ AwaitCtx(th)
  BY <1>0, <1>2 DEF Stop, AwaitCtx, Stopping, TypeOK
<1>3. CASE \/ New(th) \/ NewTask(th) \/ Store(th) \/ StartGroup(th) \/ OnStart(th) \/ Spawn(th) \/ Cancel(th)
           \/ OnStop(th) \/ AwaitWork(th) \/ Close(th) \/ Closed(th) \/ EmitDone(th) \/ Release(th)
  BY <1>3 DEF New, NewTask, Store, StartGroup, OnStart, Spawn, Cancel, OnStop, AwaitWork, Close, Closed,
              EmitDone, Release, runtime
<1>4. CASE DisconnectParents(th) \/ DisconnectChildren(th) \/ DisconnectNodes(th) \/ RemoveMember(th)
  BY <1>4 DEF DisconnectParents, DisconnectChildren, DisconnectNodes, RemoveMember, runtime
<1>5. CASE WatchedParents(th) \/ WatchedChildren(th)
  BY <1>5 DEF WatchedParents, WatchedChildren, Watched, runtime
<1>6. CASE \/ AddChild(th) \/ AddParent(th) \/ RemoveChild(th) \/ RemoveParent(th)
           \/ UnwatchChild(th) \/ UnwatchParent(th)
  BY <1>6 DEF AddChild, AddParent, RemoveChild, RemoveParent, UnwatchChild, UnwatchParent, Unwatch, runtime
<1> QED BY <1>1, <1>2, <1>3, <1>4, <1>5, <1>6 DEF ThreadStep

-----------------------------------------------------------------------------
(* What resources are freed after *)

Spent(t) == \E p \in {t, Parent(t), F} : Over(p)

(* A closer is closed by the goroutine of its own task, once it has waited, or   *)
(* by that of a task above it.  What is started was created: the closer of a    *)
(* task is there before it is in a list, and it is in one before it is started. *)
Closing(th, d, c) ==
  /\ c.op = "close" => (th = c.t /\ d = 3 /\ Mark(todo[th], 2, "setDone", th)) \/ Spent(c.t)
  /\ c.op = "closed" => Spent(c.t)
  /\ c.op \in {"start", "startGroup"} => closer[c.t] # "none"
  /\ c.op = "store" => closer[c.t] # "none" \/ Mark(todo[th], d + 1, "newTask", c.t)

Closers ==
  /\ closer[F] # "none"
  /\ \A t \in Tasks : closer[t] \in {"closing", "closed"} => Spent(t)
  /\ \A t \in Tasks : status[t] # "created" => closer[t] # "none" /\ status[Parent(t)] # "created"
  /\ \A p \in {F} \cup Groups : \A t \in ToSet(members[p]) : closer[t] # "none"

Closings == \A th \in Threads, d \in Nat : \A c : Has(todo[th], d, c) => Closing(th, d, c)

FreeInv == LifeInv /\ Closers /\ Closings

LEMMA SpentLasts ==
  ASSUME LifeInv, [Next]_vars, NEW t \in Tasks, Spent(t)
  PROVE  Spent(t)'
<1>1. \A p \in {t, Parent(t), F} : p \in Tasks
  BY Tree
<1> QED BY <1>1, Lasting DEF Spent

LEMMA CloserMoves ==
  ASSUME TypeOK, NEW th \in Threads, ThreadStep(th)
  PROVE  /\ \A t \in Tasks : closer[t] # "none" => closer'[t] # "none"
         /\ \A t \in Tasks : closer'[t] \in {"closing", "closed"} /\ closer[t] \notin {"closing", "closed"} =>
              t = Arg(th) /\ (At(th, "close") \/ At(th, "closed"))
<1>0. Arg(th) \in Tasks
  BY HeadTail DEF ThreadStep
<1>1. CASE NewTask(th) \/ Close(th) \/ Closed(th)
  BY <1>0, <1>1 DEF NewTask, Close, Closed, TypeOK
<1>2. CASE UNCHANGED closer
  BY <1>2
<1>3. CASE \/ New(th) \/ Store(th) \/ StartGroup(th) \/ Start(th) \/ OnStart(th) \/ SetRunning(th) \/ Spawn(th)
           \/ Stop(th) \/ Cancel(th) \/ OnStop(th) \/ AwaitCtx(th) \/ AwaitWork(th)
  BY <1>2, <1>3 DEF New, Store, StartGroup, Start, OnStart, SetRunning, Spawn, Stop, Cancel, OnStop, AwaitCtx, AwaitWork
<1>4. CASE \/ SetDone(th) \/ EmitDone(th) \/ Release(th) \/ DisconnectParents(th) \/ DisconnectChildren(th)
           \/ DisconnectNodes(th) \/ RemoveMember(th)
  BY <1>2, <1>4 DEF SetDone, EmitDone, Release, DisconnectParents, DisconnectChildren, DisconnectNodes, RemoveMember
<1>5. CASE WatchedParents(th) \/ WatchedChildren(th)
  BY <1>2, <1>5 DEF WatchedParents, WatchedChildren, Watched
<1>6. CASE \/ AddChild(th) \/ AddParent(th) \/ RemoveChild(th) \/ RemoveParent(th)
           \/ UnwatchChild(th) \/ UnwatchParent(th)
  BY <1>2, <1>6 DEF AddChild, AddParent, RemoveChild, RemoveParent, UnwatchChild, UnwatchParent, Unwatch
<1> QED BY <1>1, <1>3, <1>4, <1>5, <1>6 DEF ThreadStep

(* The operation that a goroutine executes.                                    *)
LEMMA HeadClosing ==
  ASSUME FreeInv, NEW th \in Threads, todo[th] # <<>>
  PROVE  /\ Closing(th, Top(th), Head(todo[th])) /\ Top(th) \in Nat
         /\ \A name, t : ~Mark(todo[th], Top(th) + 1, name, t)
<1>1. TypeOK
  BY DEF FreeInv, LifeInv
<1>2. Top(th) \in Nat /\ Has(todo[th], Top(th), Head(todo[th]))
  BY <1>1, TopItem
<1>3. \A name, t : ~Mark(todo[th], Top(th) + 1, name, t)
  <2> SUFFICES ASSUME NEW name, NEW t, Mark(todo[th], Top(th) + 1, name, t) PROVE FALSE
    OBVIOUS
  <2>1. Len(todo[th]) - (Top(th) + 1) = 0
    BY <1>1, HeadTail DEF Top
  <2> QED BY <2>1 DEF Mark
<1> QED BY <1>2, <1>3 DEF FreeInv, Closings

(* A task is closed by its own goroutine when nothing runs under it.            *)
LEMMA CloseSpent ==
  ASSUME FreeInv, NEW th \in Threads, At(th, "close") \/ At(th, "closed")
  PROVE  Spent(Arg(th))
<1> DEFINE c == Head(todo[th])
           t == Arg(th)
<1>1. TypeOK /\ todo[th] # <<>> /\ c.t = t /\ t \in Tasks /\ c.op \in {"close", "closed"}
  BY HeadOf DEF FreeInv, LifeInv
<1>2. Closing(th, Top(th), c)
  BY <1>1, HeadClosing
<1>3. CASE th = t /\ Top(th) = 3 /\ Mark(todo[th], 2, "setDone", th)
  <2>1. ~Mark(todo[th], 4, "awaitWork", th) /\ ~Mark(todo[th], 5, "awaitCtx", th)
    <3>1. \A name, u : \A d \in Nat : Mark(todo[th], d, name, u) => d <= Top(th)
      BY <1>1, TopItem, ItemMark
    <3> QED BY <1>3, <3>1
  <2>2. status[t] = "stopping" /\ Idle(t)
    BY <1>1, <1>3, <2>1 DEF FreeInv, LifeInv, Phases
  <2> QED BY <2>2 DEF Spent, Over
<1> QED BY <1>1, <1>2, <1>3 DEF Closing

(* An operation is executed by the action that models it.                      *)
LEMMA OnlyIts ==
  ASSUME NEW th, ThreadStep(th), NEW name, At(th, name)
  PROVE  /\ name = "new" => New(th)
         /\ name = "newTask" => NewTask(th)
         /\ name = "start" => Start(th)
         /\ name = "setRunning" => SetRunning(th)
         /\ name = "spawn" => Spawn(th)
         /\ name = "stop" => Stop(th)
         /\ name = "awaitCtx" => AwaitCtx(th)
         /\ name = "setDone" => SetDone(th)
         /\ name = "emitDone" => EmitDone(th)
         /\ name = "disconnectParents" => DisconnectParents(th)
         /\ name = "disconnectChildren" => DisconnectChildren(th)
         /\ name = "addChild" => AddChild(th)
         /\ name = "addParent" => AddParent(th)
         /\ name = "removeChild" => RemoveChild(th)
         /\ name = "removeParent" => RemoveParent(th)
         /\ name = "unwatchChild" => UnwatchChild(th)
         /\ name = "unwatchParent" => UnwatchParent(th)
<1>1. \A nm : At(th, nm) => nm = name
  BY DEF At
<1>2. CASE \/ Store(th) \/ StartGroup(th) \/ OnStart(th)
           \/ Cancel(th) \/ OnStop(th) \/ AwaitWork(th) \/ Close(th) \/ Closed(th)
  BY <1>1, <1>2 DEF Store, StartGroup, OnStart, Cancel, OnStop, AwaitWork, Close, Closed
<1>3. CASE \/ Release(th) \/ DisconnectNodes(th) \/ RemoveMember(th) \/ WatchedParents(th)
           \/ WatchedChildren(th)
  BY <1>1, <1>3 DEF Release, DisconnectNodes, RemoveMember, WatchedParents, WatchedChildren
<1>4. CASE New(th) \/ NewTask(th) \/ Start(th) \/ SetRunning(th) \/ Spawn(th) \/ Stop(th) \/ AwaitCtx(th)
  BY <1>1, <1>4 DEF New, NewTask, Start, SetRunning, Spawn, Stop, AwaitCtx
<1>5. CASE SetDone(th) \/ EmitDone(th) \/ DisconnectParents(th) \/ DisconnectChildren(th)
  BY <1>1, <1>5 DEF SetDone, EmitDone, DisconnectParents, DisconnectChildren
<1>6. CASE \/ AddChild(th) \/ AddParent(th) \/ RemoveChild(th) \/ RemoveParent(th)
           \/ UnwatchChild(th) \/ UnwatchParent(th)
  BY <1>1, <1>6 DEF AddChild, AddParent, RemoveChild, RemoveParent, UnwatchChild, UnwatchParent, Unwatch
<1> QED BY <1>2, <1>3, <1>4, <1>5, <1>6 DEF ThreadStep

LEMMA MembersStep ==
  ASSUME FreeInv, NEW th \in Threads, ThreadStep(th), NEW p \in {F} \cup Groups, NEW t \in ToSet(members'[p])
  PROVE  closer'[t] # "none"
<1>1. TypeOK /\ TypeOK'
  BY TypeStep DEF FreeInv, LifeInv, Next
<1>2. t \in Tasks
  BY <1>1, Tree DEF TypeOK, ToSet
<1>3. closer[t] # "none" => closer'[t] # "none"
  BY <1>1, <1>2, CloserMoves
<1>4. CASE t \in ToSet(members[p])
  BY <1>3, <1>4 DEF FreeInv, Closers
<1>5. CASE UNCHANGED members
  BY <1>4, <1>5
<1>6. CASE Store(th)
  <2>1. At(th, "store") /\ Arg(th) \in Groups \cup Nodes
    BY <1>1, <1>6, Arguments DEF Store
  <2>2. closer[Arg(th)] # "none"
    <3>1. Closing(th, Top(th), Head(todo[th])) /\ ~Mark(todo[th], Top(th) + 1, "newTask", Arg(th))
      BY <2>1, HeadClosing DEF At
    <3>2. Head(todo[th]).op = "store" /\ Head(todo[th]).t = Arg(th)
      BY <1>1, <2>1, HeadOf
    <3> QED BY <3>1, <3>2 DEF Closing
  <2>3. members'[p] = members[p] \/ members'[p] = Append(members[p], Arg(th))
    BY <1>1, <1>6 DEF Store, TypeOK
  <2>4. t = Arg(th) \/ t \in ToSet(members[p])
    <3>1. ToSet(Append(members[p], Arg(th))) = ToSet(members[p]) \cup {Arg(th)}
      BY <1>1, AppendSet DEF TypeOK
    <3> QED BY <2>3, <3>1
  <2> QED BY <1>3, <1>4, <2>2, <2>4
<1>7. CASE RemoveMember(th)
  <2> DEFINE a == Arg(th)
             left == Selected(members[Parent(a)], Subs(Parent(a)) \ {a})
  <2>1. members'[p] = members[p] \/ (p = Parent(a) /\ members'[p] = left)
    BY <1>1, <1>7 DEF RemoveMember, TypeOK
  <2>2. p = Parent(a) => ToSet(left) \subseteq ToSet(members[p])
    <3>1. members[p] \in Seq(Groups \cup Nodes)
      BY <1>1 DEF TypeOK
    <3>2. \A S : ToSet(Selected(members[p], S)) = ToSet(members[p]) \cap S
      BY <3>1, SelectedProperties
    <3> QED BY <3>2
  <2> HIDE DEF left, a
  <2> QED BY <1>4, <2>1, <2>2
<1> QED BY <1>5, <1>6, <1>7, Untouched

LEMMA ClosersStep ==
  ASSUME FreeInv, NEW th \in Threads, ThreadStep(th)
  PROVE  Closers'
<1>1. TypeOK /\ LifeInv /\ [Next]_vars /\ todo[th] # <<>>
  BY DEF FreeInv, LifeInv, Next, ThreadStep
<1>2. \A t \in Tasks : closer[t] # "none" => closer'[t] # "none"
  BY <1>1, CloserMoves
<1>3. closer'[F] # "none"
  BY <1>2, Tree DEF FreeInv, Closers
<1>4. ASSUME NEW t \in Tasks, closer'[t] \in {"closing", "closed"} PROVE Spent(t)'
  <2>1. CASE closer[t] \in {"closing", "closed"}
    BY <1>1, <2>1, SpentLasts DEF FreeInv, Closers
  <2>2. CASE closer[t] \notin {"closing", "closed"}
    BY <1>1, <1>4, <2>2, CloserMoves, CloseSpent, SpentLasts
  <2> QED BY <2>1, <2>2
<1>5. ASSUME NEW t \in Tasks, status'[t] # "created"
      PROVE  closer'[t] # "none" /\ status'[Parent(t)] # "created"
  <2>0. Parent(t) \in Tasks
    BY Tree
  <2>1. CASE status[t] # "created"
    BY <1>1, <1>2, <2>0, <2>1, Lasting DEF FreeInv, Closers
  <2>2. CASE status[t] = "created"
    <3>1. status'[t] = "starting"
      BY <1>1, <1>5, <2>2, Lasting
    <3>2. t = Arg(th) /\ Start(th)
      BY <1>1, <2>2, <3>1, StatusMoves
    <3>3. At(th, "start") /\ Head(todo[th]).op = "start" /\ Head(todo[th]).t = t
      BY <1>1, <3>2, HeadOf DEF Start
    <3>4. closer[t] # "none"
      BY <1>1, <3>3, HeadClosing DEF Closing
    <3>5. CASE t = F
      BY <1>2, <1>5, <3>4, <3>5, FlowAssumption DEF Parent
    <3>6. CASE t # F
      BY <1>1, <1>2, <2>0, <3>2, <3>3, <3>4, <3>6, StartedWhen, Lasting
    <3> QED BY <3>5, <3>6
  <2> QED BY <2>1, <2>2
<1>6. \A p \in {F} \cup Groups : \A t \in ToSet(members'[p]) : closer'[t] # "none"
  BY MembersStep
<1> QED BY <1>3, <1>4, <1>5, <1>6 DEF Closers

(* A task is spent when what it belongs to is.                                 *)
LEMMA SpentBelow ==
  ASSUME NEW t \in Tasks, Spent(t), NEW c \in Subs(t)
  PROVE  Spent(c)
<1>1. Parent(c) = t /\ t \in {F} \cup Groups /\ Parent(t) = F
  BY Tree, FlowAssumption DEF Subs, Parent
<1> QED BY <1>1 DEF Spent

LEMMA MarkStays ==
  ASSUME LifeInv, NEW th \in Threads, ThreadStep(th), NEW r \in Threads, NEW d \in Nat, NEW name, NEW t,
         Mark(todo[r], d, name, t), ~Executed(r, d, th)
  PROVE  Mark(todo'[r], d, name, t)
<1>1. PICK x : Has(todo[r], d, x) /\ x.op = name /\ x.t = t
  BY ItemMark
<1>2. Has(todo'[r], d, x)
  BY <1>1, AfterStep
<1> QED BY <1>1, <1>2, ItemMark

LEMMA ClosingKept ==
  ASSUME FreeInv, NEW th \in Threads, ThreadStep(th), NEW r \in Threads, NEW d \in Nat, NEW c,
         Has(todo[r], d, c), ~Executed(r, d, th)
  PROVE  Closing(r, d, c)'
<1>1. TypeOK /\ LifeInv /\ [Next]_vars /\ Closing(r, d, c)
  BY DEF FreeInv, LifeInv, Closings, Next
<1>2. c.t \in Tasks
  <2>1. c \in Calls
    BY <1>1 DEF TypeOK, Has
  <2> QED BY <2>1, Tree DEF Calls, UserCalls, Tasks
<1>3. closer[c.t] # "none" => closer'[c.t] # "none"
  BY <1>1, <1>2, CloserMoves
<1>4. Spent(c.t) => Spent(c.t)'
  BY <1>1, <1>2, SpentLasts
<1>5. todo[th] # <<>> /\ \A e \in Nat : \A x : Has(todo[th], e, x) => e <= Top(th)
  BY <1>1, TopItem DEF ThreadStep
<1>6. ASSUME r = c.t, d = 3, Mark(todo[r], 2, "setDone", r)
      PROVE  Mark(todo'[r], 2, "setDone", r)
  <2>1. ~Executed(r, 2, th)
    BY <1>5, <1>6 DEF Executed
  <2> QED BY <1>1, <1>6, <2>1, MarkStays
<1>7. ASSUME Mark(todo[r], d + 1, "newTask", c.t)
      PROVE  closer'[c.t] # "none" \/ Mark(todo'[r], d + 1, "newTask", c.t)
  <2>1. CASE Executed(r, d + 1, th)
    <3>1. Head(todo[th]).op = "newTask" /\ Head(todo[th]).t = c.t
      <4>1. PICK x : Has(todo[r], d + 1, x) /\ x.op = "newTask" /\ x.t = c.t
        BY <1>7, ItemMark
      <4>2. d + 1 \in Nat /\ x = Head(todo[th])
        BY <1>1, <1>5, <2>1, <4>1, TopItem DEF Executed
      <4> QED BY <4>1, <4>2
    <3>2. NewTask(th) /\ Arg(th) = c.t
      BY <1>5, <3>1, OnlyIts DEF At, Arg
    <3> QED BY <1>1, <1>2, <3>2 DEF NewTask, TypeOK
  <2>2. CASE ~Executed(r, d + 1, th)
    <3>1. d + 1 \in Nat
      OBVIOUS
    <3> QED BY <1>1, <1>7, <2>2, <3>1, MarkStays
  <2> QED BY <2>1, <2>2
<1> QED BY <1>1, <1>3, <1>4, <1>6, <1>7 DEF Closing

LEMMA StoreAfterNew ==
  ASSUME LifeInv, NEW th \in Threads, New(th), NEW d \in Nat, NEW c, c.op = "store",
         Has(todo'[th], d, c), ~(Has(todo[th], d, c) /\ d # Top(th))
  PROVE  Mark(todo'[th], d + 1, "newTask", c.t)
<1> DEFINE t == Arg(th)
           ops == <<Op("newTask", t), Op("store", t)>>
<1>1. TypeOK /\ todo[th] # <<>> /\ t \in Groups \cup Nodes /\ t \in Tasks /\ Top(th) \in Nat
  BY Arguments, HeadOf, TopItem DEF New, LifeInv
<1>2. CASE Call(th, ops)
  <2>1. ops \in Seq(Calls)
    <3>1. Op("newTask", t) \in Calls /\ Op("store", t) \in Calls
      BY <1>1, QuietOp DEF QuietCalls
    <3> QED BY <3>1
  <2>2. Len(ops) = 2 /\ ops[1] = Op("newTask", t) /\ ops[2] = Op("store", t)
    OBVIOUS
  <2>3. /\ Op("newTask", t).op = "newTask" /\ Op("newTask", t).t = t
        /\ Op("store", t).op = "store" /\ Op("store", t).t = t
    BY DEF Op
  <2> HIDE DEF ops
  <2>4. \A e \in Nat : \A x :
          Has(todo'[th], e, x) <=>
            \/ e < Top(th) /\ Has(todo[th], e, x)
            \/ \E j \in 1 .. Len(ops) : e = Top(th) + Len(ops) - j /\ ops[j] = x
    BY <1>1, <1>2, <2>1, Stacks
  <2>5. PICK j \in 1 .. 2 : d = Top(th) + 2 - j /\ ops[j] = c
    BY <1>1, <2>2, <2>4
  <2>6. j = 2 /\ c.t = t /\ d = Top(th)
    BY <1>1, <2>2, <2>3, <2>5
  <2>7. Has(todo'[th], d + 1, Op("newTask", t))
    <3>1. d + 1 = Top(th) + Len(ops) - 1 /\ 1 \in 1 .. Len(ops) /\ d + 1 \in Nat
      BY <1>1, <2>2, <2>6
    <3> QED BY <2>2, <2>4, <3>1
  <2> QED BY <2>3, <2>6, <2>7, ItemMark
<1>3. CASE Return(th)
  <2> DEFINE none == <<>>
  <2>1. none \in Seq(Calls) /\ Len(none) = 0 /\ Call(th, none)
    BY <1>3 DEF Return
  <2> HIDE DEF none
  <2>2. \A e \in Nat : \A x :
          Has(todo'[th], e, x) <=>
            \/ e < Top(th) /\ Has(todo[th], e, x)
            \/ \E j \in 1 .. Len(none) : e = Top(th) + Len(none) - j /\ none[j] = x
    BY <1>1, <2>1, Stacks
  <2>3. \A j \in 1 .. Len(none) : FALSE
    BY <2>1
  <2> QED BY <1>1, <2>2, <2>3
<1> QED BY <1>2, <1>3 DEF New

(* Who makes a call.                                                          *)
LEMMA MadeBy ==
  ASSUME TypeOK, NEW h \in Calls, NEW c, Makes(h, c)
  PROVE  /\ c.op \in {"close", "closed"} => h.op = "close" /\ (c.t = h.t \/ c.t \in Subs(h.t))
         /\ c.op \in {"start", "startGroup"} =>
              \/ h.op = "startGroup" /\ c.t = h.t
              \/ h.op = "onStart" /\ h.t \in {F} \cup Groups /\ c.t \in ToSet(members[h.t])
         /\ c.op = "store" => h.op = "new"
         /\ c.op \notin {"addChild", "addParent", "disconnectNodes"}
         /\ c.op \in {"removeChild", "removeParent"} => h.op \in {"disconnectParents", "disconnectChildren"}
<1>1. \A name, x : Op(name, x).op = name /\ Op(name, x).t = x
  BY DEF Op
<1>2. \A name, x, y : Op2(name, x, y).op = name
  BY DEF Op2
<1>3. h.t \in Nodes => \A w \in ToSet(watchers[h.t]) : w.kind \in {"children", "parents"}
  <2>1. \A n \in Nodes : \A w \in ToSet(watchers[n]) : w \in Watches
    BY DEF TypeOK, ToSet
  <2>2. \A w \in Watches : w.kind \in {"children", "parents"}
    BY DEF Watches
  <2> QED BY <2>1, <2>2
<1> QED BY <1>1, <1>2, <1>3 DEF Makes

LEMMA ClosingNew ==
  ASSUME FreeInv, NEW th \in Threads, ThreadStep(th), ~Spawn(th), NEW d \in Nat, NEW c \in Calls,
         Makes(Head(todo[th]), c), Has(todo'[th], d, c), ~(Has(todo[th], d, c) /\ ~Executed(th, d, th))
  PROVE  Closing(th, d, c)'
<1> DEFINE h == Head(todo[th])
           t == Arg(th)
<1>1. TypeOK /\ LifeInv /\ [Next]_vars /\ todo[th] # <<>> /\ h \in Calls /\ h.t = t /\ t \in Tasks
  BY HeadTail DEF FreeInv, LifeInv, Next, ThreadStep, Arg
<1>2. \A x \in Tasks : closer[x] # "none" => closer'[x] # "none"
  BY <1>1, CloserMoves
<1>3. c.t \in Tasks
  BY Tree DEF Calls, UserCalls, Tasks
<1>4. c.op \in {"close", "closed"} => Spent(c.t)'
  <2> HAVE c.op \in {"close", "closed"}
  <2>1. h.op = "close" /\ (c.t = t \/ c.t \in Subs(t))
    BY <1>1, MadeBy
  <2>2. Spent(t)
    <3>1. At(th, "close")
      BY <1>1, <2>1 DEF At
    <3> QED BY <3>1, CloseSpent
  <2>3. Spent(c.t)
    BY <1>1, <2>1, <2>2, SpentBelow
  <2> QED BY <1>1, <1>3, <2>3, SpentLasts
<1>5. c.op \in {"start", "startGroup"} => closer'[c.t] # "none"
  <2> HAVE c.op \in {"start", "startGroup"}
  <2>1. \/ h.op = "startGroup" /\ c.t = h.t
        \/ h.op = "onStart" /\ h.t \in {F} \cup Groups /\ c.t \in ToSet(members[h.t])
    BY <1>1, MadeBy
  <2>2. CASE h.op = "startGroup" /\ c.t = h.t
    BY <1>1, <1>2, <1>3, <2>2, HeadClosing DEF Closing
  <2>3. CASE h.t \in {F} \cup Groups /\ c.t \in ToSet(members[h.t])
    BY <1>2, <1>3, <2>3 DEF FreeInv, Closers
  <2> QED BY <2>1, <2>2, <2>3
<1>6. c.op = "store" => Mark(todo'[th], d + 1, "newTask", c.t)
  <2> HAVE c.op = "store"
  <2>1. h.op = "new"
    BY <1>1, MadeBy
  <2>2. New(th)
    BY <1>1, <2>1, OnlyIts DEF At
  <2> QED BY <1>1, <2>2, StoreAfterNew DEF Executed
<1> QED BY <1>4, <1>5, <1>6 DEF Closing

LEMMA FreeStep == FreeInv /\ [Next]_vars => FreeInv'
<1> SUFFICES ASSUME FreeInv, [Next]_vars PROVE Closers' /\ Closings'
  BY LifeStep DEF FreeInv
<1>1. ASSUME NEW th \in Threads, ThreadStep(th) PROVE Closers' /\ Closings'
  <2>1. Closers'
    BY <1>1, ClosersStep
  <2> SUFFICES ASSUME NEW r \in Threads, NEW d \in Nat, NEW c, Has(todo'[r], d, c)
               PROVE  Closing(r, d, c)'
    BY <2>1 DEF Closings
  <2>2. CASE Has(todo[r], d, c) /\ ~Executed(r, d, th)
    BY <1>1, <2>2, ClosingKept
  <2>3. CASE /\ ~(Has(todo[r], d, c) /\ ~Executed(r, d, th))
             /\ r = th /\ ~Spawn(th) /\ c \in Calls /\ Makes(Head(todo[th]), c)
    BY <1>1, <2>3, ClosingNew
  <2>4. CASE r = c.t /\ c.op \in Born /\ (c.op = "close" => d = 3 /\ Mark(todo'[r], 2, "setDone", r))
    BY <2>4 DEF Closing, Born
  <2>5. LifeInv
    BY DEF FreeInv
  <2> QED BY <1>1, <2>2, <2>3, <2>4, <2>5, AfterStep
<1>2. CASE UNCHANGED <<todo, closer, members, status>>
  <2>1. \A t \in Tasks : Spent(t) => Spent(t)'
    BY SpentLasts DEF FreeInv
  <2>2. Closers'
    BY <1>2, <2>1 DEF FreeInv, Closers
  <2>3. ASSUME NEW r \in Threads, NEW d \in Nat, NEW c, Has(todo[r], d, c) PROVE Closing(r, d, c)'
    <3>1. c.t \in Tasks
      <4>1. todo[r] \in Seq(Calls)
        BY DEF FreeInv, LifeInv, TypeOK
      <4>2. c \in Calls
        BY <2>3, <4>1 DEF Has
      <4> QED BY <4>2, Tree DEF Calls, UserCalls, Tasks
    <3>2. Closing(r, d, c)
      BY <2>3 DEF FreeInv, Closings
    <3> QED BY <1>2, <2>1, <3>1, <3>2 DEF Closing
  <2> QED BY <1>2, <2>2, <2>3 DEF Closings
<1>3. ASSUME NEW n \in Nodes, NoderCancel(n) \/ NoderExit(n) PROVE UNCHANGED <<todo, closer, members, status>>
  BY <1>3 DEF NoderCancel, NoderExit
<1> QED BY <1>1, <1>2, <1>3 DEF Next, vars

NobodyCloses == \A u \in Users : \A p \in Programs[u] : \A i \in DOMAIN p : p[i].op # "close"

(* What the goroutines have to do at first.                                    *)
LEMMA AtFirst ==
  ASSUME Init, NEW th \in Threads, NEW d \in Nat, NEW c, Has(todo[th], d, c)
  PROVE  \E p \in Programs[th] :
           /\ th \in Users /\ todo[th] = p /\ p \in Seq(UserCalls) /\ c \in UserCalls
           /\ Len(p) - d \in DOMAIN p /\ p[Len(p) - d] = c
<1>1. PICK p \in [Users -> UNION {Programs[u] : u \in Users}] :
        /\ \A u \in Users : p[u] \in Programs[u]
        /\ todo = [x \in Threads |-> IF x \in Users THEN p[x] ELSE <<>>]
  BY DEF Init
<1>2. todo[th] # <<>>
  BY DEF Has
<1>3. th \in Users /\ todo[th] = p[th] /\ p[th] \in Programs[th]
  BY <1>1, <1>2
<1>4. p[th] \in Seq(UserCalls)
  BY <1>3, FlowAssumption
<1>5. Len(p[th]) - d \in DOMAIN p[th] /\ p[th][Len(p[th]) - d] = c
  BY <1>3, <1>4 DEF Has
<1> QED BY <1>3, <1>4, <1>5

LEMMA FreeInit == OnlyFlowStarts /\ NobodyCloses /\ Init => FreeInv
<1> SUFFICES ASSUME OnlyFlowStarts, NobodyCloses, Init PROVE Closers /\ Closings
  BY LifeInit DEF FreeInv
<1>1. Closers
  <2>1. closer[F] # "none"
    BY Tree DEF Init
  <2>2. \A t \in Tasks : status[t] = "created" /\ closer[t] \notin {"closing", "closed"}
    BY DEF Init
  <2>3. ASSUME NEW p \in {F} \cup Groups, NEW t \in ToSet(members[p]) PROVE closer[t] # "none"
    <3>1. members[p] = Sorted(Subs(p) \cap Initial)
      BY DEF Init
    <3>2. t \in Initial /\ t \in Tasks
      BY <2>3, <3>1, SortedProperties DEF Tasks
    <3> QED BY <3>2 DEF Init
  <2> QED BY <2>1, <2>2, <2>3 DEF Closers
<1>2. ASSUME NEW th \in Threads, NEW d \in Nat, NEW c, Has(todo[th], d, c) PROVE Closing(th, d, c)
  <2>1. PICK p \in Programs[th] : th \in Users /\ c \in UserCalls /\ \E i \in DOMAIN p : p[i] = c
    BY <1>2, AtFirst
  <2>2. c.op # "close" /\ c.op # "startGroup"
    BY <2>1 DEF NobodyCloses, OnlyFlowStarts
  <2>3. c.op \notin {"closed", "store"} /\ (c.op = "start" => c.t = F)
    BY <2>1, <2>2 DEF UserCalls
  <2> QED BY <1>1, <2>2, <2>3 DEF Closing, Closers
<1> QED BY <1>1, <1>2 DEF Closings

LEMMA FreedAfter == FreeInv => FreedWhenIdle
<1> SUFFICES ASSUME FreeInv, NEW n \in Nodes, n \in working
             PROVE  closer[n] = "open" /\ closer[GroupOf[n]] = "open" /\ closer[F] = "open"
  BY DEF FreedWhenIdle
<1> DEFINE g == GroupOf[n]
<1>1. /\ n \in Tasks /\ g \in Groups /\ g \in Tasks /\ F \in Tasks
      /\ Parent(n) = g /\ Parent(g) = F /\ Parent(F) = F
      /\ n \in Subs(g) /\ g \in Subs(F)
  BY FlowAssumption, Tree DEF Parent, Subs
<1>2. TypeOK /\ Phases /\ Closers
  BY DEF FreeInv, LifeInv
<1> HIDE DEF g
<1>3. status[n] # "created" /\ ~Over(n)
  BY <1>1, <1>2 DEF Phases, Over, Idle
<1>4. n \in attached
  BY <1>1, <1>2, <1>3 DEF Phases, Idle, TypeOK
<1>5. status[g] # "created" /\ ~Over(g) /\ status[g] # "done"
  BY <1>1, <1>2, <1>3, <1>4 DEF Phases, Over, Idle, Closers
<1>6. g \in attached
  BY <1>1, <1>2, <1>5 DEF Phases, TypeOK
<1>7. ~Over(F)
  BY <1>1, <1>6 DEF Over, Idle
<1>8. closer[n] # "none" /\ closer[g] # "none" /\ closer[F] # "none"
  BY <1>1, <1>2, <1>3, <1>5 DEF Closers
<1>9. ~Spent(n) /\ ~Spent(g) /\ ~Spent(F)
  BY <1>1, <1>3, <1>5, <1>7 DEF Spent
<1> QED BY <1>1, <1>2, <1>8, <1>9 DEF Closers, TypeOK, g

(* When nobody calls Close and groups are left to their flow, whatever else the  *)
(* users call: the closers of a node, of its group and of the flow are open, and *)
(* their resources held, for as long as the node's goroutine runs.  A task       *)
(* closes itself only once its own wait is over, and what it closes below itself *)
(* has been waited for.                                                        *)
THEOREM FreedWhenIdleHolds == OnlyFlowStarts /\ NobodyCloses => (Spec => []FreedWhenIdle)
<1>1. CASE OnlyFlowStarts /\ NobodyCloses
  <2>1. Init => FreeInv
    BY <1>1, FreeInit
  <2> QED BY <2>1, FreeStep, FreedAfter, PTL DEF Spec
<1> QED BY <1>1

-----------------------------------------------------------------------------
(* Why nodes stop *)

(* What is called of a node that is to stop holds already and will last, and    *)
(* connections are taken down by the nodes that are done alone.                *)
Reasoned(c) ==
  /\ c.op \notin {"addChild", "addParent", "disconnectNodes"}
  /\ c.op \in {"removeChild", "removeParent"} => status[c.t] = "done" \/ status[c.u] = "done"
  /\ c.op \in {"disconnectParents", "disconnectChildren"} => status[c.t] = "done"
  /\ c.op = "parents" => c.t \in WhenAllParentsAreDone
  /\ c.op = "children" => c.t \in WhenAllChildrenAreDone
  /\ c.op = "stop" /\ c.t \in Nodes => Justified(c.t) \/ status[c.t] = "done"
  /\ c.op = "onStop" => status[c.t] \in {"stopping", "done"}

Started == \A t \in Tasks : ctx[t] # "none" => status[t] # "created"

Intact ==
  \A n, m \in Nodes : <<n, m>> \in Edges =>
    \/ status[n] = "done" \/ status[m] = "done"
    \/ m \in children[n] /\ n \in parents[m]

Watching ==
  \A n \in Nodes : \A w \in ToSet(watchers[n]) :
    /\ w.kind = "parents" => w.by \in WhenAllParentsAreDone
    /\ w.kind = "children" => w.by \in WhenAllChildrenAreDone

Reasons == \A th \in Threads, d \in Nat : \A c : Has(todo[th], d, c) => Reasoned(c)

StopInv == LifeInv /\ Started /\ Intact /\ Watching /\ Reasons

(* What is made for which reason.                                              *)
LEMMA MadeFor ==
  ASSUME TypeOK, NEW h \in Calls, NEW c, Makes(h, c)
  PROVE  /\ c.op \in {"removeChild", "removeParent"} =>
              h.op \in {"disconnectParents", "disconnectChildren"} /\ (c.t = h.t \/ c.u = h.t)
         /\ c.op \in {"disconnectParents", "disconnectChildren"} =>
              h.op = "disconnectNodes" \/ (h.op = "emitDone" /\ c.t = h.t)
         /\ c.op \in {"parents", "children"} =>
              /\ h.op = "emitDone" /\ h.t \in Nodes
              /\ \E w \in ToSet(watchers[h.t]) : w.kind = c.op /\ w.by = c.t
         /\ c.op = "stop" =>
              \/ h.op = "onStop" /\ c.t \in Subs(h.t) /\ (h.t \in Groups => c.t \in WhenGroupStops)
              \/ h.op = "remove" /\ c.t = Parent(h.t)
              \/ h.op = "parents" /\ c.t = h.t /\ \A m \in parents[c.t] : status[m] = "done"
              \/ h.op = "children" /\ c.t = h.t /\ \A m \in children[c.t] : status[m] = "done"
         /\ c.op = "onStop" => h.op \in {"stop", "awaitCtx"} /\ status[h.t] = "running" /\ c.t = h.t
<1>1. \A name, x : Op(name, x).op = name /\ Op(name, x).t = x
  BY DEF Op
<1>2. \A name, x, y : Op2(name, x, y).op = name /\ Op2(name, x, y).t = x /\ Op2(name, x, y).u = y
  BY DEF Op2
<1>3. h.t \in Nodes => \A w \in ToSet(watchers[h.t]) : w.kind \in {"children", "parents"}
  <2>1. \A n \in Nodes : \A w \in ToSet(watchers[n]) : w \in Watches
    BY DEF TypeOK, ToSet
  <2>2. \A w \in Watches : w.kind \in {"children", "parents"}
    BY DEF Watches
  <2> QED BY <2>1, <2>2
<1>4. c.op \in {"removeChild", "removeParent"} =>
        h.op \in {"disconnectParents", "disconnectChildren"} /\ (c.t = h.t \/ c.u = h.t)
  BY <1>1, <1>2, <1>3 DEF Makes
<1>5. c.op \in {"disconnectParents", "disconnectChildren"} =>
        h.op = "disconnectNodes" \/ (h.op = "emitDone" /\ c.t = h.t)
  BY <1>1, <1>2, <1>3 DEF Makes
<1>6. c.op \in {"parents", "children"} =>
        /\ h.op = "emitDone" /\ h.t \in Nodes
        /\ \E w \in ToSet(watchers[h.t]) : w.kind = c.op /\ w.by = c.t
  BY <1>1, <1>2, <1>3 DEF Makes
<1>7. c.op = "stop" =>
        \/ h.op = "onStop" /\ c.t \in Subs(h.t) /\ (h.t \in Groups => c.t \in WhenGroupStops)
        \/ h.op = "remove" /\ c.t = Parent(h.t)
        \/ h.op = "parents" /\ c.t = h.t /\ \A m \in parents[c.t] : status[m] = "done"
        \/ h.op = "children" /\ c.t = h.t /\ \A m \in children[c.t] : status[m] = "done"
  BY <1>1, <1>2, <1>3 DEF Makes
<1>8. c.op = "onStop" => h.op \in {"stop", "awaitCtx"} /\ status[h.t] = "running" /\ c.t = h.t
  BY <1>1, <1>2, <1>3 DEF Makes
<1> QED BY <1>4, <1>5, <1>6, <1>7, <1>8

LEMMA CtxMoves ==
  ASSUME TypeOK, NEW th \in Threads, ThreadStep(th), NEW t \in Tasks, ctx'[t] # ctx[t]
  PROVE  \/ status[t] = "created" /\ status'[t] = "starting"
         \/ ctx[t] = "live" /\ ctx'[t] = "cancelled"
<1>0. Arg(th) \in Tasks
  BY HeadTail DEF ThreadStep
<1>1. CASE Start(th)
  BY <1>0, <1>1 DEF Start, TypeOK
<1>2. CASE Cancel(th)
  BY <1>0, <1>2 DEF Cancel, CancelledNow, TypeOK
<1>3. CASE \/ New(th) \/ NewTask(th) \/ Store(th) \/ StartGroup(th) \/ OnStart(th) \/ SetRunning(th) \/ Spawn(th)
           \/ Stop(th) \/ OnStop(th) \/ AwaitCtx(th) \/ AwaitWork(th) \/ Close(th) \/ Closed(th)
  BY <1>3 DEF New, NewTask, Store, StartGroup, OnStart, SetRunning, Spawn, Stop, OnStop, AwaitCtx, AwaitWork,
              Close, Closed, runtime
<1>4. CASE \/ SetDone(th) \/ EmitDone(th) \/ Release(th) \/ DisconnectParents(th) \/ DisconnectChildren(th)
           \/ DisconnectNodes(th) \/ RemoveMember(th)
  BY <1>4 DEF SetDone, EmitDone, Release, DisconnectParents, DisconnectChildren, DisconnectNodes, RemoveMember, runtime
<1>5. CASE WatchedParents(th) \/ WatchedChildren(th)
  BY <1>5 DEF WatchedParents, WatchedChildren, Watched, runtime
<1>6. CASE \/ AddChild(th) \/ AddParent(th) \/ RemoveChild(th) \/ RemoveParent(th)
           \/ UnwatchChild(th) \/ UnwatchParent(th)
  BY <1>6 DEF AddChild, AddParent, RemoveChild, RemoveParent, UnwatchChild, UnwatchParent, Unwatch, runtime
<1> QED BY <1>1, <1>2, <1>3, <1>4, <1>5, <1>6 DEF ThreadStep

LEMMA CtxNext ==
  ASSUME TypeOK, [Next]_vars, NEW t \in Tasks, ctx'[t] # ctx[t]
  PROVE  \/ status[t] = "created" /\ status'[t] = "starting"
         \/ ctx[t] = "live" /\ ctx'[t] = "cancelled"
<1>1. ASSUME NEW n \in Nodes, NoderCancel(n) \/ NoderExit(n)
      PROVE  ctx[t] = "live" /\ ctx'[t] = "cancelled"
  BY <1>1 DEF NoderCancel, NoderExit, TypeOK
<1>2. CASE UNCHANGED vars
  BY <1>2 DEF vars
<1> QED BY <1>1, <1>2, CtxMoves DEF Next

LEMMA ReasonLasts ==
  ASSUME LifeInv, Started, [Next]_vars, NEW n \in Nodes, Justified(n) \/ status[n] = "done"
  PROVE  Justified(n)' \/ status'[n] = "done"
<1>1. TypeOK /\ n \in Tasks /\ GroupOf[n] \in Tasks /\ Nodes \subseteq Tasks
  BY Tree, FlowAssumption DEF LifeInv, Tasks
<1>2. status[n] = "done" => status'[n] = "done"
  BY <1>1, Lasting
<1>3. ctx[n] = "cancelled" => ctx'[n] = "cancelled"
  BY <1>1, CtxNext DEF Started
<1>4. \A m \in Nodes : status[m] = "done" => status'[m] = "done"
  BY <1>1, Lasting
<1>5. status[GroupOf[n]] \in {"stopping", "done"} => status'[GroupOf[n]] \in {"stopping", "done"}
  BY <1>1, Lasting
<1> QED BY <1>2, <1>3, <1>4, <1>5 DEF Justified

LEMMA StartedStep == LifeInv /\ Started /\ [Next]_vars => Started'
<1> SUFFICES ASSUME LifeInv, Started, [Next]_vars, NEW t \in Tasks, ctx'[t] # "none"
             PROVE  status'[t] # "created"
  BY DEF Started
<1>1. TypeOK
  BY DEF LifeInv
<1>2. CASE ctx'[t] = ctx[t]
  BY <1>2, Lasting DEF Started
<1>3. CASE ctx'[t] # ctx[t]
  <2>1. ctx[t] = "live" => status[t] # "created"
    BY DEF Started
  <2> QED BY <1>1, <1>3, <2>1, CtxNext, Lasting
<1> QED BY <1>2, <1>3

(* Only the ends of a connection that an operation is about change.             *)
LEMMA LinksMove ==
  ASSUME TypeOK, NEW th \in Threads, ThreadStep(th), NEW n \in Nodes
  PROVE  /\ \A m \in children[n] : m \notin children'[n] =>
              RemoveChild(th) /\ At(th, "removeChild") /\ Arg(th) = n /\ Arg2(th) = m
         /\ \A m \in parents[n] : m \notin parents'[n] =>
              RemoveParent(th) /\ At(th, "removeParent") /\ Arg(th) = n /\ Arg2(th) = m
         /\ \/ At(th, "addChild") \/ At(th, "addParent")
            \/ /\ children'[n] \subseteq children[n] /\ parents'[n] \subseteq parents[n]
               /\ ToSet(watchers'[n]) \subseteq ToSet(watchers[n])
<1>1. CASE UNCHANGED links
  BY <1>1 DEF links
<1>2. CASE AddChild(th)
  <2>1. At(th, "addChild") /\ parents' = parents
    BY <1>2 DEF AddChild
  <2>2. children[n] \subseteq children'[n]
    BY <1>2 DEF AddChild, TypeOK
  <2> QED BY <2>1, <2>2
<1>3. CASE AddParent(th)
  <2>1. At(th, "addParent") /\ children' = children
    BY <1>3 DEF AddParent
  <2>2. parents[n] \subseteq parents'[n]
    BY <1>3 DEF AddParent, TypeOK
  <2> QED BY <2>1, <2>2
<1>4. CASE RemoveChild(th)
  <2>1. /\ At(th, "removeChild") /\ parents' = parents /\ watchers' = watchers
        /\ children' = [children EXCEPT ![Arg(th)] = @ \ {Arg2(th)}]
    BY <1>4 DEF RemoveChild
  <2>2. /\ n # Arg(th) => children'[n] = children[n]
        /\ n = Arg(th) => children'[n] = children[n] \ {Arg2(th)}
    BY <2>1 DEF TypeOK
  <2> QED BY <1>4, <2>1, <2>2
<1>5. CASE RemoveParent(th)
  <2>1. /\ At(th, "removeParent") /\ children' = children /\ watchers' = watchers
        /\ parents' = [parents EXCEPT ![Arg(th)] = @ \ {Arg2(th)}]
    BY <1>5 DEF RemoveParent
  <2>2. /\ n # Arg(th) => parents'[n] = parents[n]
        /\ n = Arg(th) => parents'[n] = parents[n] \ {Arg2(th)}
    BY <2>1 DEF TypeOK
  <2> QED BY <1>5, <2>1, <2>2
<1>6. CASE UnwatchChild(th) \/ UnwatchParent(th)
  <2>1. /\ children' = children /\ parents' = parents
        /\ \E S : watchers' = [watchers EXCEPT ![Arg2(th)] = Selected(@, S)]
    BY <1>6 DEF UnwatchChild, UnwatchParent, Unwatch
  <2>2. PICK S : watchers' = [watchers EXCEPT ![Arg2(th)] = Selected(@, S)]
    BY <2>1
  <2>3. watchers'[n] = watchers[n] \/ watchers'[n] = Selected(watchers[n], S)
    BY <2>2 DEF TypeOK
  <2>4. ToSet(Selected(watchers[n], S)) = ToSet(watchers[n]) \cap S
    <3>1. watchers[n] \in Seq(Watches)
      BY DEF TypeOK
    <3> QED BY <3>1, SelectedProperties
  <2> QED BY <2>1, <2>3, <2>4
<1> QED BY <1>1, <1>2, <1>3, <1>4, <1>5, <1>6, Untouched

LEMMA HeadReasoned ==
  ASSUME StopInv, NEW th \in Threads, todo[th] # <<>>
  PROVE  /\ Reasoned(Head(todo[th])) /\ Head(todo[th]) \in Calls
         /\ ~At(th, "addChild") /\ ~At(th, "addParent") /\ ~At(th, "disconnectNodes")
<1>1. Head(todo[th]) \in Calls /\ Reasoned(Head(todo[th]))
  BY TopItem DEF StopInv, LifeInv, Reasons
<1> QED BY <1>1 DEF Reasoned, At

LEMMA LinksStep ==
  ASSUME StopInv, NEW th \in Threads, ThreadStep(th)
  PROVE  Intact' /\ Watching'
<1>1. TypeOK /\ LifeInv /\ todo[th] # <<>> /\ [Next]_vars
  BY DEF StopInv, LifeInv, ThreadStep, Next
<1>2. /\ ~At(th, "addChild") /\ ~At(th, "addParent")
      /\ At(th, "removeChild") \/ At(th, "removeParent") => status[Arg(th)] = "done" \/ status[Arg2(th)] = "done"
  BY <1>1, HeadReasoned DEF Reasoned, At, Arg, Arg2
<1>3. \A n \in Nodes : status[n] = "done" => status'[n] = "done"
  BY <1>1, Lasting, Tree
<1>4. Intact'
  <2> SUFFICES ASSUME NEW n \in Nodes, NEW m \in Nodes, <<n, m>> \in Edges
               PROVE  \/ status'[n] = "done" \/ status'[m] = "done"
                      \/ m \in children'[n] /\ n \in parents'[m]
    BY DEF Intact
  <2>1. CASE status[n] = "done" \/ status[m] = "done"
    BY <1>3, <2>1
  <2>2. CASE m \in children[n] /\ n \in parents[m]
    <3>1. m \in children'[n] \/ status[n] = "done" \/ status[m] = "done"
      BY <1>1, <1>2, <2>2, LinksMove
    <3>2. n \in parents'[m] \/ status[n] = "done" \/ status[m] = "done"
      BY <1>1, <1>2, <2>2, LinksMove
    <3> QED BY <1>3, <3>1, <3>2
  <2> QED BY <2>1, <2>2 DEF StopInv, Intact
<1>5. Watching'
  <2>1. \A n \in Nodes : ToSet(watchers'[n]) \subseteq ToSet(watchers[n])
    BY <1>1, <1>2, LinksMove
  <2> QED BY <2>1 DEF StopInv, Watching
<1> QED BY <1>4, <1>5

LEMMA ReasonedKept ==
  ASSUME StopInv, [Next]_vars, NEW c \in Calls, Reasoned(c)
  PROVE  Reasoned(c)'
<1>1. LifeInv /\ Started
  BY DEF StopInv
<1>2. \A t \in Tasks :
        /\ status[t] = "done" => status'[t] = "done"
        /\ status[t] \in {"stopping", "done"} => status'[t] \in {"stopping", "done"}
  BY <1>1, Lasting
<1>3. c.t \in Tasks /\ c.u \in Tasks
  BY Tree DEF Calls, UserCalls, Tasks
<1>4. c.t \in Nodes /\ (Justified(c.t) \/ status[c.t] = "done") => Justified(c.t)' \/ status'[c.t] = "done"
  BY <1>1, ReasonLasts
<1>5. /\ c.op \in {"removeChild", "removeParent"} => status[c.t] = "done" \/ status[c.u] = "done"
      /\ c.op \in {"disconnectParents", "disconnectChildren"} => status[c.t] = "done"
      /\ c.op = "onStop" => status[c.t] \in {"stopping", "done"}
      /\ c.op = "stop" /\ c.t \in Nodes => Justified(c.t) \/ status[c.t] = "done"
  BY DEF Reasoned
<1>6. /\ c.op \in {"removeChild", "removeParent"} => status'[c.t] = "done" \/ status'[c.u] = "done"
      /\ c.op \in {"disconnectParents", "disconnectChildren"} => status'[c.t] = "done"
      /\ c.op = "onStop" => status'[c.t] \in {"stopping", "done"}
  BY ONLY <1>2, <1>3, <1>5
<1>8. c.op = "stop" /\ c.t \in Nodes => Justified(c.t)' \/ status'[c.t] = "done"
  BY <1>4, <1>5
<1> QED BY <1>6, <1>8 DEF Reasoned

(* A task emits that it is done when it is.                                     *)
LEMMA DoneWhenEmitted ==
  ASSUME LifeInv, NEW th \in Threads, At(th, "emitDone")
  PROVE  th = Arg(th) /\ status[th] = "done"
<1>1. TypeOK /\ todo[th] # <<>> /\ Arg(th) \in Tasks
  BY HeadOf DEF LifeInv
<1>2. Top(th) \in Nat /\ Mark(todo[th], Top(th), "emitDone", Arg(th))
  BY <1>1, TopMark
<1>3. th = Arg(th) /\ Top(th) = 1
  BY <1>1, <1>2 DEF LifeInv, Ends, Reserved, Place
<1>4. ~Mark(todo[th], 2, "setDone", th)
  <2>1. \A d \in Nat : \A name, u : Mark(todo[th], d, name, u) => d <= Top(th)
    BY <1>1, TopItem, ItemMark
  <2> QED BY <1>3, <2>1
<1> QED BY <1>1, <1>3, <1>4 DEF LifeInv, Phases

(* A node whose remaining parents, or children, are done has no connected one    *)
(* left that is not.                                                          *)
LEMMA Forsaken ==
  ASSUME StopInv, NEW n \in Nodes, NEW kind \in {"parents", "children"},
         kind = "parents" => n \in WhenAllParentsAreDone /\ \A m \in parents[n] : status[m] = "done",
         kind = "children" => n \in WhenAllChildrenAreDone /\ \A m \in children[n] : status[m] = "done"
  PROVE  Justified(n) \/ status[n] = "done"
<1>1. CASE kind = "parents"
  <2>1. \A p \in Nodes : <<p, n>> \in Edges => status[p] = "done" \/ status[n] = "done"
    BY <1>1 DEF StopInv, Intact
  <2> QED BY <1>1, <2>1 DEF Justified
<1>2. CASE kind = "children"
  <2>1. \A m \in Nodes : <<n, m>> \in Edges => status[m] = "done" \/ status[n] = "done"
    BY <1>2 DEF StopInv, Intact
  <2> QED BY <1>2, <2>1 DEF Justified
<1> QED BY <1>1, <1>2

LEMMA StopReasoned ==
  ASSUME StopInv, NEW th \in Threads, todo[th] # <<>>, NEW c \in Calls,
         Makes(Head(todo[th]), c), c.op = "stop", c.t \in Nodes
  PROVE  Justified(c.t) \/ status[c.t] = "done"
<1> DEFINE h == Head(todo[th])
<1>1. TypeOK /\ h \in Calls /\ Reasoned(h)
  BY HeadReasoned DEF StopInv, LifeInv
<1>2. h.t \in Tasks
  BY <1>1, Tree DEF Calls, UserCalls, Tasks
<1>3. \/ h.op = "onStop" /\ c.t \in Subs(h.t) /\ (h.t \in Groups => c.t \in WhenGroupStops)
      \/ h.op = "remove" /\ c.t = Parent(h.t)
      \/ h.op = "parents" /\ c.t = h.t /\ \A m \in parents[c.t] : status[m] = "done"
      \/ h.op = "children" /\ c.t = h.t /\ \A m \in children[c.t] : status[m] = "done"
  BY <1>1, MadeFor
<1> HIDE DEF h
<1>4. CASE h.op = "onStop" /\ c.t \in Subs(h.t) /\ (h.t \in Groups => c.t \in WhenGroupStops)
  <2>1. h.t = GroupOf[c.t] /\ h.t \in Groups
    BY <1>4, FlowAssumption DEF Subs, Parent
  <2>2. status[h.t] \in {"stopping", "done"}
    BY <1>1, <1>4 DEF Reasoned
  <2> QED BY <1>4, <2>1, <2>2 DEF Justified
<1>5. CASE h.op = "remove" /\ c.t = Parent(h.t)
  BY <1>2, <1>5, Tree, FlowAssumption
<1>6. CASE h.op = "parents" /\ c.t = h.t /\ \A m \in parents[c.t] : status[m] = "done"
  <2>1. c.t \in WhenAllParentsAreDone
    BY <1>1, <1>6 DEF Reasoned
  <2> QED BY <1>6, <2>1, Forsaken
<1>7. CASE h.op = "children" /\ c.t = h.t /\ \A m \in children[c.t] : status[m] = "done"
  <2>1. c.t \in WhenAllChildrenAreDone
    BY <1>1, <1>7 DEF Reasoned
  <2> QED BY <1>7, <2>1, Forsaken
<1> QED BY <1>3, <1>4, <1>5, <1>6, <1>7

LEMMA ReasonedNew ==
  ASSUME StopInv, NEW th \in Threads, ThreadStep(th), NEW c \in Calls, Makes(Head(todo[th]), c)
  PROVE  Reasoned(c)'
<1> DEFINE h == Head(todo[th])
<1>1. TypeOK /\ LifeInv /\ Started /\ Watching /\ [Next]_vars /\ todo[th] # <<>> /\ h \in Calls /\ Reasoned(h)
  BY HeadReasoned DEF StopInv, LifeInv, Next, ThreadStep
<1>2. \A t \in Tasks : status[t] = "done" => status'[t] = "done"
  BY <1>1, Lasting
<1>3. c.t \in Tasks /\ c.u \in Tasks /\ h.t \in Tasks
  BY <1>1, Tree DEF Calls, UserCalls, Tasks
<1>4. c.op \notin {"addChild", "addParent", "disconnectNodes"}
  BY <1>1, MadeBy
<1>5. c.op \in {"removeChild", "removeParent"} => status'[c.t] = "done" \/ status'[c.u] = "done"
  <2> HAVE c.op \in {"removeChild", "removeParent"}
  <2>1. h.op \in {"disconnectParents", "disconnectChildren"} /\ (c.t = h.t \/ c.u = h.t)
    BY <1>1, MadeFor
  <2>2. status[h.t] = "done"
    BY <1>1, <2>1 DEF Reasoned
  <2> QED BY <1>2, <1>3, <2>1, <2>2
<1>6. c.op \in {"disconnectParents", "disconnectChildren"} => status'[c.t] = "done"
  <2> HAVE c.op \in {"disconnectParents", "disconnectChildren"}
  <2>1. h.op = "disconnectNodes" \/ (h.op = "emitDone" /\ c.t = h.t)
    BY <1>1, MadeFor
  <2>2. h.op = "emitDone" /\ c.t = h.t
    BY <1>1, <2>1 DEF Reasoned
  <2>3. At(th, "emitDone") /\ Arg(th) = c.t
    BY <1>1, <2>2 DEF At, Arg
  <2>4. status[c.t] = "done"
    BY <1>1, <2>3, DoneWhenEmitted
  <2> QED BY <1>2, <1>3, <2>4
<1>7. /\ c.op = "parents" => c.t \in WhenAllParentsAreDone
      /\ c.op = "children" => c.t \in WhenAllChildrenAreDone
  <2>1. c.op \in {"parents", "children"} =>
          h.t \in Nodes /\ \E w \in ToSet(watchers[h.t]) : w.kind = c.op /\ w.by = c.t
    BY <1>1, MadeFor
  <2> HIDE DEF h
  <2> QED BY <1>1, <2>1 DEF Watching
<1>8. c.op = "stop" /\ c.t \in Nodes => Justified(c.t)' \/ status'[c.t] = "done"
  <2> HAVE c.op = "stop" /\ c.t \in Nodes
  <2>1. Justified(c.t) \/ status[c.t] = "done"
    BY <1>1, StopReasoned
  <2> QED BY <1>1, <2>1, ReasonLasts
<1>9. c.op = "onStop" => status'[c.t] \in {"stopping", "done"}
  <2> HAVE c.op = "onStop"
  <2>1. h.op \in {"stop", "awaitCtx"} /\ status[h.t] = "running" /\ c.t = h.t
    BY <1>1, MadeFor
  <2>2. Stop(th) \/ AwaitCtx(th)
    <3>1. At(th, "stop") \/ At(th, "awaitCtx")
      BY <1>1, <2>1 DEF At
    <3> QED BY <3>1, OnlyIts
  <2>3. Arg(th) = c.t
    BY <2>1 DEF Arg
  <2> QED BY <1>1, <1>3, <2>1, <2>2, <2>3 DEF Stop, AwaitCtx, Stopping, TypeOK
<1> QED BY <1>4, <1>5, <1>6, <1>7, <1>8, <1>9 DEF Reasoned

LEMMA StopInvStep == StopInv /\ [Next]_vars => StopInv'
<1> SUFFICES ASSUME StopInv, [Next]_vars PROVE Intact' /\ Watching' /\ Reasons'
  BY LifeStep, StartedStep DEF StopInv
<1>1. LifeInv /\ TypeOK
  BY DEF StopInv, LifeInv
<1>2. \A r \in Threads, d \in Nat : \A c : Has(todo[r], d, c) => c \in Calls /\ Reasoned(c)'
  <2> SUFFICES ASSUME NEW r \in Threads, NEW d \in Nat, NEW c, Has(todo[r], d, c)
               PROVE  c \in Calls /\ Reasoned(c)'
    OBVIOUS
  <2>1. todo[r] \in Seq(Calls)
    BY <1>1 DEF TypeOK
  <2>2. c \in Calls
    BY <2>1 DEF Has
  <2>3. Reasoned(c)
    BY DEF StopInv, Reasons
  <2> QED BY <2>2, <2>3, ReasonedKept
<1>3. ASSUME NEW th \in Threads, ThreadStep(th) PROVE Intact' /\ Watching' /\ Reasons'
  <2>1. Intact' /\ Watching'
    BY <1>3, LinksStep
  <2> SUFFICES ASSUME NEW r \in Threads, NEW d \in Nat, NEW c, Has(todo'[r], d, c)
               PROVE  Reasoned(c)'
    BY <2>1 DEF Reasons
  <2>2. CASE Has(todo[r], d, c)
    BY <1>2, <2>2
  <2>3. CASE c \in Calls /\ Makes(Head(todo[th]), c)
    BY <1>3, <2>3, ReasonedNew
  <2>4. CASE c.op \in Born
    BY <2>4 DEF Reasoned, Born
  <2> QED BY <1>1, <1>3, <2>2, <2>3, <2>4, AfterStep
<1>4. CASE UNCHANGED <<todo, status, links>>
  <2>1. Intact' /\ Watching'
    BY <1>4 DEF StopInv, Intact, Watching, links
  <2>2. Reasons'
    BY <1>2, <1>4 DEF Reasons
  <2> QED BY <2>1, <2>2
<1>5. ASSUME NEW n \in Nodes, NoderCancel(n) \/ NoderExit(n) PROVE UNCHANGED <<todo, status, links>>
  BY <1>5 DEF NoderCancel, NoderExit
<1>6. UNCHANGED vars => UNCHANGED <<todo, status, links>>
  BY DEF vars, links
<1> QED BY <1>3, <1>4, <1>5, <1>6 DEF Next

(* The reasons to stop are about the connections made before the flow starts:    *)
(* the users leave them as they are.                                          *)
LinksLeftAlone ==
  \A u \in Users : \A p \in Programs[u] : \A i \in DOMAIN p :
    p[i].op \notin {"addChild", "addParent", "removeChild", "removeParent", "disconnectNodes"}

LEMMA InitialWatching ==
  ASSUME NEW n \in Nodes, NEW w \in ToSet(InitialWatchers(n))
  PROVE  /\ w.kind = "parents" => w.by \in WhenAllParentsAreDone
         /\ w.kind = "children" => w.by \in WhenAllChildrenAreDone
<1> DEFINE by == Sorted(Nodes)
           A == {m \in WhenAllChildrenAreDone : <<m, n>> \in Edges}
           B == {m \in WhenAllParentsAreDone : <<n, m>> \in Edges}
           asChild == Selected(by, A)
           asParent == Selected(by, B)
           ws == [i \in DOMAIN asChild |-> Watch(asChild[i], "children")]
           vs == [i \in DOMAIN asParent |-> Watch(asParent[i], "parents")]
<1>1. by \in Seq(Nodes)
  <2>1. (Groups \cup Nodes) \cap Nodes = Nodes
    OBVIOUS
  <2> QED BY <2>1, SortedProperties
<1> HIDE DEF by
<1>2. asChild \in Seq(WhenAllChildrenAreDone) /\ asParent \in Seq(WhenAllParentsAreDone)
  <2> HIDE DEF A, B
  <2>1. Selected(by, A) \in Seq(Nodes \cap A) /\ Selected(by, B) \in Seq(Nodes \cap B)
    BY <1>1, SelectedProperties
  <2>2. Selected(by, A) \in Seq(A) /\ Selected(by, B) \in Seq(B)
    BY <2>1
  <2>3. A \subseteq WhenAllChildrenAreDone /\ B \subseteq WhenAllParentsAreDone
    BY DEF A, B
  <2>4. Selected(by, A) \in Seq(WhenAllChildrenAreDone) /\ Selected(by, B) \in Seq(WhenAllParentsAreDone)
    BY <2>2, <2>3
  <2> QED BY <2>4
<1> DEFINE V == [by : WhenAllChildrenAreDone, kind : {"children"}] \cup [by : WhenAllParentsAreDone, kind : {"parents"}]
<1>3. InitialWatchers(n) = ws \o vs
  BY DEF InitialWatchers, by
<1> HIDE DEF asChild, asParent
<1>4. ws \in Seq(V) /\ vs \in Seq(V)
  BY <1>2 DEF Watch
<1> HIDE DEF ws, vs
<1>5. InitialWatchers(n) \in Seq(V)
  BY <1>3, <1>4
<1>6. w \in V
  BY <1>5 DEF ToSet
<1> QED BY <1>6

LEMMA StopInvInit == OnlyFlowStarts /\ LinksLeftAlone /\ Init => StopInv
<1> SUFFICES ASSUME OnlyFlowStarts, LinksLeftAlone, Init PROVE Started /\ Intact /\ Watching /\ Reasons
  BY LifeInit DEF StopInv
<1>1. Started /\ Intact
  BY DEF Init, Started, Intact
<1>2. Watching
  <2>1. \A n \in Nodes : watchers[n] = InitialWatchers(n)
    BY DEF Init
  <2> QED BY <2>1, InitialWatching DEF Watching
<1>3. ASSUME NEW th \in Threads, NEW d \in Nat, NEW c, Has(todo[th], d, c) PROVE Reasoned(c)
  <2>1. PICK p \in Programs[th] : th \in Users /\ c \in UserCalls /\ \E i \in DOMAIN p : p[i] = c
    BY <1>3, AtFirst
  <2>2. c.op \notin {"addChild", "addParent", "removeChild", "removeParent", "disconnectNodes"}
    BY <2>1 DEF LinksLeftAlone
  <2>3. /\ c.op \notin {"disconnectParents", "disconnectChildren", "parents", "children", "onStop"}
        /\ c.op = "stop" => c.t \notin Nodes
    BY <2>1, <2>2, FlowAssumption DEF UserCalls
  <2> QED BY <2>2, <2>3 DEF Reasoned
<1> QED BY <1>1, <1>2, <1>3 DEF Reasons

LEMMA StopsJustified ==
  ASSUME StopInv, [Next]_vars, NEW n \in Nodes, status[n] = "running", status'[n] = "stopping"
  PROVE  Justified(n)
<1>1. TypeOK /\ n \in Tasks
  BY Tree DEF StopInv, LifeInv
<1>2. ASSUME NEW th \in Threads, ThreadStep(th) PROVE Justified(n)
  <2>1. n = Arg(th) /\ (Stop(th) \/ (AwaitCtx(th) /\ ctx[n] = "cancelled"))
    BY <1>1, <1>2, StatusMoves
  <2>2. CASE Stop(th)
    <3>1. At(th, "stop") /\ todo[th] # <<>>
      BY <1>2, <2>2 DEF Stop, ThreadStep
    <3>2. Reasoned(Head(todo[th])) /\ Head(todo[th]).op = "stop" /\ Head(todo[th]).t = n
      BY <2>1, <3>1, HeadReasoned DEF At, Arg
    <3> QED BY <3>2 DEF Reasoned
  <2>3. CASE ctx[n] = "cancelled"
    BY <2>3 DEF Justified
  <2> QED BY <2>1, <2>2, <2>3
<1>3. ASSUME NEW m \in Nodes, NoderCancel(m) \/ NoderExit(m) PROVE FALSE
  BY <1>3 DEF NoderCancel, NoderExit
<1>4. ~UNCHANGED vars
  BY DEF vars
<1> QED BY <1>2, <1>3, <1>4 DEF Next

(* When groups are left to their flow and the connections to the nodes that end, *)
(* a running node goes to stopping only for a reason its options name, or after   *)
(* its context was cancelled: whatever goroutine calls its Stop found the reason  *)
(* to hold earlier, and none of the reasons ends.                              *)
THEOREM NodeStopsHolds == OnlyFlowStarts /\ LinksLeftAlone => (Spec => NodeStopsForAReason)
<1>1. StopInv /\ [Next]_vars =>
        [\A n \in Nodes : status[n] = "running" /\ status'[n] = "stopping" => Justified(n)]_vars
  BY StopsJustified
<1>2. CASE OnlyFlowStarts /\ LinksLeftAlone
  <2>1. Init => StopInv
    BY <1>2, StopInvInit
  <2> QED BY <1>1, <2>1, StopInvStep, PTL DEF Spec, NodeStopsForAReason
<1> QED BY <1>2

-----------------------------------------------------------------------------
(* What is left of the connections of a node *)

(* A call that a goroutine has still to execute.                               *)
Pending(th, c) == \E d \in Nat : Has(todo[th], d, c)

(* The half that forgets a parent follows the one that forgets the child.       *)
Couples(s) ==
  \A i \in DOMAIN s : s[i].op = "removeParent" =>
    i > 1 /\ s[i - 1] = Op2("removeChild", s[i].u, s[i].t)

(* A child knows its parent, whatever is being taken down: the child is          *)
(* forgotten first.                                                           *)
Mutual == \A n, m \in Nodes : m \in children[n] => n \in parents[m]

Coupled(th, d, c) ==
  /\ c.op \notin {"addChild", "addParent"}
  /\ c.op = "removeParent" =>
       c.t \notin children[c.u] \/ Has(todo[th], d + 1, Op2("removeChild", c.u, c.t))

Couplings == \A th \in Threads, d \in Nat : \A c : Has(todo[th], d, c) => Coupled(th, d, c)

(* Each connection of a node that is done is still to be taken down by the       *)
(* goroutine that ended it.                                                    *)
Announcing(n) == \E d \in Nat : Mark(todo[n], d, "emitDone", n)

Parting(n) ==
  \/ Announcing(n)
  \/ /\ \A p \in parents[n] :
          Pending(n, Op("disconnectParents", n)) \/ Pending(n, Op2("removeParent", n, p))
     /\ \A m \in children[n] :
          Pending(n, Op("disconnectChildren", n)) \/ Pending(n, Op2("removeChild", n, m))

PartInv == LifeInv /\ Mutual /\ Couplings /\ \A n \in Nodes : status[n] = "done" => Parting(n)

LEMMA CouplesJoin ==
  ASSUME NEW a \in Seq(Calls), NEW b \in Seq(Calls), Couples(a), Couples(b)
  PROVE  Couples(a \o b)
<1> DEFINE s == a \o b
<1>1. /\ Len(a) \in Nat /\ Len(b) \in Nat /\ DOMAIN a = 1 .. Len(a) /\ DOMAIN b = 1 .. Len(b)
      /\ DOMAIN s = 1 .. Len(a) + Len(b)
      /\ \A i \in 1 .. Len(a) : s[i] = a[i]
      /\ \A i \in 1 .. Len(a) + Len(b) : i > Len(a) => s[i] = b[i - Len(a)]
  OBVIOUS
<1> HIDE DEF s
<1> SUFFICES ASSUME NEW i \in 1 .. Len(a) + Len(b), s[i].op = "removeParent"
             PROVE  i > 1 /\ s[i - 1] = Op2("removeChild", s[i].u, s[i].t)
  BY <1>1 DEF Couples, s
<1>2. CASE i <= Len(a)
  <2>1. i \in 1 .. Len(a) /\ s[i] = a[i]
    BY <1>1, <1>2
  <2>2. i > 1 /\ a[i - 1] = Op2("removeChild", a[i].u, a[i].t)
    BY <1>1, <2>1 DEF Couples
  <2>3. i - 1 \in 1 .. Len(a)
    BY <2>1, <2>2
  <2> QED BY <1>1, <2>1, <2>2, <2>3
<1>3. CASE i > Len(a)
  <2> DEFINE k == i - Len(a)
  <2>1. k \in 1 .. Len(b) /\ s[i] = b[k]
    BY <1>1, <1>3
  <2>2. k > 1 /\ b[k - 1] = Op2("removeChild", b[k].u, b[k].t)
    BY <1>1, <2>1 DEF Couples
  <2>3. i - 1 \in 1 .. Len(a) + Len(b) /\ i - 1 > Len(a) /\ (i - 1) - Len(a) = k - 1 /\ i > 1
    BY <1>1, <1>3, <2>2
  <2>4. s[i - 1] = b[k - 1]
    BY <1>1, <2>3
  <2> QED BY <2>1, <2>2, <2>3, <2>4
<1> QED BY <1>1, <1>2, <1>3

LEMMA DisconnectCouples ==
  ASSUME NEW n \in Nodes, NEW m \in Nodes
  PROVE  /\ Disconnect(n, m) \in Seq(Calls) /\ Couples(Disconnect(n, m))
         /\ ToSet(Disconnect(n, m)) = {Op2("removeChild", n, m), Op2("removeParent", m, n)}
<1> DEFINE a == Op2("removeChild", n, m)
           b == Op2("removeParent", m, n)
<1>1. a \in Calls /\ b \in Calls
  BY UnlinkOp
<1>2. a.op = "removeChild" /\ b.t = m /\ b.u = n
  BY DEF Op2
<1>3. a = Op2("removeChild", b.u, b.t)
  BY <1>2
<1>4. Disconnect(n, m) = <<a, b>>
  BY DEF Disconnect
<1> HIDE DEF a, b
<1>5. <<a, b>> \in Seq(Calls) /\ Couples(<<a, b>>)
  BY <1>1, <1>2, <1>3 DEF Couples
<1>6. ToSet(<<a, b>>) = {a, b}
  BY DEF ToSet
<1> QED BY <1>4, <1>5, <1>6 DEF a, b

(* What taking down the connections of a node to others calls.                  *)
LEMMA FlattenCouples ==
  ASSUME NEW seqs \in Seq({s \in Seq(Calls) : Couples(s)})
  PROVE  /\ FlattenSeq(seqs) \in Seq(Calls) /\ Couples(FlattenSeq(seqs))
         /\ \A i \in DOMAIN seqs : \A x \in ToSet(seqs[i]) : x \in ToSet(FlattenSeq(seqs))
<1> DEFINE C == {s \in Seq(Calls) : Couples(s)}
<1>1. C \in SUBSET Seq(Calls) /\ <<>> \in C
  BY DEF Couples
<1>2. \A a, b \in C : a \o b \in C
  BY CouplesJoin
<1>3. seqs \in Seq(C)
  OBVIOUS
<1>4. \A s \in C : s \in Seq(Calls) /\ Couples(s)
  OBVIOUS
<1> HIDE DEF C
<1>5. FlattenSeq(seqs) \in C /\ ToSet(FlattenSeq(seqs)) = UNION {ToSet(seqs[i]) : i \in DOMAIN seqs}
  BY <1>1, <1>2, <1>3, FlattenProperties
<1> QED BY <1>4, <1>5

LEMMA PartsFrom ==
  ASSUME TypeOK, NEW th \in Threads, DisconnectParents(th) \/ DisconnectChildren(th)
  PROVE  \E ops \in Seq(Calls) :
           /\ Call(th, ops) /\ Couples(ops) /\ Arg(th) \in Nodes
           /\ DisconnectParents(th) =>
                \A p \in parents[Arg(th)] : Op2("removeParent", Arg(th), p) \in ToSet(ops)
           /\ DisconnectChildren(th) =>
                \A m \in children[Arg(th)] : Op2("removeChild", Arg(th), m) \in ToSet(ops)
<1> DEFINE n == Arg(th)
           C == {s \in Seq(Calls) : Couples(s)}
<1>0. /\ DisconnectParents(th) => At(th, "disconnectParents")
      /\ DisconnectChildren(th) => At(th, "disconnectChildren")
      /\ ~(At(th, "disconnectParents") /\ At(th, "disconnectChildren"))
  BY DEF DisconnectParents, DisconnectChildren, At
<1>1. CASE DisconnectParents(th)
  <2> DEFINE ps == Sorted(parents[n])
             calls == [i \in DOMAIN ps |-> Disconnect(ps[i], n)]
  <2>1. n \in Nodes /\ Call(th, FlattenSeq(calls)) /\ parents[n] \subseteq Nodes
    BY <1>1, HeadOf, Arguments DEF DisconnectParents, TypeOK
  <2>2. ps \in Seq(parents[n]) /\ ToSet(ps) = parents[n]
    <3>1. ps \in Seq((Groups \cup Nodes) \cap parents[n]) /\ ToSet(ps) = (Groups \cup Nodes) \cap parents[n]
      BY SortedProperties
    <3>2. (Groups \cup Nodes) \cap parents[n] = parents[n]
      BY <2>1
    <3> HIDE DEF ps, n
    <3> QED BY <3>1, <3>2
  <2>3. \A p \in parents[n] : Disconnect(p, n) \in C /\ Op2("removeParent", n, p) \in ToSet(Disconnect(p, n))
    BY <2>1, DisconnectCouples
  <2>4. /\ calls \in Seq(C)
        /\ \A p \in parents[n] : \E i \in DOMAIN calls : Op2("removeParent", n, p) \in ToSet(calls[i])
    <3> HIDE DEF ps, n, C
    <3>1. /\ DOMAIN ps = 1 .. Len(ps) /\ Len(ps) \in Nat /\ \A i \in 1 .. Len(ps) : ps[i] \in parents[n]
          /\ \A p \in parents[n] : \E i \in 1 .. Len(ps) : ps[i] = p
      BY <2>2 DEF ToSet
    <3>2. calls \in Seq(C)
      BY <2>3, <3>1
    <3>3. DOMAIN calls = 1 .. Len(ps) /\ \A i \in 1 .. Len(ps) : calls[i] = Disconnect(ps[i], n)
      BY <3>1
    <3> QED BY <2>3, <3>1, <3>2, <3>3
  <2> HIDE DEF calls
  <2>5. /\ FlattenSeq(calls) \in Seq(Calls) /\ Couples(FlattenSeq(calls))
        /\ \A i \in DOMAIN calls : \A x \in ToSet(calls[i]) : x \in ToSet(FlattenSeq(calls))
    BY <2>4, FlattenCouples
  <2> QED BY <1>0, <1>1, <2>1, <2>4, <2>5
<1>2. CASE DisconnectChildren(th)
  <2> DEFINE cs == Sorted(children[n])
             calls == [i \in DOMAIN cs |-> Disconnect(n, cs[i])]
  <2>1. n \in Nodes /\ Call(th, FlattenSeq(calls)) /\ children[n] \subseteq Nodes
    BY <1>2, HeadOf, Arguments DEF DisconnectChildren, TypeOK
  <2>2. cs \in Seq(children[n]) /\ ToSet(cs) = children[n]
    <3>1. cs \in Seq((Groups \cup Nodes) \cap children[n]) /\ ToSet(cs) = (Groups \cup Nodes) \cap children[n]
      BY SortedProperties
    <3>2. (Groups \cup Nodes) \cap children[n] = children[n]
      BY <2>1
    <3> HIDE DEF cs, n
    <3> QED BY <3>1, <3>2
  <2>3. \A m \in children[n] : Disconnect(n, m) \in C /\ Op2("removeChild", n, m) \in ToSet(Disconnect(n, m))
    BY <2>1, DisconnectCouples
  <2>4. /\ calls \in Seq(C)
        /\ \A m \in children[n] : \E i \in DOMAIN calls : Op2("removeChild", n, m) \in ToSet(calls[i])
    <3> HIDE DEF cs, n, C
    <3>1. /\ DOMAIN cs = 1 .. Len(cs) /\ Len(cs) \in Nat /\ \A i \in 1 .. Len(cs) : cs[i] \in children[n]
          /\ \A m \in children[n] : \E i \in 1 .. Len(cs) : cs[i] = m
      BY <2>2 DEF ToSet
    <3>2. calls \in Seq(C)
      BY <2>3, <3>1
    <3>3. DOMAIN calls = 1 .. Len(cs) /\ \A i \in 1 .. Len(cs) : calls[i] = Disconnect(n, cs[i])
      BY <3>1
    <3> QED BY <2>3, <3>1, <3>2, <3>3
  <2> HIDE DEF calls
  <2>5. /\ FlattenSeq(calls) \in Seq(Calls) /\ Couples(FlattenSeq(calls))
        /\ \A i \in DOMAIN calls : \A x \in ToSet(calls[i]) : x \in ToSet(FlattenSeq(calls))
    BY <2>4, FlattenCouples
  <2> QED BY <1>0, <1>2, <2>1, <2>4, <2>5
<1> QED BY <1>1, <1>2

LEMMA NowPending ==
  ASSUME TypeOK, NEW th \in Threads, todo[th] # <<>>, NEW ops \in Seq(Calls), Call(th, ops), NEW c \in ToSet(ops)
  PROVE  Pending(th, c)'
<1>1. PICK j \in 1 .. Len(ops) : ops[j] = c
  BY DEF ToSet
<1>2. Top(th) \in Nat /\ Len(ops) \in Nat
  BY TopItem
<1>3. Top(th) + Len(ops) - j \in Nat
  BY <1>2
<1>4. \A d \in Nat : \A x :
        Has(todo'[th], d, x) <=>
          \/ d < Top(th) /\ Has(todo[th], d, x)
          \/ \E i \in 1 .. Len(ops) : d = Top(th) + Len(ops) - i /\ ops[i] = x
  BY Stacks
<1>5. Has(todo'[th], Top(th) + Len(ops) - j, c)
  BY <1>1, <1>3, <1>4
<1> QED BY <1>3, <1>5 DEF Pending

LEMMA PendingKept ==
  ASSUME LifeInv, NEW th \in Threads, ThreadStep(th), NEW r \in Threads, NEW c, Pending(r, c)
  PROVE  Pending(r, c)' \/ (r = th /\ Head(todo[th]) = c)
<1>1. PICK d \in Nat : Has(todo[r], d, c)
  BY DEF Pending
<1>2. CASE Executed(r, d, th)
  <2>1. TypeOK /\ todo[th] # <<>>
    BY DEF LifeInv, ThreadStep
  <2> QED BY <1>1, <1>2, <2>1, TopItem DEF Executed
<1>3. CASE ~Executed(r, d, th)
  <2>1. Has(todo'[r], d, c)
    BY <1>1, <1>3, AfterStep
  <2> QED BY <2>1 DEF Pending
<1> QED BY <1>2, <1>3

(* A node that says it is done will disconnect itself.                          *)
LEMMA PartsWhenDone ==
  ASSUME TypeOK, NEW th \in Threads, EmitDone(th), NEW t \in Nodes, Arg(th) = t
  PROVE  /\ Pending(th, Op("disconnectParents", t))'
         /\ Pending(th, Op("disconnectChildren", t))'
<1> DEFINE ws == watchers[t]
           own == <<Op("disconnectParents", t), Op("disconnectChildren", t), Op("remove", t)>>
           watches == [i \in DOMAIN ws |-> Op(ws[i].kind, ws[i].by)]
<1>1. t \in Tasks /\ todo[th] # <<>>
  BY HeadOf DEF EmitDone
<1>2. own \in Seq(Calls) /\ ToSet(own) = {Op("disconnectParents", t), Op("disconnectChildren", t), Op("remove", t)}
  <2>1. Op("disconnectParents", t) \in Calls /\ Op("disconnectChildren", t) \in Calls /\ Op("remove", t) \in Calls
    BY <1>1, UnlinkOp, QuietOp DEF QuietCalls
  <2> QED BY <2>1 DEF ToSet
<1>3. watches \in Seq(Calls)
  <2>1. ws \in Seq(Watches)
    BY DEF TypeOK
  <2>2. \A w \in Watches : Op(w.kind, w.by) \in Calls
    BY DEF Op, Watches, Calls, Tasks
  <2> HIDE DEF ws
  <2>3. DOMAIN ws = 1 .. Len(ws) /\ Len(ws) \in Nat /\ \A i \in 1 .. Len(ws) : ws[i] \in Watches
    BY <2>1
  <2> QED BY <2>2, <2>3
<1>4. Call(th, own \o watches)
  BY FlowAssumption DEF EmitDone
<1> HIDE DEF own, watches
<1>5. own \o watches \in Seq(Calls) /\ ToSet(own) \subseteq ToSet(own \o watches)
  BY <1>2, <1>3, ConcatSet
<1>6. \A c \in ToSet(own) : Pending(th, c)'
  BY <1>1, <1>4, <1>5, NowPending
<1> QED BY <1>2, <1>6

LEMMA HeadCoupled ==
  ASSUME PartInv, NEW th \in Threads, todo[th] # <<>>
  PROVE  /\ ~At(th, "addChild") /\ ~At(th, "addParent")
         /\ At(th, "removeParent") => Arg(th) \notin children[Arg2(th)]
<1> DEFINE h == Head(todo[th])
<1>1. TypeOK
  BY DEF PartInv, LifeInv
<1>2. Top(th) \in Nat /\ Has(todo[th], Top(th), h)
  BY <1>1, TopItem
<1>3. Coupled(th, Top(th), h)
  BY <1>2 DEF PartInv, Couplings
<1>4. \A x : ~Has(todo[th], Top(th) + 1, x)
  <2>1. \A d \in Nat : \A x : Has(todo[th], d, x) => d <= Top(th)
    BY <1>1, TopItem
  <2>2. Top(th) + 1 \in Nat /\ ~(Top(th) + 1 <= Top(th))
    BY <1>2
  <2> QED BY <2>1, <2>2
<1> QED BY <1>3, <1>4 DEF Coupled, At, Arg, Arg2

LEMMA FewerLinks ==
  ASSUME PartInv, NEW th \in Threads, ThreadStep(th), NEW n \in Nodes
  PROVE  children'[n] \subseteq children[n] /\ parents'[n] \subseteq parents[n]
<1>1. TypeOK /\ todo[th] # <<>>
  BY DEF PartInv, LifeInv, ThreadStep
<1>2. ~At(th, "addChild") /\ ~At(th, "addParent")
  BY <1>1, HeadCoupled
<1> QED BY <1>1, <1>2, LinksMove

LEMMA MutualStep ==
  ASSUME PartInv, NEW th \in Threads, ThreadStep(th)
  PROVE  Mutual'
<1> SUFFICES ASSUME NEW n \in Nodes, NEW m \in Nodes, m \in children'[n] PROVE n \in parents'[m]
  BY DEF Mutual
<1>1. TypeOK /\ todo[th] # <<>>
  BY DEF PartInv, LifeInv, ThreadStep
<1>2. m \in children[n]
  BY FewerLinks
<1>3. n \in parents[m]
  BY <1>2 DEF PartInv, Mutual
<1>4. n \notin parents'[m] => At(th, "removeParent") /\ Arg(th) = m /\ Arg2(th) = n
  BY <1>1, <1>3, LinksMove
<1> QED BY <1>1, <1>2, <1>4, HeadCoupled

LEMMA CoupledKept ==
  ASSUME PartInv, NEW th \in Threads, ThreadStep(th), NEW r \in Threads, NEW d \in Nat, NEW c,
         Has(todo[r], d, c), ~Executed(r, d, th)
  PROVE  Coupled(r, d, c)'
<1>1. TypeOK /\ LifeInv /\ Coupled(r, d, c) /\ todo[th] # <<>>
  BY DEF PartInv, LifeInv, Couplings, ThreadStep
<1>2. c.op \notin {"addChild", "addParent"}
  BY <1>1 DEF Coupled
<1>3. ASSUME c.op = "removeParent"
      PROVE  c.t \notin children'[c.u] \/ Has(todo'[r], d + 1, Op2("removeChild", c.u, c.t))
  <2> DEFINE half == Op2("removeChild", c.u, c.t)
  <2>1. c \in Calls
    <3>1. todo[r] \in Seq(Calls)
      BY <1>1 DEF TypeOK
    <3> QED BY <3>1 DEF Has
  <2>2. c.t \in Nodes /\ c.u \in Nodes
    BY <1>3, <2>1 DEF Calls, UserCalls
  <2>3. CASE c.t \notin children[c.u]
    BY <2>2, <2>3, FewerLinks
  <2>4. CASE Has(todo[r], d + 1, half) /\ ~Executed(r, d + 1, th)
    <3> HIDE DEF half
    <3>1. d + 1 \in Nat
      OBVIOUS
    <3>2. Has(todo'[r], d + 1, half)
      BY <1>1, <2>4, <3>1, AfterStep
    <3> QED BY <3>2 DEF half
  <2>5. CASE Has(todo[r], d + 1, half) /\ Executed(r, d + 1, th)
    <3>1. half.op = "removeChild" /\ half.t = c.u /\ half.u = c.t
      BY DEF Op2
    <3> HIDE DEF half
    <3>2. d + 1 \in Nat /\ r = th /\ d + 1 = Top(th)
      BY <2>5 DEF Executed
    <3>3. half = Head(todo[th])
      BY <1>1, <2>5, <3>2, TopItem
    <3>4. At(th, "removeChild") /\ Arg(th) = c.u /\ Arg2(th) = c.t
      BY <1>1, <3>1, <3>3 DEF At, Arg, Arg2
    <3>5. RemoveChild(th)
      BY <3>4, OnlyIts
    <3>6. children' = [children EXCEPT ![c.u] = @ \ {c.t}]
      BY <3>4, <3>5 DEF RemoveChild
    <3> QED BY <1>1, <2>2, <3>6 DEF TypeOK
  <2> QED BY <1>1, <1>3, <2>3, <2>4, <2>5 DEF Coupled
<1> QED BY <1>2, <1>3 DEF Coupled

LEMMA CoupledNew ==
  ASSUME PartInv, NEW th \in Threads, ThreadStep(th), NEW d \in Nat, NEW c \in Calls,
         Makes(Head(todo[th]), c), Has(todo'[th], d, c), ~(Has(todo[th], d, c) /\ ~Executed(th, d, th))
  PROVE  Coupled(th, d, c)'
<1> DEFINE h == Head(todo[th])
<1>1. TypeOK /\ todo[th] # <<>> /\ h \in Calls
  BY HeadTail DEF PartInv, LifeInv, ThreadStep
<1>2. c.op \notin {"addChild", "addParent"}
  BY <1>1, MadeBy
<1>3. ASSUME c.op = "removeParent"
      PROVE  Has(todo'[th], d + 1, Op2("removeChild", c.u, c.t))
  <2>1. h.op \in {"disconnectParents", "disconnectChildren"}
    BY <1>1, <1>3, MadeBy
  <2>2. DisconnectParents(th) \/ DisconnectChildren(th)
    <3>1. At(th, "disconnectParents") \/ At(th, "disconnectChildren")
      BY <1>1, <2>1 DEF At
    <3> QED BY <3>1, OnlyIts
  <2>3. PICK ops \in Seq(Calls) : Call(th, ops) /\ Couples(ops)
    BY <1>1, <2>2, PartsFrom
  <2>4. \A e \in Nat : \A x :
          Has(todo'[th], e, x) <=>
            \/ e < Top(th) /\ Has(todo[th], e, x)
            \/ \E j \in 1 .. Len(ops) : e = Top(th) + Len(ops) - j /\ ops[j] = x
    BY <1>1, <2>3, Stacks
  <2>5. Top(th) \in Nat /\ Len(ops) \in Nat
    BY <1>1, TopItem
  <2>6. ~(d < Top(th) /\ Has(todo[th], d, c))
    BY <2>5 DEF Executed
  <2>7. PICK j \in 1 .. Len(ops) : d = Top(th) + Len(ops) - j /\ ops[j] = c
    BY <2>4, <2>6
  <2>8. j > 1 /\ ops[j - 1] = Op2("removeChild", c.u, c.t)
    BY <1>3, <2>3, <2>7 DEF Couples
  <2>9. j - 1 \in 1 .. Len(ops) /\ d + 1 = Top(th) + Len(ops) - (j - 1) /\ d + 1 \in Nat
    BY <2>5, <2>7, <2>8
  <2> QED BY <2>4, <2>8, <2>9
<1> QED BY <1>2, <1>3 DEF Coupled

LEMMA PartingStep ==
  ASSUME PartInv, NEW th \in Threads, ThreadStep(th), NEW n \in Nodes, status'[n] = "done"
  PROVE  Parting(n)'
<1> DEFINE h == Head(todo[th])
<1>1. TypeOK /\ LifeInv /\ [Next]_vars /\ todo[th] # <<>> /\ h \in Calls /\ n \in Tasks /\ n \in Threads
  BY HeadTail, Tree DEF PartInv, LifeInv, Next, ThreadStep
<1>2. CASE status[n] # "done"
  <2>1. n = Arg(th) /\ SetDone(th)
    BY <1>1, <1>2, StatusMoves
  <2>2. Top(th) \in Nat /\ Mark(todo[th], Top(th), "setDone", n)
    <3>1. At(th, "setDone")
      BY <2>1 DEF SetDone
    <3> QED BY <1>1, <2>1, <3>1, TopMark
  <2>3. th = n /\ Top(th) = 2
    BY <1>1, <2>2 DEF LifeInv, Ends, Reserved, Place
  <2>4. Mark(todo[n], 1, "emitDone", n) /\ ~Executed(n, 1, th)
    BY <1>1, <2>2, <2>3 DEF LifeInv, Ends, Executed
  <2>5. Mark(todo'[n], 1, "emitDone", n)
    BY <1>1, <2>4, MarkStays
  <2> QED BY <2>5 DEF Parting, Announcing
<1>3. CASE status[n] = "done" /\ Announcing(n)
  <2>1. PICK d \in Nat : Mark(todo[n], d, "emitDone", n)
    BY <1>3 DEF Announcing
  <2>2. CASE ~Executed(n, d, th)
    <3>1. Mark(todo'[n], d, "emitDone", n)
      BY <1>1, <2>1, <2>2, MarkStays
    <3> QED BY <3>1 DEF Parting, Announcing
  <2>3. CASE Executed(n, d, th)
    <3>1. n = th /\ h.op = "emitDone" /\ h.t = n
      <4>1. PICK x : Has(todo[n], d, x) /\ x.op = "emitDone" /\ x.t = n
        BY <2>1, ItemMark
      <4> QED BY <1>1, <2>3, <4>1, TopItem DEF Executed
    <3>2. EmitDone(th) /\ Arg(th) = n
      BY <1>1, <3>1, OnlyIts DEF At, Arg
    <3>3. Pending(n, Op("disconnectParents", n))' /\ Pending(n, Op("disconnectChildren", n))'
      BY <1>1, <3>1, <3>2, PartsWhenDone
    <3> QED BY <3>3 DEF Parting
  <2> QED BY <2>2, <2>3
<1>4. CASE status[n] = "done" /\ ~Announcing(n)
  <2>1. /\ \A p \in parents[n] :
             Pending(n, Op("disconnectParents", n)) \/ Pending(n, Op2("removeParent", n, p))
        /\ \A m \in children[n] :
             Pending(n, Op("disconnectChildren", n)) \/ Pending(n, Op2("removeChild", n, m))
    BY <1>4 DEF PartInv, Parting
  <2>2. children'[n] \subseteq children[n] /\ parents'[n] \subseteq parents[n]
    BY FewerLinks
  <2>3. ASSUME NEW p \in parents'[n]
        PROVE  Pending(n, Op("disconnectParents", n))' \/ Pending(n, Op2("removeParent", n, p))'
    <3> DEFINE a == Op("disconnectParents", n)
               b == Op2("removeParent", n, p)
    <3>0. /\ a.op = "disconnectParents" /\ a.t = n
          /\ b.op = "removeParent" /\ b.t = n /\ b.u = p
      BY DEF Op, Op2
    <3>1. Pending(n, a) \/ Pending(n, b)
      BY <2>1, <2>2
    <3> HIDE DEF a, b
    <3>2. CASE n = th /\ h = a
      <4>1. DisconnectParents(th) /\ Arg(th) = n
        BY <1>1, <3>0, <3>2, OnlyIts DEF At, Arg
      <4>2. PICK ops \in Seq(Calls) : Call(th, ops) /\ b \in ToSet(ops)
        BY <1>1, <2>2, <4>1, PartsFrom DEF b
      <4>3. Pending(th, b)'
        BY <1>1, <4>2, NowPending
      <4> QED BY <3>2, <4>3 DEF b
    <3>3. CASE n = th /\ h = b
      <4>1. RemoveParent(th) /\ Arg(th) = n /\ Arg2(th) = p
        BY <1>1, <3>0, <3>3, OnlyIts DEF At, Arg, Arg2
      <4>2. parents' = [parents EXCEPT ![n] = @ \ {p}]
        BY <4>1 DEF RemoveParent
      <4> QED BY <1>1, <4>2 DEF TypeOK
    <3>4. Pending(n, a) => Pending(n, a)' \/ (n = th /\ h = a)
      BY <1>1, PendingKept
    <3>5. Pending(n, b) => Pending(n, b)' \/ (n = th /\ h = b)
      BY <1>1, PendingKept
    <3> QED BY <3>1, <3>2, <3>3, <3>4, <3>5 DEF a, b
  <2>4. ASSUME NEW m \in children'[n]
        PROVE  Pending(n, Op("disconnectChildren", n))' \/ Pending(n, Op2("removeChild", n, m))'
    <3> DEFINE a == Op("disconnectChildren", n)
               b == Op2("removeChild", n, m)
    <3>0. /\ a.op = "disconnectChildren" /\ a.t = n
          /\ b.op = "removeChild" /\ b.t = n /\ b.u = m
      BY DEF Op, Op2
    <3>1. Pending(n, a) \/ Pending(n, b)
      BY <2>1, <2>2
    <3> HIDE DEF a, b
    <3>2. CASE n = th /\ h = a
      <4>1. DisconnectChildren(th) /\ Arg(th) = n
        BY <1>1, <3>0, <3>2, OnlyIts DEF At, Arg
      <4>2. PICK ops \in Seq(Calls) : Call(th, ops) /\ b \in ToSet(ops)
        BY <1>1, <2>2, <4>1, PartsFrom DEF b
      <4>3. Pending(th, b)'
        BY <1>1, <4>2, NowPending
      <4> QED BY <3>2, <4>3 DEF b
    <3>3. CASE n = th /\ h = b
      <4>1. RemoveChild(th) /\ Arg(th) = n /\ Arg2(th) = m
        BY <1>1, <3>0, <3>3, OnlyIts DEF At, Arg, Arg2
      <4>2. children' = [children EXCEPT ![n] = @ \ {m}]
        BY <4>1 DEF RemoveChild
      <4> QED BY <1>1, <4>2 DEF TypeOK
    <3>4. Pending(n, a) => Pending(n, a)' \/ (n = th /\ h = a)
      BY <1>1, PendingKept
    <3>5. Pending(n, b) => Pending(n, b)' \/ (n = th /\ h = b)
      BY <1>1, PendingKept
    <3> QED BY <3>1, <3>2, <3>3, <3>4, <3>5 DEF a, b
  <2> QED BY <2>3, <2>4 DEF Parting
<1> QED BY <1>2, <1>3, <1>4

LEMMA PartStep == PartInv /\ [Next]_vars => PartInv'
<1> SUFFICES ASSUME PartInv, [Next]_vars
             PROVE  Mutual' /\ Couplings' /\ \A n \in Nodes : status'[n] = "done" => Parting(n)'
  BY LifeStep DEF PartInv
<1>1. ASSUME NEW th \in Threads, ThreadStep(th)
      PROVE  Mutual' /\ Couplings' /\ \A n \in Nodes : status'[n] = "done" => Parting(n)'
  <2>1. ASSUME NEW r \in Threads, NEW d \in Nat, NEW c, Has(todo'[r], d, c)
        PROVE  Coupled(r, d, c)'
    <3>1. CASE Has(todo[r], d, c) /\ ~Executed(r, d, th)
      BY <1>1, <3>1, CoupledKept
    <3>2. CASE /\ ~(Has(todo[r], d, c) /\ ~Executed(r, d, th))
               /\ r = th /\ c \in Calls /\ Makes(Head(todo[th]), c)
      BY <1>1, <2>1, <3>2, CoupledNew
    <3>3. CASE c.op \in Born
      BY <3>3 DEF Coupled, Born
    <3>4. LifeInv
      BY DEF PartInv
    <3> QED BY <1>1, <2>1, <3>1, <3>2, <3>3, <3>4, AfterStep
  <2>2. Couplings'
    BY <2>1 DEF Couplings
  <2> QED BY <1>1, <2>2, MutualStep, PartingStep
<1>2. CASE UNCHANGED <<todo, status, links>>
  <2>1. Mutual' /\ Couplings'
    BY <1>2 DEF PartInv, Mutual, Couplings, Coupled, links
  <2>2. \A n \in Nodes : status'[n] = "done" => Parting(n)'
    BY <1>2 DEF PartInv, Parting, Announcing, Pending, links
  <2> QED BY <2>1, <2>2
<1>3. ASSUME NEW n \in Nodes, NoderCancel(n) \/ NoderExit(n) PROVE UNCHANGED <<todo, status, links>>
  BY <1>3 DEF NoderCancel, NoderExit
<1>4. UNCHANGED vars => UNCHANGED <<todo, status, links>>
  BY DEF vars, links
<1> QED BY <1>1, <1>2, <1>3, <1>4 DEF Next

(* The users connect no nodes once the flow has started, and take connections    *)
(* down at both ends, as Disconnect does.                                      *)
OnlyDisconnects ==
  \A u \in Users : \A p \in Programs[u] :
    Couples(p) /\ \A i \in DOMAIN p : p[i].op \notin {"addChild", "addParent"}

LEMMA PartInit == OnlyFlowStarts /\ OnlyDisconnects /\ Init => PartInv
<1> SUFFICES ASSUME OnlyFlowStarts, OnlyDisconnects, Init
             PROVE  Mutual /\ Couplings /\ \A n \in Nodes : status[n] = "done" => Parting(n)
  BY LifeInit DEF PartInv
<1>1. Mutual /\ \A n \in Nodes : status[n] # "done"
  BY Tree DEF Init, Mutual
<1>2. ASSUME NEW th \in Threads, NEW d \in Nat, NEW c, Has(todo[th], d, c) PROVE Coupled(th, d, c)
  <2>1. PICK p \in Programs[th] :
          /\ th \in Users /\ todo[th] = p /\ p \in Seq(UserCalls) /\ c \in UserCalls
          /\ Len(p) - d \in DOMAIN p /\ p[Len(p) - d] = c
    BY <1>2, AtFirst
  <2>2. Couples(p) /\ c.op \notin {"addChild", "addParent"}
    BY <2>1 DEF OnlyDisconnects
  <2>3. c.op = "removeParent" => Has(todo[th], d + 1, Op2("removeChild", c.u, c.t))
    <3> HAVE c.op = "removeParent"
    <3> DEFINE i == Len(p) - d
    <3>1. i \in 1 .. Len(p) /\ Len(p) \in Nat
      BY <2>1
    <3>2. i > 1 /\ p[i - 1] = Op2("removeChild", c.u, c.t)
      BY <2>1, <2>2 DEF Couples
    <3>3. Len(p) - (d + 1) = i - 1 /\ i - 1 \in 1 .. Len(p)
      BY <3>1, <3>2
    <3> QED BY <2>1, <3>2, <3>3 DEF Has
  <2> QED BY <2>2, <2>3 DEF Coupled
<1> QED BY <1>1, <1>2 DEF Couplings

LEMMA PartedAfter == PartInv => ReleasedIsDisconnected
<1> SUFFICES ASSUME PartInv, NEW n \in Nodes, status[n] = "done", n \notin attached
             PROVE  /\ children[n] = {} /\ parents[n] = {}
                    /\ \A m \in Nodes : n \notin children[m]
  BY DEF ReleasedIsDisconnected
<1>1. todo[n] = <<>>
  BY Tree DEF PartInv, LifeInv, Phases
<1>2. ~Announcing(n) /\ \A c : ~Pending(n, c)
  BY <1>1 DEF Announcing, Pending, Mark, Has
<1>3. children[n] = {} /\ parents[n] = {}
  BY <1>2 DEF PartInv, Parting
<1> QED BY <1>3 DEF PartInv, Mutual

(* When groups are left to their flow and users only disconnect: a released node  *)
(* has neither parents nor children, and no node has it among its children,       *)
(* whichever end of an edge was done first, or both at once.  What is left of a   *)
(* done node's connections is on the stack of the goroutine that ended it, which  *)
(* returns before the node is released.                                        *)
THEOREM ReleasedIsDisconnectedHolds == OnlyFlowStarts /\ OnlyDisconnects => (Spec => []ReleasedIsDisconnected)
<1>1. CASE OnlyFlowStarts /\ OnlyDisconnects
  <2>1. Init => PartInv
    BY <1>1, PartInit
  <2> QED BY <2>1, PartStep, PartedAfter, PTL DEF Spec
<1> QED BY <1>1

-----------------------------------------------------------------------------
(* How often a node is watched *)

LEMMA TimesOccurs ==
  ASSUME NEW n, NEW w
  PROVE  /\ Absent(watchers[n], w) => TimesWatched(n, w) = 0
         /\ Single(watchers[n], w) => TimesWatched(n, w) = 1
<1> DEFINE I == {i \in DOMAIN watchers[n] : watchers[n][i] = w}
<1>1. TimesWatched(n, w) = Cardinality(I)
  BY DEF TimesWatched
<1>2. Absent(watchers[n], w) => I = {}
  BY DEF Absent
<1>3. Single(watchers[n], w) => \E i : I = {i}
  BY DEF Single, OnlyAt
<1> HIDE DEF I
<1> QED BY <1>1, <1>2, <1>3, FS_EmptySet, FS_Singleton

LEMMA SortedOccurs ==
  ASSUME NEW S, NEW n \in Nodes
  PROVE  /\ Selected(Sorted(Nodes), S) \in Seq(Nodes)
         /\ n \in S => Single(Selected(Sorted(Nodes), S), n)
         /\ n \notin S => Absent(Selected(Sorted(Nodes), S), n)
<1> DEFINE V == Groups \cup Nodes
           by == Sorted(Nodes)
<1>1. Order \in Seq(V) /\ ToSet(Order) = V /\ IsInjective(Order)
  BY FlowAssumption
<1>2. n \in ToSet(Order)
  BY <1>1
<1> HIDE DEF V
<1>3. Single(Order, n)
  <2>1. PICK i \in DOMAIN Order : Order[i] = n
    BY <1>2 DEF ToSet
  <2>2. OnlyAt(Order, i, n)
    BY <1>1, <2>1 DEF OnlyAt, IsInjective
  <2> QED BY <2>2 DEF Single
<1>4. Single(by, n)
  <2>1. Single(Selected(Order, Nodes), n)
    BY <1>1, <1>3, SelectedOccurs
  <2> QED BY <2>1 DEF Sorted
<1>5. by \in Seq(Nodes)
  <2>1. (Groups \cup Nodes) \cap Nodes = Nodes
    OBVIOUS
  <2> QED BY <2>1, SortedProperties
<1> HIDE DEF by
<1>6. Selected(by, S) \in Seq(Nodes \cap S)
  BY <1>5, SelectedProperties
<1>7. Selected(by, S) \in Seq(Nodes)
  BY <1>6
<1>8. n \in S => Single(Selected(by, S), n)
  BY <1>4, <1>5, SelectedOccurs
<1>9. n \notin S => Absent(Selected(by, S), n)
  BY <1>5, SelectedOccurs
<1> QED BY <1>7, <1>8, <1>9 DEF by

(* A node is watched in the order of the ones that watch it.                    *)
Watchings(s, kind) == [i \in DOMAIN s |-> Watch(s[i], kind)]

LEMMA WatchingsOccur ==
  ASSUME NEW s \in Seq(Nodes), NEW n \in Nodes, NEW kind \in {"children", "parents"}, NEW other
  PROVE  /\ Watchings(s, kind) \in Seq(Watches)
         /\ Single(s, n) => Single(Watchings(s, kind), Watch(n, kind))
         /\ Absent(s, n) => Absent(Watchings(s, kind), Watch(n, kind))
         /\ other # kind => Absent(Watchings(s, kind), Watch(n, other))
<1> DEFINE ws == Watchings(s, kind)
<1>1. /\ Len(s) \in Nat /\ DOMAIN s = 1 .. Len(s) /\ \A i \in 1 .. Len(s) : s[i] \in Nodes
      /\ DOMAIN ws = 1 .. Len(s) /\ \A i \in 1 .. Len(s) : ws[i] = Watch(s[i], kind)
  BY DEF Watchings
<1>2. \A m \in Nodes : Watch(m, kind) \in Watches /\ (Watch(m, kind) = Watch(n, kind) <=> m = n)
  BY DEF Watch, Watches
<1>3. other # kind => \A m : Watch(m, kind) # Watch(n, other)
  BY DEF Watch
<1>4. ws \in Seq(Watches)
  <2>1. ws = [i \in 1 .. Len(s) |-> Watch(s[i], kind)]
    BY <1>1 DEF Watchings
  <2> HIDE DEF ws
  <2> QED BY <1>1, <1>2, <2>1
<1> HIDE DEF ws
<1>5. ASSUME Single(s, n) PROVE Single(ws, Watch(n, kind))
  <2>1. PICK i : OnlyAt(s, i, n)
    BY <1>5 DEF Single
  <2>2. OnlyAt(ws, i, Watch(n, kind))
    BY <1>1, <1>2, <2>1 DEF OnlyAt
  <2> QED BY <2>2 DEF Single
<1>6. Absent(s, n) => Absent(ws, Watch(n, kind))
  BY <1>1, <1>2 DEF Absent
<1>7. other # kind => Absent(ws, Watch(n, other))
  BY <1>1, <1>3 DEF Absent
<1> QED BY <1>4, <1>5, <1>6, <1>7 DEF ws

LEMMA InitialOccurs ==
  ASSUME NEW n \in Nodes, NEW m \in Nodes
  PROVE  LET w == Watch(n, "children")
             v == Watch(m, "parents")
         IN /\ IF n \in WhenAllChildrenAreDone /\ <<n, m>> \in Edges
                 THEN Single(InitialWatchers(m), w) ELSE Absent(InitialWatchers(m), w)
            /\ IF m \in WhenAllParentsAreDone /\ <<n, m>> \in Edges
                 THEN Single(InitialWatchers(n), v) ELSE Absent(InitialWatchers(n), v)
<1> DEFINE A(x) == {y \in WhenAllChildrenAreDone : <<y, x>> \in Edges}
           B(x) == {y \in WhenAllParentsAreDone : <<x, y>> \in Edges}
           asChild(x) == Selected(Sorted(Nodes), A(x))
           asParent(x) == Selected(Sorted(Nodes), B(x))
           ws(x) == Watchings(asChild(x), "children")
           vs(x) == Watchings(asParent(x), "parents")
<1>1. \A x \in Nodes : InitialWatchers(x) = ws(x) \o vs(x)
  BY DEF InitialWatchers, Watchings
<1>2. ASSUME NEW x \in Nodes, NEW y \in Nodes
      PROVE  /\ asChild(x) \in Seq(Nodes)
             /\ y \in A(x) => Single(asChild(x), y)
             /\ y \notin A(x) => Absent(asChild(x), y)
             /\ asParent(x) \in Seq(Nodes)
             /\ y \in B(x) => Single(asParent(x), y)
             /\ y \notin B(x) => Absent(asParent(x), y)
  <2> HIDE DEF A, B
  <2> QED BY SortedOccurs
<1> HIDE DEF asChild, asParent
<1>3. ASSUME NEW x \in Nodes, NEW y \in Nodes
      PROVE  /\ ws(x) \in Seq(Watches) /\ vs(x) \in Seq(Watches)
             /\ y \in A(x) => Single(ws(x), Watch(y, "children"))
             /\ y \notin A(x) => Absent(ws(x), Watch(y, "children"))
             /\ Absent(ws(x), Watch(y, "parents"))
             /\ y \in B(x) => Single(vs(x), Watch(y, "parents"))
             /\ y \notin B(x) => Absent(vs(x), Watch(y, "parents"))
             /\ Absent(vs(x), Watch(y, "children"))
  <2> HIDE DEF A, B
  <2>1. asChild(x) \in Seq(Nodes) /\ asParent(x) \in Seq(Nodes)
    BY <1>2
  <2>2. /\ ws(x) \in Seq(Watches)
        /\ Single(asChild(x), y) => Single(ws(x), Watch(y, "children"))
        /\ Absent(asChild(x), y) => Absent(ws(x), Watch(y, "children"))
        /\ Absent(ws(x), Watch(y, "parents"))
    BY <2>1, WatchingsOccur
  <2>3. /\ vs(x) \in Seq(Watches)
        /\ Single(asParent(x), y) => Single(vs(x), Watch(y, "parents"))
        /\ Absent(asParent(x), y) => Absent(vs(x), Watch(y, "parents"))
        /\ Absent(vs(x), Watch(y, "children"))
    BY <2>1, WatchingsOccur
  <2> QED BY <1>2, <2>2, <2>3
<1> HIDE DEF ws, vs
<1>4. \A x, y \in Nodes :
        /\ y \in A(x) => Single(InitialWatchers(x), Watch(y, "children"))
        /\ y \notin A(x) => Absent(InitialWatchers(x), Watch(y, "children"))
        /\ y \in B(x) => Single(InitialWatchers(x), Watch(y, "parents"))
        /\ y \notin B(x) => Absent(InitialWatchers(x), Watch(y, "parents"))
  <2> HIDE DEF A, B
  <2> QED BY <1>1, <1>3, ConcatOccurs
<1> QED BY <1>4

-----------------------------------------------------------------------------
(* Operations that come in pairs *)

(* The second follows the first at once.                                       *)
Firsts == {"addChild", "removeChild", "setRunning", "setDone"}
Seconds == {"addParent", "removeParent", "spawn", "emitDone"}
Unwatches == {"unwatchChild", "unwatchParent"}

Second(c) ==
  CASE c.op = "addChild" -> Op2("addParent", c.u, c.t)
    [] c.op = "removeChild" -> Op2("removeParent", c.u, c.t)
    [] c.op = "setRunning" -> Op2("spawn", c.t, c.u)
    [] c.op = "setDone" -> Op2("emitDone", c.t, c.u)

Paired(s) ==
  \A i \in DOMAIN s :
    /\ s[i].op \in Firsts => i < Len(s) /\ s[i + 1] = Second(s[i])
    /\ s[i].op \in Seconds => i > 1 /\ s[i - 1].op \in Firsts
    /\ s[i].op \notin Unwatches

(* A goroutine's stack: only its first operation may be one that is left of a   *)
(* pair, and the end of a watch comes between the two removals.                *)
Opened(s) ==
  \/ Paired(s)
  \/ /\ s # <<>> /\ Head(s).op \in Seconds \cup {"unwatchParent"}
     /\ Paired(Tail(s))
  \/ /\ s # <<>> /\ Head(s).op = "unwatchChild"
     /\ Tail(s) # <<>> /\ Head(Tail(s)) = Op2("removeParent", Head(s).u, Head(s).t)
     /\ Paired(Tail(Tail(s)))

Plain(c) == c.op \notin Firsts \cup Seconds \cup Unwatches

LEMMA TailOf ==
  ASSUME NEW V, NEW s \in Seq(V), s # <<>>
  PROVE  /\ Len(s) \in Nat \ {0} /\ DOMAIN s = 1 .. Len(s) /\ Head(s) = s[1]
         /\ Tail(s) \in Seq(V) /\ Len(Tail(s)) = Len(s) - 1 /\ DOMAIN Tail(s) = 1 .. Len(s) - 1
         /\ \A i \in 1 .. Len(s) - 1 : Tail(s)[i] = s[i + 1]
OBVIOUS

LEMMA PairedPlain ==
  ASSUME NEW s \in Seq(Calls), \A i \in DOMAIN s : Plain(s[i])
  PROVE  Paired(s)
BY DEF Paired, Plain

LEMMA PairedNothing == Paired(<<>>)
BY DEF Paired

LEMMA PairedJoin ==
  ASSUME NEW a \in Seq(Calls), NEW b \in Seq(Calls), Paired(a), Paired(b)
  PROVE  Paired(a \o b)
<1> DEFINE s == a \o b
           n == Len(a)
           m == Len(b)
<1>1. /\ n \in Nat /\ m \in Nat /\ DOMAIN a = 1 .. n /\ DOMAIN b = 1 .. m
      /\ DOMAIN s = 1 .. n + m /\ Len(s) = n + m
      /\ \A i \in 1 .. n : s[i] = a[i]
      /\ \A i \in 1 .. n + m : i > n => s[i] = b[i - n]
  OBVIOUS
<1>2. /\ \A i \in 1 .. n : /\ a[i].op \in Firsts => i < n /\ a[i + 1] = Second(a[i])
                           /\ a[i].op \in Seconds => i > 1 /\ a[i - 1].op \in Firsts
                           /\ a[i].op \notin Unwatches
      /\ \A i \in 1 .. m : /\ b[i].op \in Firsts => i < m /\ b[i + 1] = Second(b[i])
                           /\ b[i].op \in Seconds => i > 1 /\ b[i - 1].op \in Firsts
                           /\ b[i].op \notin Unwatches
  BY <1>1 DEF Paired
<1> HIDE DEF s, n, m
<1> SUFFICES ASSUME NEW i \in 1 .. n + m
             PROVE  /\ s[i].op \in Firsts => i < n + m /\ s[i + 1] = Second(s[i])
                    /\ s[i].op \in Seconds => i > 1 /\ s[i - 1].op \in Firsts
                    /\ s[i].op \notin Unwatches
  <2>1. Paired(s)
    BY <1>1 DEF Paired
  <2> QED BY <2>1 DEF s
<1>3. CASE i <= n
  <2>1. i \in 1 .. n /\ s[i] = a[i]
    BY <1>1, <1>3
  <2>2. s[i].op \in Firsts => i + 1 \in 1 .. n /\ i < n + m
    BY <1>1, <1>2, <2>1
  <2>3. s[i].op \in Seconds => i - 1 \in 1 .. n
    BY <1>1, <1>2, <2>1
  <2> QED BY <1>1, <1>2, <2>1, <2>2, <2>3
<1>4. CASE i > n
  <2> DEFINE k == i - n
  <2>1. k \in 1 .. m /\ s[i] = b[k]
    BY <1>1, <1>4
  <2>2. s[i].op \in Firsts => i < n + m /\ s[i + 1] = b[k + 1]
    <3> HAVE s[i].op \in Firsts
    <3>1. k < m
      BY <1>2, <2>1
    <3>2. i + 1 \in 1 .. n + m /\ i + 1 > n /\ (i + 1) - n = k + 1 /\ i < n + m
      BY <1>1, <1>4, <3>1
    <3> QED BY <1>1, <3>2
  <2>3. s[i].op \in Seconds => i > 1 /\ s[i - 1] = b[k - 1]
    <3> HAVE s[i].op \in Seconds
    <3>1. k > 1
      BY <1>2, <2>1
    <3>2. i - 1 \in 1 .. n + m /\ i - 1 > n /\ (i - 1) - n = k - 1 /\ i > 1
      BY <1>1, <1>4, <3>1
    <3> QED BY <1>1, <3>2
  <2> HIDE DEF k
  <2> QED BY <1>2, <2>1, <2>2, <2>3
<1> QED BY <1>1, <1>3, <1>4

LEMMA PairedTail ==
  ASSUME NEW s \in Seq(Calls), s # <<>>, Paired(s)
  PROVE  /\ Head(s).op \notin Seconds \cup Unwatches
         /\ Head(s).op \notin Firsts => Paired(Tail(s))
         /\ Head(s).op \in Firsts =>
              Tail(s) # <<>> /\ Head(Tail(s)) = Second(Head(s)) /\ Paired(Tail(Tail(s)))
<1> DEFINE n == Len(s)
           t == Tail(s)
<1>1. /\ n \in Nat \ {0} /\ DOMAIN s = 1 .. n /\ Head(s) = s[1]
      /\ t \in Seq(Calls) /\ Len(t) = n - 1 /\ DOMAIN t = 1 .. n - 1
      /\ \A i \in 1 .. n - 1 : t[i] = s[i + 1]
  OBVIOUS
<1>2. \A i \in 1 .. n : /\ s[i].op \in Firsts => i < n /\ s[i + 1] = Second(s[i])
                        /\ s[i].op \in Seconds => i > 1 /\ s[i - 1].op \in Firsts
                        /\ s[i].op \notin Unwatches
  BY <1>1 DEF Paired
<1>3. 1 \in 1 .. n
  BY <1>1
<1>4. Head(s).op \notin Seconds \cup Unwatches
  BY <1>1, <1>2, <1>3
<1>5. ASSUME Head(s).op \notin Firsts PROVE Paired(t)
  <2> SUFFICES ASSUME NEW i \in 1 .. n - 1
               PROVE  /\ t[i].op \in Firsts => i < n - 1 /\ t[i + 1] = Second(t[i])
                      /\ t[i].op \in Seconds => i > 1 /\ t[i - 1].op \in Firsts
                      /\ t[i].op \notin Unwatches
    BY <1>1 DEF Paired
  <2> HIDE DEF t, n
  <2>1. i + 1 \in 1 .. n /\ t[i] = s[i + 1] /\ (i + 1) - 1 = i
    BY <1>1
  <2>2. t[i].op \in Firsts => i < n - 1 /\ t[i + 1] = s[(i + 1) + 1]
    BY <1>1, <1>2, <2>1
  <2>3. t[i].op \in Seconds => i > 1 /\ t[i - 1] = s[i]
    <3> HAVE t[i].op \in Seconds
    <3>1. s[i].op \in Firsts
      BY <1>2, <2>1
    <3>2. i # 1
      BY <1>1, <1>5, <3>1
    <3>3. i > 1 /\ i - 1 \in 1 .. n - 1 /\ (i - 1) + 1 = i
      BY <1>1, <3>2
    <3> QED BY <1>1, <3>3
  <2> QED BY <1>2, <2>1, <2>2, <2>3
<1>6. ASSUME Head(s).op \in Firsts
      PROVE  t # <<>> /\ Head(t) = Second(Head(s)) /\ Paired(Tail(t))
  <2>1. n > 1 /\ s[2] = Second(s[1])
    BY <1>1, <1>2, <1>3, <1>6
  <2>2. t # <<>> /\ Head(t) = t[1] /\ t[1] = s[2]
    <3> HIDE DEF t
    <3>1. Len(t) \in Nat /\ Len(t) # 0 /\ 1 \in 1 .. n - 1 /\ 1 + 1 = 2
      BY <1>1, <2>1
    <3>2. t # <<>>
      BY <3>1
    <3>3. Head(t) = t[1]
      BY <1>1, <3>2
    <3> QED BY <1>1, <3>1, <3>2, <3>3
  <2> DEFINE v == Tail(t)
  <2>3. /\ Len(v) = n - 2 /\ DOMAIN v = 1 .. n - 2
        /\ \A i \in 1 .. n - 2 : v[i] = s[i + 2]
    <3> HIDE DEF t
    <3>0. /\ Len(v) = Len(t) - 1 /\ DOMAIN v = 1 .. Len(t) - 1
          /\ \A i \in 1 .. Len(t) - 1 : v[i] = t[i + 1]
      BY <1>1, <2>2, TailOf
    <3> HIDE DEF v
    <3>1. Len(v) = n - 2 /\ DOMAIN v = 1 .. n - 2 /\ \A i \in 1 .. n - 2 : v[i] = t[i + 1]
      BY <1>1, <2>1, <3>0
    <3>2. \A i \in 1 .. n - 2 : i + 1 \in 1 .. n - 1 /\ (i + 1) + 1 = i + 2
      BY <1>1
    <3> QED BY <1>1, <3>1, <3>2
  <2>4. s[2].op \in Seconds
    BY <1>1, <1>6, <2>1 DEF Second, Firsts, Seconds, Op2
  <2>5. s[2].op \notin Firsts
    BY <2>4 DEF Firsts, Seconds
  <2>6. Paired(v)
    <3> SUFFICES ASSUME NEW i \in 1 .. n - 2
                 PROVE  /\ v[i].op \in Firsts => i < n - 2 /\ v[i + 1] = Second(v[i])
                        /\ v[i].op \in Seconds => i > 1 /\ v[i - 1].op \in Firsts
                        /\ v[i].op \notin Unwatches
      BY <2>3 DEF Paired
    <3> HIDE DEF v, t, n
    <3>1. i + 2 \in 1 .. n /\ v[i] = s[i + 2] /\ (i + 2) - 1 = i + 1
      BY <1>1, <2>3
    <3>2. v[i].op \in Firsts => i < n - 2 /\ v[i + 1] = s[(i + 2) + 1]
      <4> HAVE v[i].op \in Firsts
      <4>1. i + 2 < n
        BY <1>2, <3>1
      <4>2. i < n - 2 /\ i + 1 \in 1 .. n - 2 /\ (i + 1) + 2 = (i + 2) + 1
        BY <1>1, <4>1
      <4> QED BY <2>3, <4>2
    <3>3. v[i].op \in Seconds => i > 1 /\ v[i - 1] = s[i + 1]
      <4> HAVE v[i].op \in Seconds
      <4>1. s[i + 1].op \in Firsts
        BY <1>2, <3>1
      <4>2. i # 1
        BY <2>5, <4>1
      <4>3. i > 1 /\ i - 1 \in 1 .. n - 2 /\ (i - 1) + 2 = i + 1
        BY <1>1, <4>2
      <4> QED BY <2>3, <4>3
    <3> QED BY <1>2, <3>1, <3>2, <3>3
  <2> QED BY <1>1, <2>1, <2>2, <2>6
<1> QED BY <1>4, <1>5, <1>6

(* Where an operation that comes second is at the head of a stack, after what    *)
(* was executed.                                                              *)
NextHead(h, s) ==
  s # <<>> /\ Head(s).op \in Seconds \cup Unwatches =>
    \/ h.op \in Firsts /\ Head(s) = Second(h)
    \/ h.op = "removeChild" /\ Head(s) = Op2("unwatchChild", h.t, h.u)
    \/ h.op = "unwatchChild" /\ Head(s) = Op2("removeParent", h.u, h.t)
    \/ h.op = "removeParent" /\ Head(s) = Op2("unwatchParent", h.t, h.u)

LEMMA FirstParts ==
  ASSUME NEW h, h.op \in Firsts
  PROVE  Second(h).op \in Seconds
BY DEF Second, Firsts, Seconds, Op2

LEMMA ConcatNothing ==
  ASSUME NEW V, NEW s \in Seq(V)
  PROVE  <<>> \o s = s
OBVIOUS

LEMMA ConcatOne ==
  ASSUME NEW V, NEW s \in Seq(V), NEW e \in V
  PROVE  /\ <<e>> \o s \in Seq(V) /\ <<e>> \o s # <<>>
         /\ Head(<<e>> \o s) = e /\ Tail(<<e>> \o s) = s
<1> DEFINE n == <<e>> \o s
<1>1. n \in Seq(V) /\ Len(n) = Len(s) + 1 /\ Len(s) \in Nat /\ n[1] = e
      /\ \A i \in 1 .. Len(s) : n[i + 1] = s[i]
  OBVIOUS
<1>2. n # <<>>
  BY <1>1
<1> HIDE DEF n
<1>3. Head(n) = e /\ Tail(n) \in Seq(V) /\ Len(Tail(n)) = Len(s) /\ \A i \in 1 .. Len(s) : Tail(n)[i] = s[i]
  BY <1>1, <1>2, TailOf
<1>4. Tail(n) = s
  BY <1>3
<1> QED BY <1>1, <1>2, <1>3, <1>4 DEF n

(* A stack after the operation at its head called nothing that is left of a pair. *)
LEMMA StackCalls ==
  ASSUME NEW s \in Seq(Calls), s # <<>>, Opened(s), NEW ops \in Seq(Calls), Paired(ops),
         Head(s).op \notin Firsts \cup {"unwatchChild"}
  PROVE  /\ Paired(ops \o Tail(s)) /\ Opened(ops \o Tail(s)) /\ NextHead(Head(s), ops \o Tail(s))
<1>1. Tail(s) \in Seq(Calls)
  BY TailOf
<1>2. Paired(Tail(s))
  BY PairedTail DEF Opened
<1>3. Paired(ops \o Tail(s)) /\ ops \o Tail(s) \in Seq(Calls)
  <2> DEFINE t == Tail(s)
  <2>1. t \in Seq(Calls) /\ Paired(t)
    BY <1>1, <1>2
  <2> HIDE DEF t
  <2>2. Paired(ops \o t) /\ ops \o t \in Seq(Calls)
    BY <2>1, PairedJoin
  <2> QED BY <2>2 DEF t
<1> QED BY <1>3, PairedTail DEF Opened, NextHead

LEMMA StackFirst ==
  ASSUME NEW s \in Seq(Calls), s # <<>>, Opened(s), Head(s).op \in Firsts
  PROVE  /\ Opened(Tail(s)) /\ NextHead(Head(s), Tail(s))
         /\ Tail(s) # <<>> /\ Head(Tail(s)) = Second(Head(s)) /\ Paired(Tail(Tail(s)))
<1>1. Paired(s)
  BY DEF Opened, Firsts, Seconds
<1>2. Tail(s) # <<>> /\ Head(Tail(s)) = Second(Head(s)) /\ Paired(Tail(Tail(s)))
  BY <1>1, PairedTail
<1>3. Second(Head(s)).op \in Seconds
  BY FirstParts
<1> QED BY <1>2, <1>3 DEF Opened, NextHead

LEMMA StackUnwatchChild ==
  ASSUME NEW s \in Seq(Calls), s # <<>>, Opened(s), Head(s).op = "unwatchChild"
  PROVE  /\ Opened(Tail(s)) /\ NextHead(Head(s), Tail(s))
         /\ Tail(s) # <<>> /\ Head(Tail(s)) = Op2("removeParent", Head(s).u, Head(s).t)
<1>1. ~Paired(s)
  BY PairedTail DEF Unwatches
<1>2. /\ Tail(s) # <<>> /\ Head(Tail(s)) = Op2("removeParent", Head(s).u, Head(s).t)
      /\ Paired(Tail(Tail(s)))
  BY <1>1 DEF Opened, Seconds
<1>3. Op2("removeParent", Head(s).u, Head(s).t).op \in Seconds
  BY DEF Op2, Seconds
<1> QED BY <1>2, <1>3 DEF Opened, NextHead

LEMMA StackWatchEnds ==
  ASSUME NEW s \in Seq(Calls), s # <<>>, Opened(s), NEW e \in Calls,
         \/ Head(s).op = "removeChild" /\ e = Op2("unwatchChild", Head(s).t, Head(s).u)
         \/ Head(s).op = "removeParent" /\ e = Op2("unwatchParent", Head(s).t, Head(s).u)
  PROVE  /\ Opened(<<e>> \o Tail(s)) /\ NextHead(Head(s), <<e>> \o Tail(s))
         /\ <<e>> \o Tail(s) # <<>> /\ Head(<<e>> \o Tail(s)) = e
<1> DEFINE n == <<e>> \o Tail(s)
<1>1. Tail(s) \in Seq(Calls)
  BY TailOf
<1>2. n # <<>> /\ Head(n) = e /\ Tail(n) = Tail(s)
  BY <1>1, ConcatOne
<1> HIDE DEF n
<1>3. CASE Head(s).op = "removeChild" /\ e = Op2("unwatchChild", Head(s).t, Head(s).u)
  <2>1. Head(s).op \in Firsts
    BY <1>3 DEF Firsts
  <2>2. Tail(s) # <<>> /\ Head(Tail(s)) = Second(Head(s)) /\ Paired(Tail(Tail(s)))
    BY <2>1, StackFirst
  <2>3. Second(Head(s)) = Op2("removeParent", Head(s).u, Head(s).t)
    BY <1>3 DEF Second
  <2>4. e.op = "unwatchChild" /\ e.t = Head(s).t /\ e.u = Head(s).u
    BY <1>3 DEF Op2
  <2>5. Opened(n)
    BY <1>2, <2>2, <2>3, <2>4 DEF Opened
  <2>6. NextHead(Head(s), n)
    BY <1>2, <1>3 DEF NextHead
  <2> QED BY <1>2, <2>5, <2>6 DEF n
<1>4. CASE Head(s).op = "removeParent" /\ e = Op2("unwatchParent", Head(s).t, Head(s).u)
  <2>1. e.op = "unwatchParent"
    BY <1>4 DEF Op2
  <2>2. Paired(Tail(s))
    BY <1>4, PairedTail DEF Opened, Seconds, Firsts
  <2>3. Opened(n)
    BY <1>2, <2>1, <2>2 DEF Opened
  <2>4. NextHead(Head(s), n)
    BY <1>2, <1>4 DEF NextHead
  <2> QED BY <1>2, <2>3, <2>4 DEF n
<1> QED BY <1>3, <1>4

(* What is made is plain, but for starts and what takes connections down.       *)
LEMMA MadePlain ==
  ASSUME NEW h, NEW c \in Calls, Makes(h, c),
         h.op \notin {"start", "disconnectParents", "disconnectChildren", "removeChild", "removeParent"},
         h.op = "emitDone" => ToSet(watchers[h.t]) \subseteq Watches \/ h.t \notin Nodes
  PROVE  Plain(c)
<1>1. CASE h.op = "emitDone"
  <2>1. \/ c.op \in {"remove", "disconnectParents", "disconnectChildren"}
        \/ h.t \in Nodes /\ \E w \in ToSet(watchers[h.t]) : c = Op(w.kind, w.by)
    BY <1>1 DEF Makes, Op
  <2>2. \A w \in Watches : Op(w.kind, w.by).op \in {"children", "parents"}
    BY DEF Op, Watches
  <2>3. c.op \in {"remove", "disconnectParents", "disconnectChildren", "children", "parents"}
    BY <1>1, <2>1, <2>2
  <2> QED BY <2>3 DEF Plain, Firsts, Seconds, Unwatches
<1>2. CASE h.op # "emitDone"
  BY <1>2 DEF Makes, Plain, Op, Firsts, Seconds, Unwatches
<1> QED BY <1>1, <1>2

PairedCalls(th) == \E ops \in Seq(Calls) : Call(th, ops) /\ Paired(ops)

LEMMA ReturnPaired ==
  ASSUME NEW th, Return(th)
  PROVE  PairedCalls(th)
<1>1. <<>> \in Seq(Calls)
  OBVIOUS
<1> QED BY <1>1, PairedNothing DEF PairedCalls, Return

LEMMA StartPaired ==
  ASSUME TypeOK, NEW th \in Threads, Start(th)
  PROVE  PairedCalls(th)
<1> DEFINE t == Arg(th)
           ops == <<Op("onStart", t), Op("setRunning", t), Op("spawn", t)>>
<1>1. t \in Tasks /\ (Call(th, ops) \/ Return(th))
  BY HeadOf DEF Start
<1>2. ops \in Seq(Calls)
  BY <1>1, StartOp
<1>3. Paired(ops)
  <2>1. /\ Len(ops) = 3 /\ DOMAIN ops = 1 .. 3
        /\ ops[1].op = "onStart" /\ ops[2].op = "setRunning" /\ ops[3].op = "spawn"
        /\ ops[2].t = t /\ ops[2].u = t /\ ops[3] = Op2("spawn", t, t)
    BY DEF Op, Op2
  <2> HIDE DEF ops, t
  <2>2. ops[3] = Second(ops[2])
    BY <2>1 DEF Second
  <2>3. /\ ops[1].op \notin Firsts \cup Seconds \cup Unwatches
        /\ ops[2].op \in Firsts /\ ops[2].op \notin Seconds \cup Unwatches
        /\ ops[3].op \notin Firsts \cup Unwatches
    BY <2>1 DEF Firsts, Seconds, Unwatches
  <2>4. \A i \in 1 .. 3 : i = 1 \/ (i = 2 /\ i + 1 = 3) \/ (i = 3 /\ i - 1 = 2)
    OBVIOUS
  <2> QED BY <2>1, <2>2, <2>3, <2>4 DEF Paired
<1> HIDE DEF ops
<1> QED BY <1>1, <1>2, <1>3, ReturnPaired DEF PairedCalls

LEMMA DisconnectPaired ==
  ASSUME NEW n \in Nodes, NEW m \in Nodes
  PROVE  Disconnect(n, m) \in {s \in Seq(Calls) : Paired(s)}
<1> DEFINE a == Op2("removeChild", n, m)
           b == Op2("removeParent", m, n)
           s == <<a, b>>
<1>1. a \in Calls /\ b \in Calls /\ Disconnect(n, m) = s
  BY UnlinkOp DEF Disconnect
<1>2. a.op = "removeChild" /\ b.op = "removeParent" /\ b = Second(a)
  BY DEF Op2, Second
<1>3. a.op \in Firsts /\ a.op \notin Seconds \cup Unwatches /\ b.op \notin Firsts \cup Unwatches
  BY <1>2 DEF Firsts, Seconds, Unwatches
<1> HIDE DEF a, b
<1>4. s \in Seq(Calls) /\ DOMAIN s = 1 .. 2 /\ Len(s) = 2 /\ s[1] = a /\ s[2] = b
  BY <1>1
<1>5. \A i \in 1 .. 2 : (i = 1 /\ i + 1 = 2) \/ (i = 2 /\ i - 1 = 1)
  OBVIOUS
<1> HIDE DEF s
<1>6. Paired(s)
  BY <1>2, <1>3, <1>4, <1>5 DEF Paired
<1> QED BY <1>1, <1>4, <1>6

LEMMA FlattenPaired ==
  ASSUME NEW seqs \in Seq({s \in Seq(Calls) : Paired(s)})
  PROVE  FlattenSeq(seqs) \in {s \in Seq(Calls) : Paired(s)}
<1> DEFINE C == {s \in Seq(Calls) : Paired(s)}
<1>1. C \in SUBSET Seq(Calls) /\ <<>> \in C
  BY PairedNothing
<1>2. \A a, b \in C : a \o b \in C
  BY PairedJoin
<1>3. seqs \in Seq(C)
  OBVIOUS
<1> HIDE DEF C
<1>4. FlattenSeq(seqs) \in C
  BY <1>1, <1>2, <1>3, FlattenProperties
<1> QED BY <1>4 DEF C

LEMMA UnlinkingPaired ==
  ASSUME TypeOK, NEW th \in Threads, DisconnectParents(th) \/ DisconnectChildren(th)
  PROVE  PairedCalls(th)
<1> DEFINE n == Arg(th)
           C == {s \in Seq(Calls) : Paired(s)}
<1>1. ASSUME NEW S \in SUBSET Nodes, NEW calls, calls = [i \in DOMAIN Sorted(S) |-> calls[i]],
             \A i \in DOMAIN Sorted(S) : Sorted(S)[i] \in S => calls[i] \in C,
             Call(th, FlattenSeq(calls))
      PROVE  PairedCalls(th)
  <2> DEFINE ps == Sorted(S)
  <2>1. ps \in Seq(S)
    <3>1. ps \in Seq((Groups \cup Nodes) \cap S)
      BY SortedProperties
    <3>2. (Groups \cup Nodes) \cap S = S
      OBVIOUS
    <3> HIDE DEF ps
    <3> QED BY <3>1, <3>2
  <2>2. calls \in Seq(C)
    <3> HIDE DEF ps, C
    <3>1. DOMAIN ps = 1 .. Len(ps) /\ Len(ps) \in Nat /\ \A i \in 1 .. Len(ps) : ps[i] \in S
      BY <2>1
    <3>2. calls = [i \in 1 .. Len(ps) |-> calls[i]] /\ \A i \in 1 .. Len(ps) : calls[i] \in C
      BY <1>1, <3>1 DEF ps
    <3> QED BY <3>1, <3>2
  <2>3. FlattenSeq(calls) \in C
    BY <2>2, FlattenPaired
  <2> QED BY <1>1, <2>3 DEF PairedCalls
<1>2. CASE DisconnectParents(th)
  <2> DEFINE S == parents[n]
             calls == [i \in DOMAIN Sorted(S) |-> Disconnect(Sorted(S)[i], n)]
  <2>1. n \in Nodes /\ S \in SUBSET Nodes /\ Call(th, FlattenSeq(calls))
    BY <1>2, HeadOf, Arguments DEF DisconnectParents, TypeOK
  <2>2. \A i \in DOMAIN Sorted(S) : Sorted(S)[i] \in S => calls[i] \in C
    BY <2>1, DisconnectPaired
  <2>3. calls = [i \in DOMAIN Sorted(S) |-> calls[i]]
    OBVIOUS
  <2> HIDE DEF calls, S, C
  <2> QED BY <1>1, <2>1, <2>2, <2>3
<1>3. CASE DisconnectChildren(th)
  <2> DEFINE S == children[n]
             calls == [i \in DOMAIN Sorted(S) |-> Disconnect(n, Sorted(S)[i])]
  <2>1. n \in Nodes /\ S \in SUBSET Nodes /\ Call(th, FlattenSeq(calls))
    BY <1>3, HeadOf, Arguments DEF DisconnectChildren, TypeOK
  <2>2. \A i \in DOMAIN Sorted(S) : Sorted(S)[i] \in S => calls[i] \in C
    BY <2>1, DisconnectPaired
  <2>3. calls = [i \in DOMAIN Sorted(S) |-> calls[i]]
    OBVIOUS
  <2> HIDE DEF calls, S, C
  <2> QED BY <1>1, <2>1, <2>2, <2>3
<1> QED BY <1>2, <1>3

(* Every other operation calls whole pairs.                                    *)
LEMMA StepPaired ==
  ASSUME TypeOK, NEW th \in Threads, ThreadStep(th), ~Spawn(th), ~RemoveChild(th), ~RemoveParent(th)
  PROVE  PairedCalls(th)
<1> DEFINE h == Head(todo[th])
<1>0. todo[th] # <<>> /\ h \in Calls /\ h.t = Arg(th) /\ At(th, h.op)
  BY HeadTail DEF ThreadStep, Arg, At
<1>1. /\ h.op = "start" => Start(th)
      /\ h.op = "disconnectParents" => DisconnectParents(th)
      /\ h.op = "disconnectChildren" => DisconnectChildren(th)
      /\ h.op \notin {"removeChild", "removeParent"}
  BY <1>0, OnlyIts
<1>2. CASE h.op \in {"start", "disconnectParents", "disconnectChildren"}
  BY <1>1, <1>2, StartPaired, UnlinkingPaired
<1>3. CASE h.op \notin {"start", "disconnectParents", "disconnectChildren"}
  <2>1. PICK ops \in Seq(Made(h)) : Call(th, ops)
    BY <1>0, EveryMakes DEF Making
  <2>2. ToSet(watchers[h.t]) \subseteq Watches \/ h.t \notin Nodes
    BY DEF TypeOK, ToSet
  <2>3. \A x \in Made(h) : x \in Calls /\ Plain(x)
    <3> HIDE DEF h
    <3> QED BY <1>1, <1>3, <2>2, MadePlain DEF Made
  <2>4. ops \in Seq(Calls) /\ \A i \in DOMAIN ops : Plain(ops[i])
    <3>1. DOMAIN ops = 1 .. Len(ops) /\ \A i \in 1 .. Len(ops) : ops[i] \in Made(h)
      BY <2>1
    <3> HIDE DEF h
    <3>2. Made(h) \subseteq Calls
      BY <2>3
    <3> QED BY <2>1, <2>3, <3>1, <3>2
  <2>5. Paired(ops)
    BY <2>4, PairedPlain
  <2> QED BY <2>1, <2>4, <2>5 DEF PairedCalls
<1> QED BY <1>2, <1>3

LEMMA StackStep ==
  ASSUME TypeOK, NEW th \in Threads, ThreadStep(th), ~Spawn(th), Opened(todo[th])
  PROVE  /\ \A r \in Threads : r # th => todo'[r] = todo[r]
         /\ Opened(todo'[th]) /\ NextHead(Head(todo[th]), todo'[th])
         /\ Head(todo[th]).op \in {"addChild", "setRunning", "setDone", "unwatchChild"} =>
              todo'[th] = Tail(todo[th])
         /\ Head(todo[th]).op = "removeChild" =>
              LET n == Arg(th)
                  m == Arg2(th)
              IN todo'[th] # <<>> /\ Head(todo'[th]) =
                   IF m \in children[n] /\ n \in WhenAllChildrenAreDone
                     THEN Op2("unwatchChild", n, m) ELSE Op2("removeParent", m, n)
         /\ Head(todo[th]).op = "removeParent" =>
              LET n == Arg(th)
                  m == Arg2(th)
              IN IF m \in parents[n] /\ n \in WhenAllParentsAreDone
                   THEN todo'[th] # <<>> /\ Head(todo'[th]) = Op2("unwatchParent", n, m)
                   ELSE Paired(todo'[th])
         /\ Head(todo[th]).op \notin Firsts \cup {"unwatchChild", "removeParent"} => Paired(todo'[th])
<1> DEFINE s == todo[th]
           h == Head(s)
           n == Arg(th)
           m == Arg2(th)
<1>0. /\ s \in Seq(Calls) /\ s # <<>> /\ h \in Calls /\ h.t = n /\ h.u = m /\ At(th, h.op)
      /\ Tail(s) \in Seq(Calls) /\ todo \in [Threads -> Seq(Calls)]
  BY HeadTail DEF ThreadStep, Arg, Arg2, At, TypeOK
<1>1. \A ops : Call(th, ops) => todo'[th] = ops \o Tail(s) /\ \A r \in Threads : r # th => todo'[r] = todo[r]
  BY <1>0 DEF Call
<1>2. Return(th) => todo'[th] = Tail(s)
  BY <1>0, <1>1, ConcatNothing DEF Return
<1>3. \A r \in Threads : r # th => todo'[r] = todo[r]
  BY <1>0, <1>1, EveryMakes DEF Making
<1>4. CASE h.op \in {"addChild", "setRunning", "setDone"}
  <2>1. Return(th)
    <3>1. AddChild(th) \/ SetRunning(th) \/ SetDone(th)
      BY <1>0, <1>4, OnlyIts
    <3> QED BY <3>1 DEF AddChild, SetRunning, SetDone
  <2>2. h.op \in Firsts
    BY <1>4 DEF Firsts
  <2> HIDE DEF h, s
  <2>3. Opened(Tail(s)) /\ NextHead(h, Tail(s))
    BY <1>0, <2>2, StackFirst DEF h, s
  <2> QED BY <1>2, <1>3, <1>4, <2>1, <2>2, <2>3 DEF h, s
<1>5. CASE h.op = "unwatchChild"
  <2>1. Return(th)
    BY <1>0, <1>5, OnlyIts DEF UnwatchChild, Unwatch
  <2>2. Opened(Tail(s)) /\ NextHead(h, Tail(s))
    BY <1>0, <1>5, StackUnwatchChild
  <2> QED BY <1>2, <1>3, <1>5, <2>1, <2>2
<1>6. CASE h.op = "removeChild"
  <2>1. RemoveChild(th) /\ h.op \in Firsts /\ n \in Nodes /\ m \in Nodes
    BY <1>0, <1>6, OnlyIts, Arguments DEF Firsts
  <2>2. CASE m \in children[n] /\ n \in WhenAllChildrenAreDone
    <3> DEFINE e == Op2("unwatchChild", n, m)
    <3>1. Call(th, <<e>>)
      BY <2>1, <2>2 DEF RemoveChild
    <3>2. e \in Calls
      BY <2>1, UnlinkOp
    <3>3. e = Op2("unwatchChild", h.t, h.u)
      BY <1>0
    <3> HIDE DEF e
    <3>4. /\ Opened(<<e>> \o Tail(s)) /\ NextHead(h, <<e>> \o Tail(s))
          /\ <<e>> \o Tail(s) # <<>> /\ Head(<<e>> \o Tail(s)) = e
      BY <1>0, <1>6, <3>2, <3>3, StackWatchEnds
    <3>5. todo'[th] = <<e>> \o Tail(s)
      BY <1>1, <3>1
    <3> QED BY <1>3, <1>6, <2>2, <3>4, <3>5 DEF Firsts, e
  <2>3. CASE ~(m \in children[n] /\ n \in WhenAllChildrenAreDone)
    <3>1. Return(th)
      BY <2>1, <2>3 DEF RemoveChild, Return
    <3>2. /\ Opened(Tail(s)) /\ NextHead(h, Tail(s))
          /\ Tail(s) # <<>> /\ Head(Tail(s)) = Second(h)
      BY <1>0, <2>1, StackFirst
    <3>3. Second(h) = Op2("removeParent", m, n)
      BY <1>0, <1>6 DEF Second
    <3> QED BY <1>2, <1>3, <1>6, <2>3, <3>1, <3>2, <3>3 DEF Firsts
  <2> QED BY <2>2, <2>3
<1>7. CASE h.op = "removeParent"
  <2>1. RemoveParent(th) /\ h.op \notin Firsts \cup {"unwatchChild"} /\ n \in Nodes /\ m \in Nodes
    BY <1>0, <1>7, OnlyIts, Arguments DEF Firsts
  <2>2. CASE m \in parents[n] /\ n \in WhenAllParentsAreDone
    <3> DEFINE e == Op2("unwatchParent", n, m)
    <3>1. Call(th, <<e>>)
      BY <2>1, <2>2 DEF RemoveParent
    <3>2. e \in Calls
      BY <2>1, UnlinkOp
    <3>3. e = Op2("unwatchParent", h.t, h.u)
      BY <1>0
    <3> HIDE DEF e
    <3>4. /\ Opened(<<e>> \o Tail(s)) /\ NextHead(h, <<e>> \o Tail(s))
          /\ <<e>> \o Tail(s) # <<>> /\ Head(<<e>> \o Tail(s)) = e
      BY <1>0, <1>7, <3>2, <3>3, StackWatchEnds
    <3>5. todo'[th] = <<e>> \o Tail(s)
      BY <1>1, <3>1
    <3> QED BY <1>3, <1>7, <2>2, <3>4, <3>5 DEF e
  <2>3. CASE ~(m \in parents[n] /\ n \in WhenAllParentsAreDone)
    <3>1. Call(th, <<>>)
      BY <2>1, <2>3 DEF RemoveParent
    <3>2. <<>> \in Seq(Calls) /\ todo'[th] = <<>> \o Tail(s)
      <4>1. <<>> \in Seq(Calls)
        OBVIOUS
      <4>2. todo'[th] = <<>> \o Tail(s)
        BY <1>0, <3>1 DEF Call
      <4> QED BY <4>1, <4>2
    <3>3. Paired(<<>> \o Tail(s)) /\ Opened(<<>> \o Tail(s)) /\ NextHead(h, <<>> \o Tail(s))
      BY <1>0, <2>1, <3>2, StackCalls, PairedNothing
    <3> QED BY <1>3, <1>7, <2>3, <3>2, <3>3
  <2> QED BY <2>2, <2>3
<1>8. CASE h.op \notin Firsts \cup {"unwatchChild", "removeParent"}
  <2>1. ~RemoveChild(th) /\ ~RemoveParent(th)
    BY <1>8 DEF RemoveChild, RemoveParent, At, Firsts
  <2>2. PICK ops \in Seq(Calls) : Call(th, ops) /\ Paired(ops)
    BY <2>1, StepPaired DEF PairedCalls
  <2>3. todo'[th] = ops \o Tail(s)
    BY <1>1, <2>2
  <2>4. Paired(ops \o Tail(s)) /\ Opened(ops \o Tail(s)) /\ NextHead(h, ops \o Tail(s))
    BY <1>0, <1>8, <2>2, StackCalls
  <2> QED BY <1>3, <1>8, <2>3, <2>4 DEF Firsts
<1> QED BY <1>4, <1>5, <1>6, <1>7, <1>8 DEF Firsts

-----------------------------------------------------------------------------
(* What is left of the life of tasks when users may start groups *)

Birth(th, c) ==
  /\ c.op = "spawn" => status[c.t] \notin {"created", "done"} /\ todo[c.t] = <<>>
  /\ c.op \in {"setDone", "emitDone"} => th = c.t

Births == \A th \in Threads, d \in Nat : \A c : Has(todo[th], d, c) => Birth(th, c)

SpawnsAlone ==
  \A th, r \in Threads, d, e \in Nat : \A c, b :
    /\ Has(todo[th], d, c) /\ c.op = "spawn"
    /\ Has(todo[r], e, b) /\ b.op = "spawn" /\ b.t = c.t
    => r = th /\ e = d

BirthInv ==
  /\ TypeOK /\ Births /\ SpawnsAlone
  /\ \A t \in Tasks : status[t] = "created" => todo[t] = <<>>
  /\ \A th \in Threads : Opened(todo[th])
  /\ \A th \in Threads : At(th, "emitDone") => status[Arg(th)] = "done"

LEMMA HeadBirth ==
  ASSUME BirthInv, NEW th \in Threads, todo[th] # <<>>
  PROVE  /\ TypeOK /\ Opened(todo[th]) /\ Head(todo[th]) \in Calls /\ Birth(th, Head(todo[th]))
         /\ Top(th) \in Nat /\ Has(todo[th], Top(th), Head(todo[th]))
         /\ Head(todo[th]).t = Arg(th) /\ Head(todo[th]).u = Arg2(th) /\ Arg(th) \in Tasks /\ Arg2(th) \in Tasks
         /\ At(th, Head(todo[th]).op)
<1>1. TypeOK
  BY DEF BirthInv
<1> QED BY <1>1, TopItem, HeadTail DEF BirthInv, Births, Arg, Arg2, At

LEMMA BornFresh ==
  ASSUME BirthInv, NEW th \in Threads, Spawn(th)
  PROVE  todo[Arg(th)] = <<>> /\ Head(todo[th]).op = "spawn" /\ Arg(th) # th
<1>1. todo[th] # <<>> /\ Head(todo[th]).op = "spawn"
  BY DEF Spawn, At
<1> QED BY <1>1, HeadBirth DEF Birth

(* What a step leaves on any stack.                                            *)
LEMMA AfterBirth ==
  ASSUME BirthInv, NEW th \in Threads, ThreadStep(th)
  PROVE  /\ \A r \in Threads, d \in Nat : \A c : Has(todo'[r], d, c) =>
              \/ Has(todo[r], d, c) /\ ~Executed(r, d, th)
              \/ r = th /\ ~Spawn(th) /\ c \in Calls /\ Makes(Head(todo[th]), c)
              \/ r = c.t /\ c.op \in Born
         /\ \A r \in Threads : r # th /\ ~(Spawn(th) /\ r = Arg(th)) => todo'[r] = todo[r]
<1>1. TypeOK /\ (Spawn(th) => todo[Arg(th)] = <<>>)
  BY BornFresh DEF BirthInv
<1>2. \A r \in Threads, d \in Nat : \A c : Has(todo'[r], d, c) =>
              \/ Has(todo[r], d, c) /\ ~Executed(r, d, th)
              \/ r = th /\ ~Spawn(th) /\ c \in Calls /\ Makes(Head(todo[th]), c)
              \/ r = c.t /\ c.op \in Born /\ (c.op = "close" => d = 3 /\ Mark(todo'[r], 2, "setDone", r))
  BY <1>1, AfterAny
<1>3. \A r \in Threads : r # th /\ ~(Spawn(th) /\ r = Arg(th)) => todo'[r] = todo[r]
  <2>1. CASE Spawn(th)
    BY <1>1, <2>1 DEF Spawn, TypeOK
  <2>2. CASE ~Spawn(th)
    BY <1>1, <2>2, EveryMakes DEF Making, Call, TypeOK
  <2> QED BY <2>1, <2>2
<1> QED BY <1>2, <1>3

(* Where the goroutine of a task may be spawned after a step.                   *)
LEMMA SpawnAfter ==
  ASSUME BirthInv, NEW th \in Threads, ThreadStep(th),
         NEW r \in Threads, NEW d \in Nat, NEW c, Has(todo'[r], d, c), c.op = "spawn"
  PROVE  \/ Has(todo[r], d, c) /\ ~Executed(r, d, th)
         \/ r = th /\ d = Top(th) /\ Start(th) /\ c.t = Arg(th) /\ status[c.t] = "created"
<1>1. todo[th] # <<>> /\ TypeOK /\ Head(todo[th]).t = Arg(th) /\ At(th, Head(todo[th]).op)
  BY HeadBirth DEF ThreadStep
<1>2. \/ Has(todo[r], d, c) /\ ~Executed(r, d, th)
      \/ r = th /\ Makes(Head(todo[th]), c)
  BY AfterBirth DEF Born
<1>3. ASSUME r = th, Makes(Head(todo[th]), c), ~(Has(todo[r], d, c) /\ ~Executed(r, d, th))
      PROVE  d = Top(th) /\ Start(th) /\ c.t = Arg(th) /\ status[c.t] = "created"
  <2>1. Head(todo[th]).op = "start" /\ status[Arg(th)] = "created" /\ c.t = Arg(th)
    <3> DEFINE h == Head(todo[th])
    <3>1. \A w \in Watches : Op(w.kind, w.by).op # "spawn"
      BY DEF Watches, Op
    <3>2. h.op = "emitDone" /\ h.t \in Nodes => \A w \in ToSet(watchers[h.t]) : w \in Watches
      BY <1>1 DEF TypeOK, ToSet
    <3> HIDE DEF h
    <3>3. Makes(h, c)
      BY <1>3 DEF h
    <3>4. h.op = "start" /\ status[h.t] = "created" /\ c.t = h.t
      BY <3>1, <3>2, <3>3 DEF Makes, Op, Op2
    <3> QED BY <1>1, <3>4 DEF h
  <2>2. Start(th)
    BY <1>1, <2>1, OnlyIts
  <2> DEFINE t == Arg(th)
             ops == <<Op("onStart", t), Op("setRunning", t), Op("spawn", t)>>
  <2>3. Call(th, ops) /\ ops \in Seq(Calls) /\ Len(ops) = 3
        /\ ops[1].op = "onStart" /\ ops[2].op = "setRunning"
    <3>1. t \in Tasks
      BY <1>1, HeadTail
    <3>2. Call(th, ops)
      BY <2>1, <2>2 DEF Start
    <3>3. ops \in Seq(Calls)
      BY <3>1, StartOp
    <3>4. Len(ops) = 3 /\ ops[1].op = "onStart" /\ ops[2].op = "setRunning"
      BY DEF Op
    <3> QED BY <3>2, <3>3, <3>4
  <2> HIDE DEF ops
  <2>4. \A x : Has(todo'[th], d, x) <=>
          \/ d < Top(th) /\ Has(todo[th], d, x)
          \/ \E j \in 1 .. Len(ops) : d = Top(th) + Len(ops) - j /\ ops[j] = x
    BY <1>1, <2>3, Stacks
  <2>5. Top(th) \in Nat
    BY <1>1, TopItem
  <2>6. ~(d < Top(th) /\ Has(todo[th], d, c))
    BY <1>3, <2>5 DEF Executed
  <2>7. PICK j \in 1 .. 3 : d = Top(th) + 3 - j /\ ops[j] = c
    BY <1>3, <2>3, <2>4, <2>6
  <2>8. j = 3
    BY <2>3, <2>7
  <2> QED BY <2>1, <2>2, <2>5, <2>7, <2>8
<1> QED BY <1>2, <1>3

(* A task that is done stays done.                                             *)
LEMMA DoneStays ==
  ASSUME BirthInv, [Next]_vars, NEW t \in Tasks
  PROVE  /\ status[t] = "done" => status'[t] = "done"
         /\ status[t] # "created" => status'[t] # "created"
<1>1. ASSUME NEW th \in Threads, ThreadStep(th), status'[t] # status[t]
      PROVE  status[t] # "done" /\ status'[t] # "created"
  <2>1. TypeOK /\ todo[th] # <<>>
    BY <1>1 DEF BirthInv, ThreadStep
  <2>2. /\ t = Arg(th)
        /\ \/ Start(th) /\ status'[t] = "starting"
           \/ SetRunning(th) /\ status'[t] = "running"
           \/ status[t] = "running" /\ status'[t] = "stopping"
           \/ SetDone(th) /\ status'[t] = "done"
    BY <1>1, <2>1, StatusMoves
  <2>3. CASE Start(th)
    BY <1>1, <2>1, <2>2, <2>3 DEF Start
  <2>4. CASE SetRunning(th)
    <3> DEFINE s == todo[th]
               h == Head(s)
    <3>1. h.op = "setRunning" /\ h.t = t /\ h.op \in Firsts /\ s \in Seq(Calls) /\ s # <<>> /\ Opened(s)
      BY <2>1, <2>2, <2>4, HeadTail DEF SetRunning, At, Arg, Firsts, BirthInv
    <3> HIDE DEF s, h
    <3>2. Tail(s) # <<>> /\ Head(Tail(s)) = Second(h)
      BY <3>1, StackFirst DEF h
    <3>3. Second(h).op = "spawn" /\ Second(h).t = t
      BY <3>1 DEF Second, Op2
    <3>4. Len(s) >= 2 /\ s[2] = Second(h)
      <4>1. /\ Len(s) \in Nat \ {0} /\ Tail(s) \in Seq(Calls) /\ Len(Tail(s)) = Len(s) - 1
            /\ \A i \in 1 .. Len(s) - 1 : Tail(s)[i] = s[i + 1]
        BY <3>1, TailOf
      <4>2. Head(Tail(s)) = Tail(s)[1] /\ Len(Tail(s)) \in Nat \ {0}
        BY <3>2, <4>1, TailOf
      <4>3. 1 \in 1 .. Len(s) - 1
        BY <4>1, <4>2
      <4> QED BY <3>2, <4>1, <4>2, <4>3
    <3>5. Len(s) \in Nat
      BY <3>1
    <3>6. Len(s) - 2 \in Nat /\ Has(s, Len(s) - 2, Second(h))
      <4>1. Len(s) - (Len(s) - 2) = 2
        BY <3>5
      <4> QED BY <3>4, <3>5, <4>1 DEF Has
    <3>7. Birth(th, Second(h))
      BY <3>6 DEF BirthInv, Births, s
    <3>8. status[t] \notin {"created", "done"}
      BY <3>3, <3>7 DEF Birth
    <3> QED BY <2>2, <2>4, <3>8
  <2>5. CASE SetDone(th)
    BY <1>1, <2>1, <2>2, <2>5 DEF SetDone, TypeOK
  <2> QED BY <2>2, <2>3, <2>4, <2>5
<1>2. ASSUME NEW n \in Nodes, NoderCancel(n) \/ NoderExit(n) PROVE status' = status
  BY <1>2 DEF NoderCancel, NoderExit
<1>3. UNCHANGED vars => status' = status
  BY DEF vars
<1> QED BY <1>1, <1>2, <1>3 DEF Next

(* What a task's goroutine is given to do, and what is left to the one that      *)
(* spawned it.                                                                 *)
LEMMA SpawnPaired ==
  ASSUME BirthInv, NEW th \in Threads, Spawn(th)
  PROVE  Paired(todo'[th]) /\ Paired(todo'[Arg(th)])
<1> DEFINE h == Head(todo[th])
<1>1. /\ TypeOK /\ todo[th] # <<>> /\ Opened(todo[th]) /\ Arg(th) \in Tasks
      /\ Arg(th) # th /\ h.op = "spawn"
  <2>1. todo[th] # <<>>
    BY DEF Spawn, At
  <2> QED BY <2>1, HeadBirth, BornFresh
<1> DEFINE t == Arg(th)
           ends == <<Op("awaitCtx", t), Op("awaitWork", t), Op("close", t),
                     Op("setDone", t), Op("emitDone", t), Op("release", t)>>
<1>2. todo' = [todo EXCEPT ![th] = Tail(@), ![t] = ends]
  BY DEF Spawn
<1>3. todo'[th] = Tail(todo[th]) /\ todo'[t] = ends
  <2> HIDE DEF ends, t
  <2>1. t # th /\ t \in Threads
    BY <1>1, Tree DEF t
  <2> QED BY <1>1, <1>2, <2>1 DEF TypeOK
<1>4. Paired(Tail(todo[th]))
  <2>1. h.op = "spawn" /\ h.op \in Seconds /\ todo[th] \in Seq(Calls)
    BY <1>1, HeadTail DEF Seconds
  <2> QED BY <1>1, <2>1, PairedTail DEF Opened
<1>5. Paired(ends)
  <2>1. /\ Len(ends) = 6 /\ DOMAIN ends = 1 .. 6
        /\ ends[1].op = "awaitCtx" /\ ends[2].op = "awaitWork" /\ ends[3].op = "close"
        /\ ends[4].op = "setDone" /\ ends[4].t = t /\ ends[4].u = t
        /\ ends[5].op = "emitDone" /\ ends[5] = Op2("emitDone", t, t)
        /\ ends[6].op = "release"
    BY DEF Op, Op2
  <2> HIDE DEF ends, t
  <2>2. ends[5] = Second(ends[4])
    BY <2>1 DEF Second
  <2>3. /\ \A i \in {1, 2, 3, 6} : ends[i].op \notin Firsts \cup Seconds \cup Unwatches
        /\ ends[4].op \in Firsts /\ ends[4].op \notin Seconds \cup Unwatches
        /\ ends[5].op \notin Firsts \cup Unwatches
    BY <2>1 DEF Firsts, Seconds, Unwatches
  <2>4. \A i \in 1 .. 6 : i \in {1, 2, 3, 6} \/ (i = 4 /\ i + 1 = 5) \/ (i = 5 /\ i - 1 = 4)
    OBVIOUS
  <2> QED BY <2>1, <2>2, <2>3, <2>4 DEF Paired
<1> QED BY <1>3, <1>4, <1>5

LEMMA BirthStep ==
  ASSUME BirthInv, NEW th \in Threads, ThreadStep(th)
  PROVE  BirthInv'
<1> DEFINE h == Head(todo[th])
<1>0. /\ TypeOK /\ TypeOK' /\ [Next]_vars /\ todo[th] # <<>> /\ h.t = Arg(th) /\ At(th, h.op)
      /\ Birth(th, h) /\ Top(th) \in Nat /\ Has(todo[th], Top(th), h) /\ Opened(todo[th]) /\ Arg(th) \in Tasks
  <2>1. todo[th] # <<>> /\ [Next]_vars
    BY DEF ThreadStep, Next
  <2> QED BY <2>1, HeadBirth, TypeStep
<1>1. \A t \in Tasks : /\ status[t] = "done" => status'[t] = "done"
                       /\ status[t] # "created" => status'[t] # "created"
  BY <1>0, DoneStays
<1>2. \A r \in Threads : r # th /\ ~(Spawn(th) /\ r = Arg(th)) => todo'[r] = todo[r]
  BY AfterBirth
<1>3. Spawn(th) => todo[Arg(th)] = <<>> /\ Arg(th) # th /\ h.op = "spawn"
  BY BornFresh
<1>4. \A r \in Threads, d \in Nat : \A c : Has(todo'[r], d, c) => c \in Calls /\ c.t \in Tasks
  <2> SUFFICES ASSUME NEW r \in Threads, NEW d \in Nat, NEW c, Has(todo'[r], d, c)
               PROVE  c \in Calls /\ c.t \in Tasks
    OBVIOUS
  <2>1. todo'[r] \in Seq(Calls)
    BY <1>0 DEF TypeOK
  <2>2. c \in Calls
    BY <2>1 DEF Has
  <2> QED BY <2>2, Tree DEF Calls, UserCalls, Tasks
<1>5. SpawnsAlone'
  <2> SUFFICES ASSUME NEW r \in Threads, NEW q \in Threads, NEW d \in Nat, NEW e \in Nat, NEW c, NEW b,
                      Has(todo'[r], d, c), c.op = "spawn", Has(todo'[q], e, b), b.op = "spawn", b.t = c.t
               PROVE  q = r /\ e = d
    BY DEF SpawnsAlone
  <2>1. \/ Has(todo[r], d, c) /\ ~Executed(r, d, th)
        \/ r = th /\ d = Top(th) /\ Start(th) /\ c.t = Arg(th) /\ status[c.t] = "created"
    BY SpawnAfter
  <2>2. \/ Has(todo[q], e, b) /\ ~Executed(q, e, th)
        \/ q = th /\ e = Top(th) /\ Start(th) /\ b.t = Arg(th) /\ status[b.t] = "created"
    BY SpawnAfter
  <2>3. /\ Has(todo[r], d, c) => status[c.t] # "created"
        /\ Has(todo[q], e, b) => status[b.t] # "created"
    BY DEF BirthInv, Births, Birth
  <2>4. Has(todo[r], d, c) /\ Has(todo[q], e, b) => q = r /\ e = d
    BY DEF BirthInv, SpawnsAlone
  <2> QED BY <2>1, <2>2, <2>3, <2>4
<1>6. Births'
  <2> SUFFICES ASSUME NEW r \in Threads, NEW d \in Nat, NEW c, Has(todo'[r], d, c)
               PROVE  Birth(r, c)'
    BY DEF Births
  <2>0. c \in Calls /\ c.t \in Tasks /\ c.t \in Threads
    BY <1>4, Tree
  <2>1. c.op \in {"setDone", "emitDone"} => r = c.t
    <3> HAVE c.op \in {"setDone", "emitDone"}
    <3>1. ~Makes(h, c)
      <4> HIDE DEF h
      <4>1. \A w \in Watches : Op(w.kind, w.by).op \notin {"setDone", "emitDone"}
        BY DEF Watches, Op
      <4>2. h.op = "emitDone" /\ h.t \in Nodes => \A w \in ToSet(watchers[h.t]) : w \in Watches
        BY <1>0 DEF TypeOK, ToSet
      <4> QED BY <4>1, <4>2 DEF Makes, Op, Op2
    <3>2. \/ Has(todo[r], d, c)
          \/ r = c.t
      BY <3>1, AfterBirth
    <3> QED BY <3>2 DEF BirthInv, Births, Birth
  <2>2. ASSUME c.op = "spawn" PROVE status'[c.t] \notin {"created", "done"} /\ todo'[c.t] = <<>>
    <3>1. CASE Has(todo[r], d, c) /\ ~Executed(r, d, th)
      <4>1. status[c.t] \notin {"created", "done"} /\ todo[c.t] = <<>>
        BY <2>2, <3>1 DEF BirthInv, Births, Birth
      <4>2. c.t # th
        BY <1>0, <4>1
      <4>3. ~(Spawn(th) /\ c.t = Arg(th))
        <5> SUFFICES ASSUME Spawn(th), c.t = Arg(th) PROVE FALSE
          OBVIOUS
        <5>1. h.op = "spawn" /\ h.t = c.t
          BY <1>0, <1>3
        <5>2. r = th /\ d = Top(th)
          <6> HIDE DEF h
          <6> QED BY <1>0, <2>2, <3>1, <5>1 DEF BirthInv, SpawnsAlone
        <5> QED BY <3>1, <5>2 DEF Executed
      <4>4. todo'[c.t] = <<>>
        BY <1>2, <2>0, <4>1, <4>2, <4>3
      <4>5. status'[c.t] # "done"
        <5> SUFFICES ASSUME status'[c.t] = "done" PROVE FALSE
          OBVIOUS
        <5>1. SetDone(th) /\ c.t = Arg(th)
          BY <1>0, <2>0, <4>1, StatusMoves
        <5>2. h.op = "setDone"
          BY <5>1 DEF SetDone, At
        <5>3. th = c.t
          <6> HIDE DEF h
          <6> QED BY <1>0, <5>1, <5>2 DEF Birth
        <5> QED BY <4>2, <5>3
      <4> QED BY <1>1, <2>0, <4>1, <4>4, <4>5
    <3>2. CASE Start(th) /\ c.t = Arg(th) /\ status[c.t] = "created"
      <4>1. status'[c.t] = "starting"
        BY <1>0, <2>0, <3>2 DEF Start, TypeOK
      <4>2. todo[c.t] = <<>>
        BY <2>0, <3>2 DEF BirthInv
      <4>3. ~Spawn(th)
        BY <3>2 DEF Start, Spawn, At
      <4>4. todo'[c.t] = <<>>
        BY <1>0, <1>2, <2>0, <4>2, <4>3
      <4> QED BY <4>1, <4>4
    <3> QED BY <2>2, <3>1, <3>2, SpawnAfter
  <2> QED BY <2>1, <2>2 DEF Birth
<1>7. \A t \in Tasks : status'[t] = "created" => todo'[t] = <<>>
  <2> SUFFICES ASSUME NEW t \in Tasks, status'[t] = "created" PROVE todo'[t] = <<>>
    OBVIOUS
  <2>1. status[t] = "created" /\ t \in Threads
    BY <1>1, Tree
  <2>2. todo[t] = <<>>
    BY <2>1 DEF BirthInv
  <2>3. ~(Spawn(th) /\ t = Arg(th))
    BY <1>0, <1>3, <2>1 DEF Birth
  <2> QED BY <1>0, <1>2, <2>1, <2>2, <2>3
<1>8. Spawn(th) => /\ Paired(todo'[th])
                   /\ Paired(todo'[Arg(th)])
  BY SpawnPaired
<1>9. \A r \in Threads : Opened(todo'[r])
  <2>1. CASE Spawn(th)
    <3>1. \A r \in Threads : r # th /\ r # Arg(th) => todo'[r] = todo[r]
      BY <1>2
    <3> QED BY <1>8, <2>1, <3>1 DEF Opened, BirthInv
  <2>2. CASE ~Spawn(th)
    <3>1. Opened(todo'[th])
      BY <1>0, <2>2, StackStep
    <3> QED BY <1>2, <2>2, <3>1 DEF BirthInv
  <2> QED BY <2>1, <2>2
<1>10. ASSUME NEW r \in Threads, At(r, "emitDone")' PROVE status'[Arg(r)'] = "done"
  <2>1. /\ todo'[r] # <<>> /\ Head(todo'[r]).op = "emitDone" /\ Arg(r)' = Head(todo'[r]).t
        /\ todo'[r] \in Seq(Calls) /\ Head(todo'[r]).op \in Seconds
    BY <1>0, <1>10 DEF At, Arg, TypeOK, Seconds
  <2>2. ~Paired(todo'[r])
    BY <2>1, PairedTail
  <2>3. CASE todo'[r] = todo[r]
    <3>1. At(r, "emitDone") /\ Arg(r)' = Arg(r)
      BY <2>1, <2>3 DEF At, Arg
    <3>2. status[Arg(r)] = "done" /\ Arg(r) \in Tasks
      BY <1>0, <3>1, HeadOf DEF BirthInv
    <3> QED BY <1>1, <3>1, <3>2
  <2>4. CASE r = th /\ ~Spawn(th)
    <3>1. NextHead(h, todo'[th])
      BY <1>0, <2>4, StackStep
    <3>2. Head(todo'[th]).op = "emitDone" /\ h.op \in Firsts /\ Head(todo'[th]) = Second(h)
      <4> HIDE DEF h
      <4>1. Head(todo'[th]).op = "emitDone" /\ todo'[th] # <<>> /\ Head(todo'[th]).op \in Seconds
        BY <2>1, <2>4
      <4> QED BY <3>1, <4>1 DEF NextHead, Op2
    <3>3. h.op = "setDone" /\ Head(todo'[th]).t = h.t
      <4> HIDE DEF h
      <4> QED BY <3>2 DEF Firsts, Second, Op2
    <3>4. SetDone(th)
      BY <1>0, <3>3, OnlyIts
    <3>5. status'[Arg(th)] = "done"
      BY <1>0, <3>4 DEF SetDone, TypeOK
    <3> QED BY <1>0, <2>1, <2>4, <3>3, <3>5
  <2>5. CASE Spawn(th) /\ (r = th \/ r = Arg(th))
    BY <1>8, <2>2, <2>5
  <2> QED BY <1>2, <2>3, <2>4, <2>5
<1> QED BY <1>0, <1>5, <1>6, <1>7, <1>9, <1>10 DEF BirthInv

LEMMA BirthNext == BirthInv /\ [Next]_vars => BirthInv'
<1> SUFFICES ASSUME BirthInv, [Next]_vars PROVE BirthInv'
  OBVIOUS
<1>1. ASSUME UNCHANGED <<todo, status>> PROVE BirthInv'
  <2>1. TypeOK'
    BY TypeStep DEF BirthInv
  <2>2. Births' /\ SpawnsAlone'
    BY <1>1 DEF BirthInv, Births, Birth, SpawnsAlone
  <2>3. \A th \in Threads : At(th, "emitDone")' => status'[Arg(th)'] = "done"
    BY <1>1 DEF BirthInv, At, Arg
  <2>4. \A t \in Tasks : status'[t] = "created" => todo'[t] = <<>>
    BY <1>1 DEF BirthInv
  <2>5. \A th \in Threads : Opened(todo'[th])
    BY <1>1 DEF BirthInv
  <2> QED BY <2>1, <2>2, <2>3, <2>4, <2>5 DEF BirthInv
<1>2. ASSUME NEW n \in Nodes, NoderCancel(n) \/ NoderExit(n) PROVE UNCHANGED <<todo, status>>
  BY <1>2 DEF NoderCancel, NoderExit
<1>3. UNCHANGED vars => UNCHANGED <<todo, status>>
  BY DEF vars
<1> QED BY <1>1, <1>2, <1>3, BirthStep DEF Next

-----------------------------------------------------------------------------
(* Who may connect or disconnect two nodes *)

Cutting(c, n, m) ==
  \/ c = Op2("removeChild", n, m) \/ c = Op2("removeParent", m, n)
  \/ c.op = "disconnectNodes" /\ c.t \in {GroupOf[n], GroupOf[m]}
Touching(c, n, m) ==
  Cutting(c, n, m) \/ c = Op2("addChild", n, m) \/ c = Op2("addParent", m, n)

Cuts(u, n, m) == \E p \in Programs[u] : \E i \in DOMAIN p : Cutting(p[i], n, m)
Touches(u, n, m) == \E p \in Programs[u] : \E i \in DOMAIN p : Touching(p[i], n, m)

(* The users connect and disconnect both ends at once, as Connect and Disconnect *)
(* do, and the one who takes a connection down is the only one to touch it.     *)
WholeLinks ==
  /\ \A u \in Users : \A p \in Programs[u] : Paired(p)
  /\ \A u, v \in Users, n, m \in Nodes : Cuts(u, n, m) /\ Touches(v, n, m) => u = v

Linkings == {"addChild", "addParent", "removeChild", "removeParent"} \cup Unwatches
Unlinkings == {"disconnectParents", "disconnectChildren"}

(* What a user's goroutine does to connections is what its program may do.      *)
Grants(u, c) ==
  /\ c.op = "addChild" => Touches(u, c.t, c.u)
  /\ c.op = "addParent" => Touches(u, c.u, c.t)
  /\ c.op \in {"removeChild", "unwatchChild"} => Cuts(u, c.t, c.u)
  /\ c.op \in {"removeParent", "unwatchParent"} => Cuts(u, c.u, c.t)
  /\ c.op = "disconnectNodes" =>
       \A n, m \in Nodes : c.t \in {GroupOf[n], GroupOf[m]} => Cuts(u, n, m)
  /\ c.op \in Unlinkings => \A n, m \in Nodes : c.t \in {n, m} => Cuts(u, n, m)

(* A task's takes down those of a done node.                                   *)
Settled(c) ==
  /\ c.op # "disconnectNodes"
  /\ c.op \in Linkings => status[c.t] = "done" \/ status[c.u] = "done"
  /\ c.op \in Unlinkings => status[c.t] = "done"

Allowed(th, c) == IF th \in Users THEN Grants(th, c) ELSE Settled(c)
AllowedInv == \A th \in Threads, d \in Nat : \A c : Has(todo[th], d, c) => Allowed(th, c)

LEMMA CutsTouch ==
  ASSUME NEW u, NEW n, NEW m, Cuts(u, n, m)
  PROVE  Touches(u, n, m)
BY DEF Cuts, Touches, Touching

(* What operations on connections are made by.                                 *)
LEMMA MadeLinks ==
  ASSUME TypeOK, NEW h \in Calls, NEW c \in Calls, Makes(h, c)
  PROVE  /\ c.op \notin {"addChild", "addParent", "disconnectNodes"}
         /\ c.op \in {"removeChild", "removeParent"} => h.op \in Unlinkings /\ h.t \in {c.t, c.u}
         /\ c.op = "unwatchChild" => h.op = "removeChild" /\ c.t = h.t /\ c.u = h.u
         /\ c.op = "unwatchParent" => h.op = "removeParent" /\ c.t = h.t /\ c.u = h.u
         /\ c.op \in Unlinkings => \/ h.op = "disconnectNodes" /\ c.t \in Subs(h.t)
                                   \/ h.op = "emitDone" /\ c.t = h.t
<1>1. h.op = "emitDone" /\ h.t \in Nodes => \A w \in ToSet(watchers[h.t]) : w \in Watches
  BY DEF TypeOK, ToSet
<1>2. \A w \in Watches : Op(w.kind, w.by).op \in {"children", "parents"}
  BY DEF Watches, Op
<1>3. CASE h.op = "emitDone"
  <2>1. \/ c.op \in {"remove", "children", "parents"}
        \/ c.op \in Unlinkings /\ c.t = h.t
    BY <1>1, <1>2, <1>3 DEF Makes, Unlinkings, Op
  <2> QED BY <1>3, <2>1 DEF Unlinkings
<1>4. CASE h.op \in Unlinkings
  BY <1>4 DEF Makes, Op2, Unlinkings
<1>5. CASE h.op \notin Unlinkings \cup {"emitDone"}
  BY <1>5 DEF Makes, Op, Op2, Unlinkings
<1> QED BY <1>3, <1>4, <1>5

LEMMA AllowedNew ==
  ASSUME BirthInv, NEW th \in Threads, todo[th] # <<>>, Allowed(th, Head(todo[th])),
         NEW c \in Calls, Makes(Head(todo[th]), c)
  PROVE  Allowed(th, c)
<1> DEFINE h == Head(todo[th])
<1>1. /\ TypeOK /\ h \in Calls /\ Birth(th, h) /\ h.t = Arg(th)
      /\ h.op = "emitDone" => status[h.t] = "done"
  BY HeadBirth DEF BirthInv
<1>2. Allowed(th, h) /\ Makes(h, c)
  OBVIOUS
<1> HIDE DEF h
<1>3. /\ c.op \notin {"addChild", "addParent", "disconnectNodes"}
      /\ c.op \in {"removeChild", "removeParent"} => h.op \in Unlinkings /\ h.t \in {c.t, c.u}
      /\ c.op = "unwatchChild" => h.op = "removeChild" /\ c.t = h.t /\ c.u = h.u
      /\ c.op = "unwatchParent" => h.op = "removeParent" /\ c.t = h.t /\ c.u = h.u
      /\ c.op \in Unlinkings => \/ h.op = "disconnectNodes" /\ c.t \in Subs(h.t)
                                \/ h.op = "emitDone" /\ c.t = h.t
  BY <1>1, <1>2, MadeLinks
<1>4. /\ c.op \in Linkings => c.t \in Nodes /\ c.u \in Nodes
      /\ c.op \in Unlinkings => c.t \in Nodes
  BY DEF Calls, UserCalls, Linkings, Unlinkings, Unwatches
<1>5. CASE th \in Users
  <2>1. h.op # "emitDone"
    <3>1. th \notin Tasks /\ h.t \in Tasks
      BY <1>1, <1>5, Tree DEF Calls, UserCalls, Tasks
    <3> QED BY <1>1, <3>1 DEF Birth
  <2>2. Grants(th, h)
    BY <1>2, <1>5 DEF Allowed
  <2>3. ASSUME c.op = "removeChild" PROVE Cuts(th, c.t, c.u)
    BY <1>3, <1>4, <2>2, <2>3 DEF Grants, Linkings
  <2>4. ASSUME c.op = "removeParent" PROVE Cuts(th, c.u, c.t)
    BY <1>3, <1>4, <2>2, <2>4 DEF Grants, Linkings
  <2>5. ASSUME c.op \in Unlinkings, NEW n \in Nodes, NEW m \in Nodes, c.t \in {n, m} PROVE Cuts(th, n, m)
    <3>1. h.op = "disconnectNodes" /\ c.t \in Subs(h.t)
      BY <1>3, <2>1, <2>5
    <3>2. h.t = GroupOf[c.t]
      BY <1>4, <2>5, <3>1 DEF Subs, Parent
    <3> QED BY <2>2, <2>5, <3>1, <3>2 DEF Grants
  <2>6. /\ c.op = "unwatchChild" => Cuts(th, c.t, c.u)
        /\ c.op = "unwatchParent" => Cuts(th, c.u, c.t)
    BY <1>3, <2>2 DEF Grants
  <2> QED BY <1>3, <1>5, <2>3, <2>4, <2>5, <2>6 DEF Allowed, Grants
<1>6. CASE th \notin Users
  <2>1. Settled(h)
    BY <1>2, <1>6 DEF Allowed
  <2>2. h.op \in {"removeChild", "removeParent"} => h.op \in Linkings
    BY DEF Linkings
  <2>3. Settled(c)
    BY <1>1, <1>3, <2>1, <2>2 DEF Settled, Linkings, Unwatches
  <2> QED BY <1>6, <2>3 DEF Allowed
<1> QED BY <1>5, <1>6

LEMMA AllowedStep ==
  ASSUME BirthInv, AllowedInv, NEW th \in Threads, ThreadStep(th)
  PROVE  AllowedInv'
<1>1. todo[th] # <<>> /\ TypeOK' /\ TypeOK /\ [Next]_vars
  <2>1. TypeOK /\ todo[th] # <<>> /\ [Next]_vars
    BY DEF BirthInv, ThreadStep, Next
  <2> QED BY <2>1, TypeStep
<1> SUFFICES ASSUME NEW r \in Threads, NEW d \in Nat, NEW c, Has(todo'[r], d, c)
             PROVE  Allowed(r, c)'
  BY DEF AllowedInv
<1>2. c \in Calls /\ c.t \in Tasks /\ c.u \in Tasks
  <2>1. todo'[r] \in Seq(Calls)
    BY <1>1 DEF TypeOK
  <2>2. c \in Calls
    BY <2>1 DEF Has
  <2> QED BY <2>2, Tree DEF Calls, UserCalls, Tasks
<1>3. Allowed(r, c)
  <2>1. Allowed(th, Head(todo[th]))
    BY <1>1, HeadBirth DEF AllowedInv
  <2>2. \/ Has(todo[r], d, c)
        \/ r = th /\ c \in Calls /\ Makes(Head(todo[th]), c)
        \/ r = c.t /\ c.op \in Born
    BY AfterBirth
  <2>3. CASE Has(todo[r], d, c)
    BY <2>3 DEF AllowedInv
  <2>4. CASE r = th /\ c \in Calls /\ Makes(Head(todo[th]), c)
    BY <1>1, <2>1, <2>4, AllowedNew
  <2>5. CASE c.op \in Born
    <3>1. c.op \notin Linkings \cup Unlinkings \cup {"disconnectNodes"}
      BY <2>5 DEF Born, Linkings, Unlinkings, Unwatches
    <3> QED BY <3>1 DEF Allowed, Grants, Settled, Linkings, Unlinkings, Unwatches
  <2> QED BY <2>2, <2>3, <2>4, <2>5
<1>4. Settled(c) => Settled(c)'
  BY <1>1, <1>2, DoneStays DEF Settled
<1> QED BY <1>3, <1>4 DEF Allowed

-----------------------------------------------------------------------------
(* At first *)

LEMMA UsersFirst ==
  ASSUME Init, NEW th \in Threads
  PROVE  /\ th \notin Users => todo[th] = <<>>
         /\ th \in Users => todo[th] \in Programs[th]
BY DEF Init

LEMMA BirthInit == WholeLinks /\ Init => BirthInv
<1> SUFFICES ASSUME WholeLinks, Init PROVE BirthInv
  OBVIOUS
<1>1. TypeOK
  BY TypeInit
<1>2. \A th \in Threads : Paired(todo[th])
  BY UsersFirst, PairedNothing DEF WholeLinks
<1>3. ASSUME NEW th \in Threads, NEW d \in Nat, NEW c, Has(todo[th], d, c)
      PROVE  c.op \notin {"spawn", "setDone", "emitDone"}
  <2>1. c \in UserCalls
    BY <1>3, AtFirst
  <2> QED BY <2>1 DEF UserCalls
<1>4. Births /\ SpawnsAlone
  BY <1>3 DEF Births, SpawnsAlone, Birth
<1>5. \A th \in Threads : ~At(th, "emitDone")
  <2> SUFFICES ASSUME NEW th \in Threads, At(th, "emitDone") PROVE FALSE
    OBVIOUS
  <2>1. todo[th] # <<>> /\ Head(todo[th]).op = "emitDone"
    BY DEF At
  <2>2. Top(th) \in Nat /\ Has(todo[th], Top(th), Head(todo[th]))
    BY <1>1, <2>1, TopItem
  <2> QED BY <1>3, <2>1, <2>2
<1>6. \A t \in Tasks : todo[t] = <<>>
  BY UsersFirst, Tree
<1> QED BY <1>1, <1>2, <1>4, <1>5, <1>6 DEF BirthInv, Opened

LEMMA AllowedInit == Init => AllowedInv
<1> SUFFICES ASSUME Init, NEW th \in Threads, NEW d \in Nat, NEW c, Has(todo[th], d, c)
             PROVE  Allowed(th, c)
  BY DEF AllowedInv
<1>1. PICK p \in Programs[th] :
        th \in Users /\ c \in UserCalls /\ Len(p) - d \in DOMAIN p /\ p[Len(p) - d] = c
  BY AtFirst
<1>2. \A n, m : /\ Cutting(c, n, m) => Cuts(th, n, m)
                /\ Touching(c, n, m) => Touches(th, n, m)
  BY <1>1 DEF Cuts, Touches
<1>3. c = Op2(c.op, c.t, c.u)
  BY <1>1 DEF UserCalls, Op2
<1>4. /\ c.op = "addChild" => Touching(c, c.t, c.u)
      /\ c.op = "addParent" => Touching(c, c.u, c.t)
      /\ c.op = "removeChild" => Cutting(c, c.t, c.u)
      /\ c.op = "removeParent" => Cutting(c, c.u, c.t)
      /\ c.op = "disconnectNodes" =>
           \A n, m \in Nodes : c.t \in {GroupOf[n], GroupOf[m]} => Cutting(c, n, m)
  BY <1>3 DEF Touching, Cutting
<1>5. c.op \notin Unwatches \cup Unlinkings
  BY <1>1 DEF UserCalls, Unwatches, Unlinkings
<1>6. Grants(th, c)
  BY <1>2, <1>4, <1>5 DEF Grants, Unwatches
<1> QED BY <1>1, <1>6 DEF Allowed

-----------------------------------------------------------------------------
(* Goroutines between the two ends of an edge *)

Heads(c) == \E th \in Threads : todo[th] # <<>> /\ Head(todo[th]) = c

(* A goroutine that is at one end of the edge and has yet to do the other.      *)
Adding(n, m) == Heads(Op2("addParent", m, n))
Unwatching(n, m) == Heads(Op2("unwatchChild", n, m))
Removing(n, m) == Heads(Op2("removeParent", m, n))
Ending(n, m) == Heads(Op2("unwatchParent", m, n))

(* What the two ends of an edge say of each other meanwhile.                    *)
Agreeing(n, m) ==
  LET C == m \in children[n]
      P == n \in parents[m]
  IN /\ C /\ ~P => Adding(n, m)
     /\ P /\ ~C => Unwatching(n, m) \/ Removing(n, m)
     /\ Adding(n, m) => C
     /\ Unwatching(n, m) \/ Removing(n, m) => ~C
     /\ Ending(n, m) => ~C /\ ~P
     /\ IF n \in WhenAllChildrenAreDone /\ (C \/ Unwatching(n, m))
          THEN Single(watchers[m], Watch(n, "children")) ELSE Absent(watchers[m], Watch(n, "children"))
     /\ IF m \in WhenAllParentsAreDone /\ (P \/ Ending(n, m))
          THEN Single(watchers[n], Watch(m, "parents")) ELSE Absent(watchers[n], Watch(m, "parents"))

LinksInv ==
  /\ BirthInv /\ AllowedInv
  /\ \A n, m \in Nodes : status[n] # "done" /\ status[m] # "done" => Agreeing(n, m)

CutsEdge(n, m) ==
  {Op2("removeChild", n, m), Op2("unwatchChild", n, m), Op2("removeParent", m, n), Op2("unwatchParent", m, n)}
OnEdge(n, m) == CutsEdge(n, m) \cup {Op2("addChild", n, m), Op2("addParent", m, n)}

Live(n) == status[n] # "done"

(* Whoever takes down an edge between two live nodes is alone at it.            *)
LEMMA Owner ==
  ASSUME WholeLinks, BirthInv, AllowedInv, NEW n \in Nodes, NEW m \in Nodes, Live(n), Live(m),
         NEW th \in Threads, todo[th] # <<>>, Head(todo[th]) \in CutsEdge(n, m),
         NEW r \in Threads, todo[r] # <<>>, Head(todo[r]) \in OnEdge(n, m)
  PROVE  r = th
<1>1. ASSUME NEW q \in Threads, todo[q] # <<>>, Head(todo[q]) \in OnEdge(n, m)
      PROVE  /\ q \in Users /\ Touches(q, n, m)
             /\ Head(todo[q]) \in CutsEdge(n, m) => Cuts(q, n, m)
  <2> DEFINE c == Head(todo[q])
  <2>1. Allowed(q, c)
    BY <1>1, HeadBirth DEF AllowedInv
  <2>2. c \in OnEdge(n, m)
    BY <1>1
  <2> HIDE DEF c
  <2>3. c.op \in Linkings /\ {c.t, c.u} = {n, m}
    BY <2>2 DEF OnEdge, CutsEdge, Op2, Linkings, Unwatches
  <2>4. q \in Users /\ Grants(q, c)
    BY <2>1, <2>3 DEF Allowed, Settled, Live
  <2>5. c \in CutsEdge(n, m) => Cuts(q, n, m)
    BY <2>4 DEF CutsEdge, Op2, Grants
  <2>6. Touches(q, n, m)
    BY <2>2, <2>4, <2>5, CutsTouch DEF OnEdge, Op2, Grants
  <2> QED BY <2>4, <2>5, <2>6 DEF c
<1>2. CutsEdge(n, m) \subseteq OnEdge(n, m)
  BY DEF OnEdge
<1>3. /\ th \in Users /\ Cuts(th, n, m) /\ r \in Users /\ Touches(r, n, m)
  BY <1>1, <1>2
<1> QED BY <1>3 DEF WholeLinks

(* Who else than a goroutine is at an operation.                               *)
HeadsBut(th, c) == \E r \in Threads \ {th} : todo[r] # <<>> /\ Head(todo[r]) = c
Comes(th, c) == todo'[th] # <<>> /\ Head(todo'[th]) = c

LEMMA HeadsStep ==
  ASSUME BirthInv, NEW th \in Threads, ThreadStep(th), NEW c, c.op \in Seconds \cup Unwatches
  PROVE  /\ Heads(c) <=> HeadsBut(th, c) \/ Head(todo[th]) = c
         /\ Heads(c)' <=> HeadsBut(th, c) \/ Comes(th, c)
         /\ Comes(th, c) => ~Paired(todo'[th]) /\ ~Spawn(th) /\ NextHead(Head(todo[th]), todo'[th])
<1>1. todo[th] # <<>> /\ TypeOK /\ TypeOK' /\ Opened(todo[th])
  <2>1. TypeOK /\ todo[th] # <<>> /\ [Next]_vars /\ Opened(todo[th])
    BY DEF BirthInv, ThreadStep, Next
  <2> QED BY <2>1, TypeStep
<1>2. Heads(c) <=> HeadsBut(th, c) \/ Head(todo[th]) = c
  BY <1>1 DEF Heads, HeadsBut
<1>3. ASSUME NEW r \in Threads, todo'[r] # <<>>, Head(todo'[r]) = c PROVE ~Paired(todo'[r])
  <2>1. todo'[r] \in Seq(Calls)
    BY <1>1 DEF TypeOK
  <2> QED BY <1>3, <2>1, PairedTail
<1>4. CASE Spawn(th)
  <2>1. /\ Paired(todo'[th]) /\ Paired(todo'[Arg(th)]) /\ todo[Arg(th)] = <<>>
        /\ Arg(th) \in Threads
    BY <1>1, <1>4, SpawnPaired, BornFresh, HeadTail, Tree
  <2>2. \A r \in Threads : r # th /\ r # Arg(th) => todo'[r] = todo[r]
    BY AfterBirth
  <2>3. ~Comes(th, c)
    BY <1>3, <2>1 DEF Comes
  <2>4. Heads(c)' <=> HeadsBut(th, c)
    BY <1>3, <2>1, <2>2 DEF Heads, HeadsBut
  <2> QED BY <1>2, <2>3, <2>4
<1>5. CASE ~Spawn(th)
  <2>1. \A r \in Threads : r # th => todo'[r] = todo[r]
    BY <1>5, AfterBirth
  <2>2. Heads(c)' <=> HeadsBut(th, c) \/ Comes(th, c)
    BY <2>1 DEF Heads, HeadsBut, Comes
  <2>3. NextHead(Head(todo[th]), todo'[th])
    BY <1>1, <1>5, StackStep
  <2>4. Comes(th, c) => ~Paired(todo'[th])
    BY <1>3 DEF Comes
  <2> QED BY <1>2, <1>5, <2>2, <2>3, <2>4
<1> QED BY <1>4, <1>5

LEMMA EdgeParts ==
  ASSUME NEW n, NEW m
  PROVE  \A c \in {Op2("addParent", m, n), Op2("unwatchChild", n, m), Op2("removeParent", m, n),
                   Op2("unwatchParent", m, n)} : c.op \in Seconds \cup Unwatches
BY DEF Op2, Seconds, Unwatches

(* A step at another place leaves an edge alone.                               *)
LEMMA ElsewhereLinks ==
  ASSUME TypeOK, NEW th \in Threads, ThreadStep(th), NEW n \in Nodes, NEW m \in Nodes,
         Head(todo[th]) \notin OnEdge(n, m)
  PROVE  LET w == Watch(n, "children")
             v == Watch(m, "parents")
         IN /\ m \in children'[n] <=> m \in children[n]
            /\ n \in parents'[m] <=> n \in parents[m]
            /\ Single(watchers[m], w) => Single(watchers'[m], w)
            /\ Absent(watchers[m], w) => Absent(watchers'[m], w)
            /\ Single(watchers[n], v) => Single(watchers'[n], v)
            /\ Absent(watchers[n], v) => Absent(watchers'[n], v)
<1> DEFINE h == Head(todo[th])
           x == Arg(th)
           y == Arg2(th)
           w == Watch(n, "children")
           v == Watch(m, "parents")
<1>1. /\ h \in Calls /\ h.t = x /\ h.u = y /\ x \in Tasks /\ y \in Tasks /\ todo[th] # <<>>
      /\ \A name : At(th, name) => h.op = name
      /\ children \in [Nodes -> SUBSET Nodes] /\ parents \in [Nodes -> SUBSET Nodes]
      /\ watchers \in [Nodes -> Seq(Watches)]
  BY HeadTail DEF ThreadStep, Arg, Arg2, At, TypeOK
<1>2. h = Op2(h.op, x, y) \/ h.op \notin Linkings
  BY <1>1 DEF Calls, UserCalls, Op2
<1>3. /\ h.op \in {"addChild", "removeChild", "unwatchChild"} => ~(x = n /\ y = m)
      /\ h.op \in {"addParent", "removeParent", "unwatchParent"} => ~(x = m /\ y = n)
  <2> HIDE DEF h, x, y
  <2> QED BY <1>2 DEF OnEdge, CutsEdge, Linkings, Unwatches, h
<1>4. /\ w \in Watches /\ v \in Watches
      /\ \A a : /\ Watch(a, "children") # v /\ Watch(a, "parents") # w
                /\ Watch(a, "children") = w => a = n
                /\ Watch(a, "parents") = v => a = m
  BY DEF Watch, Watches
<1>5. ASSUME NEW e, NEW z \in Nodes,
             \/ watchers' = watchers
             \/ \E a : watchers' = [watchers EXCEPT ![y] = Append(@, a)] /\ (z = y => a # e)
             \/ \E S : watchers' = [watchers EXCEPT ![y] = Selected(@, S)] /\ (z = y => e \in S)
      PROVE  /\ Single(watchers[z], e) => Single(watchers'[z], e)
             /\ Absent(watchers[z], e) => Absent(watchers'[z], e)
  <2>1. watchers[z] \in Seq(Watches)
    BY <1>1
  <2>2. CASE watchers' = watchers
    BY <2>2
  <2>3. CASE \E a : watchers' = [watchers EXCEPT ![y] = Append(@, a)] /\ (z = y => a # e)
    <3>1. PICK a : watchers' = [watchers EXCEPT ![y] = Append(@, a)] /\ (z = y => a # e)
      BY <2>3
    <3>2. watchers'[z] = watchers[z] \/ (watchers'[z] = Append(watchers[z], a) /\ a # e)
      BY <1>1, <3>1
    <3>3. a # e => /\ Single(watchers[z], e) => Single(Append(watchers[z], a), e)
                   /\ Absent(watchers[z], e) => Absent(Append(watchers[z], a), e)
      BY <2>1, AppendOccurs
    <3> QED BY <3>2, <3>3
  <2>4. CASE \E S : watchers' = [watchers EXCEPT ![y] = Selected(@, S)] /\ (z = y => e \in S)
    <3>1. PICK S : watchers' = [watchers EXCEPT ![y] = Selected(@, S)] /\ (z = y => e \in S)
      BY <2>4
    <3>2. watchers'[z] = watchers[z] \/ (watchers'[z] = Selected(watchers[z], S) /\ e \in S)
      BY <1>1, <3>1
    <3> QED BY <2>1, <3>2, SelectedOccurs
  <2> QED BY <1>5, <2>2, <2>3, <2>4
<1> HIDE DEF h, w, v
<1>6. CASE UNCHANGED links
  BY <1>6 DEF links, w, v
<1>7. CASE AddChild(th)
  <2> DEFINE a == Watch(x, "children")
  <2>1. /\ h.op = "addChild" /\ parents' = parents
        /\ children' = children \/ children' = [children EXCEPT ![x] = @ \cup {y}]
        /\ watchers' = watchers \/ watchers' = [watchers EXCEPT ![y] = Append(@, a)]
    BY <1>1, <1>7 DEF AddChild
  <2> HIDE DEF x, y
  <2>2. m \in children'[n] <=> m \in children[n]
    <3>1. CASE children' = children
      BY <3>1
    <3>2. CASE children' = [children EXCEPT ![x] = @ \cup {y}]
      <4>1. children'[n] = IF n = x THEN children[n] \cup {y} ELSE children[n]
        BY <1>1, <3>2
      <4> QED BY <1>3, <2>1, <4>1
    <3> QED BY <2>1, <3>1, <3>2
  <2>3. (m = y => a # w) /\ (n = y => a # v)
    BY <1>3, <1>4, <2>1
  <2> HIDE DEF a
  <2>4. /\ Single(watchers[m], w) => Single(watchers'[m], w)
        /\ Absent(watchers[m], w) => Absent(watchers'[m], w)
    <3>1. \/ watchers' = watchers
          \/ \E b : watchers' = [watchers EXCEPT ![y] = Append(@, b)] /\ (m = y => b # w)
      BY <2>1, <2>3
    <3> QED BY <1>5, <3>1
  <2>5. /\ Single(watchers[n], v) => Single(watchers'[n], v)
        /\ Absent(watchers[n], v) => Absent(watchers'[n], v)
    <3>1. \/ watchers' = watchers
          \/ \E b : watchers' = [watchers EXCEPT ![y] = Append(@, b)] /\ (n = y => b # v)
      BY <2>1, <2>3
    <3> QED BY <1>5, <3>1
  <2> QED BY <2>1, <2>2, <2>4, <2>5 DEF w, v
<1>8. CASE AddParent(th)
  <2> DEFINE a == Watch(x, "parents")
  <2>1. /\ h.op = "addParent" /\ children' = children
        /\ parents' = parents \/ parents' = [parents EXCEPT ![x] = @ \cup {y}]
        /\ watchers' = watchers \/ watchers' = [watchers EXCEPT ![y] = Append(@, a)]
    BY <1>1, <1>8 DEF AddParent
  <2> HIDE DEF x, y
  <2>2. n \in parents'[m] <=> n \in parents[m]
    <3>1. CASE parents' = parents
      BY <3>1
    <3>2. CASE parents' = [parents EXCEPT ![x] = @ \cup {y}]
      <4>1. parents'[m] = IF m = x THEN parents[m] \cup {y} ELSE parents[m]
        BY <1>1, <3>2
      <4> QED BY <1>3, <2>1, <4>1
    <3> QED BY <2>1, <3>1, <3>2
  <2>3. (m = y => a # w) /\ (n = y => a # v)
    BY <1>3, <1>4, <2>1
  <2> HIDE DEF a
  <2>4. /\ Single(watchers[m], w) => Single(watchers'[m], w)
        /\ Absent(watchers[m], w) => Absent(watchers'[m], w)
    <3>1. \/ watchers' = watchers
          \/ \E b : watchers' = [watchers EXCEPT ![y] = Append(@, b)] /\ (m = y => b # w)
      BY <2>1, <2>3
    <3> QED BY <1>5, <3>1
  <2>5. /\ Single(watchers[n], v) => Single(watchers'[n], v)
        /\ Absent(watchers[n], v) => Absent(watchers'[n], v)
    <3>1. \/ watchers' = watchers
          \/ \E b : watchers' = [watchers EXCEPT ![y] = Append(@, b)] /\ (n = y => b # v)
      BY <2>1, <2>3
    <3> QED BY <1>5, <3>1
  <2> QED BY <2>1, <2>2, <2>4, <2>5 DEF w, v
<1>9. CASE RemoveChild(th)
  <2>1. /\ h.op = "removeChild" /\ parents' = parents /\ watchers' = watchers
        /\ children' = [children EXCEPT ![x] = @ \ {y}]
    BY <1>1, <1>9 DEF RemoveChild
  <2>2. m \in children'[n] <=> m \in children[n]
    BY <1>1, <1>3, <2>1
  <2> QED BY <2>1, <2>2 DEF w, v
<1>10. CASE RemoveParent(th)
  <2>1. /\ h.op = "removeParent" /\ children' = children /\ watchers' = watchers
        /\ parents' = [parents EXCEPT ![x] = @ \ {y}]
    BY <1>1, <1>10 DEF RemoveParent
  <2>2. n \in parents'[m] <=> n \in parents[m]
    BY <1>1, <1>3, <2>1
  <2> QED BY <2>1, <2>2 DEF w, v
<1>11. CASE UnwatchChild(th)
  <2> DEFINE S == Watches \ {Watch(x, "children")}
  <2>1. /\ h.op = "unwatchChild" /\ children' = children /\ parents' = parents
        /\ watchers' = [watchers EXCEPT ![y] = Selected(@, S)]
    BY <1>1, <1>11 DEF UnwatchChild, Unwatch
  <2>2. (m = y => w \in S) /\ (n = y => v \in S)
    BY <1>3, <1>4, <2>1
  <2> HIDE DEF x, y, S
  <2>3. /\ Single(watchers[m], w) => Single(watchers'[m], w)
        /\ Absent(watchers[m], w) => Absent(watchers'[m], w)
    BY <1>5, <2>1, <2>2
  <2>4. /\ Single(watchers[n], v) => Single(watchers'[n], v)
        /\ Absent(watchers[n], v) => Absent(watchers'[n], v)
    BY <1>5, <2>1, <2>2
  <2> QED BY <2>1, <2>3, <2>4 DEF w, v
<1>12. CASE UnwatchParent(th)
  <2> DEFINE S == Watches \ {Watch(x, "parents")}
  <2>1. /\ h.op = "unwatchParent" /\ children' = children /\ parents' = parents
        /\ watchers' = [watchers EXCEPT ![y] = Selected(@, S)]
    BY <1>1, <1>12 DEF UnwatchParent, Unwatch
  <2>2. (m = y => w \in S) /\ (n = y => v \in S)
    BY <1>3, <1>4, <2>1
  <2> HIDE DEF x, y, S
  <2>3. /\ Single(watchers[m], w) => Single(watchers'[m], w)
        /\ Absent(watchers[m], w) => Absent(watchers'[m], w)
    BY <1>5, <2>1, <2>2
  <2>4. /\ Single(watchers[n], v) => Single(watchers'[n], v)
        /\ Absent(watchers[n], v) => Absent(watchers'[n], v)
    BY <1>5, <2>1, <2>2
  <2> QED BY <2>1, <2>3, <2>4 DEF w, v
<1> QED BY <1>6, <1>7, <1>8, <1>9, <1>10, <1>11, <1>12, Untouched

LEMMA ElsewhereAgrees ==
  ASSUME BirthInv, NEW th \in Threads, ThreadStep(th), NEW n \in Nodes, NEW m \in Nodes,
         Head(todo[th]) \notin OnEdge(n, m), Agreeing(n, m)
  PROVE  Agreeing(n, m)'
<1> DEFINE h == Head(todo[th])
           s == todo'[th]
<1>1. h \in Calls /\ TypeOK
  BY HeadBirth DEF ThreadStep
<1>2. h.op \in Firsts \cup {"removeChild", "removeParent", "unwatchChild"} => h = Op2(h.op, h.t, h.u)
  BY <1>1 DEF Calls, UserCalls, Op2
<1>3. ASSUME NEW c \in {Op2("addParent", m, n), Op2("unwatchChild", n, m), Op2("removeParent", m, n),
                        Op2("unwatchParent", m, n)}
      PROVE  Heads(c)' <=> Heads(c)
  <2>1. c.op \in Seconds \cup Unwatches /\ c \in OnEdge(n, m)
    BY EdgeParts DEF OnEdge, CutsEdge
  <2>2. ~Comes(th, c)
    <3> SUFFICES ASSUME Comes(th, c) PROVE FALSE
      OBVIOUS
    <3>1. NextHead(h, s) /\ s # <<>> /\ Head(s) = c
      BY <2>1, HeadsStep DEF Comes
    <3> HIDE DEF h, s
    <3>2. \/ h.op \in Firsts /\ c = Second(h)
          \/ h.op = "removeChild" /\ c = Op2("unwatchChild", h.t, h.u)
          \/ h.op = "unwatchChild" /\ c = Op2("removeParent", h.u, h.t)
          \/ h.op = "removeParent" /\ c = Op2("unwatchParent", h.t, h.u)
      BY <2>1, <3>1 DEF NextHead
    <3>3. h \notin OnEdge(n, m)
      BY DEF h
    <3>4. /\ h.op \in {"addChild", "removeChild", "unwatchChild"} => ~(h.t = n /\ h.u = m)
          /\ h.op = "removeParent" => ~(h.t = m /\ h.u = n)
      BY <1>2, <3>3 DEF OnEdge, CutsEdge, Firsts
    <3>5. CASE h.op \in Firsts /\ c = Second(h)
      <4>1. h.op \in {"addChild", "removeChild"} /\ c.t = h.u /\ c.u = h.t
            /\ c.op = IF h.op = "addChild" THEN "addParent" ELSE "removeParent"
        BY <1>3, <3>5 DEF Firsts, Second, Op2
      <4> QED BY <1>3, <3>4, <4>1 DEF Op2
    <3> QED BY <1>3, <3>2, <3>4, <3>5 DEF Op2
  <2>3. h # c
    BY <2>1
  <2> QED BY <2>1, <2>2, <2>3, HeadsStep
<1>4. /\ Adding(n, m)' <=> Adding(n, m)
      /\ Unwatching(n, m)' <=> Unwatching(n, m)
      /\ Removing(n, m)' <=> Removing(n, m)
      /\ Ending(n, m)' <=> Ending(n, m)
  <2> HIDE DEF h, s
  <2> QED BY <1>3 DEF Adding, Unwatching, Removing, Ending
<1> HIDE DEF h, s
<1>5. LET w == Watch(n, "children")
          v == Watch(m, "parents")
      IN /\ m \in children'[n] <=> m \in children[n]
         /\ n \in parents'[m] <=> n \in parents[m]
         /\ Single(watchers[m], w) => Single(watchers'[m], w)
         /\ Absent(watchers[m], w) => Absent(watchers'[m], w)
         /\ Single(watchers[n], v) => Single(watchers'[n], v)
         /\ Absent(watchers[n], v) => Absent(watchers'[n], v)
  BY <1>1, ElsewhereLinks
<1> QED BY <1>4, <1>5 DEF Agreeing

Halves(n, m) ==
  {Op2("addParent", m, n), Op2("unwatchChild", n, m), Op2("removeParent", m, n), Op2("unwatchParent", m, n)}

(* Which half of an edge comes next.                                           *)
LEMMA EdgeComes ==
  ASSUME BirthInv, NEW th \in Threads, ThreadStep(th), NEW n \in Nodes, NEW m \in Nodes, NEW c \in Halves(n, m)
  PROVE  LET h == Head(todo[th])
         IN /\ h = Op2("addChild", n, m) => (Comes(th, c) <=> c.op = "addParent")
            /\ h = Op2("addParent", m, n) => ~Comes(th, c)
            /\ h = Op2("removeChild", n, m) =>
                 IF m \in children[n] /\ n \in WhenAllChildrenAreDone
                   THEN Comes(th, c) <=> c.op = "unwatchChild" ELSE Comes(th, c) <=> c.op = "removeParent"
            /\ h = Op2("unwatchChild", n, m) => (Comes(th, c) <=> c.op = "removeParent")
            /\ h = Op2("removeParent", m, n) =>
                 IF n \in parents[m] /\ m \in WhenAllParentsAreDone
                   THEN Comes(th, c) <=> c.op = "unwatchParent" ELSE ~Comes(th, c)
            /\ h = Op2("unwatchParent", m, n) => ~Comes(th, c)
<1> DEFINE h == Head(todo[th])
           s == todo'[th]
<1>1. /\ todo[th] # <<>> /\ TypeOK /\ Opened(todo[th]) /\ todo[th] \in Seq(Calls)
      /\ h.t = Arg(th) /\ h.u = Arg2(th)
      /\ h.op = "spawn" \/ ~Spawn(th)
  <2>1. TypeOK /\ todo[th] # <<>> /\ Opened(todo[th])
    BY DEF BirthInv, ThreadStep
  <2> QED BY <2>1, HeadTail DEF Arg, Arg2, Spawn, At
<1>2. c.op \in Seconds \cup Unwatches
  BY EdgeParts DEF Halves
<1>3. Comes(th, c) <=> s # <<>> /\ Head(s) = c
  BY DEF Comes
<1>4. /\ Comes(th, c) => ~Paired(s) /\ NextHead(h, s)
  BY <1>2, HeadsStep
<1>5. ASSUME h.op # "spawn"
      PROVE  /\ h.op \in {"addChild", "unwatchChild"} => s = Tail(todo[th])
             /\ h.op = "removeChild" =>
                  s # <<>> /\ Head(s) = IF h.u \in children[h.t] /\ h.t \in WhenAllChildrenAreDone
                                         THEN Op2("unwatchChild", h.t, h.u) ELSE Op2("removeParent", h.u, h.t)
             /\ h.op = "removeParent" =>
                  IF h.u \in parents[h.t] /\ h.t \in WhenAllParentsAreDone
                    THEN s # <<>> /\ Head(s) = Op2("unwatchParent", h.t, h.u) ELSE Paired(s)
  BY <1>1, <1>5, StackStep
<1> DEFINE t == Tail(todo[th])
<1>6. /\ h.op \in Firsts => t # <<>> /\ Head(t) = Second(h)
      /\ h.op = "unwatchChild" => t # <<>> /\ Head(t) = Op2("removeParent", h.u, h.t)
  BY <1>1, StackFirst, StackUnwatchChild
<1>7. \A a, b \in Halves(n, m) : a = b <=> a.op = b.op
  BY DEF Halves, Op2
<1> HIDE DEF h, s, t
<1>8. ASSUME h = Op2("addChild", n, m) PROVE Comes(th, c) <=> c.op = "addParent"
  <2>1. h.op = "addChild" /\ Second(h) = Op2("addParent", m, n) /\ h.op \in Firsts
    BY <1>8 DEF Op2, Second, Firsts
  <2>2. s # <<>> /\ Head(s) = Op2("addParent", m, n)
    BY <1>5, <1>6, <2>1 DEF t
  <2>3. Op2("addParent", m, n).op = "addParent" /\ Op2("addParent", m, n) \in Halves(n, m)
    BY DEF Op2, Halves
  <2> QED BY <1>3, <1>7, <2>2, <2>3
<1>9. ASSUME h = Op2("addParent", m, n) \/ h = Op2("unwatchParent", m, n) PROVE ~Comes(th, c)
  <2>1. h.op \notin Firsts \cup {"removeChild", "unwatchChild", "removeParent"}
    BY <1>9 DEF Op2, Firsts
  <2> QED BY <1>2, <1>3, <1>4, <2>1 DEF NextHead
<1>10. ASSUME h = Op2("removeChild", n, m)
       PROVE  IF m \in children[n] /\ n \in WhenAllChildrenAreDone
                THEN Comes(th, c) <=> c.op = "unwatchChild" ELSE Comes(th, c) <=> c.op = "removeParent"
  <2>1. h.op = "removeChild" /\ h.t = n /\ h.u = m
    BY <1>10 DEF Op2
  <2>2. /\ Op2("unwatchChild", n, m).op = "unwatchChild" /\ Op2("removeParent", m, n).op = "removeParent"
        /\ Op2("unwatchChild", n, m) \in Halves(n, m) /\ Op2("removeParent", m, n) \in Halves(n, m)
    BY DEF Op2, Halves
  <2> QED BY <1>3, <1>5, <1>7, <2>1, <2>2
<1>11. ASSUME h = Op2("unwatchChild", n, m) PROVE Comes(th, c) <=> c.op = "removeParent"
  <2>1. h.op = "unwatchChild" /\ h.t = n /\ h.u = m
    BY <1>11 DEF Op2
  <2>2. s # <<>> /\ Head(s) = Op2("removeParent", m, n)
    BY <1>5, <1>6, <2>1 DEF t
  <2>3. Op2("removeParent", m, n).op = "removeParent" /\ Op2("removeParent", m, n) \in Halves(n, m)
    BY DEF Op2, Halves
  <2> QED BY <1>3, <1>7, <2>2, <2>3
<1>12. ASSUME h = Op2("removeParent", m, n)
       PROVE  IF n \in parents[m] /\ m \in WhenAllParentsAreDone
                THEN Comes(th, c) <=> c.op = "unwatchParent" ELSE ~Comes(th, c)
  <2>1. h.op = "removeParent" /\ h.t = m /\ h.u = n
    BY <1>12 DEF Op2
  <2>2. Op2("unwatchParent", m, n).op = "unwatchParent" /\ Op2("unwatchParent", m, n) \in Halves(n, m)
    BY DEF Op2, Halves
  <2> QED BY <1>3, <1>4, <1>5, <1>7, <2>1, <2>2
<1> QED BY <1>8, <1>9, <1>10, <1>11, <1>12 DEF h

(* Who is between the two ends when one is at an end itself.                    *)
LEMMA EdgeHeads ==
  ASSUME WholeLinks, BirthInv, AllowedInv, NEW th \in Threads, ThreadStep(th),
         NEW n \in Nodes, NEW m \in Nodes, Live(n), Live(m), Head(todo[th]) \in OnEdge(n, m)
  PROVE  LET h == Head(todo[th])
         IN /\ Unwatching(n, m) <=> h.op = "unwatchChild"
            /\ Removing(n, m) <=> h.op = "removeParent"
            /\ Ending(n, m) <=> h.op = "unwatchParent"
            /\ h.op = "addParent" => Adding(n, m)
            /\ h.op \notin {"addChild", "addParent"} => ~Adding(n, m)
            /\ Unwatching(n, m)' <=> Comes(th, Op2("unwatchChild", n, m))
            /\ Removing(n, m)' <=> Comes(th, Op2("removeParent", m, n))
            /\ Ending(n, m)' <=> Comes(th, Op2("unwatchParent", m, n))
            /\ Comes(th, Op2("addParent", m, n)) => Adding(n, m)'
            /\ h.op \notin {"addChild", "addParent"} =>
                 (Adding(n, m)' <=> Comes(th, Op2("addParent", m, n)))
<1> DEFINE h == Head(todo[th])
<1>1. todo[th] # <<>>
  BY DEF ThreadStep
<1>2. /\ h = Op2("unwatchChild", n, m) <=> h.op = "unwatchChild"
      /\ h = Op2("removeParent", m, n) <=> h.op = "removeParent"
      /\ h = Op2("unwatchParent", m, n) <=> h.op = "unwatchParent"
      /\ h = Op2("addParent", m, n) <=> h.op = "addParent"
      /\ h.op \notin {"addChild", "addParent"} <=> h \in CutsEdge(n, m)
  BY DEF OnEdge, CutsEdge, Op2
<1>3. \A c \in Halves(n, m) : c.op \in Seconds \cup Unwatches
  BY EdgeParts DEF Halves
<1>4. \A c \in Halves(n, m) \cap CutsEdge(n, m) : ~HeadsBut(th, c)
  BY <1>1, Owner DEF HeadsBut
<1>5. h \in CutsEdge(n, m) => ~HeadsBut(th, Op2("addParent", m, n))
  BY <1>1, Owner DEF HeadsBut, OnEdge
<1>6. \A c \in Halves(n, m) : /\ Heads(c) <=> HeadsBut(th, c) \/ h = c
                              /\ Heads(c)' <=> HeadsBut(th, c) \/ Comes(th, c)
  BY <1>3, HeadsStep
<1>7. /\ Op2("unwatchChild", n, m) \in Halves(n, m) \cap CutsEdge(n, m)
      /\ Op2("removeParent", m, n) \in Halves(n, m) \cap CutsEdge(n, m)
      /\ Op2("unwatchParent", m, n) \in Halves(n, m) \cap CutsEdge(n, m)
      /\ Op2("addParent", m, n) \in Halves(n, m)
  BY DEF Halves, CutsEdge
<1> HIDE DEF h
<1>8. /\ Unwatching(n, m) <=> h.op = "unwatchChild"
      /\ Unwatching(n, m)' <=> Comes(th, Op2("unwatchChild", n, m))
  BY <1>2, <1>4, <1>6, <1>7 DEF Unwatching
<1>9. /\ Removing(n, m) <=> h.op = "removeParent"
      /\ Removing(n, m)' <=> Comes(th, Op2("removeParent", m, n))
  BY <1>2, <1>4, <1>6, <1>7 DEF Removing
<1>10. /\ Ending(n, m) <=> h.op = "unwatchParent"
       /\ Ending(n, m)' <=> Comes(th, Op2("unwatchParent", m, n))
  BY <1>2, <1>4, <1>6, <1>7 DEF Ending
<1>11. /\ Adding(n, m) <=> HeadsBut(th, Op2("addParent", m, n)) \/ h.op = "addParent"
       /\ Adding(n, m)' <=> HeadsBut(th, Op2("addParent", m, n)) \/ Comes(th, Op2("addParent", m, n))
  BY <1>2, <1>6, <1>7 DEF Adding
<1> QED BY <1>2, <1>5, <1>8, <1>9, <1>10, <1>11 DEF h

(* What is said of the edge after a step at one of its ends.                    *)
LEMMA EdgeAgrees ==
  ASSUME WholeLinks, BirthInv, AllowedInv, NEW th \in Threads, ThreadStep(th),
         NEW n \in Nodes, NEW m \in Nodes, Live(n), Live(m), Head(todo[th]) \in OnEdge(n, m), Agreeing(n, m)
  PROVE  Agreeing(n, m)'
<1> DEFINE h == Head(todo[th])
           w == Watch(n, "children")
           v == Watch(m, "parents")
           aP == Op2("addParent", m, n)
           uC == Op2("unwatchChild", n, m)
           rP == Op2("removeParent", m, n)
           uP == Op2("unwatchParent", m, n)
<1>1. /\ todo[th] # <<>> /\ h \in Calls /\ h.t = Arg(th) /\ h.u = Arg2(th) /\ At(th, h.op)
      /\ children \in [Nodes -> SUBSET Nodes] /\ parents \in [Nodes -> SUBSET Nodes]
      /\ watchers \in [Nodes -> Seq(Watches)]
  <2>1. todo[th] # <<>>
    BY DEF ThreadStep
  <2> QED BY <2>1, HeadBirth DEF TypeOK
<1>2. /\ Unwatching(n, m) <=> h.op = "unwatchChild"
      /\ Removing(n, m) <=> h.op = "removeParent"
      /\ Ending(n, m) <=> h.op = "unwatchParent"
      /\ h.op = "addParent" => Adding(n, m)
      /\ h.op \notin {"addChild", "addParent"} => ~Adding(n, m)
  BY EdgeHeads
<1>3. /\ Unwatching(n, m)' <=> Comes(th, uC)
      /\ Removing(n, m)' <=> Comes(th, rP)
      /\ Ending(n, m)' <=> Comes(th, uP)
      /\ Comes(th, aP) => Adding(n, m)'
      /\ h.op \notin {"addChild", "addParent"} => (Adding(n, m)' <=> Comes(th, aP))
  BY EdgeHeads
<1>4. \A c \in Halves(n, m) :
         /\ h = Op2("addChild", n, m) => (Comes(th, c) <=> c.op = "addParent")
         /\ h = Op2("addParent", m, n) => ~Comes(th, c)
         /\ h = Op2("removeChild", n, m) =>
              IF m \in children[n] /\ n \in WhenAllChildrenAreDone
                THEN Comes(th, c) <=> c.op = "unwatchChild" ELSE Comes(th, c) <=> c.op = "removeParent"
         /\ h = Op2("unwatchChild", n, m) => (Comes(th, c) <=> c.op = "removeParent")
         /\ h = Op2("removeParent", m, n) =>
              IF n \in parents[m] /\ m \in WhenAllParentsAreDone
                THEN Comes(th, c) <=> c.op = "unwatchParent" ELSE ~Comes(th, c)
         /\ h = Op2("unwatchParent", m, n) => ~Comes(th, c)
  BY EdgeComes
<1>5. /\ aP \in Halves(n, m) /\ uC \in Halves(n, m) /\ rP \in Halves(n, m) /\ uP \in Halves(n, m)
      /\ aP.op = "addParent" /\ uC.op = "unwatchChild" /\ rP.op = "removeParent" /\ uP.op = "unwatchParent"
  BY DEF Halves, Op2
<1>6. /\ w \in Watches /\ v \in Watches /\ w # v
  BY DEF Watch, Watches
<1>7. \A x \in Nodes : watchers[x] \in Seq(Watches)
  BY <1>1
<1> HIDE DEF h, w, v, aP, uC, rP, uP
<1>8. CASE h = Op2("addChild", n, m)
  <2>1. h.op = "addChild" /\ h.t = n /\ h.u = m
    BY <1>8 DEF Op2
  <2>2. /\ parents' = parents
        /\ m \in children[n] => children' = children /\ watchers' = watchers
        /\ m \notin children[n] =>
             /\ children' = [children EXCEPT ![n] = @ \cup {m}]
             /\ watchers' = IF n \in WhenAllChildrenAreDone THEN [watchers EXCEPT ![m] = Append(@, w)] ELSE watchers
    <3>1. AddChild(th)
      BY <1>1, <2>1, OnlyIts
    <3> QED BY <1>1, <2>1, <3>1 DEF AddChild, w
  <2>3. ~Unwatching(n, m) /\ ~Removing(n, m) /\ ~Ending(n, m)
    BY <1>2, <2>1
  <2>4. Adding(n, m)' /\ ~Unwatching(n, m)' /\ ~Removing(n, m)' /\ ~Ending(n, m)'
    BY <1>3, <1>4, <1>5, <1>8
  <2>5. m \in children'[n] /\ (n \in parents'[m] <=> n \in parents[m])
    BY <1>1, <2>2
  <2>6. IF n \in WhenAllChildrenAreDone THEN Single(watchers'[m], w) ELSE Absent(watchers'[m], w)
    <3>1. CASE m \in children[n]
      BY <2>2, <3>1 DEF Agreeing, w
    <3>2. CASE m \notin children[n]
      <4>1. Absent(watchers[m], w)
        BY <2>3, <3>2 DEF Agreeing, w
      <4>2. Single(Append(watchers[m], w), w)
        BY <1>7, <4>1, AppendOccurs
      <4> QED BY <1>1, <2>2, <3>2, <4>1, <4>2
    <3> QED BY <3>1, <3>2
  <2>7. /\ Single(watchers[n], v) => Single(watchers'[n], v)
        /\ Absent(watchers[n], v) => Absent(watchers'[n], v)
    <3>1. watchers'[n] = watchers[n] \/ watchers'[n] = Append(watchers[n], w)
      BY <1>1, <2>2
    <3>2. /\ Single(watchers[n], v) => Single(Append(watchers[n], w), v)
          /\ Absent(watchers[n], v) => Absent(Append(watchers[n], w), v)
      BY <1>6, <1>7, AppendOccurs
    <3> QED BY <3>1, <3>2
  <2> QED BY <2>3, <2>4, <2>5, <2>6, <2>7 DEF Agreeing, w, v
<1>9. CASE h = Op2("addParent", m, n)
  <2>1. h.op = "addParent" /\ h.t = m /\ h.u = n
    BY <1>9 DEF Op2
  <2>2. /\ children' = children
        /\ n \in parents[m] => parents' = parents /\ watchers' = watchers
        /\ n \notin parents[m] =>
             /\ parents' = [parents EXCEPT ![m] = @ \cup {n}]
             /\ watchers' = IF m \in WhenAllParentsAreDone THEN [watchers EXCEPT ![n] = Append(@, v)] ELSE watchers
    <3>1. AddParent(th)
      BY <1>1, <2>1, OnlyIts
    <3> QED BY <1>1, <2>1, <3>1 DEF AddParent, v
  <2>3. Adding(n, m) /\ ~Unwatching(n, m) /\ ~Removing(n, m) /\ ~Ending(n, m)
    BY <1>2, <2>1
  <2>4. ~Unwatching(n, m)' /\ ~Removing(n, m)' /\ ~Ending(n, m)'
    BY <1>3, <1>4, <1>5, <1>9
  <2>5. m \in children[n] /\ m \in children'[n] /\ n \in parents'[m]
    BY <1>1, <2>2, <2>3 DEF Agreeing
  <2>6. IF m \in WhenAllParentsAreDone THEN Single(watchers'[n], v) ELSE Absent(watchers'[n], v)
    <3>1. CASE n \in parents[m]
      BY <2>2, <3>1 DEF Agreeing, v
    <3>2. CASE n \notin parents[m]
      <4>1. Absent(watchers[n], v)
        BY <2>3, <3>2 DEF Agreeing, v
      <4>2. Single(Append(watchers[n], v), v)
        BY <1>7, <4>1, AppendOccurs
      <4> QED BY <1>1, <2>2, <3>2, <4>1, <4>2
    <3> QED BY <3>1, <3>2
  <2>7. /\ Single(watchers[m], w) => Single(watchers'[m], w)
        /\ Absent(watchers[m], w) => Absent(watchers'[m], w)
    <3>1. watchers'[m] = watchers[m] \/ watchers'[m] = Append(watchers[m], v)
      BY <1>1, <2>2
    <3>2. /\ Single(watchers[m], w) => Single(Append(watchers[m], v), w)
          /\ Absent(watchers[m], w) => Absent(Append(watchers[m], v), w)
      BY <1>6, <1>7, AppendOccurs
    <3> QED BY <3>1, <3>2
  <2> QED BY <2>3, <2>4, <2>5, <2>6, <2>7 DEF Agreeing, w, v
<1>10. CASE h = Op2("removeChild", n, m)
  <2>1. h.op = "removeChild" /\ h.t = n /\ h.u = m
    BY <1>10 DEF Op2
  <2>2. parents' = parents /\ watchers' = watchers /\ m \notin children'[n]
    <3>1. RemoveChild(th)
      BY <1>1, <2>1, OnlyIts
    <3> QED BY <1>1, <2>1, <3>1 DEF RemoveChild
  <2>3. ~Adding(n, m) /\ ~Unwatching(n, m) /\ ~Removing(n, m) /\ ~Ending(n, m)
    BY <1>2, <2>1
  <2>4. /\ ~Adding(n, m)' /\ ~Ending(n, m)'
        /\ Unwatching(n, m)' <=> m \in children[n] /\ n \in WhenAllChildrenAreDone
        /\ Unwatching(n, m)' \/ Removing(n, m)'
    BY <1>3, <1>4, <1>5, <1>10, <2>1
  <2>5. /\ IF n \in WhenAllChildrenAreDone /\ m \in children[n] THEN Single(watchers[m], w) ELSE Absent(watchers[m], w)
        /\ IF m \in WhenAllParentsAreDone /\ n \in parents[m] THEN Single(watchers[n], v) ELSE Absent(watchers[n], v)
    BY <2>3 DEF Agreeing, w, v
  <2> QED BY <2>2, <2>4, <2>5 DEF Agreeing, w, v
<1>11. CASE h = Op2("unwatchChild", n, m)
  <2>1. h.op = "unwatchChild" /\ h.t = n /\ h.u = m
    BY <1>11 DEF Op2
  <2>2. /\ parents' = parents /\ children' = children
        /\ watchers' = [watchers EXCEPT ![m] = Selected(@, Watches \ {w})]
    <3>1. UnwatchChild(th)
      BY <1>1, <2>1, OnlyIts
    <3> QED BY <1>1, <2>1, <3>1 DEF UnwatchChild, Unwatch, w
  <2>3. Unwatching(n, m) /\ ~Ending(n, m)
    BY <1>2, <2>1
  <2>4. ~Adding(n, m)' /\ ~Ending(n, m)' /\ ~Unwatching(n, m)' /\ Removing(n, m)'
    BY <1>3, <1>4, <1>5, <1>11, <2>1
  <2>5. m \notin children[n] /\ m \notin children'[n]
    BY <2>2, <2>3 DEF Agreeing
  <2>6. Absent(watchers'[m], w)
    <3>1. Absent(Selected(watchers[m], Watches \ {w}), w)
      BY <1>7, SelectedOccurs
    <3> QED BY <1>1, <2>2, <3>1
  <2>7. /\ Single(watchers[n], v) => Single(watchers'[n], v)
        /\ Absent(watchers[n], v) => Absent(watchers'[n], v)
    <3>1. watchers'[n] = watchers[n] \/ watchers'[n] = Selected(watchers[n], Watches \ {w})
      BY <1>1, <2>2
    <3>2. v \in Watches \ {w}
      BY <1>6
    <3>3. /\ Single(watchers[n], v) => Single(Selected(watchers[n], Watches \ {w}), v)
          /\ Absent(watchers[n], v) => Absent(Selected(watchers[n], Watches \ {w}), v)
      BY <1>7, <3>2, SelectedOccurs
    <3> QED BY <3>1, <3>3
  <2> QED BY <2>2, <2>3, <2>4, <2>5, <2>6, <2>7 DEF Agreeing, w, v
<1>12. CASE h = Op2("removeParent", m, n)
  <2>1. h.op = "removeParent" /\ h.t = m /\ h.u = n
    BY <1>12 DEF Op2
  <2>2. children' = children /\ watchers' = watchers /\ n \notin parents'[m]
    <3>1. RemoveParent(th)
      BY <1>1, <2>1, OnlyIts
    <3> QED BY <1>1, <2>1, <3>1 DEF RemoveParent
  <2>3. ~Unwatching(n, m) /\ Removing(n, m) /\ ~Ending(n, m)
    BY <1>2, <2>1
  <2>4. /\ ~Adding(n, m)' /\ ~Unwatching(n, m)' /\ ~Removing(n, m)'
        /\ Ending(n, m)' <=> n \in parents[m] /\ m \in WhenAllParentsAreDone
    BY <1>3, <1>4, <1>5, <1>12, <2>1
  <2>5. /\ m \notin children[n] /\ Absent(watchers[m], w)
        /\ IF m \in WhenAllParentsAreDone /\ n \in parents[m] THEN Single(watchers[n], v) ELSE Absent(watchers[n], v)
    BY <2>3 DEF Agreeing, w, v
  <2> QED BY <2>2, <2>4, <2>5 DEF Agreeing, w, v
<1>13. CASE h = Op2("unwatchParent", m, n)
  <2>1. h.op = "unwatchParent" /\ h.t = m /\ h.u = n
    BY <1>13 DEF Op2
  <2>2. /\ parents' = parents /\ children' = children
        /\ watchers' = [watchers EXCEPT ![n] = Selected(@, Watches \ {v})]
    <3>1. UnwatchParent(th)
      BY <1>1, <2>1, OnlyIts
    <3> QED BY <1>1, <2>1, <3>1 DEF UnwatchParent, Unwatch, v
  <2>3. Ending(n, m) /\ ~Unwatching(n, m)
    BY <1>2, <2>1
  <2>4. ~Adding(n, m)' /\ ~Ending(n, m)' /\ ~Unwatching(n, m)' /\ ~Removing(n, m)'
    BY <1>3, <1>4, <1>5, <1>13, <2>1
  <2>5. m \notin children[n] /\ n \notin parents[m] /\ Absent(watchers[m], w)
    BY <2>3 DEF Agreeing, w
  <2>6. Absent(watchers'[n], v)
    <3>1. Absent(Selected(watchers[n], Watches \ {v}), v)
      BY <1>7, SelectedOccurs
    <3> QED BY <1>1, <2>2, <3>1
  <2>7. Absent(watchers'[m], w)
    <3>1. watchers'[m] = watchers[m] \/ watchers'[m] = Selected(watchers[m], Watches \ {v})
      BY <1>1, <2>2
    <3>2. Absent(Selected(watchers[m], Watches \ {v}), w)
      BY <1>7, <2>5, SelectedOccurs
    <3> QED BY <2>5, <3>1, <3>2
  <2> QED BY <2>2, <2>4, <2>5, <2>6, <2>7 DEF Agreeing, w, v
<1> QED BY <1>8, <1>9, <1>10, <1>11, <1>12, <1>13 DEF OnEdge, CutsEdge, h

LEMMA LinksNext == WholeLinks /\ LinksInv /\ [Next]_vars => LinksInv'
<1> SUFFICES ASSUME WholeLinks, LinksInv, [Next]_vars PROVE LinksInv'
  OBVIOUS
<1>1. BirthInv /\ AllowedInv /\ BirthInv'
  BY BirthNext DEF LinksInv
<1>2. ASSUME NEW n \in Nodes, Live(n)' PROVE Live(n)
  BY <1>1, <1>2, DoneStays, Tree DEF Live
<1>3. ASSUME NEW th \in Threads, ThreadStep(th) PROVE LinksInv'
  <2>1. AllowedInv'
    BY <1>1, <1>3, AllowedStep
  <2>2. ASSUME NEW n \in Nodes, NEW m \in Nodes, Live(n)', Live(m)' PROVE Agreeing(n, m)'
    <3>1. Live(n) /\ Live(m)
      BY <1>2, <2>2
    <3>2. Agreeing(n, m)
      BY <3>1 DEF LinksInv, Live
    <3>3. CASE Head(todo[th]) \in OnEdge(n, m)
      BY <1>1, <1>3, <3>1, <3>2, <3>3, EdgeAgrees
    <3>4. CASE Head(todo[th]) \notin OnEdge(n, m)
      BY <1>1, <1>3, <3>2, <3>4, ElsewhereAgrees
    <3> QED BY <3>3, <3>4
  <2> QED BY <1>1, <2>1, <2>2 DEF LinksInv, Live
<1>4. ASSUME UNCHANGED <<todo, status, links>> PROVE LinksInv'
  <2>1. AllowedInv'
    BY <1>1, <1>4 DEF AllowedInv, Allowed, Settled
  <2>2. \A c : Heads(c)' <=> Heads(c)
    BY <1>4 DEF Heads
  <2>3. ASSUME NEW n \in Nodes, NEW m \in Nodes, Agreeing(n, m) PROVE Agreeing(n, m)'
    BY <1>4, <2>2, <2>3 DEF Agreeing, Adding, Unwatching, Removing, Ending, links
  <2> QED BY <1>1, <1>4, <2>1, <2>3 DEF LinksInv
<1>5. ASSUME NEW n \in Nodes, NoderCancel(n) \/ NoderExit(n) PROVE UNCHANGED <<todo, status, links>>
  BY <1>5 DEF NoderCancel, NoderExit
<1>6. UNCHANGED vars => UNCHANGED <<todo, status, links>>
  BY DEF vars, links
<1> QED BY <1>3, <1>4, <1>5, <1>6 DEF Next

LEMMA LinksInit == WholeLinks /\ Init => LinksInv
<1> SUFFICES ASSUME WholeLinks, Init, NEW n \in Nodes, NEW m \in Nodes PROVE Agreeing(n, m)
  BY BirthInit, AllowedInit DEF LinksInv
<1>1. ASSUME NEW c, c.op \in Seconds \cup Unwatches PROVE ~Heads(c)
  <2> SUFFICES ASSUME NEW th \in Threads, todo[th] # <<>>, Head(todo[th]) = c PROVE FALSE
    BY DEF Heads
  <2>1. Paired(todo[th]) /\ todo[th] \in Seq(Calls)
    BY UsersFirst, PairedNothing, TypeInit DEF WholeLinks, TypeOK
  <2> QED BY <1>1, <2>1, PairedTail
<1>2. ~Adding(n, m) /\ ~Unwatching(n, m) /\ ~Removing(n, m) /\ ~Ending(n, m)
  BY <1>1, EdgeParts DEF Adding, Unwatching, Removing, Ending
<1>3. /\ m \in children[n] <=> <<n, m>> \in Edges
      /\ n \in parents[m] <=> <<n, m>> \in Edges
      /\ watchers[m] = InitialWatchers(m) /\ watchers[n] = InitialWatchers(n)
  BY DEF Init
<1>4. LET w == Watch(n, "children")
          v == Watch(m, "parents")
      IN /\ IF n \in WhenAllChildrenAreDone /\ <<n, m>> \in Edges
              THEN Single(InitialWatchers(m), w) ELSE Absent(InitialWatchers(m), w)
         /\ IF m \in WhenAllParentsAreDone /\ <<n, m>> \in Edges
              THEN Single(InitialWatchers(n), v) ELSE Absent(InitialWatchers(n), v)
  BY InitialOccurs
<1> QED BY <1>2, <1>3, <1>4 DEF Agreeing

LEMMA AgreedBetween == LinksInv => LinksAgree
<1> SUFFICES ASSUME LinksInv, NEW n \in Nodes, NEW m \in Nodes, Live(n), Live(m),
                    \A th \in Threads : ~BetweenEnds(th, n, m)
             PROVE  /\ m \in children[n] <=> n \in parents[m]
                    /\ TimesWatched(m, Watch(n, "children")) =
                         (IF m \in children[n] /\ n \in WhenAllChildrenAreDone THEN 1 ELSE 0)
                    /\ TimesWatched(n, Watch(m, "parents")) =
                         (IF m \in children[n] /\ m \in WhenAllParentsAreDone THEN 1 ELSE 0)
  BY DEF LinksAgree, Live
<1>1. ASSUME NEW c \in Halves(n, m) PROVE ~Heads(c)
  <2> SUFFICES ASSUME NEW th \in Threads, todo[th] # <<>>, Head(todo[th]) = c PROVE FALSE
    BY DEF Heads
  <2>1. /\ c.op \in {"addParent", "unwatchChild", "removeParent", "unwatchParent"}
        /\ {c.t, c.u} = {n, m}
    BY <1>1 DEF Halves, Op2
  <2> QED BY <2>1 DEF BetweenEnds, At, Arg, Arg2
<1>2. ~Adding(n, m) /\ ~Unwatching(n, m) /\ ~Removing(n, m) /\ ~Ending(n, m)
  BY <1>1 DEF Halves, Adding, Unwatching, Removing, Ending
<1>3. Agreeing(n, m)
  BY DEF LinksInv, Live
<1>4. m \in children[n] <=> n \in parents[m]
  BY <1>2, <1>3 DEF Agreeing
<1>5. /\ IF m \in children[n] /\ n \in WhenAllChildrenAreDone
           THEN Single(watchers[m], Watch(n, "children")) ELSE Absent(watchers[m], Watch(n, "children"))
      /\ IF m \in children[n] /\ m \in WhenAllParentsAreDone
           THEN Single(watchers[n], Watch(m, "parents")) ELSE Absent(watchers[n], Watch(m, "parents"))
  BY <1>2, <1>3, <1>4 DEF Agreeing
<1>6. \A x, y : /\ Absent(watchers[x], y) => TimesWatched(x, y) = 0
                /\ Single(watchers[x], y) => TimesWatched(x, y) = 1
  BY TimesOccurs
<1> QED BY <1>4, <1>5, <1>6

(* When users connect and disconnect both ends at once, and whoever takes a        *)
(* connection down is the only one to touch it: the two ends of an edge between      *)
(* nodes that are not done agree on it, and each end that has to stop with the other *)
(* watches it exactly once, unless a goroutine is between the two ends.             *)
THEOREM LinksAgreeHolds == WholeLinks => (Spec => []LinksAgree)
<1>1. CASE WholeLinks
  <2>1. Init => LinksInv
    BY <1>1, LinksInit
  <2>2. LinksInv /\ [Next]_vars => LinksInv'
    BY <1>1, LinksNext
  <2> QED BY <2>1, <2>2, AgreedBetween, PTL DEF Spec
<1> QED BY <1>1
=============================================================================
