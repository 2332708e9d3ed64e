----------------------------- MODULE FlowMirror -----------------------------
(***************************************************************************)
(* What a page of the monitor keeps of a flow, and how it applies a delta  *)
(* to it (server/web/src/services/FlowService.ts).  A delta is a record    *)
(* of sequences of ids (types/api.ts); metadata is left out.  The order of *)
(* the passes is the order of the code: it decides what a delta that names *)
(* the same element twice does.                                            *)
(* Ids of groups, nodes and stats come from disjoint sets of positive      *)
(* integers; a stat of the flow itself has no node.                        *)
(***************************************************************************)
EXTENDS Integers, FiniteSets, SequencesExt, Selection

NoNode == 0
NoValue == -1

\* A delta in which nothing happened.
NoDelta == [connected |-> <<>>, disconnected |-> <<>>,
            startedGroups |-> <<>>, startedNodes |-> <<>>,
            doneGroups |-> <<>>, doneNodes |-> <<>>,
            newStats |-> <<>>, values |-> <<>>]

EmptyFlow == [connections |-> <<>>, groups |-> <<>>, stats |-> <<>>]

---------------------------------------------------------------------------
(* One pass of onDelta each.  A pass goes through a list of the delta and   *)
(* looks for the first element of an id, which is the one to be changed.    *)

First(list, i) == \A j \in 1 .. i - 1 : list[j].id # list[i].id

\* Every time an id is named the first element of that id goes, if there is one left:
\* of the elements of an id, as many of the first as it is named.
Rank(list, i)  == Cardinality({j \in 1 .. i : list[j].id = list[i].id})
Times(ids, id) == Cardinality({k \in DOMAIN ids : ids[k] = id})
Stays(list, ids) == {i \in DOMAIN list : Rank(list, i) > Times(ids, list[i].id)}
Without(list, ids) ==
    LET left == Selected([i \in DOMAIN list |-> i], Stays(list, ids))
    IN  [p \in DOMAIN left |-> list[left[p]]]

\* Every started group is appended, one already there as well.
StartGroups(groups, ids) == groups \o [i \in DOMAIN ids |-> [id |-> ids[i], nodes |-> <<>>]]

\* A started node joins the first group of its id; without one it is dropped.
JoinedBy(group, started) ==
    LET joins == Selected(started, {n \in ToSet(started) : n.group = group.id})
    IN  group.nodes \o [k \in DOMAIN joins |-> [id |-> joins[k].id, stats |-> <<>>]]
StartNodes(groups, started) ==
    [i \in DOMAIN groups |->
        IF First(groups, i) THEN [groups[i] EXCEPT !.nodes = JoinedBy(groups[i], started)] ELSE groups[i]]

\* A connection survives a disconnection only when both of its ends differ.
Survives(v, c) == v[1] # c[1] /\ v[2] # c[2]
Disconnect(connections, cuts) ==
    Selected(connections, {v \in ToSet(connections) : \A c \in ToSet(cuts) : Survives(v, c)})

\* Mutant: a group with nodes stays, as if its nodes had been removed before it.
FinishGroupsIfEmpty(groups, ids) ==
    Without(groups, Selected(ids, {id \in ToSet(ids) :
        \A i \in DOMAIN groups : groups[i].id = id => groups[i].nodes = <<>>}))
\* A done group takes its nodes with it; only the first of its id goes.
FinishGroups(groups, ids) == Without(groups, ids)

\* A done node leaves every group it is in, once.
FinishNodes(groups, ids) ==
    [i \in DOMAIN groups |-> [groups[i] EXCEPT !.nodes = Without(@, ids)]]

\* Stats that are new, of a node or of the flow, follow those that are there.
NewStats(newStats, node) ==
    LET of == Selected(newStats, {s \in ToSet(newStats) : s.node = node})
    IN  [k \in DOMAIN of |-> [id |-> of[k].id, value |-> NoValue]]

\* A stat of a node joins the first node of that id of every group.
MeasureNodes(nodes, newStats) ==
    [j \in DOMAIN nodes |->
        IF First(nodes, j) THEN [nodes[j] EXCEPT !.stats = @ \o NewStats(newStats, nodes[j].id)]
        ELSE nodes[j]]
AddStats(groups, newStats) ==
    [i \in DOMAIN groups |-> [groups[i] EXCEPT !.nodes = MeasureNodes(@, newStats)]]

SetValues(stats, values) ==
    [i \in DOMAIN stats |->
        IF stats[i].id \in DOMAIN values
        THEN [stats[i] EXCEPT !.value = values[stats[i].id]] ELSE stats[i]]

SetNodeValues(nodes, values) ==
    [j \in DOMAIN nodes |-> [nodes[j] EXCEPT !.stats = SetValues(@, values)]]
SetAllValues(groups, values) ==
    [i \in DOMAIN groups |-> [groups[i] EXCEPT !.nodes = SetNodeValues(@, values)]]

\* Mutant: what is done leaves before what is started comes.
OnDeltaDoneFirst(f, d) ==
    LET left    == FinishNodes(FinishGroups(f.groups, d.doneGroups), d.doneNodes)
        started == StartNodes(StartGroups(left, d.startedGroups), d.startedNodes)
    IN  [connections |-> Disconnect(f.connections \o d.connected, d.disconnected),
         groups      |-> SetAllValues(AddStats(started, d.newStats), d.values),
         stats       |-> f.stats]

\* The whole of onDelta, pass after pass.
OnDelta(f, d) ==
    LET started == StartNodes(StartGroups(f.groups, d.startedGroups), d.startedNodes)
        left    == FinishNodes(FinishGroups(started, d.doneGroups), d.doneNodes)
    IN  [connections |-> Disconnect(f.connections \o d.connected, d.disconnected),
         groups      |-> SetAllValues(AddStats(left, d.newStats), d.values),
         stats       |-> SetValues(f.stats \o NewStats(d.newStats, NoNode), d.values)]

---------------------------------------------------------------------------
(* What a store shows, and where.                                          *)

NodePlaces(f) == UNION {{<<i, j>> : j \in DOMAIN f.groups[i].nodes} : i \in DOMAIN f.groups}
NodeAt(f, p)  == f.groups[p[1]].nodes[p[2]]
StatPlaces(f) == UNION {{<<p[1], p[2], k>> : k \in DOMAIN NodeAt(f, p).stats} : p \in NodePlaces(f)}
StatAt(f, p)  == NodeAt(f, p).stats[p[3]]

GroupsShown(f)  == {g.id : g \in ToSet(f.groups)}
NodesShown(f)   == {NodeAt(f, p).id : p \in NodePlaces(f)}
StatsOfNodes(f) == {StatAt(f, p) : p \in StatPlaces(f)}
StatsShown(f)   == StatsOfNodes(f) \cup ToSet(f.stats)

\* No group, node, stat or connection is listed twice.
GroupsOnce(f) == \A i, j \in DOMAIN f.groups : f.groups[i].id = f.groups[j].id => i = j
NodesOnce(f)  == \A p, q \in NodePlaces(f) : NodeAt(f, p).id = NodeAt(f, q).id => p = q
StatsOnce(f)  == /\ \A p, q \in StatPlaces(f) : StatAt(f, p).id = StatAt(f, q).id => p = q
                 /\ \A i, j \in DOMAIN f.stats : f.stats[i].id = f.stats[j].id => i = j
ListsOnce(f)  == GroupsOnce(f) /\ NodesOnce(f) /\ StatsOnce(f) /\ IsInjective(f.connections)
=============================================================================
