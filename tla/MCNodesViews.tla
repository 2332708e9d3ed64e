----------------------------- MODULE MCNodesViews -----------------------------
(***************************************************************************)
(* Instances of NodesViews for TLC: flows of up to three groups, two of    *)
(* which have the same name, for two colours; any of them may follow any   *)
(* other, as a replay jumps from line to line.                             *)
(***************************************************************************)
EXTENDS NodesViews

Stat(name, unit, value) == [name |-> name, unit |-> unit, value |-> value]
Node(id, name, tags, stats) == [id |-> id, name |-> name, tags |-> tags, stats |-> stats]
Group(id, name, tags, nodes) == [id |-> id, name |-> name, tags |-> tags, nodes |-> nodes]

\* Stat 5 is a rate, in bytes per second; stat 6 a duration.
Source(rate) == Group(1, 1, {8}, <<Node(11, 3, {}, <<Stat(5, "Bps", rate), Stat(6, "ns", 1000)>>)>>)
Sinks(rate)  == Group(2, 2, {}, <<Node(12, 4, {9}, <<Stat(5, "Bps", rate)>>),
                                  Node(13, 3, {}, <<Stat(6, "ns", Undefined)>>)>>)
Twin == Group(3, 1, {}, <<Node(14, 4, {9}, <<Stat(7, "f", 2)>>)>>)

Flow(groups, connections, host) == [groups |-> groups, connections |-> connections, host |-> host]
Host(process, resident) ==
    <<[process |-> process, total |-> 30, resident |-> resident, virtual |-> 1024,
       used |-> 1048576, memory |-> 2097152, cpus |-> <<40, 20>>]>>

MCFlows == {
    Flow(<<>>, <<>>, <<>>),
    Flow(<<Source(0)>>, <<>>, Host(Undefined, 1)),
    Flow(<<Source(125), Sinks(999)>>, <<<<11, 12>>, <<11, 13>>>>, Host(10, 1023)),
    Flow(<<Sinks(1250000)>>, <<>>, <<>>),
    Flow(<<Source(1), Sinks(1), Twin>>, <<<<11, 12>>, <<12, 14>>>>, <<>>),
    Flow(<<Twin, Sinks(5)>>, <<<<12, 14>>>>, <<>>)}

MCSearches == {"", "1", "3"}
MCFound == [text \in MCSearches |-> CASE text = "" -> 1 .. 4 [] text = "1" -> {1} [] text = "3" -> {3}]
=============================================================================
