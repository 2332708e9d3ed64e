---------------------------- MODULE LivePageProofs ----------------------------
(***************************************************************************)
(* What a live page shows of the flow, whatever the flow, the server, the  *)
(* network and the user do: proofs about WebPage, beside what the          *)
(* monitorer keeps (MonitorProofs).                                        *)
(*                                                                         *)
(* A thing is announced once; a page that took no answer too early tells   *)
(* everything once (DuplicatesHaveACause), keeps nothing that is gone      *)
(* unless it missed that it went (GhostsHaveACause), and misses nothing    *)
(* unless something went wrong (MirrorIsExact).                            *)
(***************************************************************************)
EXTENDS MonitorProofs

---------------------------------------------------------------------------
(* A store, and what onDelta makes of it.                                  *)
(*                                                                         *)
(* The lists of FlowService.ts stay without a second element of an id, as  *)
(* long as each delta names what it tells once and tells nothing that is   *)
(* shown.  The nodes of all groups are taken together, as members: a node  *)
(* with the id of its group.                                               *)

\* Positions are as many as the elements.
LEMMA FirstsAreAll ==
  ASSUME NEW V, NEW s \in Seq(V), Distinct(s), NEW i \in DOMAIN s
  PROVE  First(s, i)
<1>1. \A j \in 1 .. i - 1 : j \in DOMAIN s /\ j # i
  OBVIOUS
<1> QED BY <1>1 DEF First, Distinct

\* Where ids differ, what stays is what is not named.
LEMMA StaysWhenNotNamed ==
  ASSUME NEW V, NEW s \in Seq(V), Distinct(s), NEW ids \in Seq(V), NEW i \in DOMAIN s
  PROVE  i \in Stays(s, ids) <=> s[i].id \notin ToSet(ids)
<1>1. Rank(s, i) = 1
  <2>1. {j \in 1 .. i : s[j].id = s[i].id} = {i}
    <3>1. \A j \in 1 .. i : j \in DOMAIN s
      OBVIOUS
    <3>2. i \in 1 .. i
      OBVIOUS
    <3> QED BY <3>1, <3>2 DEF Distinct
  <2>2. Cardinality({i}) = 1
    BY FS_Singleton
  <2> QED BY <2>1, <2>2 DEF Rank
<1> DEFINE T == {k \in DOMAIN ids : ids[k] = s[i].id}
<1>2. IsFiniteSet(T)
  <2>1. DOMAIN ids = 1 .. Len(ids) /\ Len(ids) \in Nat
    OBVIOUS
  <2>2. IsFiniteSet(1 .. Len(ids))
    BY <2>1, FS_Interval
  <2> QED BY <2>1, <2>2, FS_Subset
<1>3. Cardinality(T) \in Nat /\ (Cardinality(T) = 0 <=> T = {})
  BY <1>2, FS_CardinalityType, FS_EmptySet
<1>4. i \in Stays(s, ids) <=> Cardinality(T) < 1
  BY <1>1 DEF Stays, Times
<1>5. T = {} <=> s[i].id \notin ToSet(ids)
  BY DEF ToSet
<1> HIDE DEF T
<1> QED BY <1>3, <1>4, <1>5

\* What is left keeps its order, and is there once.
LEMMA WithoutKeeps ==
  ASSUME NEW V, NEW s \in Seq(V), NEW W, NEW ids \in Seq(W)
  PROVE  /\ Without(s, ids) \in Seq(V)
         /\ ToSet(Without(s, ids)) = {s[i] : i \in Stays(s, ids)}
         /\ Distinct(s) => Distinct(Without(s, ids))
<1> DEFINE n == Len(s)
           pos == [i \in DOMAIN s |-> i]
           S == Stays(s, ids)
           left == Selected(pos, S)
           w == [p \in DOMAIN left |-> s[left[p]]]
<1>1. n \in Nat /\ DOMAIN s = 1 .. n /\ \A i \in 1 .. n : s[i] \in V
  OBVIOUS
<1>2. pos \in Seq(1 .. n) /\ IsInjective(pos) /\ ToSet(pos) = 1 .. n /\ S \subseteq 1 .. n
  <2>1. pos \in [1 .. n -> 1 .. n]
    BY <1>1
  <2>2. DOMAIN pos = 1 .. n /\ \A i \in 1 .. n : pos[i] = i
    BY <1>1
  <2>3. S \subseteq 1 .. n
    BY <1>1 DEF Stays
  <2> HIDE DEF pos, n
  <2> QED BY <1>1, <2>1, <2>2, <2>3 DEF IsInjective, ToSet
<1> HIDE DEF pos, S
<1>3. left \in Seq((1 .. n) \cap S) /\ ToSet(left) = S /\ IsInjective(left)
  <2>1. left \in Seq((1 .. n) \cap S) /\ ToSet(left) = ToSet(pos) \cap S
    BY <1>2, SelectedProperties
  <2>2. IsInjective(left)
    BY <1>2, SelectedOnce
  <2> QED BY <1>2, <2>1, <2>2
<1>4. DOMAIN left = 1 .. Len(left) /\ Len(left) \in Nat /\ \A p \in DOMAIN left : left[p] \in 1 .. n
  BY <1>3
<1>5. Without(s, ids) = w
  BY DEF Without, pos, S
<1> HIDE DEF left
<1>6. DOMAIN w = 1 .. Len(left) /\ \A p \in 1 .. Len(left) : w[p] = s[left[p]] /\ w[p] \in V
  BY <1>1, <1>4
<1>7. w \in Seq(V)
  BY <1>1, <1>4
<1>8. ToSet(w) = {s[i] : i \in S}
  <2>1. S = {left[p] : p \in DOMAIN left}
    BY <1>3 DEF ToSet
  <2> QED BY <2>1 DEF ToSet
<1>9. ASSUME Distinct(s) PROVE Distinct(w)
  <2> SUFFICES ASSUME NEW p \in 1 .. Len(left), NEW q \in 1 .. Len(left), w[p].id = w[q].id PROVE p = q
    BY <1>6 DEF Distinct
  <2>1. left[p] = left[q]
    BY <1>1, <1>4, <1>6, <1>9 DEF Distinct
  <2> QED BY <1>3, <1>4, <2>1 DEF IsInjective
<1> HIDE DEF w
<1> QED BY <1>5, <1>7, <1>8, <1>9 DEF S

\* Whose ids are told once loses exactly those that are named.
LEMMA WithoutNamed ==
  ASSUME NEW V, NEW s \in Seq(V), NEW W, NEW ids \in Seq(W), Distinct(s)
  PROVE  ToSet(Without(s, ids)) = {x \in ToSet(s) : x.id \notin ToSet(ids)}
<1>1. ToSet(Without(s, ids)) = {s[i] : i \in Stays(s, ids)}
  BY WithoutKeeps
<1>2. Stays(s, ids) = {i \in DOMAIN s : s[i].id \notin ToSet(ids)}
  <2>1. Stays(s, ids) \subseteq DOMAIN s
    BY DEF Stays
  <2>2. \A i \in DOMAIN s : i \in Stays(s, ids) <=> s[i].id \notin ToSet(ids)
    <3> TAKE i \in DOMAIN s
    <3>1. s \in Seq(V \cup W) /\ ids \in Seq(V \cup W)
      OBVIOUS
    <3> QED BY <3>1, StaysWhenNotNamed
  <2> QED BY <2>1, <2>2
<1> QED BY <1>1, <1>2 DEF ToSet

\* What a store is made of.
StatCells(U)  == [id : U, value : U]
NodeCells(U)  == [id : U, stats : Seq(StatCells(U))]
GroupCells(U) == [id : U, nodes : Seq(NodeCells(U))]

\* The nodes of a list of groups, each with the id of its group.
Members(g) == UNION {{<<g[i].id, x>> : x \in ToSet(g[i].nodes)} : i \in DOMAIN g}
Apart(M) == \A m, l \in M :
    /\ m[2].id = l[2].id => m = l
    /\ Distinct(m[2].stats)
    /\ m # l => IdsOf(m[2].stats) \cap IdsOf(l[2].stats) = {}
Neat(g, U) ==
    /\ g \in Seq(GroupCells(U)) /\ Distinct(g)
    /\ \A i \in DOMAIN g : Distinct(g[i].nodes)
    /\ Apart(Members(g))

\* A group with other nodes.
LEMMA WithNodes ==
  ASSUME NEW U, NEW g \in GroupCells(U), NEW q \in Seq(NodeCells(U)), NEW e, e = [g EXCEPT !.nodes = q]
  PROVE  e \in GroupCells(U) /\ e.id = g.id /\ e.nodes = q
<1> DEFINE Q == Seq(NodeCells(U))
<1> HIDE DEF Q
<1>1. g \in [id : U, nodes : Q] /\ q \in Q
  BY DEF Q, GroupCells
<1>2. e \in [id : U, nodes : Q] /\ e.id = g.id /\ e.nodes = q
  BY <1>1
<1> QED BY <1>2 DEF Q, GroupCells

\* A node with other stats.
LEMMA WithStats ==
  ASSUME NEW U, NEW x \in NodeCells(U), NEW q \in Seq(StatCells(U)), NEW e, e = [x EXCEPT !.stats = q]
  PROVE  e \in NodeCells(U) /\ e.id = x.id /\ e.stats = q
<1> DEFINE Q == Seq(StatCells(U))
<1> HIDE DEF Q
<1>1. x \in [id : U, stats : Q] /\ q \in Q
  BY DEF Q, NodeCells
<1>2. e \in [id : U, stats : Q] /\ e.id = x.id /\ e.stats = q
  BY <1>1
<1> QED BY <1>2 DEF Q, NodeCells

\* The elements of a typed list of groups.
LEMMA GroupTyped ==
  ASSUME NEW U, NEW g \in Seq(GroupCells(U)), NEW i \in DOMAIN g
  PROVE  /\ g[i] \in GroupCells(U) /\ g[i].id \in U /\ g[i].nodes \in Seq(NodeCells(U))
         /\ \A x \in ToSet(g[i].nodes) : /\ x \in NodeCells(U) /\ x.id \in U
                                         /\ x.stats \in Seq(StatCells(U))
<1> DEFINE Q == Seq(NodeCells(U))
           S == Seq(StatCells(U))
<1>1. g[i] \in GroupCells(U)
  OBVIOUS
<1>2. g[i].id \in U /\ g[i].nodes \in Q
  <2> HIDE DEF Q
  <2>1. g[i] \in [id : U, nodes : Q]
    BY <1>1 DEF GroupCells, Q
  <2> QED BY <2>1
<1>3. ASSUME NEW x \in ToSet(g[i].nodes) PROVE x \in NodeCells(U) /\ x.id \in U /\ x.stats \in S
  <2> DEFINE ns == g[i].nodes
  <2>1. ns \in Seq(NodeCells(U)) /\ x \in ToSet(ns)
    BY <1>2
  <2> HIDE DEF ns
  <2>2. x \in NodeCells(U)
    BY <2>1 DEF ToSet
  <2> HIDE DEF S
  <2>3. x \in [id : U, stats : S]
    BY <2>2 DEF NodeCells, S
  <2> QED BY <2>2, <2>3
<1> QED BY <1>1, <1>2, <1>3

\* A member is a group's id with a node of that group.
LEMMA MembersTyped ==
  ASSUME NEW U, NEW g \in Seq(GroupCells(U)), NEW m \in Members(g)
  PROVE  /\ m = <<m[1], m[2]>> /\ m[1] \in U /\ m[2] \in NodeCells(U) /\ m[2].id \in U
         /\ m[2].stats \in Seq(StatCells(U))
         /\ \E i \in DOMAIN g : m[1] = g[i].id /\ m[2] \in ToSet(g[i].nodes)
<1>1. PICK i \in DOMAIN g : m \in {<<g[i].id, x>> : x \in ToSet(g[i].nodes)}
  BY DEF Members
<1>2. PICK x \in ToSet(g[i].nodes) : m = <<g[i].id, x>>
  BY <1>1
<1>3. m[1] = g[i].id /\ m[2] = x
  BY <1>2
<1> QED BY <1>2, <1>3, GroupTyped

\* Every node of every group is a member.
LEMMA MembersThere ==
  ASSUME NEW g, NEW i \in DOMAIN g, NEW x \in ToSet(g[i].nodes)
  PROVE  <<g[i].id, x>> \in Members(g)
BY DEF Members

\* Started groups come without nodes.
LEMMA GroupsStart ==
  ASSUME NEW U, NEW g, Neat(g, U), NEW ids \in Seq(U), IsInjective(ids), ToSet(ids) \cap IdsOf(g) = {}
  PROVE  /\ Neat(StartGroups(g, ids), U)
         /\ IdsOf(StartGroups(g, ids)) = IdsOf(g) \cup ToSet(ids)
         /\ Members(StartGroups(g, ids)) = Members(g)
<1> DEFINE V == GroupCells(U)
           new == [i \in DOMAIN ids |-> [id |-> ids[i], nodes |-> <<>>]]
           h == g \o new
           n == Len(g)
<1>1. g \in Seq(V) /\ Distinct(g) /\ Apart(Members(g)) /\ \A i \in DOMAIN g : Distinct(g[i].nodes)
  BY DEF Neat
<1>2. DOMAIN new = DOMAIN ids /\ \A i \in DOMAIN ids : new[i].id = ids[i] /\ new[i].nodes = <<>>
  OBVIOUS
<1>3. new \in Seq(V)
  <2>1. \A i \in DOMAIN ids : ids[i] \in U
    OBVIOUS
  <2>2. <<>> \in Seq(NodeCells(U))
    OBVIOUS
  <2>3. \A i \in DOMAIN ids : [id |-> ids[i], nodes |-> <<>>] \in V
    <3> DEFINE Q == Seq(NodeCells(U))
    <3> HIDE DEF Q
    <3>1. <<>> \in Q
      BY <2>2 DEF Q
    <3>2. \A i \in DOMAIN ids : [id |-> ids[i], nodes |-> <<>>] \in [id : U, nodes : Q]
      BY <2>1, <3>1
    <3> QED BY <3>2 DEF Q, GroupCells
  <2>4. DOMAIN ids = 1 .. Len(ids) /\ Len(ids) \in Nat
    OBVIOUS
  <2>5. new \in [1 .. Len(ids) -> V]
    BY <2>3, <2>4
  <2> QED BY <2>4, <2>5
<1>4. IdsOf(new) = ToSet(ids) /\ Distinct(new)
  <2> HIDE DEF new
  <2> QED BY <1>2 DEF IdsOf, ToSet, Distinct, IsInjective
<1>5. h = StartGroups(g, ids)
  BY DEF StartGroups
<1> HIDE DEF new, V
<1>6. h \in Seq(V) /\ IdsOf(h) = IdsOf(g) \cup ToSet(ids) /\ Distinct(h)
  BY <1>1, <1>3, <1>4, ConcatDistinct
<1>7. ToSet(h) = ToSet(g) \cup ToSet(new)
  BY <1>1, <1>3, ConcatSet
<1>8. \A e \in ToSet(new) : e.nodes = <<>>
  BY <1>2 DEF ToSet
<1> HIDE DEF h
<1>9. ASSUME NEW i \in DOMAIN h PROVE Distinct(h[i].nodes) /\ (h[i].nodes = <<>> \/ h[i] \in ToSet(g))
  <2>1. h[i] \in ToSet(g) \/ h[i] \in ToSet(new)
    BY <1>7 DEF ToSet
  <2>2. \A e \in ToSet(g) : Distinct(e.nodes)
    BY <1>1 DEF ToSet
  <2>3. Distinct(<<>>)
    BY DEF Distinct
  <2> QED BY <2>1, <2>2, <2>3, <1>8
<1>10. Members(h) = Members(g)
  <2>1. ASSUME NEW m \in Members(h) PROVE m \in Members(g)
    <3>1. PICK i \in DOMAIN h : m \in {<<h[i].id, x>> : x \in ToSet(h[i].nodes)}
      BY DEF Members
    <3>2. PICK x \in ToSet(h[i].nodes) : m = <<h[i].id, x>>
      BY <3>1
    <3>3. h[i].nodes # <<>>
      BY <3>2 DEF ToSet
    <3>4. PICK j \in DOMAIN g : h[i] = g[j]
      BY <1>9, <3>3 DEF ToSet
    <3> QED BY <3>2, <3>4, MembersThere
  <2>2. ASSUME NEW m \in Members(g) PROVE m \in Members(h)
    <3>1. PICK j \in DOMAIN g : m \in {<<g[j].id, x>> : x \in ToSet(g[j].nodes)}
      BY DEF Members
    <3>2. g[j] \in ToSet(h)
      BY <1>7 DEF ToSet
    <3>3. PICK i \in DOMAIN h : h[i] = g[j]
      BY <3>2 DEF ToSet
    <3> QED BY <3>1, <3>3, MembersThere
  <2> QED BY <2>1, <2>2
<1> QED BY <1>1, <1>5, <1>6, <1>9, <1>10 DEF Neat, V

NodeIdsOf(g) == {m[2].id : m \in Members(g)}
NewNode(n) == <<n.group, [id |-> n.id, stats |-> <<>>]>>
StartedCells(U) == [id : U, group : U]

\* What joins a group follows what is there.
LEMMA Joins ==
  ASSUME NEW U, NEW e \in GroupCells(U), Distinct(e.nodes),
         NEW started \in Seq(StartedCells(U)), Distinct(started),
         IdsOf(started) \cap IdsOf(e.nodes) = {}
  PROVE  /\ JoinedBy(e, started) \in Seq(NodeCells(U)) /\ Distinct(JoinedBy(e, started))
         /\ ToSet(JoinedBy(e, started)) = ToSet(e.nodes) \cup
               {[id |-> n.id, stats |-> <<>>] : n \in {x \in ToSet(started) : x.group = e.id}}
<1> DEFINE W == {n \in ToSet(started) : n.group = e.id}
           joins == Selected(started, W)
           new == [k \in DOMAIN joins |-> [id |-> joins[k].id, stats |-> <<>>]]
           V == NodeCells(U)
<1>1. /\ joins \in Seq(StartedCells(U)) /\ Distinct(joins)
      /\ IdsOf(joins) = {x.id : x \in ToSet(started) \cap W}
  BY SelectedDistinct
<1>2. ToSet(joins) = W
  <2>1. ToSet(joins) = ToSet(started) \cap W
    BY SelectedProperties
  <2> QED BY <2>1
<1>3. JoinedBy(e, started) = e.nodes \o new
  BY DEF JoinedBy
<1>4. e.nodes \in Seq(V)
  <2> DEFINE Q == Seq(V)
  <2> HIDE DEF Q
  <2>1. e \in [id : U, nodes : Q]
    BY DEF GroupCells, Q
  <2>2. e.nodes \in Q
    BY <2>1
  <2> QED BY <2>2 DEF Q
<1> HIDE DEF joins
<1>5. DOMAIN new = DOMAIN joins /\ \A k \in DOMAIN joins : new[k] = [id |-> joins[k].id, stats |-> <<>>]
  OBVIOUS
<1>6. new \in Seq(V)
  <2>1. \A k \in DOMAIN joins : joins[k].id \in U
    <3>1. \A k \in DOMAIN joins : joins[k] \in StartedCells(U)
      BY <1>1
    <3> QED BY <3>1 DEF StartedCells
  <2>2. <<>> \in Seq(StatCells(U))
    OBVIOUS
  <2>3. \A k \in DOMAIN joins : [id |-> joins[k].id, stats |-> <<>>] \in V
    <3> DEFINE Q == Seq(StatCells(U))
    <3> HIDE DEF Q
    <3>1. <<>> \in Q
      BY <2>2 DEF Q
    <3>2. \A k \in DOMAIN joins : [id |-> joins[k].id, stats |-> <<>>] \in [id : U, stats : Q]
      BY <2>1, <3>1
    <3> QED BY <3>2 DEF Q, NodeCells
  <2>4. DOMAIN joins = 1 .. Len(joins) /\ Len(joins) \in Nat
    BY <1>1
  <2> HIDE DEF V
  <2>5. new \in [1 .. Len(joins) -> V]
    BY <2>3, <2>4
  <2> QED BY <2>4, <2>5
<1>7. IdsOf(new) = IdsOf(joins) /\ Distinct(new)
  <2>1. \A k \in DOMAIN joins : joins[k].id = new[k].id
    BY <1>5
  <2> HIDE DEF new
  <2> QED BY <1>1, <1>5, <2>1, SameIds
<1>8. ToSet(new) = {[id |-> n.id, stats |-> <<>>] : n \in W}
  <2> HIDE DEF W, new
  <2> QED BY <1>2, <1>5 DEF ToSet
<1>9. IdsOf(e.nodes) \cap IdsOf(new) = {}
  <2>1. IdsOf(started) = {x.id : x \in ToSet(started)}
    BY IdsOfSet
  <2> QED BY <1>1, <1>7, <2>1
<1> HIDE DEF new, V
<1>10. e.nodes \o new \in Seq(V) /\ Distinct(e.nodes \o new)
  BY <1>4, <1>6, <1>7, <1>9, ConcatDistinct
<1>11. ToSet(e.nodes \o new) = ToSet(e.nodes) \cup ToSet(new)
  BY <1>4, <1>6, ConcatSet
<1> QED BY <1>3, <1>8, <1>10, <1>11 DEF V

\* Started nodes join the group they name, if it is there; the others are dropped.
LEMMA NodesStart ==
  ASSUME NEW U, NEW g, Neat(g, U), NEW started \in Seq(StartedCells(U)), Distinct(started),
         IdsOf(started) \cap NodeIdsOf(g) = {}
  PROVE  /\ Neat(StartNodes(g, started), U)
         /\ IdsOf(StartNodes(g, started)) = IdsOf(g)
         /\ Members(StartNodes(g, started)) =
               Members(g) \cup {NewNode(n) : n \in {x \in ToSet(started) : x.group \in IdsOf(g)}}
<1> DEFINE h == StartNodes(g, started)
           V == GroupCells(U)
           New(i) == {[id |-> n.id, stats |-> <<>>] : n \in {x \in ToSet(started) : x.group = g[i].id}}
           N == {NewNode(n) : n \in {x \in ToSet(started) : x.group \in IdsOf(g)}}
<1>1. g \in Seq(V) /\ Distinct(g) /\ Apart(Members(g)) /\ \A i \in DOMAIN g : Distinct(g[i].nodes)
  BY DEF Neat
<1>2. ASSUME NEW i \in DOMAIN g
      PROVE  /\ h[i] \in V /\ h[i].id = g[i].id /\ Distinct(h[i].nodes)
             /\ ToSet(h[i].nodes) = ToSet(g[i].nodes) \cup New(i)
  <2>1. First(g, i)
    BY <1>1, FirstsAreAll
  <2>2. h[i] = [g[i] EXCEPT !.nodes = JoinedBy(g[i], started)]
    BY <2>1 DEF StartNodes
  <2>3. g[i] \in V
    BY <1>1, GroupTyped
  <2>4. IdsOf(started) \cap IdsOf(g[i].nodes) = {}
    <3>1. IdsOf(g[i].nodes) = {x.id : x \in ToSet(g[i].nodes)}
      BY IdsOfSet
    <3>2. ASSUME NEW x \in ToSet(g[i].nodes) PROVE x.id \in NodeIdsOf(g)
      <4>1. <<g[i].id, x>> \in Members(g) /\ <<g[i].id, x>>[2] = x
        BY MembersThere
      <4> QED BY <4>1 DEF NodeIdsOf
    <3> QED BY <3>1, <3>2
  <2>5. /\ JoinedBy(g[i], started) \in Seq(NodeCells(U)) /\ Distinct(JoinedBy(g[i], started))
        /\ ToSet(JoinedBy(g[i], started)) = ToSet(g[i].nodes) \cup New(i)
    BY <1>1, <2>3, <2>4, Joins
  <2> HIDE DEF h
  <2> QED BY <2>2, <2>3, <2>5, WithNodes
<1>3. DOMAIN h = DOMAIN g
  BY DEF StartNodes
<1> HIDE DEF h, V
<1>4. h \in Seq(V)
  <2>1. DOMAIN g = 1 .. Len(g) /\ Len(g) \in Nat
    BY <1>1
  <2>2. h = [i \in 1 .. Len(g) |-> h[i]]
    BY <2>1, <1>3 DEF h, StartNodes
  <2>3. h \in [1 .. Len(g) -> V]
    BY <1>2, <2>1, <2>2
  <2> QED BY <2>1, <2>3
<1>5. IdsOf(h) = IdsOf(g) /\ Distinct(h)
  BY <1>1, <1>2, <1>3, SameIds
<1>6. Members(h) = Members(g) \cup N
  <2>1. ASSUME NEW m \in Members(h) PROVE m \in Members(g) \cup N
    <3>1. PICK i \in DOMAIN h : m \in {<<h[i].id, x>> : x \in ToSet(h[i].nodes)}
      BY DEF Members
    <3>2. PICK x \in ToSet(h[i].nodes) : m = <<g[i].id, x>>
      BY <1>2, <1>3, <3>1
    <3>3. CASE x \in ToSet(g[i].nodes)
      BY <1>3, <3>2, <3>3, MembersThere
    <3>4. CASE x \in New(i)
      <4>1. PICK n \in ToSet(started) : n.group = g[i].id /\ x = [id |-> n.id, stats |-> <<>>]
        BY <3>4
      <4>2. n.group \in IdsOf(g)
        BY <1>3, <4>1 DEF IdsOf
      <4>3. m = NewNode(n)
        BY <3>2, <4>1 DEF NewNode
      <4> QED BY <4>2, <4>3
    <3> QED BY <1>2, <1>3, <3>2, <3>3, <3>4
  <2>2. ASSUME NEW m \in Members(g) PROVE m \in Members(h)
    <3>1. PICK i \in DOMAIN g : m \in {<<g[i].id, x>> : x \in ToSet(g[i].nodes)}
      BY DEF Members
    <3>2. PICK x \in ToSet(g[i].nodes) : m = <<h[i].id, x>>
      BY <1>2, <3>1
    <3>3. x \in ToSet(h[i].nodes)
      BY <1>2
    <3> QED BY <1>3, <3>2, <3>3, MembersThere
  <2>3. ASSUME NEW m \in N PROVE m \in Members(h)
    <3>1. PICK n \in ToSet(started) : n.group \in IdsOf(g) /\ m = NewNode(n)
      OBVIOUS
    <3>2. PICK i \in DOMAIN g : n.group = g[i].id
      BY <3>1 DEF IdsOf
    <3>3. [id |-> n.id, stats |-> <<>>] \in ToSet(h[i].nodes)
      BY <1>2, <3>2
    <3>4. <<h[i].id, [id |-> n.id, stats |-> <<>>]>> \in Members(h)
      BY <1>3, <3>3, MembersThere
    <3> QED BY <1>2, <3>1, <3>2, <3>4 DEF NewNode
  <2> HIDE DEF N
  <2> QED BY <2>1, <2>2, <2>3
<1>7. Apart(Members(g) \cup N)
  <2>1. \A m \in N : \E n \in ToSet(started) : m = NewNode(n) /\ m[2].id = n.id /\ m[2].stats = <<>>
    BY DEF NewNode
  <2>2. \A m \in N : IdsOf(m[2].stats) = {} /\ Distinct(m[2].stats)
    BY <2>1 DEF IdsOf, Distinct
  <2>3. \A m \in N, l \in Members(g) : m[2].id # l[2].id
    <3>1. \A n \in ToSet(started) : n.id \in IdsOf(started)
      BY IdsOfSet
    <3> HIDE DEF N
    <3> QED BY <2>1, <3>1 DEF NodeIdsOf
  <2>4. \A m, l \in N : m[2].id = l[2].id => m = l
    <3>1. \A x, y \in ToSet(started) : x.id = y.id => x = y
      BY DistinctOnce
    <3> HIDE DEF N
    <3> QED BY <2>1, <3>1
  <2> HIDE DEF N
  <2> QED BY <1>1, <2>2, <2>3, <2>4 DEF Apart
<1> HIDE DEF N
<1>8. \A i \in DOMAIN h : Distinct(h[i].nodes)
  BY <1>2, <1>3
<1>9. Neat(h, U)
  BY <1>4, <1>5, <1>6, <1>7, <1>8 DEF Neat, V
<1> QED BY <1>5, <1>6, <1>9 DEF h, N

\* Done groups take their nodes with them.
LEMMA GroupsFinish ==
  ASSUME NEW U, NEW g, Neat(g, U), NEW ids \in Seq(U)
  PROVE  /\ Neat(FinishGroups(g, ids), U)
         /\ IdsOf(FinishGroups(g, ids)) = IdsOf(g) \ ToSet(ids)
         /\ Members(FinishGroups(g, ids)) = {m \in Members(g) : m[1] \notin ToSet(ids)}
<1> DEFINE h == FinishGroups(g, ids)
           V == GroupCells(U)
<1>1. g \in Seq(V) /\ Distinct(g) /\ Apart(Members(g)) /\ \A i \in DOMAIN g : Distinct(g[i].nodes)
  BY DEF Neat
<1> HIDE DEF V
<1>2. h \in Seq(V) /\ Distinct(h) /\ ToSet(h) = {e \in ToSet(g) : e.id \notin ToSet(ids)}
  BY <1>1, WithoutKeeps, WithoutNamed DEF FinishGroups
<1> HIDE DEF h
<1>3. IdsOf(h) = IdsOf(g) \ ToSet(ids)
  <2>1. IdsOf(h) = {x.id : x \in ToSet(h)} /\ IdsOf(g) = {x.id : x \in ToSet(g)}
    BY IdsOfSet
  <2> QED BY <1>2, <2>1
<1>4. \A i \in DOMAIN h : \E j \in DOMAIN g : h[i] = g[j] /\ h[i].id \notin ToSet(ids)
  <2>1. \A i \in DOMAIN h : h[i] \in ToSet(h)
    BY DEF ToSet
  <2>2. \A i \in DOMAIN h : h[i] \in ToSet(g) /\ h[i].id \notin ToSet(ids)
    BY <1>2, <2>1
  <2> QED BY <2>2 DEF ToSet
<1>5. \A j \in DOMAIN g : g[j].id \notin ToSet(ids) => \E i \in DOMAIN h : h[i] = g[j]
  <2>1. \A j \in DOMAIN g : g[j] \in ToSet(g)
    BY DEF ToSet
  <2>2. \A j \in DOMAIN g : g[j].id \notin ToSet(ids) => g[j] \in ToSet(h)
    BY <1>2, <2>1
  <2> QED BY <2>2 DEF ToSet
<1>6. Members(h) = {m \in Members(g) : m[1] \notin ToSet(ids)}
  <2>1. ASSUME NEW m \in Members(h) PROVE m \in Members(g) /\ m[1] \notin ToSet(ids)
    <3>1. PICK i \in DOMAIN h : m \in {<<h[i].id, x>> : x \in ToSet(h[i].nodes)}
      BY DEF Members
    <3>2. PICK j \in DOMAIN g : h[i] = g[j] /\ h[i].id \notin ToSet(ids)
      BY <1>4
    <3> QED BY <3>1, <3>2, MembersThere
  <2>2. ASSUME NEW m \in Members(g), m[1] \notin ToSet(ids) PROVE m \in Members(h)
    <3>1. PICK j \in DOMAIN g : m \in {<<g[j].id, x>> : x \in ToSet(g[j].nodes)}
      BY DEF Members
    <3>2. PICK x \in ToSet(g[j].nodes) : m = <<g[j].id, x>>
      BY <3>1
    <3>3. m[1] = g[j].id
      BY <3>2
    <3>4. PICK i \in DOMAIN h : h[i] = g[j]
      BY <1>5, <2>2, <3>3
    <3> QED BY <3>2, <3>4, MembersThere
  <2> QED BY <2>1, <2>2
<1>7. Apart(Members(h))
  BY <1>1, <1>6 DEF Apart
<1>8. \A i \in DOMAIN h : Distinct(h[i].nodes)
  BY <1>1, <1>4
<1>9. Neat(h, U)
  BY <1>2, <1>7, <1>8 DEF Neat, V
<1> QED BY <1>3, <1>6, <1>9 DEF h

\* Done nodes leave.
LEMMA NodesFinish ==
  ASSUME NEW U, NEW g, Neat(g, U), NEW ids \in Seq(U)
  PROVE  /\ Neat(FinishNodes(g, ids), U)
         /\ IdsOf(FinishNodes(g, ids)) = IdsOf(g)
         /\ Members(FinishNodes(g, ids)) = {m \in Members(g) : m[2].id \notin ToSet(ids)}
<1> DEFINE h == FinishNodes(g, ids)
           V == GroupCells(U)
<1>1. g \in Seq(V) /\ Distinct(g) /\ Apart(Members(g)) /\ \A i \in DOMAIN g : Distinct(g[i].nodes)
  BY DEF Neat
<1>2. ASSUME NEW i \in DOMAIN g
      PROVE  /\ h[i] \in V /\ h[i].id = g[i].id /\ Distinct(h[i].nodes)
             /\ ToSet(h[i].nodes) = {x \in ToSet(g[i].nodes) : x.id \notin ToSet(ids)}
  <2> DEFINE e == g[i]
             ns == e.nodes
  <2>1. h[i] = [e EXCEPT !.nodes = Without(ns, ids)]
    BY DEF FinishNodes
  <2>2. e \in V /\ ns \in Seq(NodeCells(U)) /\ Distinct(ns)
    BY <1>1, GroupTyped
  <2> HIDE DEF h, ns
  <2>3. /\ Without(ns, ids) \in Seq(NodeCells(U)) /\ Distinct(Without(ns, ids))
        /\ ToSet(Without(ns, ids)) = {x \in ToSet(ns) : x.id \notin ToSet(ids)}
    BY <2>2, WithoutKeeps, WithoutNamed
  <2> HIDE DEF e
  <2>4. h[i] \in V /\ h[i].id = e.id /\ h[i].nodes = Without(ns, ids)
    BY <2>1, <2>2, <2>3, WithNodes
  <2> QED BY <2>3, <2>4 DEF e, ns
<1>3. DOMAIN h = DOMAIN g /\ DOMAIN g = 1 .. Len(g) /\ Len(g) \in Nat
  BY <1>1 DEF FinishNodes
<1>4. h \in Seq(V)
  <2>1. h = [i \in 1 .. Len(g) |-> h[i]]
    BY <1>3 DEF FinishNodes
  <2> HIDE DEF h, V
  <2>2. h \in [1 .. Len(g) -> V]
    BY <1>2, <1>3, <2>1
  <2> QED BY <1>3, <2>2
<1> HIDE DEF h, V
<1>5. IdsOf(h) = IdsOf(g) /\ Distinct(h)
  BY <1>1, <1>2, <1>3, SameIds
<1>6. Members(h) = {m \in Members(g) : m[2].id \notin ToSet(ids)}
  <2>1. ASSUME NEW m \in Members(h) PROVE m \in Members(g) /\ m[2].id \notin ToSet(ids)
    <3>1. PICK i \in DOMAIN h : m \in {<<h[i].id, x>> : x \in ToSet(h[i].nodes)}
      BY DEF Members
    <3>2. PICK x \in ToSet(h[i].nodes) : m = <<h[i].id, x>>
      BY <3>1
    <3>3. x \in ToSet(g[i].nodes) /\ x.id \notin ToSet(ids) /\ m = <<g[i].id, x>> /\ m[2] = x
      BY <1>2, <1>3, <3>2
    <3> QED BY <1>3, <3>3, MembersThere
  <2>2. ASSUME NEW m \in Members(g), m[2].id \notin ToSet(ids) PROVE m \in Members(h)
    <3>1. PICK j \in DOMAIN g : m \in {<<g[j].id, x>> : x \in ToSet(g[j].nodes)}
      BY DEF Members
    <3>2. PICK x \in ToSet(g[j].nodes) : m = <<g[j].id, x>>
      BY <3>1
    <3>3. x \in ToSet(h[j].nodes) /\ m = <<h[j].id, x>>
      BY <1>2, <2>2, <3>2
    <3> QED BY <1>3, <3>3, MembersThere
  <2> QED BY <2>1, <2>2
<1>7. Apart(Members(h))
  BY <1>1, <1>6 DEF Apart
<1>8. \A i \in DOMAIN h : Distinct(h[i].nodes)
  BY <1>2, <1>3
<1>9. Neat(h, U)
  BY <1>4, <1>5, <1>7, <1>8 DEF Neat, V
<1> QED BY <1>5, <1>6, <1>9 DEF h

\* Every node changed by F, which keeps its id.
Changes(g, h, F) ==
    /\ DOMAIN h = DOMAIN g
    /\ h = [i \in DOMAIN g |-> h[i]]
    /\ \A i \in DOMAIN g : h[i] = [g[i] EXCEPT !.nodes = [j \in DOMAIN g[i].nodes |-> F[g[i].nodes[j]]]]

\* When every node is changed and keeps its id, lists and groups stay as they were.
LEMMA NodesChange ==
  ASSUME NEW U, NEW g, Neat(g, U), NEW F \in [NodeCells(U) -> NodeCells(U)],
         \A x \in NodeCells(U) : F[x].id = x.id,
         NEW h, Changes(g, h, F)
  PROVE  /\ h \in Seq(GroupCells(U)) /\ Distinct(h) /\ IdsOf(h) = IdsOf(g)
         /\ \A i \in DOMAIN h : Distinct(h[i].nodes)
         /\ Members(h) = {<<m[1], F[m[2]]>> : m \in Members(g)}
<1> DEFINE V == GroupCells(U)
<1>1. g \in Seq(V) /\ Distinct(g) /\ \A i \in DOMAIN g : Distinct(g[i].nodes)
  BY DEF Neat
<1>2. ASSUME NEW i \in DOMAIN g
      PROVE  /\ h[i] \in V /\ h[i].id = g[i].id /\ Distinct(h[i].nodes)
             /\ ToSet(h[i].nodes) = {F[x] : x \in ToSet(g[i].nodes)}
  <2> DEFINE e == g[i]
             ns == e.nodes
             q == [j \in DOMAIN ns |-> F[ns[j]]]
  <2>1. h[i] = [e EXCEPT !.nodes = q]
    BY DEF Changes
  <2>2. e \in V /\ ns \in Seq(NodeCells(U)) /\ Distinct(ns)
    BY <1>1, GroupTyped
  <2> HIDE DEF ns
  <2>3. \A j \in DOMAIN ns : ns[j] \in NodeCells(U)
    BY <2>2
  <2>4. DOMAIN q = DOMAIN ns /\ \A j \in DOMAIN ns : q[j] = F[ns[j]] /\ q[j] \in NodeCells(U) /\ ns[j].id = q[j].id
    BY <2>3
  <2>5. q \in Seq(NodeCells(U))
    <3>1. DOMAIN ns = 1 .. Len(ns) /\ Len(ns) \in Nat
      BY <2>2
    <3>2. q \in [1 .. Len(ns) -> NodeCells(U)]
      BY <2>3, <3>1
    <3> QED BY <3>1, <3>2
  <2> HIDE DEF q
  <2>6. Distinct(q)
    BY <2>2, <2>4, SameIds
  <2>7. ToSet(q) = {F[x] : x \in ToSet(ns)}
    BY <2>4 DEF ToSet
  <2> HIDE DEF e
  <2>8. h[i] \in V /\ h[i].id = e.id /\ h[i].nodes = q
    BY <2>1, <2>2, <2>5, WithNodes
  <2> QED BY <2>6, <2>7, <2>8 DEF e, ns
<1>3. DOMAIN h = DOMAIN g /\ DOMAIN g = 1 .. Len(g) /\ Len(g) \in Nat
  BY <1>1 DEF Changes
<1> HIDE DEF V
<1>4. h \in Seq(V)
  <2>1. h = [i \in 1 .. Len(g) |-> h[i]]
    BY <1>3 DEF Changes
  <2>2. h \in [1 .. Len(g) -> V]
    BY <1>2, <1>3, <2>1
  <2> QED BY <1>3, <2>2
<1>5. IdsOf(h) = IdsOf(g) /\ Distinct(h)
  BY <1>1, <1>2, <1>3, SameIds
<1>6. Members(h) = {<<m[1], F[m[2]]>> : m \in Members(g)}
  <2>1. ASSUME NEW m \in Members(h) PROVE \E l \in Members(g) : m = <<l[1], F[l[2]]>>
    <3>1. PICK i \in DOMAIN h : m \in {<<h[i].id, x>> : x \in ToSet(h[i].nodes)}
      BY DEF Members
    <3>2. PICK y \in ToSet(h[i].nodes) : m = <<h[i].id, y>>
      BY <3>1
    <3>3. i \in DOMAIN g /\ h[i].id = g[i].id /\ ToSet(h[i].nodes) = {F[x] : x \in ToSet(g[i].nodes)}
      BY <1>2, <1>3
    <3>4. PICK x \in ToSet(g[i].nodes) : y = F[x]
      BY <3>2, <3>3, Zenon
    <3>5. <<g[i].id, x>> \in Members(g) /\ m = <<g[i].id, F[x]>>
      BY <3>2, <3>3, <3>4, MembersThere
    <3> QED BY <3>5
  <2>2. ASSUME NEW l \in Members(g) PROVE <<l[1], F[l[2]]>> \in Members(h)
    <3>1. PICK j \in DOMAIN g : l \in {<<g[j].id, x>> : x \in ToSet(g[j].nodes)}
      BY DEF Members
    <3>2. PICK x \in ToSet(g[j].nodes) : l = <<g[j].id, x>>
      BY <3>1
    <3>3. F[x] \in ToSet(h[j].nodes) /\ l[1] = h[j].id /\ l[2] = x
      BY <1>2, <3>2
    <3> QED BY <1>3, <3>3, MembersThere
  <2> QED BY <2>1, <2>2
<1>7. \A i \in DOMAIN h : Distinct(h[i].nodes)
  BY <1>2, <1>3
<1> QED BY <1>4, <1>5, <1>6, <1>7 DEF V

NewCells(U) == [id : U, node : U]

\* The stats of the nodes of a list of groups, by id.
StatIdsOf(g) == UNION {IdsOf(m[2].stats) : m \in Members(g)}

\* Where they are: the ids of nodes with those of their groups, and those of their stats
\* with both.
Seats(g) == {<<m[1], m[2].id>> : m \in Members(g)}
Hung(g)  == UNION {{<<m[1], m[2].id, i>> : i \in IdsOf(m[2].stats)} : m \in Members(g)}

\* Those of new stats, at the nodes of S.
Hangs(newStats, S) == UNION {{<<x[1], x[2], s.id>> : s \in {y \in ToSet(newStats) : y.node = x[2]}} : x \in S}

\* A stat hangs where it is listed.
LEMMA HungThere ==
  ASSUME NEW g
  PROVE  /\ \A m \in Members(g) : \A i \in IdsOf(m[2].stats) : <<m[1], m[2].id, i>> \in Hung(g)
         /\ \A t \in Hung(g) : \E m \in Members(g) :
                /\ t = <<m[1], m[2].id, t[3]>> /\ t[1] = m[1] /\ t[2] = m[2].id /\ t[3] \in IdsOf(m[2].stats)
<1>1. \A m \in Members(g) : \A i \in IdsOf(m[2].stats) : <<m[1], m[2].id, i>> \in Hung(g)
  BY DEF Hung
<1>2. ASSUME NEW t \in Hung(g)
      PROVE  \E m \in Members(g) :
                /\ t = <<m[1], m[2].id, t[3]>> /\ t[1] = m[1] /\ t[2] = m[2].id /\ t[3] \in IdsOf(m[2].stats)
  <2>1. PICK m \in Members(g) : t \in {<<m[1], m[2].id, i>> : i \in IdsOf(m[2].stats)}
    BY DEF Hung
  <2>2. PICK i \in IdsOf(m[2].stats) : t = <<m[1], m[2].id, i>>
    BY <2>1
  <2> QED BY <2>2
<1> QED BY <1>1, <1>2

\* The stats that are new for a node.
LEMMA StatsComeNew ==
  ASSUME NEW U, NEW newStats \in Seq(NewCells(U)), Distinct(newStats), NoValue \in U, NEW node
  PROVE  LET q == NewStats(newStats, node)
         IN  /\ q \in Seq(StatCells(U)) /\ Distinct(q)
             /\ IdsOf(q) = {s.id : s \in {x \in ToSet(newStats) : x.node = node}}
<1> DEFINE W == {x \in ToSet(newStats) : x.node = node}
           of == Selected(newStats, W)
           q == [k \in DOMAIN of |-> [id |-> of[k].id, value |-> NoValue]]
<1>1. of \in Seq(NewCells(U)) /\ Distinct(of) /\ IdsOf(of) = {x.id : x \in ToSet(newStats) \cap W}
  <2> HIDE DEF W
  <2> QED BY SelectedDistinct
<1>2. ToSet(newStats) \cap W = W
  OBVIOUS
<1>3. NewStats(newStats, node) = q
  BY DEF NewStats
<1> HIDE DEF of
<1>4. DOMAIN of = 1 .. Len(of) /\ Len(of) \in Nat /\ \A k \in DOMAIN of : of[k].id \in U
  <2>1. \A k \in DOMAIN of : of[k] \in NewCells(U)
    BY <1>1
  <2> QED BY <1>1, <2>1 DEF NewCells
<1>5. DOMAIN q = DOMAIN of /\ \A k \in DOMAIN of : q[k] = [id |-> of[k].id, value |-> NoValue]
  OBVIOUS
<1> HIDE DEF q
<1>6. \A k \in DOMAIN of : q[k] \in StatCells(U) /\ of[k].id = q[k].id
  BY <1>4, <1>5 DEF StatCells
<1>7. q \in Seq(StatCells(U))
  <2>1. q = [k \in 1 .. Len(of) |-> q[k]]
    BY <1>4 DEF q
  <2>2. q \in [1 .. Len(of) -> StatCells(U)]
    BY <1>4, <1>6, <2>1
  <2> QED BY <1>4, <2>2
<1>8. IdsOf(q) = IdsOf(of) /\ Distinct(q)
  BY <1>1, <1>5, <1>6, SameIds
<1> HIDE DEF W
<1> QED BY <1>1, <1>2, <1>3, <1>7, <1>8 DEF W

\* New stats follow those of their node, wherever it is.
LEMMA StatsAdd ==
  ASSUME NEW U, NEW g, Neat(g, U), NEW newStats \in Seq(NewCells(U)), Distinct(newStats), NoValue \in U,
         IdsOf(newStats) \cap StatIdsOf(g) = {}
  PROVE  /\ Neat(AddStats(g, newStats), U)
         /\ IdsOf(AddStats(g, newStats)) = IdsOf(g)
         /\ {<<m[1], m[2].id>> : m \in Members(AddStats(g, newStats))} = {<<m[1], m[2].id>> : m \in Members(g)}
         /\ StatIdsOf(AddStats(g, newStats)) =
               StatIdsOf(g) \cup {s.id : s \in {x \in ToSet(newStats) : x.node \in NodeIdsOf(g)}}
         /\ Hung(AddStats(g, newStats)) = Hung(g) \cup Hangs(newStats, Seats(g))
<1> DEFINE C == NodeCells(U)
           New(x) == NewStats(newStats, x.id)
           F == [x \in C |-> [x EXCEPT !.stats = x.stats \o New(x)]]
           h == AddStats(g, newStats)
           M == Members(g)
<1>1. ASSUME NEW x \in C
      PROVE  /\ x.stats \in Seq(StatCells(U)) /\ New(x) \in Seq(StatCells(U))
             /\ x.stats \o New(x) \in Seq(StatCells(U))
             /\ F[x] \in C /\ F[x].id = x.id /\ F[x].stats = x.stats \o New(x)
             /\ Distinct(New(x)) /\ IdsOf(New(x)) = {s.id : s \in {y \in ToSet(newStats) : y.node = x.id}}
  <2>1. x.stats \in Seq(StatCells(U))
    <3> DEFINE Q == Seq(StatCells(U))
    <3> HIDE DEF Q
    <3>1. x \in [id : U, stats : Q]
      BY DEF NodeCells, Q
    <3>2. x.stats \in Q
      BY <3>1
    <3> QED BY <3>2 DEF Q
  <2>2. /\ New(x) \in Seq(StatCells(U)) /\ Distinct(New(x))
        /\ IdsOf(New(x)) = {s.id : s \in {y \in ToSet(newStats) : y.node = x.id}}
    BY StatsComeNew
  <2>3. x.stats \o New(x) \in Seq(StatCells(U))
    <3> HIDE DEF New
    <3> QED BY <2>1, <2>2
  <2>4. F[x] = [x EXCEPT !.stats = x.stats \o New(x)]
    OBVIOUS
  <2> DEFINE e == F[x]
             q == x.stats \o New(x)
  <2>5. e \in C /\ e.id = x.id /\ e.stats = q
    <3>1. q \in Seq(StatCells(U)) /\ e = [x EXCEPT !.stats = q]
      BY <2>3, <2>4
    <3> HIDE DEF e, q
    <3> QED BY <3>1, WithStats
  <2> QED BY <2>1, <2>2, <2>3, <2>5
<1>2. F \in [C -> C] /\ \A x \in C : F[x].id = x.id
  <2>1. F = [x \in C |-> F[x]]
    OBVIOUS
  <2> HIDE DEF F, C
  <2> QED BY <1>1, <2>1
<1>3. g \in Seq(GroupCells(U)) /\ Distinct(g) /\ Apart(M) /\ \A i \in DOMAIN g : Distinct(g[i].nodes)
  BY DEF Neat
<1>4. Changes(g, h, F)
  <2>1. DOMAIN h = DOMAIN g /\ h = [i \in DOMAIN g |-> h[i]]
    BY DEF AddStats
  <2>2. ASSUME NEW i \in DOMAIN g
        PROVE  h[i] = [g[i] EXCEPT !.nodes = [j \in DOMAIN g[i].nodes |-> F[g[i].nodes[j]]]]
    <3> DEFINE ns == g[i].nodes
    <3>1. h[i] = [g[i] EXCEPT !.nodes = MeasureNodes(ns, newStats)]
      BY DEF AddStats
    <3>2. ns \in Seq(C) /\ Distinct(ns)
      BY <1>3, GroupTyped
    <3> HIDE DEF ns
    <3>3. ASSUME NEW j \in DOMAIN ns PROVE First(ns, j) /\ ns[j] \in C
      BY <3>2, FirstsAreAll
    <3>4. MeasureNodes(ns, newStats) = [j \in DOMAIN ns |-> F[ns[j]]]
      <4>1. \A j \in DOMAIN ns : F[ns[j]] = [ns[j] EXCEPT !.stats = ns[j].stats \o NewStats(newStats, ns[j].id)]
        BY <3>3
      <4> HIDE DEF F
      <4> QED BY <3>3, <4>1 DEF MeasureNodes
    <3> HIDE DEF h, F
    <3> QED BY <3>1, <3>4 DEF ns
  <2> HIDE DEF h, F
  <2> QED BY <2>1, <2>2 DEF Changes
<1> HIDE DEF F, h
<1>5. /\ h \in Seq(GroupCells(U)) /\ Distinct(h) /\ IdsOf(h) = IdsOf(g)
      /\ \A i \in DOMAIN h : Distinct(h[i].nodes)
      /\ Members(h) = {<<m[1], F[m[2]]>> : m \in M}
  BY <1>2, <1>4, NodesChange
<1>6. \A m \in M : /\ m = <<m[1], m[2]>> /\ m[2] \in C /\ Distinct(m[2].stats)
  BY <1>3, MembersTyped DEF Apart
<1>7. ASSUME NEW m \in M
      PROVE  /\ IdsOf(F[m[2]].stats) = IdsOf(m[2].stats) \cup IdsOf(New(m[2]))
             /\ Distinct(F[m[2]].stats) /\ F[m[2]].id = m[2].id
             /\ IdsOf(New(m[2])) = {s.id : s \in {y \in ToSet(newStats) : y.node = m[2].id}}
  <2> DEFINE x == m[2]
  <2>1. x \in C /\ Distinct(x.stats)
    BY <1>6
  <2>2. IdsOf(x.stats) \subseteq StatIdsOf(g)
    BY DEF StatIdsOf
  <2> HIDE DEF x
  <2>3. /\ x.stats \in Seq(StatCells(U)) /\ New(x) \in Seq(StatCells(U))
        /\ F[x].id = x.id /\ F[x].stats = x.stats \o New(x)
        /\ Distinct(New(x)) /\ IdsOf(New(x)) = {s.id : s \in {y \in ToSet(newStats) : y.node = x.id}}
    BY <1>1, <2>1
  <2>4. IdsOf(New(x)) \subseteq IdsOf(newStats)
    <3>1. IdsOf(newStats) = {y.id : y \in ToSet(newStats)}
      BY IdsOfSet
    <3> HIDE DEF New
    <3> QED BY <2>3, <3>1
  <2>5. IdsOf(x.stats) \cap IdsOf(New(x)) = {}
    BY <2>2, <2>4
  <2> HIDE DEF New
  <2>6. IdsOf(x.stats \o New(x)) = IdsOf(x.stats) \cup IdsOf(New(x)) /\ Distinct(x.stats \o New(x))
    BY <2>1, <2>3, <2>5, ConcatDistinct
  <2> QED BY <2>3, <2>6 DEF x
<1> HIDE DEF New, C
<1>8. \A m \in Members(h) : \E l \in M : m = <<l[1], F[l[2]]>> /\ m[1] = l[1] /\ m[2] = F[l[2]]
  BY <1>5
<1>9. \A l \in M : <<l[1], F[l[2]]>> \in Members(h) /\ <<l[1], F[l[2]]>>[2] = F[l[2]]
  BY <1>5
<1>10. Apart(Members(h))
  <2> SUFFICES ASSUME NEW a \in Members(h), NEW b \in Members(h)
               PROVE  /\ a[2].id = b[2].id => a = b
                      /\ Distinct(a[2].stats)
                      /\ a # b => IdsOf(a[2].stats) \cap IdsOf(b[2].stats) = {}
    BY DEF Apart
  <2>1. PICK m \in M : a = <<m[1], F[m[2]]>> /\ a[2] = F[m[2]]
    BY <1>8
  <2>2. PICK l \in M : b = <<l[1], F[l[2]]>> /\ b[2] = F[l[2]]
    BY <1>8
  <2>3. a[2].id = b[2].id => a = b
    <3>1. m[2].id = l[2].id => m = l
      BY <1>3 DEF Apart
    <3> QED BY <1>7, <2>1, <2>2, <3>1
  <2>4. ASSUME a # b PROVE IdsOf(a[2].stats) \cap IdsOf(b[2].stats) = {}
    <3>1. m # l
      BY <2>1, <2>2, <2>4
    <3>2. IdsOf(m[2].stats) \cap IdsOf(l[2].stats) = {} /\ m[2].id # l[2].id
      BY <1>3, <3>1 DEF Apart
    <3>3. IdsOf(m[2].stats) \subseteq StatIdsOf(g) /\ IdsOf(l[2].stats) \subseteq StatIdsOf(g)
      BY DEF StatIdsOf
    <3>4. IdsOf(newStats) = {y.id : y \in ToSet(newStats)}
      BY IdsOfSet
    <3>5. IdsOf(New(m[2])) \subseteq IdsOf(newStats) /\ IdsOf(New(l[2])) \subseteq IdsOf(newStats)
      BY <1>7, <3>4
    <3>6. IdsOf(New(m[2])) \cap IdsOf(New(l[2])) = {}
      <4>1. \A x, y \in ToSet(newStats) : x.id = y.id => x = y
        BY DistinctOnce
      <4>2. \A i \in IdsOf(New(m[2])) : \E x \in ToSet(newStats) : x.node = m[2].id /\ x.id = i
        BY <1>7
      <4>3. \A i \in IdsOf(New(l[2])) : \E x \in ToSet(newStats) : x.node = l[2].id /\ x.id = i
        BY <1>7
      <4> QED BY <3>2, <4>1, <4>2, <4>3
    <3>7. /\ IdsOf(a[2].stats) = IdsOf(m[2].stats) \cup IdsOf(New(m[2]))
          /\ IdsOf(b[2].stats) = IdsOf(l[2].stats) \cup IdsOf(New(l[2]))
      BY <1>7, <2>1, <2>2
    <3> QED BY <3>2, <3>3, <3>5, <3>6, <3>7
  <2>5. Distinct(a[2].stats)
    BY <1>7, <2>1
  <2> QED BY <2>3, <2>4, <2>5
<1>11. {<<m[1], m[2].id>> : m \in Members(h)} = {<<m[1], m[2].id>> : m \in M}
  <2>1. \A m \in Members(h) : \E l \in M : <<m[1], m[2].id>> = <<l[1], l[2].id>>
    BY <1>7, <1>8
  <2>2. \A l \in M : \E m \in Members(h) : <<m[1], m[2].id>> = <<l[1], l[2].id>>
    <3> TAKE l \in M
    <3>1. <<l[1], F[l[2]]>> \in Members(h) /\ <<l[1], F[l[2]]>>[2] = F[l[2]] /\ <<l[1], F[l[2]]>>[1] = l[1]
      BY <1>9
    <3> QED BY <1>7, <3>1
  <2> QED BY <2>1, <2>2
<1>12. StatIdsOf(h) = StatIdsOf(g) \cup {s.id : s \in {x \in ToSet(newStats) : x.node \in NodeIdsOf(g)}}
  <2>1. ASSUME NEW i \in StatIdsOf(h)
        PROVE  i \in StatIdsOf(g) \/ \E s \in ToSet(newStats) : s.node \in NodeIdsOf(g) /\ i = s.id
    <3>1. PICK m \in Members(h) : i \in IdsOf(m[2].stats)
      BY DEF StatIdsOf
    <3>2. PICK l \in M : m[2] = F[l[2]]
      BY <1>8
    <3>3. i \in IdsOf(l[2].stats) \/ i \in IdsOf(New(l[2]))
      BY <1>7, <3>1, <3>2
    <3>4. i \in IdsOf(New(l[2])) => \E s \in ToSet(newStats) : s.node = l[2].id /\ i = s.id
      BY <1>7
    <3>5. l[2].id \in NodeIdsOf(g)
      BY DEF NodeIdsOf
    <3> QED BY <3>3, <3>4, <3>5 DEF StatIdsOf
  <2>2. ASSUME NEW l \in M PROVE IdsOf(l[2].stats) \cup IdsOf(New(l[2])) \subseteq StatIdsOf(h)
    <3>1. <<l[1], F[l[2]]>> \in Members(h) /\ <<l[1], F[l[2]]>>[2] = F[l[2]]
      BY <1>9
    <3> QED BY <1>7, <3>1 DEF StatIdsOf
  <2>3. StatIdsOf(g) \subseteq StatIdsOf(h)
    BY <2>2 DEF StatIdsOf
  <2>4. ASSUME NEW s \in ToSet(newStats), s.node \in NodeIdsOf(g) PROVE s.id \in StatIdsOf(h)
    <3>1. PICK l \in M : s.node = l[2].id
      BY <2>4 DEF NodeIdsOf
    <3>2. s.id \in IdsOf(New(l[2]))
      BY <1>7, <3>1
    <3> QED BY <2>2, <3>2
  <2> QED BY <2>1, <2>3, <2>4
<1>13. Neat(h, U)
  BY <1>5, <1>10 DEF Neat
<1>14. Hung(h) = Hung(g) \cup Hangs(newStats, Seats(g))
  <2> DEFINE New2(x) == {<<x[1], x[2], s.id>> : s \in {y \in ToSet(newStats) : y.node = x[2]}}
  <2>1. ASSUME NEW t \in Hung(h) PROVE t \in Hung(g) \/ \E x \in Seats(g) : t \in New2(x)
    <3>1. PICK m \in Members(h) : t = <<m[1], m[2].id, t[3]>> /\ t[3] \in IdsOf(m[2].stats)
      BY HungThere
    <3>2. PICK l \in M : m[1] = l[1] /\ m[2] = F[l[2]]
      BY <1>8
    <3>3. t = <<l[1], l[2].id, t[3]>> /\ (t[3] \in IdsOf(l[2].stats) \/ t[3] \in IdsOf(New(l[2])))
      BY <1>7, <3>1, <3>2
    <3>4. ASSUME t[3] \in IdsOf(New(l[2])) PROVE \E x \in Seats(g) : t \in New2(x)
      <4>1. PICK s \in ToSet(newStats) : s.node = l[2].id /\ t[3] = s.id
        BY <1>7, <3>4
      <4>2. <<l[1], l[2].id>> \in Seats(g)
        BY DEF Seats
      <4>3. t \in New2(<<l[1], l[2].id>>)
        BY <3>3, <4>1
      <4> QED BY <4>2, <4>3
    <3> QED BY <3>3, <3>4, HungThere
  <2>2. ASSUME NEW l \in M, NEW i \in IdsOf(l[2].stats) \cup IdsOf(New(l[2])) PROVE <<l[1], l[2].id, i>> \in Hung(h)
    <3>1. PICK m \in Members(h) : m[1] = l[1] /\ m[2] = F[l[2]]
      <4>1. /\ <<l[1], F[l[2]]>> \in Members(h) /\ <<l[1], F[l[2]]>>[2] = F[l[2]] /\ <<l[1], F[l[2]]>>[1] = l[1]
        BY <1>9
      <4> QED BY <4>1
    <3>2. m[2].id = l[2].id /\ i \in IdsOf(m[2].stats)
      BY <1>7, <3>1
    <3> QED BY <3>1, <3>2, HungThere
  <2>3. ASSUME NEW t \in Hung(g) PROVE t \in Hung(h)
    <3>1. PICK l \in M : t = <<l[1], l[2].id, t[3]>> /\ t[3] \in IdsOf(l[2].stats)
      BY HungThere
    <3>2. <<l[1], l[2].id, t[3]>> \in Hung(h)
      BY <2>2, <3>1
    <3> QED BY <3>1, <3>2
  <2>4. ASSUME NEW x \in Seats(g), NEW t \in New2(x) PROVE t \in Hung(h)
    <3>1. PICK l \in M : x = <<l[1], l[2].id>>
      BY DEF Seats
    <3>2. PICK s \in ToSet(newStats) : s.node = x[2] /\ t = <<x[1], x[2], s.id>>
      BY <2>4
    <3>3. s.id \in IdsOf(New(l[2]))
      BY <1>7, <3>1, <3>2
    <3>4. <<l[1], l[2].id, s.id>> \in Hung(h)
      BY <2>2, <3>3
    <3> QED BY <3>1, <3>2, <3>4
  <2> HIDE DEF New2
  <2>5. Hung(h) = Hung(g) \cup UNION {New2(x) : x \in Seats(g)}
    BY <2>1, <2>3, <2>4
  <2> QED BY <2>5 DEF New2, Hangs
<1> QED BY <1>5, <1>11, <1>12, <1>13, <1>14 DEF h

\* A store is one over any larger universe.
LEMMA Widens ==
  ASSUME NEW U, NEW W, U \subseteq W, NEW g, Neat(g, U)
  PROVE  Neat(g, W)
<1>1. StatCells(U) \subseteq StatCells(W)
  BY DEF StatCells
<1>2. Seq(StatCells(U)) \subseteq Seq(StatCells(W))
  <2> HIDE DEF StatCells
  <2> QED BY <1>1
<1>3. NodeCells(U) \subseteq NodeCells(W)
  <2> DEFINE A == Seq(StatCells(U))
             B == Seq(StatCells(W))
  <2>1. A \subseteq B
    BY <1>2
  <2> HIDE DEF A, B
  <2>2. [id : U, stats : A] \subseteq [id : W, stats : B]
    BY <2>1
  <2> QED BY <2>2 DEF A, B, NodeCells
<1>4. Seq(NodeCells(U)) \subseteq Seq(NodeCells(W))
  BY <1>3
<1>5. GroupCells(U) \subseteq GroupCells(W)
  <2> DEFINE A == Seq(NodeCells(U))
             B == Seq(NodeCells(W))
  <2>1. A \subseteq B
    BY <1>4
  <2> HIDE DEF A, B
  <2>2. [id : U, nodes : A] \subseteq [id : W, nodes : B]
    BY <2>1
  <2> QED BY <2>2 DEF A, B, GroupCells
<1>6. Seq(GroupCells(U)) \subseteq Seq(GroupCells(W))
  BY <1>5
<1> QED BY <1>6 DEF Neat

\* Values that are set leave the stats where they are.
LEMMA ValuesSet ==
  ASSUME NEW U, NEW W, U \subseteq W, NEW stats \in Seq(StatCells(U)),
         NEW values, \A x \in DOMAIN values : values[x] \in W
  PROVE  /\ SetValues(stats, values) \in Seq(StatCells(W))
         /\ IdsOf(SetValues(stats, values)) = IdsOf(stats)
         /\ Distinct(stats) => Distinct(SetValues(stats, values))
<1> DEFINE q == SetValues(stats, values)
<1>1. DOMAIN stats = 1 .. Len(stats) /\ Len(stats) \in Nat
  OBVIOUS
<1>2. ASSUME NEW i \in DOMAIN stats PROVE q[i] \in StatCells(W) /\ stats[i].id = q[i].id
  <2> DEFINE e == stats[i]
  <2>1. q[i] = IF e.id \in DOMAIN values THEN [e EXCEPT !.value = values[e.id]] ELSE e
    BY DEF SetValues
  <2>2. e \in StatCells(U)
    OBVIOUS
  <2> HIDE DEF e, q
  <2>3. e \in [id : U, value : U]
    BY <2>2 DEF StatCells
  <2>4. q[i] \in [id : W, value : W] /\ q[i].id = e.id
    BY <2>1, <2>3
  <2> QED BY <2>4 DEF StatCells, e
<1>3. DOMAIN q = DOMAIN stats /\ q = [i \in DOMAIN stats |-> q[i]]
  BY DEF SetValues
<1> HIDE DEF q
<1>4. q \in Seq(StatCells(W))
  <2>1. q \in [1 .. Len(stats) -> StatCells(W)]
    BY <1>1, <1>2, <1>3
  <2> QED BY <1>1, <2>1
<1>5. IdsOf(q) = IdsOf(stats) /\ (Distinct(stats) => Distinct(q))
  BY <1>2, <1>3, SameIds
<1> QED BY <1>4, <1>5 DEF q

\* Values set everywhere change no id.
LEMMA AllValuesSet ==
  ASSUME NEW W, NEW g, Neat(g, W), NEW values, \A x \in DOMAIN values : values[x] \in W
  PROVE  /\ Neat(SetAllValues(g, values), W)
         /\ IdsOf(SetAllValues(g, values)) = IdsOf(g)
         /\ {<<m[1], m[2].id>> : m \in Members(SetAllValues(g, values))} = {<<m[1], m[2].id>> : m \in Members(g)}
         /\ StatIdsOf(SetAllValues(g, values)) = StatIdsOf(g)
         /\ Hung(SetAllValues(g, values)) = Hung(g)
<1> DEFINE C == NodeCells(W)
           F == [x \in C |-> [x EXCEPT !.stats = SetValues(x.stats, values)]]
           h == SetAllValues(g, values)
           M == Members(g)
<1>1. ASSUME NEW x \in C
      PROVE  /\ F[x] \in C /\ F[x].id = x.id
             /\ IdsOf(F[x].stats) = IdsOf(x.stats) /\ (Distinct(x.stats) => Distinct(F[x].stats))
  <2>1. x.stats \in Seq(StatCells(W))
    <3> DEFINE Q == Seq(StatCells(W))
    <3> HIDE DEF Q
    <3>1. x \in [id : W, stats : Q]
      BY DEF NodeCells, Q
    <3>2. x.stats \in Q
      BY <3>1
    <3> QED BY <3>2 DEF Q
  <2> DEFINE e == F[x]
             q == SetValues(x.stats, values)
  <2>2. /\ q \in Seq(StatCells(W)) /\ IdsOf(q) = IdsOf(x.stats) /\ (Distinct(x.stats) => Distinct(q))
    BY <2>1, ValuesSet
  <2>3. e = [x EXCEPT !.stats = q]
    OBVIOUS
  <2> HIDE DEF e, q
  <2>4. e \in C /\ e.id = x.id /\ e.stats = q
    BY <2>2, <2>3, WithStats
  <2> QED BY <2>2, <2>4 DEF e
<1>2. F \in [C -> C] /\ \A x \in C : F[x].id = x.id
  <2>1. F = [x \in C |-> F[x]]
    OBVIOUS
  <2> HIDE DEF F, C
  <2> QED BY <1>1, <2>1
<1>3. g \in Seq(GroupCells(W)) /\ Distinct(g) /\ Apart(M)
  BY DEF Neat
<1>4. Changes(g, h, F)
  <2>1. DOMAIN h = DOMAIN g /\ h = [i \in DOMAIN g |-> h[i]]
    BY DEF SetAllValues
  <2>2. ASSUME NEW i \in DOMAIN g
        PROVE  h[i] = [g[i] EXCEPT !.nodes = [j \in DOMAIN g[i].nodes |-> F[g[i].nodes[j]]]]
    <3> DEFINE ns == g[i].nodes
    <3>1. h[i] = [g[i] EXCEPT !.nodes = [j \in DOMAIN ns |-> [ns[j] EXCEPT !.stats = SetValues(ns[j].stats, values)]]]
      BY DEF SetAllValues, SetNodeValues
    <3>2. ns \in Seq(C)
      BY <1>3, GroupTyped
    <3> HIDE DEF ns
    <3>3. \A j \in DOMAIN ns : ns[j] \in C
      BY <3>2
    <3>4. \A j \in DOMAIN ns : F[ns[j]] = [ns[j] EXCEPT !.stats = SetValues(ns[j].stats, values)]
      BY <3>3
    <3> HIDE DEF h, F
    <3> QED BY <3>1, <3>4 DEF ns
  <2> HIDE DEF h, F
  <2> QED BY <2>1, <2>2 DEF Changes
<1> HIDE DEF F, h
<1>5. /\ h \in Seq(GroupCells(W)) /\ Distinct(h) /\ IdsOf(h) = IdsOf(g)
      /\ \A i \in DOMAIN h : Distinct(h[i].nodes)
      /\ Members(h) = {<<m[1], F[m[2]]>> : m \in M}
  BY <1>2, <1>4, NodesChange
<1>6. \A m \in M : /\ m = <<m[1], m[2]>> /\ m[2] \in C
  BY <1>3, MembersTyped
<1>7. \A m \in M : /\ IdsOf(F[m[2]].stats) = IdsOf(m[2].stats) /\ F[m[2]].id = m[2].id
                   /\ Distinct(F[m[2]].stats)
  BY <1>1, <1>3, <1>6 DEF Apart
<1> HIDE DEF C
<1>8. \A m \in Members(h) : \E l \in M : m = <<l[1], F[l[2]]>> /\ m[1] = l[1] /\ m[2] = F[l[2]]
  BY <1>5
<1>9. \A l \in M : \E m \in Members(h) : m[1] = l[1] /\ m[2] = F[l[2]]
  <2> TAKE l \in M
  <2>1. <<l[1], F[l[2]]>> \in Members(h) /\ <<l[1], F[l[2]]>>[2] = F[l[2]] /\ <<l[1], F[l[2]]>>[1] = l[1]
    BY <1>5
  <2> QED BY <2>1
<1>10. Apart(Members(h))
  <2> SUFFICES ASSUME NEW a \in Members(h), NEW b \in Members(h)
               PROVE  /\ a[2].id = b[2].id => a = b
                      /\ Distinct(a[2].stats)
                      /\ a # b => IdsOf(a[2].stats) \cap IdsOf(b[2].stats) = {}
    BY DEF Apart
  <2>1. PICK m \in M : a = <<m[1], F[m[2]]>> /\ a[2] = F[m[2]]
    BY <1>8
  <2>2. PICK l \in M : b = <<l[1], F[l[2]]>> /\ b[2] = F[l[2]]
    BY <1>8
  <2>3. /\ m[2].id = l[2].id => m = l
        /\ m # l => IdsOf(m[2].stats) \cap IdsOf(l[2].stats) = {}
    BY <1>3 DEF Apart
  <2>4. /\ IdsOf(a[2].stats) = IdsOf(m[2].stats) /\ a[2].id = m[2].id /\ Distinct(a[2].stats)
        /\ IdsOf(b[2].stats) = IdsOf(l[2].stats) /\ b[2].id = l[2].id
    BY <1>7, <2>1, <2>2
  <2> QED BY <2>1, <2>2, <2>3, <2>4
<1>11. {<<m[1], m[2].id>> : m \in Members(h)} = {<<m[1], m[2].id>> : m \in M}
  <2>1. \A m \in Members(h) : \E l \in M : <<m[1], m[2].id>> = <<l[1], l[2].id>>
    BY <1>7, <1>8
  <2>2. \A l \in M : \E m \in Members(h) : <<m[1], m[2].id>> = <<l[1], l[2].id>>
    BY <1>7, <1>9
  <2> QED BY <2>1, <2>2
<1>12. StatIdsOf(h) = StatIdsOf(g)
  <2>1. \A m \in Members(h) : \E l \in M : IdsOf(m[2].stats) = IdsOf(l[2].stats)
    BY <1>7, <1>8
  <2>2. \A l \in M : \E m \in Members(h) : IdsOf(m[2].stats) = IdsOf(l[2].stats)
    BY <1>7, <1>9
  <2> QED BY <2>1, <2>2 DEF StatIdsOf
<1>13. Neat(h, W)
  BY <1>5, <1>10 DEF Neat
<1>14. Hung(h) = Hung(g)
  <2>1. ASSUME NEW t \in Hung(h) PROVE t \in Hung(g)
    <3>1. PICK m \in Members(h) : t = <<m[1], m[2].id, t[3]>> /\ t[3] \in IdsOf(m[2].stats)
      BY HungThere
    <3>2. PICK l \in M : m[1] = l[1] /\ m[2] = F[l[2]]
      BY <1>8
    <3>3. t = <<l[1], l[2].id, t[3]>> /\ t[3] \in IdsOf(l[2].stats)
      BY <1>7, <3>1, <3>2
    <3> QED BY <3>3, HungThere
  <2>2. ASSUME NEW t \in Hung(g) PROVE t \in Hung(h)
    <3>1. PICK l \in M : t = <<l[1], l[2].id, t[3]>> /\ t[3] \in IdsOf(l[2].stats)
      BY HungThere
    <3>2. PICK m \in Members(h) : m[1] = l[1] /\ m[2] = F[l[2]]
      BY <1>9
    <3>3. t = <<m[1], m[2].id, t[3]>> /\ t[3] \in IdsOf(m[2].stats)
      BY <1>7, <3>1, <3>2
    <3> QED BY <3>3, HungThere
  <2> QED BY <2>1, <2>2
<1> QED BY <1>5, <1>11, <1>12, <1>13, <1>14 DEF h

\* A store whose lists name everything once.
Tidy(f, U) ==
    /\ f = [connections |-> f.connections, groups |-> f.groups, stats |-> f.stats]
    /\ f.connections \in Seq(U) /\ IsInjective(f.connections)
    /\ Neat(f.groups, U)
    /\ f.stats \in Seq(StatCells(U)) /\ Distinct(f.stats)

\* A delta of things of U, and one that names everything it tells once.
Fits(dl, U) ==
    /\ dl.connected \in Seq(U) /\ dl.disconnected \in Seq(U)
    /\ dl.startedGroups \in Seq(U) /\ dl.startedNodes \in Seq(StartedCells(U))
    /\ dl.doneGroups \in Seq(U) /\ dl.doneNodes \in Seq(U)
    /\ dl.newStats \in Seq(NewCells(U))
TellsOnce(dl) ==
    /\ IsInjective(dl.connected) /\ IsInjective(dl.startedGroups)
    /\ Distinct(dl.startedNodes) /\ Distinct(dl.newStats)

\* What a delta tells and takes back, and what a store shows: things of four kinds.
Tells(dl) ==
    ({"link"} \X ToSet(dl.connected)) \cup ({"group"} \X ToSet(dl.startedGroups))
        \cup ({"node"} \X IdsOf(dl.startedNodes)) \cup ({"stat"} \X IdsOf(dl.newStats))
TakesBack(dl) ==
    ({"link"} \X ToSet(dl.disconnected)) \cup ({"group"} \X ToSet(dl.doneGroups))
        \cup ({"node"} \X ToSet(dl.doneNodes))
Shows(f) ==
    ({"link"} \X ToSet(f.connections)) \cup ({"group"} \X IdsOf(f.groups))
        \cup ({"node"} \X NodeIdsOf(f.groups)) \cup ({"stat"} \X (StatIdsOf(f.groups) \cup IdsOf(f.stats)))

\* Fewer members, fewer stats.
LEMMA FewerMembers ==
  ASSUME NEW g, NEW h, Members(g) \subseteq Members(h)
  PROVE  NodeIdsOf(g) \subseteq NodeIdsOf(h) /\ StatIdsOf(g) \subseteq StatIdsOf(h)
BY DEF NodeIdsOf, StatIdsOf

\* Ids of nodes can be told from the pairs of ids of groups and nodes.
LEMMA SamePairs ==
  ASSUME NEW g, NEW h, {<<m[1], m[2].id>> : m \in Members(g)} = {<<m[1], m[2].id>> : m \in Members(h)}
  PROVE  NodeIdsOf(g) = NodeIdsOf(h)
<1>1. \A m \in Members(g) : \E l \in Members(h) : m[2].id = l[2].id
  <2> TAKE m \in Members(g)
  <2>1. <<m[1], m[2].id>> \in {<<l[1], l[2].id>> : l \in Members(h)}
    OBVIOUS
  <2>2. PICK l \in Members(h) : <<m[1], m[2].id>> = <<l[1], l[2].id>>
    BY <2>1
  <2> QED BY <2>2
<1>2. \A m \in Members(h) : \E l \in Members(g) : m[2].id = l[2].id
  <2> TAKE m \in Members(h)
  <2>1. <<m[1], m[2].id>> \in {<<l[1], l[2].id>> : l \in Members(g)}
    OBVIOUS
  <2>2. PICK l \in Members(g) : <<m[1], m[2].id>> = <<l[1], l[2].id>>
    BY <2>1
  <2> QED BY <2>2
<1> QED BY <1>1, <1>2 DEF NodeIdsOf

\* What is left of S by a delta, and what of the ids of nodes it starts.
Spared(S, dl) == {x \in S : x[1] \notin ToSet(dl.doneGroups) /\ x[2] \notin ToSet(dl.doneNodes)}
Joined(groups, dl) ==
    {<<n.group, n.id>> : n \in {x \in ToSet(dl.startedNodes) : x.group \in groups \cup ToSet(dl.startedGroups)}}

\* What groups h have to do with groups g and a delta, when they are g after the delta...
GroupsRun(g, dl, h) ==
    h = SetAllValues(AddStats(FinishNodes(FinishGroups(
            StartNodes(StartGroups(g, dl.startedGroups), dl.startedNodes),
            dl.doneGroups), dl.doneNodes), dl.newStats), dl.values)

\* ...which finds nothing shown that it tells...
GroupsReady(W, g, dl) ==
    /\ NoValue \in W /\ Neat(g, W) /\ Fits(dl, W) /\ TellsOnce(dl)
    /\ ToSet(dl.startedGroups) \cap IdsOf(g) = {}
    /\ IdsOf(dl.startedNodes) \cap NodeIdsOf(g) = {}
    /\ IdsOf(dl.newStats) \cap StatIdsOf(g) = {}
    /\ \A x \in DOMAIN dl.values : dl.values[x] \in W

\* ...and what they show then.
GroupsMade(W, g, dl, h) ==
    /\ Neat(h, W)
    /\ IdsOf(h) = (IdsOf(g) \cup ToSet(dl.startedGroups)) \ ToSet(dl.doneGroups)
    /\ NodeIdsOf(h) \subseteq (NodeIdsOf(g) \cup IdsOf(dl.startedNodes)) \ ToSet(dl.doneNodes)
    /\ StatIdsOf(h) \subseteq StatIdsOf(g) \cup IdsOf(dl.newStats)
    /\ Seats(h) = Spared(Seats(g) \cup Joined(IdsOf(g), dl), dl)
    /\ Hung(h) = Spared(Hung(g), dl) \cup Hangs(dl.newStats, Seats(h))

\* The groups after a delta.
LEMMA GroupsAfter ==
  ASSUME NEW W, NEW g, NEW dl, NEW h, GroupsReady(W, g, dl), GroupsRun(g, dl, h)
  PROVE  GroupsMade(W, g, dl, h)
<1> DEFINE ids == dl.startedGroups
           started == dl.startedNodes
           newStats == dl.newStats
           doneGroups == dl.doneGroups
           doneNodes == dl.doneNodes
           values == dl.values
           a == StartGroups(g, ids)
           b == StartNodes(a, started)
           c == FinishGroups(b, doneGroups)
           e == FinishNodes(c, doneNodes)
           k == AddStats(e, newStats)
<1>0. /\ h = SetAllValues(k, values)
      /\ NoValue \in W /\ Neat(g, W)
      /\ ids \in Seq(W) /\ IsInjective(ids) /\ ToSet(ids) \cap IdsOf(g) = {}
      /\ started \in Seq(StartedCells(W)) /\ Distinct(started) /\ IdsOf(started) \cap NodeIdsOf(g) = {}
      /\ newStats \in Seq(NewCells(W)) /\ Distinct(newStats) /\ IdsOf(newStats) \cap StatIdsOf(g) = {}
      /\ doneGroups \in Seq(W) /\ doneNodes \in Seq(W)
      /\ \A x \in DOMAIN values : values[x] \in W
  BY DEF Fits, TellsOnce, GroupsReady, GroupsRun
<1> HIDE DEF ids, started, newStats, doneGroups, doneNodes, values
<1>1. Neat(a, W) /\ IdsOf(a) = IdsOf(g) \cup ToSet(ids) /\ Members(a) = Members(g)
  BY <1>0, GroupsStart
<1> HIDE DEF a
<1>2. NodeIdsOf(a) = NodeIdsOf(g) /\ StatIdsOf(a) = StatIdsOf(g)
  BY <1>1 DEF NodeIdsOf, StatIdsOf
<1>3. /\ Neat(b, W) /\ IdsOf(b) = IdsOf(a)
      /\ Members(b) = Members(a) \cup {NewNode(n) : n \in {x \in ToSet(started) : x.group \in IdsOf(a)}}
  BY <1>0, <1>1, <1>2, NodesStart
<1> HIDE DEF b
<1>4. NodeIdsOf(b) \subseteq NodeIdsOf(g) \cup IdsOf(started) /\ StatIdsOf(b) \subseteq StatIdsOf(g)
  <2>1. \A m \in Members(b) : \/ m \in Members(g)
                              \/ \E n \in ToSet(started) : m[2].id = n.id /\ m[2].stats = <<>>
    BY <1>1, <1>3 DEF NewNode
  <2>2. \A n \in ToSet(started) : n.id \in IdsOf(started)
    BY IdsOfSet
  <2>3. \A m : m[2].stats = <<>> => IdsOf(m[2].stats) = {}
    BY DEF IdsOf
  <2> QED BY <2>1, <2>2, <2>3 DEF NodeIdsOf, StatIdsOf
<1>5. /\ Neat(c, W) /\ IdsOf(c) = IdsOf(b) \ ToSet(doneGroups) /\ Members(c) \subseteq Members(b)
      /\ Members(c) = {m \in Members(b) : m[1] \notin ToSet(doneGroups)}
  BY <1>0, <1>3, GroupsFinish
<1> HIDE DEF c
<1>6. /\ Neat(e, W) /\ IdsOf(e) = IdsOf(c) /\ Members(e) = {m \in Members(c) : m[2].id \notin ToSet(doneNodes)}
  BY <1>0, <1>5, NodesFinish
<1> HIDE DEF e
<1>7. /\ Seats(e) = Spared(Seats(g) \cup Joined(IdsOf(g), dl), dl)
       /\ Hung(e) = Spared(Hung(g), dl)
  <2> DEFINE N == {x \in ToSet(started) : x.group \in IdsOf(g) \cup ToSet(ids)}
             New == {<<n.group, n.id>> : n \in N}
  <2>1. /\ Members(b) = Members(g) \cup {NewNode(n) : n \in N}
        /\ \A n : /\ NewNode(n)[1] = n.group /\ NewNode(n)[2].id = n.id
                   /\ IdsOf(NewNode(n)[2].stats) = {}
    <3>1. Members(b) = Members(g) \cup {NewNode(n) : n \in N}
      BY <1>1, <1>3
    <3>2. IdsOf(<<>>) = {}
      BY DEF IdsOf
    <3> QED BY <3>1, <3>2 DEF NewNode
  <2> HIDE DEF N
  <2>2. Seats(b) = Seats(g) \cup New
    BY <2>1 DEF Seats
  <2>3. Hung(b) = Hung(g)
    <3>1. ASSUME NEW x \in Hung(b) PROVE x \in Hung(g)
      <4>1. PICK m \in Members(b) : x \in {<<m[1], m[2].id, i>> : i \in IdsOf(m[2].stats)}
        BY DEF Hung
      <4>2. m \in Members(g)
        <5>1. IdsOf(m[2].stats) # {}
          BY <4>1
        <5> QED BY <2>1, <5>1
      <4> QED BY <4>1, <4>2 DEF Hung
    <3>2. ASSUME NEW x \in Hung(g) PROVE x \in Hung(b)
      <4>1. PICK m \in Members(g) : x \in {<<m[1], m[2].id, i>> : i \in IdsOf(m[2].stats)}
        BY DEF Hung
      <4>2. m \in Members(b)
        BY <2>1
      <4> QED BY <4>1, <4>2 DEF Hung
    <3> QED BY <3>1, <3>2
  <2>4. Members(e) = {m \in Members(b) : m[1] \notin ToSet(doneGroups) /\ m[2].id \notin ToSet(doneNodes)}
    BY <1>5, <1>6
  <2> DEFINE A == ToSet(doneGroups)
             B == ToSet(doneNodes)
             M == Members(b)
  <2>5. Seats(e) = {x \in Seats(b) : x[1] \notin A /\ x[2] \notin B}
    <3> HIDE DEF A, B, M
    <3>1. Members(e) = {m \in M : m[1] \notin A /\ m[2].id \notin B} /\ Seats(b) = {<<m[1], m[2].id>> : m \in M}
      BY <2>4 DEF A, B, M, Seats
    <3> QED BY <3>1 DEF Seats
  <2>6. Hung(e) = {x \in Hung(b) : x[1] \notin A /\ x[2] \notin B}
    <3>1. ASSUME NEW t \in Hung(e) PROVE t \in Hung(b) /\ t[1] \notin A /\ t[2] \notin B
      <4>1. PICK m \in Members(e) : t = <<m[1], m[2].id, t[3]>> /\ t[1] = m[1] /\ t[2] = m[2].id /\ t[3] \in IdsOf(m[2].stats)
        BY HungThere
      <4>2. m \in M /\ m[1] \notin A /\ m[2].id \notin B
        BY <2>4
      <4> HIDE DEF A, B, M
      <4>3. <<m[1], m[2].id, t[3]>> \in Hung(b)
        BY <4>1, <4>2, HungThere DEF M
      <4> QED BY <4>1, <4>2, <4>3
    <3>2. ASSUME NEW t \in Hung(b), t[1] \notin A, t[2] \notin B PROVE t \in Hung(e)
      <4>1. PICK m \in Members(b) : t = <<m[1], m[2].id, t[3]>> /\ t[1] = m[1] /\ t[2] = m[2].id /\ t[3] \in IdsOf(m[2].stats)
        BY HungThere
      <4>2. m \in Members(e)
        BY <2>4, <3>2, <4>1
      <4>3. <<m[1], m[2].id, t[3]>> \in Hung(e)
        BY <4>1, <4>2, HungThere
      <4> QED BY <4>1, <4>3
    <3> HIDE DEF A, B
    <3> QED BY <3>1, <3>2
  <2>7. New = Joined(IdsOf(g), dl)
    BY DEF Joined, N, started, ids
  <2>8. A = ToSet(dl.doneGroups) /\ B = ToSet(dl.doneNodes)
    BY DEF doneGroups, doneNodes
  <2> HIDE DEF A, B, New
  <2> QED BY <2>2, <2>3, <2>5, <2>6, <2>7, <2>8 DEF Spared
<1>8. /\ NodeIdsOf(e) \subseteq (NodeIdsOf(g) \cup IdsOf(started)) \ ToSet(doneNodes)
      /\ StatIdsOf(e) \subseteq StatIdsOf(g)
  <2>1. Members(e) \subseteq Members(b)
    BY <1>5, <1>6
  <2>2. NodeIdsOf(e) \subseteq NodeIdsOf(b) /\ StatIdsOf(e) \subseteq StatIdsOf(b)
    BY <2>1, FewerMembers
  <2>3. NodeIdsOf(e) \cap ToSet(doneNodes) = {}
    BY <1>6 DEF NodeIdsOf
  <2>4. NodeIdsOf(e) \subseteq NodeIdsOf(g) \cup IdsOf(started) /\ StatIdsOf(e) \subseteq StatIdsOf(g)
    BY <1>4, <2>2
  <2>5. \A n \in NodeIdsOf(e) : n \notin ToSet(doneNodes)
    BY <2>3
  <2> QED BY <2>4, <2>5
<1>9. /\ Neat(k, W) /\ IdsOf(k) = IdsOf(e)
      /\ {<<m[1], m[2].id>> : m \in Members(k)} = {<<m[1], m[2].id>> : m \in Members(e)}
      /\ StatIdsOf(k) = StatIdsOf(e) \cup {s.id : s \in {x \in ToSet(newStats) : x.node \in NodeIdsOf(e)}}
      /\ Hung(k) = Hung(e) \cup Hangs(newStats, Seats(e))
  <2>1. IdsOf(newStats) \cap StatIdsOf(e) = {}
    BY <1>0, <1>8
  <2>2. Neat(e, W) /\ newStats \in Seq(NewCells(W)) /\ Distinct(newStats)
    BY <1>0, <1>6
  <2> QED BY <1>0, <2>1, <2>2, StatsAdd
<1> HIDE DEF k
<1>10. NodeIdsOf(k) = NodeIdsOf(e)
  BY <1>9, SamePairs
<1>11. StatIdsOf(k) \subseteq StatIdsOf(g) \cup IdsOf(newStats)
  <2>1. IdsOf(newStats) = {s.id : s \in ToSet(newStats)}
    BY IdsOfSet
  <2> QED BY <1>8, <1>9, <2>1
<1>12. /\ Neat(h, W) /\ IdsOf(h) = IdsOf(k)
       /\ {<<m[1], m[2].id>> : m \in Members(h)} = {<<m[1], m[2].id>> : m \in Members(k)}
       /\ StatIdsOf(h) = StatIdsOf(k) /\ Hung(h) = Hung(k)
  <2> DEFINE q == SetAllValues(k, values)
  <2>1. /\ Neat(q, W) /\ IdsOf(q) = IdsOf(k)
        /\ {<<m[1], m[2].id>> : m \in Members(q)} = {<<m[1], m[2].id>> : m \in Members(k)}
        /\ StatIdsOf(q) = StatIdsOf(k) /\ Hung(q) = Hung(k)
    <3>1. \A x \in DOMAIN values : values[x] \in W
      BY <1>0
    <3> QED BY <1>9, <3>1, AllValuesSet
  <2>2. h = q
    BY <1>0
  <2> HIDE DEF q
  <2> QED BY <2>1, <2>2
<1>13. NodeIdsOf(h) = NodeIdsOf(k)
  BY <1>12, SamePairs
<1>14. Seats(h) = Seats(e) /\ Hung(h) = Hung(e) \cup Hangs(newStats, Seats(e))
  BY <1>9, <1>12 DEF Seats
<1>15. /\ Seats(h) = Spared(Seats(g) \cup Joined(IdsOf(g), dl), dl)
       /\ Hung(h) = Spared(Hung(g), dl) \cup Hangs(dl.newStats, Seats(h))
  BY <1>7, <1>14 DEF newStats
<1>16. /\ Neat(h, W)
       /\ IdsOf(h) = (IdsOf(g) \cup ToSet(dl.startedGroups)) \ ToSet(dl.doneGroups)
       /\ NodeIdsOf(h) \subseteq (NodeIdsOf(g) \cup IdsOf(dl.startedNodes)) \ ToSet(dl.doneNodes)
       /\ StatIdsOf(h) \subseteq StatIdsOf(g) \cup IdsOf(dl.newStats)
  BY <1>1, <1>3, <1>5, <1>6, <1>8, <1>9, <1>10, <1>11, <1>12, <1>13
     DEF ids, started, newStats, doneGroups, doneNodes
<1> QED BY <1>15, <1>16 DEF GroupsMade

\* A store that is tidy over U is so over any larger universe, and so a delta fits.
LEMMA TidyWidens ==
  ASSUME NEW U, NEW W, U \subseteq W, NEW f, Tidy(f, U)
  PROVE  Tidy(f, W)
<1>1. Neat(f.groups, W)
  BY Widens DEF Tidy
<1>2. Seq(StatCells(U)) \subseteq Seq(StatCells(W))
  <2>1. StatCells(U) \subseteq StatCells(W)
    BY DEF StatCells
  <2> HIDE DEF StatCells
  <2> QED BY <2>1
<1>3. Seq(U) \subseteq Seq(W)
  OBVIOUS
<1> QED BY <1>1, <1>2, <1>3 DEF Tidy

\* And so does a delta fit a larger universe.
LEMMA FitsWidens ==
  ASSUME NEW U, NEW W, U \subseteq W, NEW dl, Fits(dl, U)
  PROVE  Fits(dl, W)
<1>1. Seq(U) \subseteq Seq(W)
  OBVIOUS
<1>2. Seq(StartedCells(U)) \subseteq Seq(StartedCells(W))
  <2>1. StartedCells(U) \subseteq StartedCells(W)
    BY DEF StartedCells
  <2> HIDE DEF StartedCells
  <2> QED BY <2>1
<1>3. Seq(NewCells(U)) \subseteq Seq(NewCells(W))
  <2>1. NewCells(U) \subseteq NewCells(W)
    BY DEF NewCells
  <2> HIDE DEF NewCells
  <2> QED BY <2>1
<1> QED BY <1>1, <1>2, <1>3 DEF Fits

\* An empty store is tidy, and shows nothing.
LEMMA EmptyIsTidy ==
  ASSUME NEW U
  PROVE  Tidy(EmptyFlow, U) /\ Shows(EmptyFlow) = {}
<1>1. /\ EmptyFlow.connections = <<>> /\ EmptyFlow.groups = <<>> /\ EmptyFlow.stats = <<>>
      /\ EmptyFlow = [connections |-> EmptyFlow.connections, groups |-> EmptyFlow.groups, stats |-> EmptyFlow.stats]
  BY DEF EmptyFlow
<1>2. Members(<<>>) = {} /\ IdsOf(<<>>) = {} /\ Distinct(<<>>) /\ IsInjective(<<>>) /\ ToSet(<<>>) = {}
  BY DEF Members, IdsOf, Distinct, IsInjective, ToSet
<1>3. Apart({})
  BY DEF Apart
<1>4. Neat(<<>>, U)
  <2> DEFINE V == GroupCells(U)
  <2>1. <<>> \in Seq(V)
    OBVIOUS
  <2>2. DOMAIN <<>> = {}
    OBVIOUS
  <2> HIDE DEF V
  <2> QED BY <1>2, <1>3, <2>1, <2>2 DEF Neat, V
<1>5. Tidy(EmptyFlow, U)
  <2> DEFINE V == StatCells(U)
  <2>1. <<>> \in Seq(V) /\ <<>> \in Seq(U)
    OBVIOUS
  <2> QED BY <1>1, <1>2, <1>4, <2>1 DEF Tidy
<1>6. NodeIdsOf(<<>>) = {} /\ StatIdsOf(<<>>) = {}
  BY <1>2 DEF NodeIdsOf, StatIdsOf
<1> QED BY <1>1, <1>2, <1>5, <1>6 DEF Shows

\* What a store has after a delta, in its groups and of its own.
Makes(f, dl, e) ==
    /\ IdsOf(e.groups) = (IdsOf(f.groups) \cup ToSet(dl.startedGroups)) \ ToSet(dl.doneGroups)
    /\ Seats(e.groups) = Spared(Seats(f.groups) \cup Joined(IdsOf(f.groups), dl), dl)
    /\ Hung(e.groups) = Spared(Hung(f.groups), dl) \cup Hangs(dl.newStats, Seats(e.groups))
    /\ IdsOf(e.stats) = IdsOf(f.stats) \cup {s.id : s \in {x \in ToSet(dl.newStats) : x.node = NoNode}}

\* A delta that tells things once, none of which are shown, leaves a store tidy: it shows
\* some of what it did or was told, and nothing that was taken back.
LEMMA OnDeltaTidy ==
  ASSUME NEW U, NEW f, Tidy(f, U), NEW V, NEW dl, Fits(dl, V), TellsOnce(dl), Tells(dl) \cap Shows(f) = {}
  PROVE  /\ \E W : Tidy(OnDelta(f, dl), W)
         /\ Shows(OnDelta(f, dl)) \subseteq (Shows(f) \cup Tells(dl)) \ TakesBack(dl)
         /\ Makes(f, dl, OnDelta(f, dl))
<1> DEFINE W == U \cup V \cup {NoValue} \cup {dl.values[x] : x \in DOMAIN dl.values}
           e == OnDelta(f, dl)
           flowStats == NewStats(dl.newStats, NoNode)
           kept == {v \in ToSet(f.connections \o dl.connected) : \A c \in ToSet(dl.disconnected) : Survives(v, c)}
<1>1. Tidy(f, W)
  BY TidyWidens
<1>2. Fits(dl, W)
  BY FitsWidens
<1>3. /\ NoValue \in W
      /\ \A x \in DOMAIN dl.values : dl.values[x] \in W
  OBVIOUS
<1> HIDE DEF W
<1>4. /\ ToSet(dl.connected) \cap ToSet(f.connections) = {}
      /\ ToSet(dl.startedGroups) \cap IdsOf(f.groups) = {}
      /\ IdsOf(dl.startedNodes) \cap NodeIdsOf(f.groups) = {}
      /\ IdsOf(dl.newStats) \cap StatIdsOf(f.groups) = {}
      /\ IdsOf(dl.newStats) \cap IdsOf(f.stats) = {}
  <2> DEFINE A == Tells(dl)
             B == Shows(f)
  <2>1. /\ \A x \in ToSet(dl.connected) : <<"link", x>> \in A
        /\ \A x \in ToSet(dl.startedGroups) : <<"group", x>> \in A
        /\ \A x \in IdsOf(dl.startedNodes) : <<"node", x>> \in A
        /\ \A x \in IdsOf(dl.newStats) : <<"stat", x>> \in A
    BY DEF Tells
  <2>2. /\ \A x \in ToSet(f.connections) : <<"link", x>> \in B
        /\ \A x \in IdsOf(f.groups) : <<"group", x>> \in B
        /\ \A x \in NodeIdsOf(f.groups) : <<"node", x>> \in B
        /\ \A x \in StatIdsOf(f.groups) \cup IdsOf(f.stats) : <<"stat", x>> \in B
    BY DEF Shows
  <2>3. A \cap B = {}
    OBVIOUS
  <2> HIDE DEF A, B
  <2> QED BY <2>1, <2>2, <2>3
<1>5. /\ f.connections \in Seq(W) /\ IsInjective(f.connections) /\ Neat(f.groups, W)
      /\ f.stats \in Seq(StatCells(W)) /\ Distinct(f.stats)
  BY <1>1 DEF Tidy
<1>6. /\ dl.connected \in Seq(W) /\ dl.disconnected \in Seq(W)
      /\ dl.startedGroups \in Seq(W) /\ dl.startedNodes \in Seq(StartedCells(W))
      /\ dl.doneGroups \in Seq(W) /\ dl.doneNodes \in Seq(W)
      /\ dl.newStats \in Seq(NewCells(W))
      /\ IsInjective(dl.connected) /\ IsInjective(dl.startedGroups)
      /\ Distinct(dl.startedNodes) /\ Distinct(dl.newStats)
  BY <1>2 DEF Fits, TellsOnce
<1>7. /\ e = [connections |-> e.connections, groups |-> e.groups, stats |-> e.stats]
      /\ e.connections = Selected(f.connections \o dl.connected, kept)
      /\ e.groups = SetAllValues(AddStats(FinishNodes(FinishGroups(
                        StartNodes(StartGroups(f.groups, dl.startedGroups), dl.startedNodes),
                        dl.doneGroups), dl.doneNodes), dl.newStats), dl.values)
      /\ e.stats = SetValues(f.stats \o flowStats, dl.values)
  BY DEF OnDelta, Disconnect
<1> HIDE DEF e
<1>8. /\ Neat(e.groups, W)
      /\ IdsOf(e.groups) = (IdsOf(f.groups) \cup ToSet(dl.startedGroups)) \ ToSet(dl.doneGroups)
      /\ NodeIdsOf(e.groups) \subseteq (NodeIdsOf(f.groups) \cup IdsOf(dl.startedNodes)) \ ToSet(dl.doneNodes)
      /\ StatIdsOf(e.groups) \subseteq StatIdsOf(f.groups) \cup IdsOf(dl.newStats)
      /\ Seats(e.groups) = Spared(Seats(f.groups) \cup Joined(IdsOf(f.groups), dl), dl)
      /\ Hung(e.groups) = Spared(Hung(f.groups), dl) \cup Hangs(dl.newStats, Seats(e.groups))
  <2>1. GroupsReady(W, f.groups, dl)
    BY <1>2, <1>3, <1>4, <1>5 DEF GroupsReady
  <2>2. GroupsRun(f.groups, dl, e.groups)
    BY <1>7 DEF GroupsRun
  <2>3. GroupsMade(W, f.groups, dl, e.groups)
    BY <2>1, <2>2, GroupsAfter
  <2> QED BY <2>3 DEF GroupsMade
<1>9. /\ e.connections \in Seq(W) /\ IsInjective(e.connections)
      /\ ToSet(e.connections) \subseteq (ToSet(f.connections) \cup ToSet(dl.connected)) \ ToSet(dl.disconnected)
  <2> DEFINE all == f.connections \o dl.connected
  <2>1. all \in Seq(W)
    BY <1>5, <1>6
  <2>2. IsInjective(all)
    BY <1>4, <1>5, <1>6, ConcatOnce
  <2>3. ToSet(all) = ToSet(f.connections) \cup ToSet(dl.connected)
    BY <1>5, <1>6, ConcatSet
  <2>4. kept \cap ToSet(dl.disconnected) = {}
    BY DEF Survives
  <2> HIDE DEF all, kept
  <2>5. IsInjective(Selected(all, kept))
    BY <2>1, <2>2, SelectedOnce
  <2>6. Selected(all, kept) \in Seq(W \cap kept) /\ ToSet(Selected(all, kept)) = ToSet(all) \cap kept
    BY <2>1, SelectedProperties
  <2>7. Seq(W \cap kept) \subseteq Seq(W)
    OBVIOUS
  <2> QED BY <1>7, <2>3, <2>4, <2>5, <2>6, <2>7 DEF all
<1>10. /\ e.stats \in Seq(StatCells(W)) /\ Distinct(e.stats)
       /\ IdsOf(e.stats) \subseteq IdsOf(f.stats) \cup IdsOf(dl.newStats)
       /\ IdsOf(e.stats) = IdsOf(f.stats) \cup {s.id : s \in {x \in ToSet(dl.newStats) : x.node = NoNode}}
  <2>1. /\ flowStats \in Seq(StatCells(W)) /\ Distinct(flowStats)
        /\ IdsOf(flowStats) = {s.id : s \in {x \in ToSet(dl.newStats) : x.node = NoNode}}
    BY <1>3, <1>6, StatsComeNew
  <2> HIDE DEF flowStats
  <2>2. IdsOf(flowStats) \subseteq IdsOf(dl.newStats)
    <3>1. IdsOf(dl.newStats) = {s.id : s \in ToSet(dl.newStats)}
      BY IdsOfSet
    <3> QED BY <2>1, <3>1
  <2>3. /\ f.stats \o flowStats \in Seq(StatCells(W)) /\ Distinct(f.stats \o flowStats)
        /\ IdsOf(f.stats \o flowStats) = IdsOf(f.stats) \cup IdsOf(flowStats)
    <3>1. IdsOf(f.stats) \cap IdsOf(flowStats) = {}
      BY <1>4, <2>2
    <3> QED BY <1>5, <2>1, <3>1, ConcatDistinct
  <2>4. /\ SetValues(f.stats \o flowStats, dl.values) \in Seq(StatCells(W))
        /\ IdsOf(SetValues(f.stats \o flowStats, dl.values)) = IdsOf(f.stats \o flowStats)
        /\ Distinct(SetValues(f.stats \o flowStats, dl.values))
    <3> DEFINE q == f.stats \o flowStats
               values == dl.values
    <3>1. q \in Seq(StatCells(W)) /\ Distinct(q) /\ W \subseteq W /\ \A x \in DOMAIN values : values[x] \in W
      BY <1>3, <2>3
    <3> HIDE DEF q, values
    <3>2. /\ SetValues(q, values) \in Seq(StatCells(W))
          /\ IdsOf(SetValues(q, values)) = IdsOf(q) /\ Distinct(SetValues(q, values))
      BY <3>1, ValuesSet
    <3> QED BY <3>2 DEF q, values
  <2> QED BY <1>7, <2>1, <2>2, <2>3, <2>4
<1>11. Tidy(e, W)
  BY <1>7, <1>8, <1>9, <1>10 DEF Tidy
<1>12. ASSUME NEW s \in Shows(e) PROVE s \in (Shows(f) \cup Tells(dl)) \ TakesBack(dl)
  <2>1. CASE s \in {"link"} \X ToSet(e.connections)
    BY <1>9, <2>1 DEF Shows, Tells, TakesBack
  <2>2. CASE s \in {"group"} \X IdsOf(e.groups)
    BY <1>8, <2>2 DEF Shows, Tells, TakesBack
  <2>3. CASE s \in {"node"} \X NodeIdsOf(e.groups)
    BY <1>8, <2>3 DEF Shows, Tells, TakesBack
  <2>4. CASE s \in {"stat"} \X (StatIdsOf(e.groups) \cup IdsOf(e.stats))
    BY <1>8, <1>10, <2>4 DEF Shows, Tells, TakesBack
  <2> QED BY <2>1, <2>2, <2>3, <2>4 DEF Shows
<1>13. Makes(f, dl, e)
  BY <1>8, <1>10 DEF Makes
<1> QED BY <1>11, <1>12, <1>13 DEF e

\* The places of a store that is tidy: no two hold the same.
LEMMA TidyListsOnce ==
  ASSUME NEW U, NEW f, Tidy(f, U)
  PROVE  ListsOnce(f)
<1> DEFINE g == f.groups
<1>1. /\ g \in Seq(GroupCells(U)) /\ Distinct(g) /\ Apart(Members(g))
      /\ \A i \in DOMAIN g : Distinct(g[i].nodes)
      /\ IsInjective(f.connections) /\ Distinct(f.stats)
  BY DEF Tidy, Neat
<1>2. GroupsOnce(f)
  BY <1>1 DEF GroupsOnce, Distinct
<1>3. ASSUME NEW p \in NodePlaces(f)
      PROVE  /\ p = <<p[1], p[2]>> /\ p[1] \in DOMAIN g /\ p[2] \in DOMAIN g[p[1]].nodes
             /\ NodeAt(f, p) = g[p[1]].nodes[p[2]]
             /\ <<g[p[1]].id, NodeAt(f, p)>> \in Members(g)
  <2>1. PICK i \in DOMAIN g : p \in {<<i, j>> : j \in DOMAIN g[i].nodes}
    BY DEF NodePlaces
  <2>2. PICK j \in DOMAIN g[i].nodes : p = <<i, j>>
    BY <2>1
  <2>3. p[1] = i /\ p[2] = j
    BY <2>2
  <2>4. NodeAt(f, p) = g[i].nodes[j]
    BY <2>3 DEF NodeAt
  <2>5. g[i].nodes[j] \in ToSet(g[i].nodes)
    BY DEF ToSet
  <2> HIDE DEF g
  <2> QED BY <2>2, <2>3, <2>4, <2>5, MembersThere
<1>4. ASSUME NEW p \in NodePlaces(f), NEW q \in NodePlaces(f),
             <<g[p[1]].id, NodeAt(f, p)>> = <<g[q[1]].id, NodeAt(f, q)>>
      PROVE  p = q
  <2> HIDE DEF g
  <2>1. p[1] = q[1]
    BY <1>1, <1>3, <1>4 DEF Distinct
  <2>2. g[p[1]].nodes[p[2]].id = g[p[1]].nodes[q[2]].id
    BY <1>3, <1>4, <2>1
  <2>3. p[2] = q[2]
    <3> DEFINE ns == g[p[1]].nodes
    <3>1. Distinct(ns) /\ p[2] \in DOMAIN ns /\ q[2] \in DOMAIN ns
      BY <1>1, <1>3, <2>1
    <3>2. ns[p[2]].id = ns[q[2]].id
      BY <2>2
    <3> HIDE DEF ns
    <3> QED BY <3>1, <3>2 DEF Distinct
  <2> QED BY <1>3, <2>1, <2>3
<1>5. NodesOnce(f)
  <2> SUFFICES ASSUME NEW p \in NodePlaces(f), NEW q \in NodePlaces(f), NodeAt(f, p).id = NodeAt(f, q).id
               PROVE  p = q
    BY DEF NodesOnce
  <2> DEFINE m == <<g[p[1]].id, NodeAt(f, p)>>
             l == <<g[q[1]].id, NodeAt(f, q)>>
  <2>1. m \in Members(g) /\ l \in Members(g) /\ m[2].id = l[2].id
    BY <1>3
  <2> HIDE DEF g
  <2>2. m = l
    BY <1>1, <2>1 DEF Apart
  <2> QED BY <1>4, <2>2
<1>6. ASSUME NEW x \in StatPlaces(f)
      PROVE  \E p \in NodePlaces(f) : \E k \in DOMAIN NodeAt(f, p).stats :
                x = <<p[1], p[2], k>> /\ StatAt(f, x) = NodeAt(f, p).stats[k]
  <2>1. PICK p \in NodePlaces(f) : x \in {<<p[1], p[2], k>> : k \in DOMAIN NodeAt(f, p).stats}
    BY DEF StatPlaces
  <2>2. PICK k \in DOMAIN NodeAt(f, p).stats : x = <<p[1], p[2], k>>
    BY <2>1
  <2>3. x[1] = p[1] /\ x[2] = p[2] /\ x[3] = k
    BY <2>2
  <2>4. NodeAt(f, x) = NodeAt(f, p)
    BY <2>3 DEF NodeAt
  <2> QED BY <2>2, <2>3, <2>4 DEF StatAt
<1>7. ASSUME NEW x \in StatPlaces(f), NEW y \in StatPlaces(f), StatAt(f, x).id = StatAt(f, y).id PROVE x = y
  <2>1. PICK p \in NodePlaces(f) : \E k \in DOMAIN NodeAt(f, p).stats :
            x = <<p[1], p[2], k>> /\ StatAt(f, x) = NodeAt(f, p).stats[k]
    BY <1>6
  <2>2. PICK i \in DOMAIN NodeAt(f, p).stats : x = <<p[1], p[2], i>> /\ StatAt(f, x) = NodeAt(f, p).stats[i]
    BY <2>1
  <2>3. PICK q \in NodePlaces(f) : \E k \in DOMAIN NodeAt(f, q).stats :
            y = <<q[1], q[2], k>> /\ StatAt(f, y) = NodeAt(f, q).stats[k]
    BY <1>6
  <2>4. PICK j \in DOMAIN NodeAt(f, q).stats : y = <<q[1], q[2], j>> /\ StatAt(f, y) = NodeAt(f, q).stats[j]
    BY <2>3
  <2> DEFINE m == <<g[p[1]].id, NodeAt(f, p)>>
             l == <<g[q[1]].id, NodeAt(f, q)>>
             ms == NodeAt(f, p).stats
             ls == NodeAt(f, q).stats
  <2>5. m \in Members(g) /\ l \in Members(g) /\ m[2].stats = ms /\ l[2].stats = ls
    BY <1>3
  <2>6. ms[i].id \in IdsOf(ms) /\ ls[j].id \in IdsOf(ls) /\ ms[i].id = ls[j].id
    BY <1>7, <2>2, <2>4 DEF IdsOf
  <2> HIDE DEF g
  <2>7. m = l
    BY <1>1, <2>5, <2>6 DEF Apart
  <2>8. p = q
    BY <1>4, <2>7
  <2>9. Distinct(ms)
    BY <1>1, <2>5 DEF Apart
  <2>10. i = j
    BY <2>2, <2>4, <2>6, <2>8, <2>9 DEF Distinct
  <2> QED BY <2>2, <2>4, <2>8, <2>10
<1>8. StatsOnce(f)
  BY <1>1, <1>7 DEF StatsOnce, Distinct
<1> QED BY <1>1, <1>2, <1>5, <1>8 DEF ListsOnce

---------------------------------------------------------------------------
(* A replay is over before the page is live again.                         *)

\* The page is in a replay whenever it is about to be shown a line, and will be in one
\* when it has heard everything, unless the worker has nothing.
Follows(r, q, w) == \E h : /\ HearsOut(h, r, q)
                           /\ w = NoRecording \/ h[Len(q)].done
                           /\ \A i \in 1 .. Len(q) : q[i].name \in {"delta", "opened"} => h[i - 1].done
ReplayInv == toPage \in Seq(ToSet(toPage)) /\ Follows(replay, toPage, worker)

\* A replay made of its fields.
LEMMA ReplayMade ==
  ASSUME NEW r, NEW i, NEW p, NEW done \in BOOLEAN, NEW ats,
         r = [ats |-> ats, idx |-> i, progress |-> p, done |-> done]
  PROVE  IsReplay(r) /\ r.done = done
BY DEF IsReplay

\* A replay of which two fields are changed.
LEMMA ReplayChanged ==
  ASSUME NEW r, NEW ats, NEW i, NEW p, NEW done, r = [ats |-> ats, idx |-> i, progress |-> p, done |-> done],
         NEW v, NEW w
  PROVE  /\ [r EXCEPT !.ats = v, !.idx = w] = [ats |-> v, idx |-> w, progress |-> p, done |-> done]
         /\ [r EXCEPT !.progress = v, !.done = w] = [ats |-> ats, idx |-> i, progress |-> v, done |-> w]
<1> DEFINE a == [r EXCEPT !.ats = v]
           b == [r EXCEPT !.progress = v]
<1>1. a = [ats |-> v, idx |-> i, progress |-> p, done |-> done]
  OBVIOUS
<1>2. b = [ats |-> ats, idx |-> i, progress |-> v, done |-> done]
  OBVIOUS
<1>3. [r EXCEPT !.ats = v, !.idx = w] = [a EXCEPT !.idx = w]
  OBVIOUS
<1>4. [r EXCEPT !.progress = v, !.done = w] = [b EXCEPT !.done = w]
  OBVIOUS
<1> HIDE DEF a, b
<1>5. [a EXCEPT !.idx = w] = [ats |-> v, idx |-> w, progress |-> p, done |-> done]
  BY <1>1
<1>6. [b EXCEPT !.done = w] = [ats |-> ats, idx |-> i, progress |-> v, done |-> w]
  BY <1>2
<1> QED BY <1>3, <1>4, <1>5, <1>6

\* One message more.
LEMMA FollowsOneMore ==
  ASSUME NEW r, NEW S, NEW q \in Seq(S), NEW w, Follows(r, q, w), NEW m,
         m.name \in {"cleared", "delta", "opened", "progress"},
         m.name \in {"delta", "opened"} => w # NoRecording,
         NEW w2, \/ w2 = NoRecording
                 \/ m.name # "cleared" /\ w # NoRecording
                 \/ m.name = "progress" /\ m.elapsed = 100
  PROVE  Follows(r, Append(q, m), w2)
<1> DEFINE n == Len(q)
           a == Append(q, m)
<1>1. PICK h : /\ HearsOut(h, r, q)
               /\ w = NoRecording \/ h[n].done
               /\ \A i \in 1 .. n : q[i].name \in {"delta", "opened"} => h[i - 1].done
  BY DEF Follows
<1>2. /\ n \in Nat /\ Len(a) = n + 1 /\ a[n + 1] = m /\ \A i \in 1 .. n : a[i] = q[i]
  OBVIOUS
<1>3. IsReplay(h[n])
  <2>1. n \in 0 .. n
    BY <1>2
  <2> QED BY <1>1, <2>1 DEF HearsOut
<1>4. /\ IsReplay(After(h[n], m))
      /\ m.name \in {"delta", "opened"} => After(h[n], m).done = h[n].done
      /\ m.name = "progress" => After(h[n], m).done = (h[n].done \/ m.elapsed = 100)
  <2> DEFINE x == h[n]
             y == After(x, m)
  <2>0. x = [ats |-> x.ats, idx |-> x.idx, progress |-> x.progress, done |-> x.done] /\ x.done \in BOOLEAN
    BY <1>3 DEF IsReplay
  <2> HIDE DEF x
  <2>1. CASE m.name = "cleared"
    <3>1. y = NoReplay
      BY <2>1 DEF After
    <3>2. IsReplay(NoReplay)
      BY DEF IsReplay, NoReplay
    <3>3. m.name \notin {"delta", "opened", "progress"}
      BY <2>1
    <3> QED BY <3>1, <3>2, <3>3 DEF x
  <2>2. CASE m.name = "delta"
    <3>1. y = [x EXCEPT !.idx = m.idx]
      BY <2>2 DEF After
    <3>2. y = [ats |-> x.ats, idx |-> m.idx, progress |-> x.progress, done |-> x.done]
      BY <2>0, <3>1
    <3>3. m.name # "progress"
      BY <2>2
    <3> HIDE DEF y
    <3>4. y.done = x.done /\ IsReplay(y)
      BY <2>0, <3>2, ReplayMade
    <3> QED BY <3>3, <3>4 DEF x, y
  <2>3. CASE m.name = "opened"
    <3>1. y = [x EXCEPT !.ats = m.ats, !.idx = m.idx]
      BY <2>3 DEF After
    <3>2. y = [ats |-> m.ats, idx |-> m.idx, progress |-> x.progress, done |-> x.done]
      <4> HIDE DEF y
      <4> QED BY <2>0, <3>1, ReplayChanged
    <3>3. m.name # "progress"
      BY <2>3
    <3> HIDE DEF y
    <3>4. y.done = x.done /\ IsReplay(y)
      BY <2>0, <3>2, ReplayMade
    <3> QED BY <3>3, <3>4 DEF x, y
  <2>4. CASE m.name = "progress"
    <3>1. y = [x EXCEPT !.progress = m.elapsed, !.done = x.done \/ m.elapsed = 100]
      BY <2>4 DEF After
    <3>2. y = [ats |-> x.ats, idx |-> x.idx, progress |-> m.elapsed, done |-> (x.done \/ m.elapsed = 100)]
      <4> HIDE DEF y
      <4> QED BY <2>0, <3>1, ReplayChanged
    <3>3. m.name \notin {"delta", "opened"}
      BY <2>4
    <3>4. (x.done \/ m.elapsed = 100) \in BOOLEAN
      BY <2>0
    <3> HIDE DEF y
    <3>5. y.done = (x.done \/ m.elapsed = 100) /\ IsReplay(y)
      BY <3>2, <3>4, ReplayMade
    <3> QED BY <3>3, <3>5 DEF x, y
  <2> QED BY <2>1, <2>2, <2>3, <2>4
<1>5. PICK h2 : /\ HearsOut(h2, r, a) /\ h2[n + 1] = After(h[n], m)
                /\ \A i \in 0 .. n : h2[i] = h[i]
  BY <1>1, <1>4, HearsOneMore
<1>6. w2 = NoRecording \/ h2[Len(a)].done
  BY <1>1, <1>2, <1>4, <1>5
<1>7. ASSUME NEW i \in 1 .. Len(a), a[i].name \in {"delta", "opened"} PROVE h2[i - 1].done
  <2>1. CASE i = n + 1
    <3>1. h2[i - 1] = h[n]
      BY <1>2, <1>5, <2>1
    <3> QED BY <1>1, <1>2, <1>7, <2>1, <3>1
  <2>2. CASE i # n + 1
    <3>1. i \in 1 .. n /\ i - 1 \in 0 .. n
      BY <1>2, <2>2
    <3> QED BY <1>1, <1>2, <1>5, <1>7, <3>1
  <2> QED BY <2>1, <2>2
<1> QED BY <1>5, <1>6, <1>7 DEF Follows

\* One message less, which the page has heard.
LEMMA FollowsHeard ==
  ASSUME NEW r, NEW S, NEW q \in Seq(S), q # <<>>, NEW w, Follows(r, q, w)
  PROVE  /\ Follows(After(r, Head(q)), Tail(q), w)
         /\ Head(q).name \in {"delta", "opened"} => r.done
         /\ After(r, Head(q)).done \in BOOLEAN /\ r.done \in BOOLEAN
<1>1. PICK h : /\ HearsOut(h, r, q)
               /\ w = NoRecording \/ h[Len(q)].done
               /\ \A i \in 1 .. Len(q) : q[i].name \in {"delta", "opened"} => h[i - 1].done
  BY DEF Follows
<1>2. h[1] = After(r, Head(q)) /\ IsReplay(h[1])
  BY <1>1, HeardOne
<1>3. PICK h2 : /\ HearsOut(h2, After(r, Head(q)), Tail(q))
                /\ Len(q) = Len(Tail(q)) + 1 /\ Len(Tail(q)) \in Nat
                /\ \A i \in 0 .. Len(Tail(q)) : h2[i] = h[i + 1]
  BY <1>1, HeardOne
<1> DEFINE n == Len(Tail(q))
<1>4. n \in Nat /\ Head(q) = q[1] /\ \A i \in 1 .. n : Tail(q)[i] = q[i + 1]
  OBVIOUS
<1>5. h2[n] = h[Len(q)]
  BY <1>3
<1>6. ASSUME NEW i \in 1 .. n, Tail(q)[i].name \in {"delta", "opened"} PROVE h2[i - 1].done
  <2>1. i + 1 \in 1 .. Len(q) /\ i - 1 \in 0 .. n /\ (i - 1) + 1 = i /\ (i + 1) - 1 = i
    BY <1>3, <1>4
  <2>2. q[i + 1].name \in {"delta", "opened"}
    BY <1>4, <1>6
  <2>3. h[i].done
    BY <1>1, <2>1, <2>2
  <2> QED BY <1>3, <2>1, <2>3
<1>7. h[0] = r /\ IsReplay(h[0])
  <2>1. 0 \in 0 .. Len(q)
    BY <1>3
  <2> QED BY <1>1, <2>1 DEF HearsOut
<1>8. Head(q).name \in {"delta", "opened"} => r.done
  <2>1. 1 \in 1 .. Len(q) /\ 1 - 1 = 0
    BY <1>3
  <2> QED BY <1>1, <1>4, <1>7, <2>1
<1>9. After(r, Head(q)).done \in BOOLEAN /\ r.done \in BOOLEAN
  BY <1>2, <1>7 DEF IsReplay
<1> QED BY <1>1, <1>3, <1>5, <1>6, <1>8, <1>9 DEF Follows

\* Forgetting all, or nothing, asks for nothing more.
LEMMA FollowsStill ==
  ASSUME NEW r, NEW q, NEW w, Follows(r, q, w), NEW w2, w = NoRecording => w2 = NoRecording
  PROVE  Follows(r, q, w2)
BY DEF Follows

\* The worker clears.
LEMMA FollowsCleared ==
  ASSUME NEW r, NEW q, q \in Seq(ToSet(q)), NEW w, Follows(r, q, w)
  PROVE  /\ q \o ClearedMessage(w) \in Seq(ToSet(q \o ClearedMessage(w)))
         /\ Follows(r, q \o ClearedMessage(w), Cleared(w))
<1> DEFINE V == ToSet(q)
<1>0. q \in Seq(V)
  OBVIOUS
<1> HIDE DEF V
<1>1. CASE w.current.idx = NoIdx
  <2>1. Cleared(w) = w /\ ClearedMessage(w) = <<>> /\ q \o <<>> = q
    BY <1>0, <1>1 DEF Cleared, ClearedMessage
  <2> QED BY <2>1
<1>2. CASE w.current.idx # NoIdx
  <2> DEFINE m == [name |-> "cleared"]
  <2>0. m.name = "cleared"
    OBVIOUS
  <2> HIDE DEF m
  <2>1. Cleared(w) = NoRecording /\ q \o ClearedMessage(w) = Append(q, m)
    <3>1. Cleared(w) = NoRecording /\ ClearedMessage(w) = <<m>>
      BY <1>2 DEF Cleared, ClearedMessage, m
    <3> DEFINE S == V \cup {m}
    <3>2. q \in Seq(S) /\ m \in S
      BY <1>0
    <3> HIDE DEF S
    <3> QED BY <3>1, <3>2
  <2>2. Follows(r, Append(q, m), NoRecording)
    <3>1. m.name \in {"cleared", "delta", "opened", "progress"} /\ m.name \notin {"delta", "opened"}
      BY <2>0
    <3> QED BY <1>0, <3>1, FollowsOneMore
  <2> QED BY <2>1, <2>2, Queues
<1> QED BY <1>1, <1>2

\* The worker goes to a line, if there is one.
LEMMA FollowsGoes ==
  ASSUME NEW r, NEW q, q \in Seq(ToSet(q)), NEW w, Follows(r, q, w),
         NEW w1, w = NoRecording => w1 = NoRecording, NEW idx, NEW clear
  PROVE  IF InRange(w1, idx)
         THEN LET q2 == Append(q, DeltaMessage(w1, idx, clear))
              IN  q2 \in Seq(ToSet(q2)) /\ Follows(r, q2, BuildDelta(w1, idx).worker)
         ELSE Follows(r, q, w1)
<1> DEFINE V == ToSet(q)
<1>0. q \in Seq(V)
  OBVIOUS
<1> HIDE DEF V
<1>1. CASE InRange(w1, idx)
  <2> DEFINE m == DeltaMessage(w1, idx, clear)
             w2 == BuildDelta(w1, idx).worker
  <2>1. m.name = "delta"
    BY DEF DeltaMessage
  <2> HIDE DEF m, w2
  <2>2. w # NoRecording
    BY <1>1 DEF InRange, NoRecording
  <2>3. m.name \in {"cleared", "delta", "opened", "progress"} /\ m.name # "cleared"
    BY <2>1
  <2>4. Follows(r, Append(q, m), w2)
    BY <1>0, <2>2, <2>3, FollowsOneMore
  <2> QED BY <1>1, <2>4, Queues DEF m, w2
<1>2. CASE ~InRange(w1, idx)
  BY <1>2, FollowsStill
<1> QED BY <1>1, <1>2

\* The worker has read a file.
LEMMA FollowsLoads ==
  ASSUME NEW r, NEW q, q \in Seq(ToSet(q)), NEW w, Follows(r, q, w), NEW w2, NEW ats, NEW dl, NEW idx
  PROVE  LET q2 == q \o << [name |-> "progress", elapsed |-> 50], [name |-> "progress", elapsed |-> 100],
                           [name |-> "opened", ats |-> ats, delta |-> dl, idx |-> idx] >>
         IN  q2 \in Seq(ToSet(q2)) /\ Follows(r, q2, w2)
<1> DEFINE a == [name |-> "progress", elapsed |-> 50]
           b == [name |-> "progress", elapsed |-> 100]
           c == [name |-> "opened", ats |-> ats, delta |-> dl, idx |-> idx]
           some == [NoRecording EXCEPT !.values = <<1>>]
<1>1. a.name = "progress" /\ b.name = "progress" /\ b.elapsed = 100 /\ c.name = "opened"
  OBVIOUS
<1>2. some # NoRecording
  BY DEF NoRecording
<1> HIDE DEF a, b, c, some
<1> DEFINE q1 == Append(q, a)
           q2 == Append(q1, b)
           q3 == Append(q2, c)
<1>3. q1 \in Seq(ToSet(q1)) /\ q2 \in Seq(ToSet(q2)) /\ q3 \in Seq(ToSet(q3))
  <2>1. q1 \in Seq(ToSet(q1))
    BY Queues
  <2> HIDE DEF q1
  <2>2. q2 \in Seq(ToSet(q2))
    BY <2>1, Queues
  <2> HIDE DEF q2
  <2>3. q3 \in Seq(ToSet(q3))
    BY <2>2, Queues
  <2> QED BY <2>1, <2>2, <2>3
<1>4. q3 = q \o <<a, b, c>>
  <2> DEFINE S == ToSet(q) \cup {a, b, c}
  <2>1. q \in Seq(S) /\ a \in S /\ b \in S /\ c \in S
    <3> DEFINE V == ToSet(q)
    <3>1. q \in Seq(V)
      OBVIOUS
    <3> HIDE DEF V
    <3> QED BY <3>1 DEF V
  <2> HIDE DEF S
  <2> QED BY <2>1
<1>5. Follows(r, q1, w)
  <2> DEFINE V == ToSet(q)
  <2>1. q \in Seq(V)
    OBVIOUS
  <2> HIDE DEF V
  <2>2. a.name \in {"cleared", "delta", "opened", "progress"} /\ a.name \notin {"delta", "opened"} /\ a.name # "cleared"
    BY <1>1
  <2> QED BY <2>1, <2>2, FollowsOneMore
<1> HIDE DEF q1
<1>6. Follows(r, q2, some)
  <2> DEFINE V == ToSet(q1)
  <2>1. q1 \in Seq(V)
    BY <1>3
  <2> HIDE DEF V
  <2>2. b.name \in {"cleared", "delta", "opened", "progress"} /\ b.name \notin {"delta", "opened"}
    BY <1>1
  <2> QED BY <1>1, <1>5, <2>1, <2>2, FollowsOneMore
<1> HIDE DEF q2
<1>7. Follows(r, q3, w2)
  <2> DEFINE V == ToSet(q2)
  <2>1. q2 \in Seq(V)
    BY <1>3
  <2> HIDE DEF V
  <2>2. c.name \in {"cleared", "delta", "opened", "progress"} /\ c.name # "cleared"
    BY <1>1
  <2> QED BY <1>2, <1>6, <2>1, <2>2, FollowsOneMore
<1> QED BY <1>3, <1>4, <1>7 DEF a, b, c

\* Whatever the worker does.
LEMMA WorkerFollows ==
  ASSUME ReplayInv, WorkerStep, UNCHANGED replay
  PROVE  ReplayInv'
<1>0. toPage \in Seq(ToSet(toPage)) /\ Follows(replay, toPage, worker) /\ replay' = replay
  BY DEF ReplayInv
<1>1. CASE WorkerClear
  <2>1. worker' = Cleared(worker) /\ toPage' = toPage \o ClearedMessage(worker)
    BY <1>1 DEF WorkerClear
  <2> QED BY <1>0, <2>1, FollowsCleared DEF ReplayInv
<1>2. CASE WorkerOpen
  <2> DEFINE m == [name |-> "progress", elapsed |-> 0]
             q == toPage \o ClearedMessage(worker)
             w == Cleared(worker)
             V == ToSet(q)
  <2>1. worker' = w /\ toPage' = Append(q, m)
    BY <1>2 DEF WorkerOpen
  <2>2. m.name \in {"cleared", "delta", "opened", "progress"} /\ m.name \notin {"delta", "opened"} /\ m.name # "cleared"
    OBVIOUS
  <2>3. q \in Seq(V) /\ Follows(replay, q, w)
    BY <1>0, FollowsCleared
  <2> HIDE DEF q, w, m
  <2>4. Append(q, m) \in Seq(ToSet(Append(q, m)))
    BY <2>3, Queues
  <2> HIDE DEF V
  <2>5. Follows(replay, Append(q, m), w)
    BY <2>2, <2>3, FollowsOneMore
  <2> QED BY <1>0, <2>1, <2>4, <2>5 DEF ReplayInv
<1>3. ASSUME NEW w1, worker = NoRecording => w1 = NoRecording, NEW idx, NEW clear, GoTo(w1, idx, clear)
      PROVE  ReplayInv'
  <2>1. IF InRange(w1, idx)
        THEN worker' = BuildDelta(w1, idx).worker /\ toPage' = Append(toPage, DeltaMessage(w1, idx, clear))
        ELSE worker' = w1 /\ toPage' = toPage
    BY <1>3 DEF GoTo
  <2>2. IF InRange(w1, idx)
        THEN LET q2 == Append(toPage, DeltaMessage(w1, idx, clear))
             IN  q2 \in Seq(ToSet(q2)) /\ Follows(replay, q2, BuildDelta(w1, idx).worker)
        ELSE Follows(replay, toPage, w1)
    BY <1>0, <1>3, FollowsGoes
  <2> QED BY <1>0, <2>1, <2>2 DEF ReplayInv
<1>4. CASE WorkerNext
  <2>1. GoTo(worker, NextIdx(worker), FALSE)
    BY <1>4 DEF WorkerNext
  <2> DEFINE idx == NextIdx(worker)
             no == FALSE
  <2>2. GoTo(worker, idx, no)
    BY <2>1
  <2> HIDE DEF idx, no
  <2> QED BY <1>3, <2>2
<1>5. CASE WorkerPrevious
  <2>1. GoTo(worker, PreviousIdx(worker), FALSE)
    BY <1>5 DEF WorkerPrevious
  <2> DEFINE idx == PreviousIdx(worker)
             no == FALSE
  <2>2. GoTo(worker, idx, no)
    BY <2>1
  <2> HIDE DEF idx, no
  <2> QED BY <1>3, <2>2
<1>6. CASE WorkerSeek
  <2> DEFINE w1 == [worker EXCEPT !.current = NoCurrent]
             idx == Head(toWorker).idx
             yes == TRUE
  <2>1. GoTo(w1, idx, yes)
    BY <1>6 DEF WorkerSeek
  <2>2. worker = NoRecording => w1 = NoRecording
    <3> DEFINE a == {}
               b == <<>>
    <3>0. NoRecording = [groups |-> a, nodes |-> b, stats |-> b, values |-> b, current |-> NoCurrent]
      BY DEF NoRecording
    <3> HIDE DEF a, b
    <3>1. [NoRecording EXCEPT !.current = NoCurrent] = NoRecording
      BY <3>0
    <3> QED BY <3>1
  <2> HIDE DEF w1, idx, yes
  <2> QED BY <1>3, <2>1, <2>2
<1>7. CASE \E file \in Recordings : WorkerLoad(file)
  <2>1. PICK file \in Recordings : WorkerLoad(file)
    BY <1>7
  <2>2. PICK dl, idx : toPage' = toPage \o
          << [name |-> "progress", elapsed |-> 50], [name |-> "progress", elapsed |-> 100],
             [name |-> "opened", ats |-> AtsOf(file), delta |-> dl, idx |-> idx] >>
    BY <2>1 DEF WorkerLoad
  <2> DEFINE ats == AtsOf(file)
             w2 == worker'
  <2>3. toPage' = toPage \o
          << [name |-> "progress", elapsed |-> 50], [name |-> "progress", elapsed |-> 100],
             [name |-> "opened", ats |-> ats, delta |-> dl, idx |-> idx] >>
    BY <2>2
  <2> HIDE DEF ats, w2
  <2>4. LET q2 == toPage \o << [name |-> "progress", elapsed |-> 50], [name |-> "progress", elapsed |-> 100],
                           [name |-> "opened", ats |-> ats, delta |-> dl, idx |-> idx] >>
        IN  q2 \in Seq(ToSet(q2)) /\ Follows(replay, q2, w2)
    BY <1>0, FollowsLoads
  <2> QED BY <1>0, <2>3, <2>4 DEF ReplayInv, w2
<1> QED BY <1>1, <1>2, <1>4, <1>5, <1>6, <1>7 DEF WorkerStep, WorkerHandles

\* Whatever the page hears: a line is shown to a page that is in a replay.
LEMMA PageFollows ==
  ASSUME ReplayInv, PageHears
  PROVE  /\ ReplayInv'
         /\ OnWorkerDelta \/ OnWorkerOpened => replay.done
         /\ OnWorkerDelta \/ OnWorkerOpened \/ OnWorkerProgress => (replay.done => replay'.done)
<1>0. toPage \in Seq(ToSet(toPage)) /\ Follows(replay, toPage, worker)
  BY DEF ReplayInv
<1>1. toPage # <<>> /\ toPage' = Tail(toPage) /\ worker' = worker
  BY DEF PageHears, OnWorkerCleared, OnWorkerDelta, OnWorkerOpened, OnWorkerProgress, Hears, HeardUnchanged
<1>2. replay' = After(replay, Head(toPage))
  BY DEF PageHears, OnWorkerCleared, OnWorkerDelta, OnWorkerOpened, OnWorkerProgress, Hears, After
<1>3. Tail(toPage) \in Seq(ToSet(Tail(toPage)))
  BY <1>0, <1>1, Queues
<1> DEFINE V == ToSet(toPage)
<1>4. toPage \in Seq(V)
  BY <1>0
<1> HIDE DEF V
<1>5. /\ Follows(After(replay, Head(toPage)), Tail(toPage), worker)
      /\ Head(toPage).name \in {"delta", "opened"} => replay.done
  BY <1>0, <1>1, <1>4, FollowsHeard
<1>6. IsReplay(replay)
  <2>1. PICK h : HearsOut(h, replay, toPage)
    BY <1>0 DEF Follows
  <2>2. 0 \in 0 .. Len(toPage)
    BY <1>4
  <2> QED BY <2>1, <2>2 DEF HearsOut
<1>7. OnWorkerDelta \/ OnWorkerOpened => replay.done
  BY <1>5 DEF OnWorkerDelta, OnWorkerOpened, Hears
<1>8. OnWorkerDelta \/ OnWorkerOpened \/ OnWorkerProgress => (replay.done => replay'.done)
  BY <1>6 DEF OnWorkerDelta, OnWorkerOpened, OnWorkerProgress, IsReplay
<1> QED BY <1>1, <1>2, <1>3, <1>5, <1>7, <1>8 DEF ReplayInv

\* No recording, and nothing said.
LEMMA InitFollows == Init => ReplayInv
<1> SUFFICES ASSUME Init PROVE ReplayInv
  OBVIOUS
<1>1. worker = NoRecording /\ toPage = <<>> /\ replay = NoReplay
  BY DEF Init, WorkerInit
<1>2. Len(<<>>) = 0
  OBVIOUS
<1> DEFINE h == [i \in 0 .. 0 |-> NoReplay]
<1>3. IsReplay(NoReplay)
  BY DEF IsReplay, NoReplay
<1>4. h[0] = NoReplay /\ h = [i \in 0 .. 0 |-> h[i]] /\ \A i \in 0 .. 0 : i = 0
  OBVIOUS
<1> HIDE DEF h
<1>5. HearsOut(h, NoReplay, <<>>)
  BY <1>2, <1>3, <1>4 DEF HearsOut
<1>6. Follows(NoReplay, <<>>, NoRecording)
  BY <1>5 DEF Follows
<1> QED BY <1>1, <1>6 DEF ReplayInv

\* No step brings the page and the worker out of turn.
LEMMA NextFollows == ReplayInv /\ [Next]_vars => ReplayInv'
<1> SUFFICES ASSUME ReplayInv, [Next]_vars PROVE ReplayInv'
  OBVIOUS
<1>1. CASE UNCHANGED <<replay, worker, toPage>>
  BY <1>1 DEF ReplayInv
<1>2. CASE WorkerMoves
  BY <1>2, WorkerFollows DEF WorkerMoves, pageVars
<1>3. CASE PageHears
  BY <1>3, PageFollows
<1>4. Mount \/ Answer \/ ReceiveAnswer \/ RequestRefused \/ RequestFails \/ PusherIsMade \/ SocketOpens
        \/ SocketCloses \/ ReceivePush => UNCHANGED <<replay, worker, toPage>>
  BY DEF Mount, Answer, ReceiveAnswer, RequestRefused, RequestFails, PusherIsMade, SocketOpens, SocketCloses,
         ReceivePush, workerVars
<1>5. FlowMoves \/ Push \/ User \/ UNCHANGED vars => UNCHANGED <<replay, worker, toPage>>
  BY DEF FlowMoves, Push, User, OpenFile, ClearReplay, Keys, SeekByBar, UserSends, vars, workerVars, pageVars
<1> QED BY <1>1, <1>2, <1>3, <1>4, <1>5 DEF Next

---------------------------------------------------------------------------
(* What is told once.                                                      *)
(*                                                                         *)
(* Links, groups, nodes and stats are things, named by a kind and an id.   *)
(* A thing is still to be announced, in the pending delta or with the      *)
(* stater: it is held; or it has been handed over and will not be again.   *)

\* One pair more.
LEMMA OnePairMore ==
  ASSUME NEW t, NEW A, NEW x, NEW B, B = A \cup {x}
  PROVE  {t} \X B = ({t} \X A) \cup {<<t, x>>}
OBVIOUS

\* Fewer of each, less told.
LEMMA TellsFewer ==
  ASSUME NEW dl, NEW e,
         ToSet(e.connected) \subseteq ToSet(dl.connected),
         ToSet(e.startedGroups) \subseteq ToSet(dl.startedGroups),
         IdsOf(e.startedNodes) \subseteq IdsOf(dl.startedNodes),
         IdsOf(e.newStats) \subseteq IdsOf(dl.newStats)
  PROVE  Tells(e) \subseteq Tells(dl)
BY DEF Tells

\* One thing more, which was not told before.
Adds(dl, e, y) == TellsOnce(dl) /\ y \notin Tells(dl) => TellsOnce(e) /\ Tells(e) = Tells(dl) \cup {y}
Drops(dl, e) == TellsOnce(dl) => TellsOnce(e) /\ Tells(e) \subseteq Tells(dl)

\* A link more.
LEMMA AddsLink ==
  ASSUME NEW dl, IsDelta(dl), NEW x \in Links, NEW q, q = Append(dl.connected, x),
         NEW e, e = [dl EXCEPT !.connected = q]
  PROVE  Adds(dl, e, <<"link", x>>)
<1> SUFFICES ASSUME TellsOnce(dl), <<"link", x>> \notin Tells(dl)
             PROVE  TellsOnce(e) /\ Tells(e) = Tells(dl) \cup {<<"link", x>>}
  BY DEF Adds
<1> DEFINE s == dl.connected
           L == Links
<1>1. s \in Seq(Links) /\ q = Append(s, x)
  BY DEF IsDelta
<1>2. x \notin ToSet(s)
  BY DEF Tells
<1> HIDE DEF s
<1>3. IsInjective(s)
  BY DEF TellsOnce, s
<1>4. q \in Seq(L) /\ IsInjective(q) /\ ToSet(q) = ToSet(s) \cup {x}
  <2>1. x \in L /\ s \in Seq(L)
    BY <1>1
  <2> HIDE DEF L
  <2>2. q \in Seq(L) /\ q = Append(s, x)
    BY <1>1, <2>1
  <2> QED BY <1>2, <1>3, <2>1, <2>2, AppendOnce, AppendSet
<1>5. /\ e.connected = q /\ e.startedGroups = dl.startedGroups /\ e.startedNodes = dl.startedNodes
      /\ e.newStats = dl.newStats
  BY <1>1, <1>4, WithConnected
<1>6. TellsOnce(e)
  BY <1>4, <1>5 DEF TellsOnce
<1>7. ToSet(e.connected) = ToSet(dl.connected) \cup {x}
  BY <1>4, <1>5 DEF s
<1>8. {"link"} \X ToSet(e.connected) = ({"link"} \X ToSet(dl.connected)) \cup {<<"link", x>>}
  BY <1>7, OnePairMore
<1>9. Tells(e) = Tells(dl) \cup {<<"link", x>>}
  BY <1>5, <1>8, Zenon DEF Tells
<1> QED BY <1>6, <1>9

\* A group more.
LEMMA AddsGroup ==
  ASSUME NEW dl, IsDelta(dl), NEW x \in Groups, NEW q, q = Append(dl.startedGroups, x),
         NEW e, e = [dl EXCEPT !.startedGroups = q]
  PROVE  Adds(dl, e, <<"group", x>>)
<1> SUFFICES ASSUME TellsOnce(dl), <<"group", x>> \notin Tells(dl)
             PROVE  TellsOnce(e) /\ Tells(e) = Tells(dl) \cup {<<"group", x>>}
  BY DEF Adds
<1> DEFINE s == dl.startedGroups
<1>1. s \in Seq(Groups) /\ q = Append(s, x)
  BY DEF IsDelta
<1>2. x \notin ToSet(s)
  BY DEF Tells
<1> HIDE DEF s
<1>3. IsInjective(s)
  BY DEF TellsOnce, s
<1>4. q \in Seq(Groups) /\ IsInjective(q) /\ ToSet(q) = ToSet(s) \cup {x}
  BY <1>1, <1>2, <1>3, AppendOnce, AppendSet
<1>5. /\ e.startedGroups = q /\ e.connected = dl.connected /\ e.startedNodes = dl.startedNodes
      /\ e.newStats = dl.newStats
  BY <1>1, <1>4, WithStartedGroups
<1>6. TellsOnce(e)
  BY <1>4, <1>5 DEF TellsOnce
<1>7. ToSet(e.startedGroups) = ToSet(dl.startedGroups) \cup {x}
  BY <1>4, <1>5 DEF s
<1>8. {"group"} \X ToSet(e.startedGroups) = ({"group"} \X ToSet(dl.startedGroups)) \cup {<<"group", x>>}
  BY <1>7, OnePairMore
<1>9. Tells(e) = Tells(dl) \cup {<<"group", x>>}
  BY <1>5, <1>8, Zenon DEF Tells
<1> QED BY <1>6, <1>9

\* A node more.
LEMMA AddsNode ==
  ASSUME NEW dl, IsDelta(dl), NEW x \in Nodes, NEW q, q = Append(dl.startedNodes, NodeRec(x)),
         NEW e, e = [dl EXCEPT !.startedNodes = q]
  PROVE  Adds(dl, e, <<"node", x>>)
<1> SUFFICES ASSUME TellsOnce(dl), <<"node", x>> \notin Tells(dl)
             PROVE  TellsOnce(e) /\ Tells(e) = Tells(dl) \cup {<<"node", x>>}
  BY DEF Adds
<1> DEFINE s == dl.startedNodes
           y == NodeRec(x)
           L == NodeRecs
<1>1. s \in Seq(L) /\ q = Append(s, y) /\ y \in L
  BY DEF IsDelta, NodeRecs
<1>2. y.id = x /\ x \notin IdsOf(s)
  BY DEF Tells, NodeRec
<1> HIDE DEF s, y, L
<1>3. Distinct(s)
  BY DEF TellsOnce, s
<1>4. q \in Seq(L) /\ Distinct(q) /\ IdsOf(q) = IdsOf(s) \cup {x}
  BY <1>1, <1>2, <1>3, AppendDistinct
<1>5. /\ e.startedNodes = q /\ e.connected = dl.connected /\ e.startedGroups = dl.startedGroups
      /\ e.newStats = dl.newStats
  BY <1>1, <1>4, WithStartedNodes DEF L
<1>6. TellsOnce(e)
  BY <1>4, <1>5 DEF TellsOnce
<1>7. IdsOf(e.startedNodes) = IdsOf(dl.startedNodes) \cup {x}
  BY <1>4, <1>5 DEF s
<1>8. {"node"} \X IdsOf(e.startedNodes) = ({"node"} \X IdsOf(dl.startedNodes)) \cup {<<"node", x>>}
  BY <1>7, OnePairMore
<1>9. Tells(e) = Tells(dl) \cup {<<"node", x>>}
  BY <1>5, <1>8, Zenon DEF Tells
<1> QED BY <1>6, <1>9

\* A stat more.
LEMMA AddsStat ==
  ASSUME NEW dl, IsDelta(dl), NEW x \in AllStats, NEW q, q = Append(dl.newStats, x),
         NEW e, e = [dl EXCEPT !.newStats = q]
  PROVE  Adds(dl, e, <<"stat", x.id>>)
<1> SUFFICES ASSUME TellsOnce(dl), <<"stat", x.id>> \notin Tells(dl)
             PROVE  TellsOnce(e) /\ Tells(e) = Tells(dl) \cup {<<"stat", x.id>>}
  BY DEF Adds
<1> DEFINE s == dl.newStats
           L == AllStats
<1>1. s \in Seq(L) /\ q = Append(s, x) /\ x \in L
  BY DEF IsDelta
<1>2. x.id \notin IdsOf(s)
  BY DEF Tells
<1> HIDE DEF s, L
<1>3. Distinct(s)
  BY DEF TellsOnce, s
<1>4. q \in Seq(L) /\ Distinct(q) /\ IdsOf(q) = IdsOf(s) \cup {x.id}
  BY <1>1, <1>2, <1>3, AppendDistinct
<1>5. /\ e.newStats = q /\ e.connected = dl.connected /\ e.startedGroups = dl.startedGroups
      /\ e.startedNodes = dl.startedNodes
  BY <1>1, <1>4, WithNewStats DEF L
<1>6. TellsOnce(e)
  BY <1>4, <1>5 DEF TellsOnce
<1>7. IdsOf(e.newStats) = IdsOf(dl.newStats) \cup {x.id}
  BY <1>4, <1>5 DEF s
<1>8. {"stat"} \X IdsOf(e.newStats) = ({"stat"} \X IdsOf(dl.newStats)) \cup {<<"stat", x.id>>}
  BY <1>7, OnePairMore
<1>9. Tells(e) = Tells(dl) \cup {<<"stat", x.id>>}
  BY <1>5, <1>8, Zenon DEF Tells
<1> QED BY <1>6, <1>9

\* Some links less.
LEMMA DropsLinks ==
  ASSUME NEW dl, IsDelta(dl), NEW S, NEW q, q = Selected(dl.connected, S),
         NEW e, e = [dl EXCEPT !.connected = q]
  PROVE  Drops(dl, e)
<1> SUFFICES ASSUME TellsOnce(dl) PROVE TellsOnce(e) /\ Tells(e) \subseteq Tells(dl)
  BY DEF Drops
<1> DEFINE s == dl.connected
           L == Links
<1>1. s \in Seq(L) /\ q = Selected(s, S)
  BY DEF IsDelta
<1> HIDE DEF s, L
<1>2. IsInjective(s)
  BY DEF TellsOnce, s
<1>3. q \in Seq(L) /\ IsInjective(q) /\ ToSet(q) \subseteq ToSet(s)
  <2>0. s \in Seq(L)
    BY <1>1
  <2>4. Selected(s, S) \in Seq(L \cap S) /\ ToSet(Selected(s, S)) = ToSet(s) \cap S
    BY <2>0, SelectedProperties
  <2>1. q \in Seq(L \cap S) /\ ToSet(q) = ToSet(s) \cap S
    BY <1>1, <2>4
  <2>2. q \in Seq(L)
    BY <2>1
  <2>3. IsInjective(q)
    BY <1>1, <1>2, SelectedOnce
  <2> QED BY <2>1, <2>2, <2>3
<1>4. /\ e.connected = q /\ e.startedGroups = dl.startedGroups /\ e.startedNodes = dl.startedNodes
      /\ e.newStats = dl.newStats
  BY <1>1, <1>3, WithConnected DEF L
<1> QED BY <1>3, <1>4, TellsFewer DEF TellsOnce, s

\* Some groups less.
LEMMA DropsGroups ==
  ASSUME NEW dl, IsDelta(dl), NEW S, NEW q, q = Selected(dl.startedGroups, S),
         NEW e, e = [dl EXCEPT !.startedGroups = q]
  PROVE  Drops(dl, e)
<1> SUFFICES ASSUME TellsOnce(dl) PROVE TellsOnce(e) /\ Tells(e) \subseteq Tells(dl)
  BY DEF Drops
<1> DEFINE s == dl.startedGroups
           L == Groups
<1>1. s \in Seq(L) /\ q = Selected(s, S)
  BY DEF IsDelta
<1> HIDE DEF s, L
<1>2. IsInjective(s)
  BY DEF TellsOnce, s
<1>3. q \in Seq(L) /\ IsInjective(q) /\ ToSet(q) \subseteq ToSet(s)
  <2>0. s \in Seq(L)
    BY <1>1
  <2>4. Selected(s, S) \in Seq(L \cap S) /\ ToSet(Selected(s, S)) = ToSet(s) \cap S
    BY <2>0, SelectedProperties
  <2>1. q \in Seq(L \cap S) /\ ToSet(q) = ToSet(s) \cap S
    BY <1>1, <2>4
  <2>2. q \in Seq(L)
    BY <2>1
  <2>3. IsInjective(q)
    BY <1>1, <1>2, SelectedOnce
  <2> QED BY <2>1, <2>2, <2>3
<1>4. /\ e.startedGroups = q /\ e.connected = dl.connected /\ e.startedNodes = dl.startedNodes
      /\ e.newStats = dl.newStats
  BY <1>1, <1>3, WithStartedGroups DEF L
<1> QED BY <1>3, <1>4, TellsFewer DEF TellsOnce, s

\* Some nodes less.
LEMMA DropsNodes ==
  ASSUME NEW dl, IsDelta(dl), NEW S, NEW q, q = Selected(dl.startedNodes, S),
         NEW e, e = [dl EXCEPT !.startedNodes = q]
  PROVE  Drops(dl, e)
<1> SUFFICES ASSUME TellsOnce(dl) PROVE TellsOnce(e) /\ Tells(e) \subseteq Tells(dl)
  BY DEF Drops
<1> DEFINE s == dl.startedNodes
           L == NodeRecs
<1>1. s \in Seq(L) /\ q = Selected(s, S)
  BY DEF IsDelta
<1> HIDE DEF s, L
<1>2. Distinct(s)
  BY DEF TellsOnce, s
<1>3. q \in Seq(L) /\ Distinct(q) /\ IdsOf(q) \subseteq IdsOf(s)
  <2>1. q \in Seq(L) /\ Distinct(q) /\ IdsOf(q) = {x.id : x \in ToSet(s) \cap S}
    BY <1>1, <1>2, SelectedDistinct
  <2>2. IdsOf(s) = {x.id : x \in ToSet(s)}
    BY IdsOfSet
  <2> QED BY <2>1, <2>2
<1>4. /\ e.startedNodes = q /\ e.connected = dl.connected /\ e.startedGroups = dl.startedGroups
      /\ e.newStats = dl.newStats
  BY <1>1, <1>3, WithStartedNodes DEF L
<1> QED BY <1>3, <1>4, TellsFewer DEF TellsOnce, s

\* Some stats less.
LEMMA DropsStats ==
  ASSUME NEW dl, IsDelta(dl), NEW S, NEW q, q = Selected(dl.newStats, S),
         NEW e, e = [dl EXCEPT !.newStats = q]
  PROVE  Drops(dl, e)
<1> SUFFICES ASSUME TellsOnce(dl) PROVE TellsOnce(e) /\ Tells(e) \subseteq Tells(dl)
  BY DEF Drops
<1> DEFINE s == dl.newStats
           L == AllStats
<1>1. s \in Seq(L) /\ q = Selected(s, S)
  BY DEF IsDelta
<1> HIDE DEF s, L
<1>2. Distinct(s)
  BY DEF TellsOnce, s
<1>3. q \in Seq(L) /\ Distinct(q) /\ IdsOf(q) \subseteq IdsOf(s)
  <2>1. q \in Seq(L) /\ Distinct(q) /\ IdsOf(q) = {x.id : x \in ToSet(s) \cap S}
    BY <1>1, <1>2, SelectedDistinct
  <2>2. IdsOf(s) = {x.id : x \in ToSet(s)}
    BY IdsOfSet
  <2> QED BY <2>1, <2>2
<1>4. /\ e.newStats = q /\ e.connected = dl.connected /\ e.startedGroups = dl.startedGroups
      /\ e.startedNodes = dl.startedNodes
  BY <1>1, <1>3, WithNewStats DEF L
<1> QED BY <1>3, <1>4, TellsFewer DEF TellsOnce, s

\* What does not touch what is told.
LEMMA TellsTheSame ==
  ASSUME NEW dl, NEW e, e.connected = dl.connected, e.startedGroups = dl.startedGroups,
         e.startedNodes = dl.startedNodes, e.newStats = dl.newStats
  PROVE  Tells(e) = Tells(dl) /\ (TellsOnce(e) <=> TellsOnce(dl)) /\ Drops(dl, e)
BY DEF Tells, TellsOnce, Drops

\* The steps that announce a thing, in the one half of the handlers and in the other.
InDelta   == [link |-> "LinkInDelta", group |-> "GroupInDelta", node |-> "NodeInDelta", stat |-> "StatInDelta"]
InCatchUp == [link |-> "LinkInCatchUp", group |-> "GroupInCatchUp", node |-> "NodeInCatchUp", stat |-> "StatInCatchUp"]

\* What is still to be announced.
LeftOf(sc, S, do) == {x \in S : Left(sc, Step(do, x))}
Coming(sc, half) ==
    ({"link"} \X LeftOf(sc, Links, half.link)) \cup ({"group"} \X LeftOf(sc, Groups, half.group))
        \cup ({"node"} \X LeftOf(sc, Nodes, half.node)) \cup ({"stat"} \X {s.id : s \in LeftOf(sc, Stats, half.stat)})

\* A stat has an id of its own.
LEMMA StatIds == \A s, r \in Stats : s.id = r.id => s = r
<1> SUFFICES ASSUME NEW s \in Stats, NEW r \in Stats, s.id = r.id PROVE s = r
  OBVIOUS
<1>1. PICK m \in Nodes : \E i \in ToSet(StatsOf[m]) : s = [id |-> i, node |-> m]
  BY DEF Stats
<1>2. PICK n \in Nodes : \E j \in ToSet(StatsOf[n]) : r = [id |-> j, node |-> n]
  BY DEF Stats
<1>3. s.id \in ToSet(StatsOf[m]) /\ s = [id |-> s.id, node |-> m]
  BY <1>1
<1>4. r.id \in ToSet(StatsOf[n]) /\ r = [id |-> r.id, node |-> n]
  BY <1>2
<1>5. m = n
  BY <1>3, <1>4, IdsAssumption
<1> QED BY <1>3, <1>4, <1>5

\* Less and less is still to be announced.
LEMMA ComingLess ==
  ASSUME NEW sc, NEW sc2, NEW half, \A x : Left(sc2, x) => Left(sc, x)
  PROVE  Coming(sc2, half) \subseteq Coming(sc, half)
<1>1. \A S, do : LeftOf(sc2, S, do) \subseteq LeftOf(sc, S, do)
  BY DEF LeftOf
<1>2. {s.id : s \in LeftOf(sc2, Stats, half.stat)} \subseteq {s.id : s \in LeftOf(sc, Stats, half.stat)}
  BY <1>1
<1> QED BY <1>1, <1>2 DEF Coming

\* What is announced was to be, and is not any more.
LEMMA Comes ==
  ASSUME NEW sc, NEW sc2, NEW half, NEW a, Left(sc, a), ~Left(sc2, a)
  PROVE  /\ \A x \in Links : a = Step(half.link, x) =>
               <<"link", x>> \in Coming(sc, half) /\ <<"link", x>> \notin Coming(sc2, half)
         /\ \A x \in Groups : a = Step(half.group, x) =>
               <<"group", x>> \in Coming(sc, half) /\ <<"group", x>> \notin Coming(sc2, half)
         /\ \A x \in Nodes : a = Step(half.node, x) =>
               <<"node", x>> \in Coming(sc, half) /\ <<"node", x>> \notin Coming(sc2, half)
         /\ \A x \in Stats : a = Step(half.stat, x) =>
               <<"stat", x.id>> \in Coming(sc, half) /\ <<"stat", x.id>> \notin Coming(sc2, half)
<1>1. ASSUME NEW x \in Links, a = Step(half.link, x)
      PROVE  <<"link", x>> \in Coming(sc, half) /\ <<"link", x>> \notin Coming(sc2, half)
  <2> DEFINE L == Links
  <2>1. x \in LeftOf(sc, L, half.link) /\ x \notin LeftOf(sc2, L, half.link)
    BY <1>1 DEF LeftOf
  <2> QED BY <2>1 DEF Coming
<1>2. ASSUME NEW x \in Groups, a = Step(half.group, x)
      PROVE  <<"group", x>> \in Coming(sc, half) /\ <<"group", x>> \notin Coming(sc2, half)
  <2>1. x \in LeftOf(sc, Groups, half.group) /\ x \notin LeftOf(sc2, Groups, half.group)
    BY <1>2 DEF LeftOf
  <2> QED BY <2>1 DEF Coming
<1>3. ASSUME NEW x \in Nodes, a = Step(half.node, x)
      PROVE  <<"node", x>> \in Coming(sc, half) /\ <<"node", x>> \notin Coming(sc2, half)
  <2>1. x \in LeftOf(sc, Nodes, half.node) /\ x \notin LeftOf(sc2, Nodes, half.node)
    BY <1>3 DEF LeftOf
  <2> QED BY <2>1 DEF Coming
<1>4. ASSUME NEW x \in Stats, a = Step(half.stat, x)
      PROVE  <<"stat", x.id>> \in Coming(sc, half) /\ <<"stat", x.id>> \notin Coming(sc2, half)
  <2>1. x \in LeftOf(sc, Stats, half.stat) /\ x \notin LeftOf(sc2, Stats, half.stat)
    BY <1>4 DEF LeftOf
  <2>2. x.id \in {s.id : s \in LeftOf(sc, Stats, half.stat)}
    BY <2>1
  <2>3. x.id \notin {s.id : s \in LeftOf(sc2, Stats, half.stat)}
    <3> SUFFICES ASSUME NEW s \in LeftOf(sc2, Stats, half.stat), s.id = x.id PROVE FALSE
      OBVIOUS
    <3>1. s \in Stats
      BY DEF LeftOf
    <3> QED BY <2>1, <3>1, StatIds
  <2> QED BY <2>2, <2>3 DEF Coming
<1> QED BY <1>1, <1>2, <1>3, <1>4

\* What a step of a handler tells: a thing more in the pending delta, a thing more in
\* the catch-up, or nothing new.
Announces(sc, sc2, half, dl, e) ==
    \E y : y \in Coming(sc, half) /\ y \notin Coming(sc2, half) /\ Adds(dl, e, y)

\* Each half of a handler announces one thing, withdraws some, or tells nothing.
LEMMA HandleSays ==
  ASSUME TypeInv, LinkInv(script), NEW t \in Threads, Handle(t)
  PROVE  /\ \A half : Coming(script', half) \subseteq Coming(script, half)
         /\ \/ cd' = cd /\ Announces(script, script', InDelta, d, d')
            \/ d' = d /\ Announces(script, script', InCatchUp, cd, cd')
            \/ Drops(cd, cd') /\ Drops(d, d')
<1> DEFINE a == Head(script[t])
           x == Subject(t)
<1>1. Ran(script, script', t) /\ Scripted(script) /\ StepIn(t, a) /\ a = Step(a.do, x)
  BY HandleRuns DEF TypeInv, ScriptInv
<1>2. Left(script, a) /\ ~Left(script', a) /\ \A z : Left(script', z) => Left(script, z)
  BY <1>1, RanLeaves DEF LinkInv
<1>3. IsDelta(cd) /\ IsDelta(d)
  BY DEF TypeInv
<1>4. \A half : Coming(script', half) \subseteq Coming(script, half)
  BY <1>2, ComingLess
<1>5. \A half : /\ x \in Links /\ a = Step(half.link, x) =>
                     <<"link", x>> \in Coming(script, half) /\ <<"link", x>> \notin Coming(script', half)
                /\ x \in Groups /\ a = Step(half.group, x) =>
                     <<"group", x>> \in Coming(script, half) /\ <<"group", x>> \notin Coming(script', half)
                /\ x \in Nodes /\ a = Step(half.node, x) =>
                     <<"node", x>> \in Coming(script, half) /\ <<"node", x>> \notin Coming(script', half)
                /\ x \in Stats /\ a = Step(half.stat, x) =>
                     <<"stat", x.id>> \in Coming(script, half) /\ <<"stat", x.id>> \notin Coming(script', half)
  BY <1>2, Comes
<1>6. /\ a.do \in StatDos => x \in Stats
      /\ a.do \in StartDos \cup EndDos => x \in Nodes
      /\ a.do \in LinkDos => x \in Links
      /\ a.do \in GroupStartDos \cup GroupEndDos => x \in Groups
  <2> HIDE DEF a
  <2>1. StepIn(t, a) => /\ a.do \in StatDos => a.of \in Stats
                        /\ a.do \in StartDos \cup EndDos => a.of \in Nodes
                        /\ a.do \in LinkDos => a.of \in Links
                        /\ a.do \in GroupStartDos \cup GroupEndDos => a.of \in Groups
    BY DEF StepIn, StatDos, StartDos, EndDos, LinkDos, GroupStartDos, GroupEndDos
  <2> QED BY <1>1, <2>1 DEF a, Subject
<1>7. CASE LinkInDelta(t)
  <2>1. a.do = InDelta.link /\ a.do \in LinkDos
    BY <1>7 DEF LinkInDelta, Runs, InDelta, LinkDos
  <2>2. cd' = cd /\ d' = [d EXCEPT !.connected = Append(d.connected, x)]
    BY <1>7 DEF LinkInDelta
  <2> DEFINE L == InDelta
             q == Append(d.connected, x)
  <2> HIDE DEF a, x, L
  <2>3. x \in Links /\ <<"link", x>> \in Coming(script, L) /\ <<"link", x>> \notin Coming(script', L)
    BY <1>1, <1>5, <1>6, <2>1 DEF L
  <2>4. d' = [d EXCEPT !.connected = q]
    BY <2>2
  <2>5. Adds(d, d', <<"link", x>>)
    BY <1>3, <2>3, <2>4, AddsLink
  <2>6. Announces(script, script', L, d, d')
    BY <2>3, <2>5 DEF Announces
  <2> QED BY <1>4, <2>2, <2>6 DEF L
<1>8. CASE GroupInDelta(t)
  <2>1. a.do = InDelta.group /\ a.do \in GroupStartDos
    BY <1>8 DEF GroupInDelta, Runs, InDelta, GroupStartDos
  <2>2. cd' = cd /\ d' = [d EXCEPT !.startedGroups = Append(d.startedGroups, x)]
    BY <1>8 DEF GroupInDelta
  <2> DEFINE L == InDelta
             q == Append(d.startedGroups, x)
  <2> HIDE DEF a, x, L
  <2>3. x \in Groups /\ <<"group", x>> \in Coming(script, L) /\ <<"group", x>> \notin Coming(script', L)
    BY <1>1, <1>5, <1>6, <2>1 DEF L
  <2>4. d' = [d EXCEPT !.startedGroups = q]
    BY <2>2
  <2>5. Adds(d, d', <<"group", x>>)
    BY <1>3, <2>3, <2>4, AddsGroup
  <2>6. Announces(script, script', L, d, d')
    BY <2>3, <2>5 DEF Announces
  <2> QED BY <1>4, <2>2, <2>6 DEF L
<1>9. CASE NodeInDelta(t)
  <2>1. a.do = InDelta.node /\ a.do \in StartDos
    BY <1>9 DEF NodeInDelta, Runs, InDelta, StartDos
  <2>2. cd' = cd /\ d' = [d EXCEPT !.startedNodes = Append(d.startedNodes, NodeRec(x))]
    BY <1>9 DEF NodeInDelta, NodeRec
  <2> DEFINE L == InDelta
             q == Append(d.startedNodes, NodeRec(x))
  <2> HIDE DEF a, x, L
  <2>3. x \in Nodes /\ <<"node", x>> \in Coming(script, L) /\ <<"node", x>> \notin Coming(script', L)
    BY <1>1, <1>5, <1>6, <2>1 DEF L
  <2>4. d' = [d EXCEPT !.startedNodes = q]
    BY <2>2
  <2>5. Adds(d, d', <<"node", x>>)
    BY <1>3, <2>3, <2>4, AddsNode
  <2>6. Announces(script, script', L, d, d')
    BY <2>3, <2>5 DEF Announces
  <2> QED BY <1>4, <2>2, <2>6 DEF L
<1>10. CASE StatInDelta(t)
  <2>1. a.do = InDelta.stat /\ a.do \in StatDos
    BY <1>10 DEF StatInDelta, Runs, InDelta, StatDos
  <2>2. cd' = cd /\ d' = [d EXCEPT !.newStats = Append(d.newStats, x)]
    BY <1>10 DEF StatInDelta
  <2> DEFINE L == InDelta
             q == Append(d.newStats, x)
  <2> HIDE DEF a, x, L
  <2>3. x \in Stats /\ <<"stat", x.id>> \in Coming(script, L) /\ <<"stat", x.id>> \notin Coming(script', L)
    BY <1>1, <1>5, <1>6, <2>1 DEF L
  <2>4. d' = [d EXCEPT !.newStats = q] /\ x \in AllStats
    BY <2>2, <2>3 DEF AllStats
  <2>5. Adds(d, d', <<"stat", x.id>>)
    BY <1>3, <2>4, AddsStat
  <2>6. Announces(script, script', L, d, d')
    BY <2>3, <2>5 DEF Announces
  <2> QED BY <1>4, <2>2, <2>6 DEF L
<1>11. CASE LinkInCatchUp(t)
  <2>1. a.do = InCatchUp.link /\ a.do \in LinkDos
    BY <1>11 DEF LinkInCatchUp, Runs, InCatchUp, LinkDos
  <2>2. d' = d /\ cd' = [cd EXCEPT !.connected = Append(cd.connected, x)]
    BY <1>11 DEF LinkInCatchUp
  <2> DEFINE L == InCatchUp
             q == Append(cd.connected, x)
  <2> HIDE DEF a, x, L
  <2>3. x \in Links /\ <<"link", x>> \in Coming(script, L) /\ <<"link", x>> \notin Coming(script', L)
    BY <1>1, <1>5, <1>6, <2>1 DEF L
  <2>4. cd' = [cd EXCEPT !.connected = q]
    BY <2>2
  <2>5. Adds(cd, cd', <<"link", x>>)
    BY <1>3, <2>3, <2>4, AddsLink
  <2>6. Announces(script, script', L, cd, cd')
    BY <2>3, <2>5 DEF Announces
  <2> QED BY <1>4, <2>2, <2>6 DEF L
<1>12. CASE GroupInCatchUp(t)
  <2>1. a.do = InCatchUp.group /\ a.do \in GroupStartDos
    BY <1>12 DEF GroupInCatchUp, Runs, InCatchUp, GroupStartDos
  <2>2. d' = d /\ cd' = [cd EXCEPT !.startedGroups = Append(cd.startedGroups, x)]
    BY <1>12 DEF GroupInCatchUp
  <2> DEFINE L == InCatchUp
             q == Append(cd.startedGroups, x)
  <2> HIDE DEF a, x, L
  <2>3. x \in Groups /\ <<"group", x>> \in Coming(script, L) /\ <<"group", x>> \notin Coming(script', L)
    BY <1>1, <1>5, <1>6, <2>1 DEF L
  <2>4. cd' = [cd EXCEPT !.startedGroups = q]
    BY <2>2
  <2>5. Adds(cd, cd', <<"group", x>>)
    BY <1>3, <2>3, <2>4, AddsGroup
  <2>6. Announces(script, script', L, cd, cd')
    BY <2>3, <2>5 DEF Announces
  <2> QED BY <1>4, <2>2, <2>6 DEF L
<1>13. CASE NodeInCatchUp(t)
  <2>1. a.do = InCatchUp.node /\ a.do \in StartDos
    BY <1>13 DEF NodeInCatchUp, Runs, InCatchUp, StartDos
  <2>2. d' = d /\ cd' = [cd EXCEPT !.startedNodes = Append(cd.startedNodes, NodeRec(x))]
    BY <1>13 DEF NodeInCatchUp, NodeRec
  <2> DEFINE L == InCatchUp
             q == Append(cd.startedNodes, NodeRec(x))
  <2> HIDE DEF a, x, L
  <2>3. x \in Nodes /\ <<"node", x>> \in Coming(script, L) /\ <<"node", x>> \notin Coming(script', L)
    BY <1>1, <1>5, <1>6, <2>1 DEF L
  <2>4. cd' = [cd EXCEPT !.startedNodes = q]
    BY <2>2
  <2>5. Adds(cd, cd', <<"node", x>>)
    BY <1>3, <2>3, <2>4, AddsNode
  <2>6. Announces(script, script', L, cd, cd')
    BY <2>3, <2>5 DEF Announces
  <2> QED BY <1>4, <2>2, <2>6 DEF L
<1>14. CASE StatInCatchUp(t)
  <2>1. a.do = InCatchUp.stat /\ a.do \in StatDos
    BY <1>14 DEF StatInCatchUp, Runs, InCatchUp, StatDos
  <2>2. d' = d /\ cd' = [cd EXCEPT !.newStats = Append(cd.newStats, x)]
    BY <1>14 DEF StatInCatchUp
  <2> DEFINE L == InCatchUp
             q == Append(cd.newStats, x)
  <2> HIDE DEF a, x, L
  <2>3. x \in Stats /\ <<"stat", x.id>> \in Coming(script, L) /\ <<"stat", x.id>> \notin Coming(script', L)
    BY <1>1, <1>5, <1>6, <2>1 DEF L
  <2>4. cd' = [cd EXCEPT !.newStats = q] /\ x \in AllStats
    BY <2>2, <2>3 DEF AllStats
  <2>5. Adds(cd, cd', <<"stat", x.id>>)
    BY <1>3, <2>4, AddsStat
  <2>6. Announces(script, script', L, cd, cd')
    BY <2>3, <2>5 DEF Announces
  <2> QED BY <1>4, <2>2, <2>6 DEF L
<1>15. \A e : Drops(e, e)
  BY DEF Drops
<1>16. CASE DropLink(t) \/ DropGroup(t) \/ DropNode(t) \/ DropStats(t)
  <2>1. d' = d
    BY <1>16 DEF DropLink, DropGroup, DropNode, DropStats
  <2>2. ASSUME DropLink(t) PROVE Drops(cd, cd')
    <3>1. PICK S, q : q = Selected(cd.connected, S) /\ cd' = [cd EXCEPT !.connected = q]
      BY <2>2 DEF DropLink
    <3> QED BY <1>3, <3>1, DropsLinks
  <2>3. ASSUME DropGroup(t) PROVE Drops(cd, cd')
    <3>1. PICK S, q : q = Selected(cd.startedGroups, S) /\ cd' = [cd EXCEPT !.startedGroups = q]
      BY <2>3 DEF DropGroup
    <3> QED BY <1>3, <3>1, DropsGroups
  <2>4. ASSUME DropNode(t) PROVE Drops(cd, cd')
    <3>1. PICK S, q : q = Selected(cd.startedNodes, S) /\ cd' = [cd EXCEPT !.startedNodes = q]
      BY <2>4 DEF DropNode
    <3> QED BY <1>3, <3>1, DropsNodes
  <2>5. ASSUME DropStats(t) PROVE Drops(cd, cd')
    <3>1. PICK S, q : q = Selected(cd.newStats, S) /\ cd' = [cd EXCEPT !.newStats = q]
      BY <2>5 DEF DropStats
    <3> QED BY <1>3, <3>1, DropsStats
  <2> QED BY <1>4, <1>15, <1>16, <2>1, <2>2, <2>3, <2>4, <2>5
<1>17. CASE AddValuer(t) \/ RemoveValuers(t)
  <2>1. cd' = cd /\ d' = d
    BY <1>17 DEF AddValuer, RemoveValuers
  <2> QED BY <1>4, <1>15, <2>1
<1>18. CASE CutInDelta(t) \/ GroupDoneInDelta(t) \/ NodeDoneInDelta(t)
  <2>1. cd' = cd
    BY <1>18 DEF CutInDelta, GroupDoneInDelta, NodeDoneInDelta
  <2>2. \E q : \/ d' = [d EXCEPT !.disconnected = q]
               \/ d' = [d EXCEPT !.doneGroups = q]
               \/ d' = [d EXCEPT !.doneNodes = q]
    BY <1>18 DEF CutInDelta, GroupDoneInDelta, NodeDoneInDelta
  <2>3. /\ d'.connected = d.connected /\ d'.startedGroups = d.startedGroups
        /\ d'.startedNodes = d.startedNodes /\ d'.newStats = d.newStats
    BY <1>3, <2>2 DEF IsDelta
  <2>4. Drops(d, d')
    BY <2>3, TellsTheSame
  <2> QED BY <1>4, <1>15, <2>1, <2>4
<1> QED BY <1>7, <1>8, <1>9, <1>10, <1>11, <1>12, <1>13, <1>14, <1>16, <1>17, <1>18 DEF Handle

\* What has not been handed over: still to be announced, pending, or held by the stater.
Held == Coming(script, InDelta) \cup Tells(d) \cup Tells(stater.delta)

\* Each thing is in one of them, once; and what the catch-up delta names is not to be
\* announced to it any more.
HeldInv ==
  /\ TellsOnce(cd) /\ Tells(cd) \cap Coming(script, InCatchUp) = {}
  /\ TellsOnce(d) /\ Tells(d) \cap Coming(script, InDelta) = {}
  /\ TellsOnce(stater.delta) /\ Tells(stater.delta) \cap (Coming(script, InDelta) \cup Tells(d)) = {}

\* No half of a handler announces what is held already, and none adds to it.
LEMMA HeldHandled ==
  ASSUME TypeInv, LinkInv(script), HeldInv, NEW t \in Threads, Handle(t)
  PROVE  HeldInv' /\ Held' \subseteq Held
<1>1. stater' = stater
  BY HandleRuns
<1>2. /\ \A half : Coming(script', half) \subseteq Coming(script, half)
      /\ \/ cd' = cd /\ Announces(script, script', InDelta, d, d')
         \/ d' = d /\ Announces(script, script', InCatchUp, cd, cd')
         \/ Drops(cd, cd') /\ Drops(d, d')
  BY HandleSays
<1> DEFINE A == Coming(script, InDelta)
           A2 == Coming(script', InDelta)
           C == Coming(script, InCatchUp)
           C2 == Coming(script', InCatchUp)
           e == stater.delta
<1>3. A2 \subseteq A /\ C2 \subseteq C
  BY <1>2
<1>4. /\ TellsOnce(cd) /\ Tells(cd) \cap C = {}
      /\ TellsOnce(d) /\ Tells(d) \cap A = {}
      /\ TellsOnce(e) /\ Tells(e) \cap (A \cup Tells(d)) = {}
  BY DEF HeldInv
<1>5. Held = A \cup Tells(d) \cup Tells(e) /\ Held' = A2 \cup Tells(d') \cup Tells(e)
  BY <1>1 DEF Held
<1>6. HeldInv' <=> /\ TellsOnce(cd') /\ Tells(cd') \cap C2 = {}
                   /\ TellsOnce(d') /\ Tells(d') \cap A2 = {}
                   /\ TellsOnce(e) /\ Tells(e) \cap (A2 \cup Tells(d')) = {}
  BY <1>1 DEF HeldInv
<1>7. CASE cd' = cd /\ Announces(script, script', InDelta, d, d')
  <2>1. PICK y : y \in A /\ y \notin A2 /\ Adds(d, d', y)
    BY <1>7 DEF Announces
  <2>2. TellsOnce(d') /\ Tells(d') = Tells(d) \cup {y}
    BY <1>4, <2>1 DEF Adds
  <2> HIDE DEF A, A2, C, C2, e
  <2> QED BY <1>3, <1>4, <1>5, <1>6, <1>7, <2>1, <2>2
<1>8. CASE d' = d /\ Announces(script, script', InCatchUp, cd, cd')
  <2>1. PICK y : y \in C /\ y \notin C2 /\ Adds(cd, cd', y)
    BY <1>8 DEF Announces
  <2>2. TellsOnce(cd') /\ Tells(cd') = Tells(cd) \cup {y}
    BY <1>4, <2>1 DEF Adds
  <2> HIDE DEF A, A2, C, C2, e
  <2> QED BY <1>3, <1>4, <1>5, <1>6, <1>8, <2>1, <2>2
<1>9. CASE Drops(cd, cd') /\ Drops(d, d')
  <2>1. /\ TellsOnce(cd') /\ Tells(cd') \subseteq Tells(cd)
        /\ TellsOnce(d') /\ Tells(d') \subseteq Tells(d)
    BY <1>4, <1>9 DEF Drops
  <2> HIDE DEF A, A2, C, C2, e
  <2> QED BY <1>3, <1>4, <1>5, <1>6, <2>1
<1> QED BY <1>2, <1>7, <1>8, <1>9

\* A delta in which nothing happened tells nothing.
LEMMA NothingTold == TellsOnce(NoDelta) /\ Tells(NoDelta) = {}
<1>1. /\ NoDelta.connected = <<>> /\ NoDelta.startedGroups = <<>> /\ NoDelta.startedNodes = <<>>
      /\ NoDelta.newStats = <<>>
  BY DEF NoDelta
<1>2. IsInjective(<<>>) /\ Distinct(<<>>) /\ ToSet(<<>>) = {} /\ IdsOf(<<>>) = {}
  BY DEF IsInjective, Distinct, ToSet, IdsOf
<1>3. TellsOnce(NoDelta)
  BY <1>1, <1>2 DEF TellsOnce
<1>4. Tells(NoDelta) = {}
  BY <1>1, <1>2 DEF Tells
<1> QED BY <1>3, <1>4

\* The stater takes what is pending, and hands over what it holds.
LEMMA HeldByStater ==
  ASSUME TypeInv, HeldInv, Sample \/ SwapDelta \/ Deliver
  PROVE  /\ HeldInv' /\ Held' \subseteq Held
         /\ Deliver => /\ IsDelta(Handed) /\ TellsOnce(Handed)
                       /\ Tells(Handed) \subseteq Held /\ Tells(Handed) \cap Held' = {}
<1>0. /\ IsDelta(cd) /\ IsDelta(stater.delta) /\ (stater.pc # "swapped" => stater.delta = NoDelta)
      /\ stater \in [pc : {"idle", "sampled", "swapped"}, sampled : {stater.sampled}, delta : {stater.delta}]
  BY DEF TypeInv
<1>1. CASE Sample
  <2>1. script' = script /\ cd' = cd /\ d' = d /\ stater.pc = "idle"
        /\ stater' = [stater EXCEPT !.pc = "sampled", !.sampled = valuers]
    BY <1>1 DEF Sample
  <2>2. stater'.delta = stater.delta
    BY <1>0, <2>1
  <2>3. ~Deliver
    BY <2>1 DEF Deliver
  <2> QED BY <2>1, <2>2, <2>3 DEF HeldInv, Held
<1>2. CASE SwapDelta
  <2>1. script' = script /\ cd' = cd /\ d' = NoDelta /\ stater.pc = "sampled"
        /\ stater' = [stater EXCEPT !.pc = "swapped", !.delta = d]
    BY <1>2 DEF SwapDelta
  <2>2. stater'.delta = d /\ stater.delta = NoDelta
    BY <1>0, <2>1
  <2>3. ~Deliver
    BY <2>1 DEF Deliver
  <2>4. Held' \subseteq Held
    BY <2>1, <2>2, NothingTold DEF Held
  <2>5. HeldInv'
    BY <2>1, <2>2, NothingTold DEF HeldInv
  <2> QED BY <2>3, <2>4, <2>5
<1>3. CASE Deliver
  <2>1. script' = script /\ cd' = [cd EXCEPT !.values = Sampled] /\ d' = d /\ stater' = Idle
    BY <1>3 DEF Deliver
  <2>2. stater'.delta = NoDelta
    BY <2>1 DEF Idle
  <2>3. /\ cd'.connected = cd.connected /\ cd'.startedGroups = cd.startedGroups
        /\ cd'.startedNodes = cd.startedNodes /\ cd'.newStats = cd.newStats
    BY <1>0, <2>1, WithValues
  <2>4. Tells(cd') = Tells(cd) /\ (TellsOnce(cd') <=> TellsOnce(cd))
    BY <2>3, TellsTheSame
  <2>5. /\ IsDelta(Handed)
        /\ Handed.connected = stater.delta.connected /\ Handed.startedGroups = stater.delta.startedGroups
        /\ Handed.startedNodes = stater.delta.startedNodes /\ Handed.newStats = stater.delta.newStats
    BY <1>0, WithValues DEF Handed
  <2>6. Tells(Handed) = Tells(stater.delta) /\ (TellsOnce(Handed) <=> TellsOnce(stater.delta))
    BY <2>5, TellsTheSame
  <2>7. HeldInv'
    BY <2>1, <2>2, <2>4, NothingTold DEF HeldInv
  <2>8. Held' = Coming(script, InDelta) \cup Tells(d)
    BY <2>1, <2>2, NothingTold DEF Held
  <2> QED BY <2>5, <2>6, <2>7, <2>8 DEF HeldInv, Held
<1> QED BY <1>1, <1>2, <1>3

\* It begins with the stats of the flow, which are not those of a node.
LEMMA InitHeld ==
  ASSUME NEW p \in Programs, MonitorFlow(p)
  PROVE  HeldInv
<1> DEFINE fs == [i \in DOMAIN p.flowStats |-> [id |-> p.flowStats[i], node |-> NoNode]]
<1>1. /\ script = ScriptOf(p) /\ cd = [NoDelta EXCEPT !.newStats = fs] /\ d = cd /\ stater.delta = NoDelta
  BY DEF MonitorFlow, Idle
<1>2. /\ IsInjective(p.flowStats) /\ \A s \in Stats : s.id \notin ToSet(p.flowStats)
  <2>1. IsProgram(p)
    BY ProgramsAssumption
  <2> QED BY <2>1 DEF IsProgram
<1>3. Distinct(fs) /\ IdsOf(fs) = ToSet(p.flowStats)
  <2>1. DOMAIN fs = DOMAIN p.flowStats /\ \A i \in DOMAIN fs : fs[i].id = p.flowStats[i]
    OBVIOUS
  <2> HIDE DEF fs
  <2> QED BY <1>2, <2>1 DEF Distinct, IdsOf, ToSet, IsInjective
<1> HIDE DEF fs
<1>4. cd.connected = <<>> /\ cd.startedGroups = <<>> /\ cd.startedNodes = <<>> /\ cd.newStats = fs
  BY <1>1 DEF NoDelta
<1>5. IsInjective(<<>>) /\ Distinct(<<>>) /\ ToSet(<<>>) = {} /\ IdsOf(<<>>) = {}
  BY DEF IsInjective, Distinct, ToSet, IdsOf
<1>6. TellsOnce(cd)
  BY <1>3, <1>4, <1>5 DEF TellsOnce
<1>7. Tells(cd) = {"stat"} \X ToSet(p.flowStats)
  <2>1. Tells(cd) = ({"link"} \X {}) \cup ({"group"} \X {}) \cup ({"node"} \X {}) \cup ({"stat"} \X ToSet(p.flowStats))
    BY <1>3, <1>4, <1>5, Zenon DEF Tells
  <2> QED BY <2>1
<1>8. \A half : Tells(cd) \cap Coming(script, half) = {}
  <2> TAKE half
  <2> DEFINE I == {s.id : s \in LeftOf(script, Stats, half.stat)}
             N == ToSet(p.flowStats)
  <2>1. I \cap N = {}
    BY <1>2 DEF LeftOf
  <2>2. Coming(script, half) = ({"link"} \X LeftOf(script, Links, half.link)) \cup ({"group"} \X LeftOf(script, Groups, half.group))
        \cup ({"node"} \X LeftOf(script, Nodes, half.node)) \cup ({"stat"} \X I)
    BY DEF Coming
  <2> HIDE DEF I, N
  <2> QED BY <1>7, <2>1, <2>2 DEF N
<1> QED BY <1>1, <1>6, <1>8, NothingTold DEF HeldInv

\* Deltas that tell different things, none of which is in H.
OneByOne(q, H) ==
    /\ q \in Seq(ToSet(q))
    /\ \A m \in DOMAIN q : IsDelta(q[m]) /\ TellsOnce(q[m]) /\ Tells(q[m]) \cap H = {}
    /\ \A m, n \in DOMAIN q : m # n => Tells(q[m]) \cap Tells(q[n]) = {}
AllOf(q) == UNION {Tells(q[m]) : m \in DOMAIN q}

\* One delta more, of things that were held and are not any more.
LEMMA OneMore ==
  ASSUME NEW q, NEW H, OneByOne(q, H), NEW e, IsDelta(e), TellsOnce(e), Tells(e) \subseteq H,
         NEW H2, H2 \subseteq H, Tells(e) \cap H2 = {}
  PROVE  OneByOne(Append(q, e), H2) /\ H2 \cup AllOf(Append(q, e)) \subseteq H \cup AllOf(q)
<1>1. Append(q, e) \in Seq(ToSet(Append(q, e)))
  BY Queues DEF OneByOne
<1>2. /\ Len(q) \in Nat /\ DOMAIN q = 1 .. Len(q) /\ DOMAIN Append(q, e) = 1 .. Len(q) + 1
      /\ Append(q, e)[Len(q) + 1] = e /\ \A i \in 1 .. Len(q) : Append(q, e)[i] = q[i]
  <2> DEFINE S == ToSet(q) \cup {e}
             V == ToSet(q)
  <2>1. q \in Seq(V)
    BY DEF OneByOne
  <2>2. V \subseteq S /\ e \in S
    OBVIOUS
  <2> HIDE DEF S, V
  <2>3. q \in Seq(S)
    BY <2>1, <2>2
  <2> QED BY <2>2, <2>3
<1> DEFINE a == Append(q, e)
<1> HIDE DEF a
<1>3. \A i \in DOMAIN a : (i \in DOMAIN q /\ a[i] = q[i]) \/ (i = Len(q) + 1 /\ a[i] = e)
  BY <1>2 DEF a
<1>4. \A m \in DOMAIN a : IsDelta(a[m]) /\ TellsOnce(a[m]) /\ Tells(a[m]) \cap H2 = {}
  BY <1>3 DEF OneByOne
<1>5. \A m, n \in DOMAIN a : m # n => Tells(a[m]) \cap Tells(a[n]) = {}
  BY <1>3 DEF OneByOne
<1>6. \A m \in DOMAIN a : Tells(a[m]) \subseteq H \cup AllOf(q)
  BY <1>3 DEF AllOf
<1>7. H2 \cup AllOf(a) \subseteq H \cup AllOf(q)
  BY <1>6 DEF AllOf
<1> QED BY <1>1, <1>4, <1>5, <1>7 DEF OneByOne, a

\* One delta less, which tells what no other does.
LEMMA OneLess ==
  ASSUME NEW q, NEW H, OneByOne(q, H), q # <<>>
  PROVE  /\ OneByOne(Tail(q), H) /\ IsDelta(Head(q)) /\ TellsOnce(Head(q))
         /\ Tells(Head(q)) \subseteq AllOf(q) /\ Tells(Head(q)) \cap (H \cup AllOf(Tail(q))) = {}
         /\ AllOf(Tail(q)) \subseteq AllOf(q)
<1>1. Tail(q) \in Seq(ToSet(Tail(q)))
  BY Queues DEF OneByOne
<1>2. /\ Len(q) \in Nat /\ DOMAIN q = 1 .. Len(q) /\ 1 \in DOMAIN q /\ Head(q) = q[1]
      /\ DOMAIN Tail(q) = 1 .. Len(q) - 1
      /\ \A i \in 1 .. Len(q) - 1 : Tail(q)[i] = q[i + 1]
  <2> DEFINE V == ToSet(q)
  <2>1. q \in Seq(V)
    BY DEF OneByOne
  <2> HIDE DEF V
  <2> QED BY <2>1
<1> DEFINE s == Tail(q)
<1> HIDE DEF s
<1>3. \A i \in DOMAIN s : i + 1 \in DOMAIN q /\ s[i] = q[i + 1] /\ i + 1 # 1 /\ i \in Nat
  BY <1>2 DEF s
<1>4. \A m, n \in DOMAIN s : m # n => m + 1 # n + 1
  BY <1>3
<1>5. OneByOne(s, H)
  BY <1>1, <1>3, <1>4 DEF OneByOne, s
<1>6. IsDelta(q[1]) /\ TellsOnce(q[1]) /\ Tells(q[1]) \cap H = {} /\ \A i \in DOMAIN s : Tells(q[1]) \cap Tells(s[i]) = {}
  BY <1>2, <1>3 DEF OneByOne
<1>7. AllOf(s) \subseteq AllOf(q) /\ Tells(q[1]) \subseteq AllOf(q)
  BY <1>2, <1>3 DEF AllOf
<1>8. Tells(q[1]) \cap AllOf(s) = {}
  BY <1>6 DEF AllOf
<1> QED BY <1>2, <1>5, <1>6, <1>7, <1>8 DEF s

\* Fewer things held.
LEMMA OneFewer ==
  ASSUME NEW q, NEW H, OneByOne(q, H), NEW H2, H2 \subseteq H
  PROVE  OneByOne(q, H2)
BY DEF OneByOne

\* No delta.
LEMMA NoneYet ==
  ASSUME NEW H
  PROVE  OneByOne(<<>>, H) /\ AllOf(<<>>) = {}
BY DEF OneByOne, AllOf

---------------------------------------------------------------------------
(* A live page.                                                            *)
(*                                                                         *)
(* What is held and what is on its way is pending: it only ever gets less. *)
(* Answers that were aligned, and what the page shows, name nothing that   *)
(* is pending; so a delta that comes tells nothing that is shown.          *)

\* What the page has not heard: what has not been handed over, and what is on its way.
Pending == Held \cup AllOf(pushes)
FeedInv == HeldInv /\ OneByOne(pushes, Held)

\* Where nothing of the monitorer changes, nothing that is held does.
LEMMA HeldStill ==
  ASSUME HeldInv, UNCHANGED monitorerVars
  PROVE  HeldInv' /\ Held' = Held
BY DEF monitorerVars, HeldInv, Held

\* Where nothing is pushed either, nothing that is pending changes.
LEMMA FeedStill ==
  ASSUME FeedInv, UNCHANGED <<monitorerVars, pushes>>
  PROVE  FeedInv' /\ Pending' = Pending
<1>1. HeldInv' /\ Held' = Held
  BY HeldStill DEF FeedInv
<1> QED BY <1>1 DEF FeedInv, Pending

\* The flow goes on, or the stater.
LEMMA FeedMoves ==
  ASSUME TypeInv, LinkInv(script), FeedInv, FlowMoves
  PROVE  FeedInv' /\ Pending' \subseteq Pending
<1>1. HeldInv' /\ Held' \subseteq Held
  BY HeldHandled, HeldByStater DEF FeedInv, FlowMoves
<1>2. pushes' = pushes
  BY DEF FlowMoves, pageVars
<1>3. OneByOne(pushes, Held')
  BY <1>1, OneFewer DEF FeedInv
<1> QED BY <1>1, <1>2, <1>3 DEF FeedInv, Pending

\* The stater pushes what it holds, or nothing.
LEMMA FeedPushed ==
  ASSUME TypeInv, FeedInv, Push
  PROVE  FeedInv' /\ Pending' \subseteq Pending
<1>1. Deliver /\ (pushes' = pushes \/ pushes' = Append(pushes, Handed))
  BY DEF Push
<1>2. /\ HeldInv' /\ Held' \subseteq Held
      /\ IsDelta(Handed) /\ TellsOnce(Handed) /\ Tells(Handed) \subseteq Held /\ Tells(Handed) \cap Held' = {}
  BY <1>1, HeldByStater DEF FeedInv
<1>3. CASE pushes' = pushes
  <2>1. OneByOne(pushes, Held')
    BY <1>2, OneFewer DEF FeedInv
  <2> QED BY <1>2, <1>3, <2>1 DEF FeedInv, Pending
<1>4. CASE pushes' = Append(pushes, Handed)
  <2> DEFINE H == Held
             H2 == Held'
             e == Handed
  <2>0. OneByOne(pushes, H) /\ H2 \subseteq H
    BY <1>2 DEF FeedInv
  <2>00. IsDelta(e) /\ TellsOnce(e) /\ Tells(e) \subseteq H /\ Tells(e) \cap H2 = {}
    BY <1>2
  <2> HIDE DEF H, H2, e
  <2>1. OneByOne(Append(pushes, e), H2) /\ H2 \cup AllOf(Append(pushes, e)) \subseteq H \cup AllOf(pushes)
    BY <2>0, <2>00, OneMore
  <2>2. OneByOne(pushes', Held') /\ Held' \cup AllOf(pushes') \subseteq Held \cup AllOf(pushes)
    BY <1>4, <2>1 DEF H, H2, e
  <2> QED BY <1>2, <2>2 DEF FeedInv, Pending
<1> QED BY <1>1, <1>3, <1>4

\* The page hears the first that was pushed.
LEMMA FeedHeard ==
  ASSUME FeedInv, ReceivePush
  PROVE  /\ FeedInv' /\ Pending' \subseteq Pending
         /\ IsDelta(Head(pushes)) /\ TellsOnce(Head(pushes))
         /\ Tells(Head(pushes)) \subseteq Pending /\ Tells(Head(pushes)) \cap Pending' = {}
<1>1. pushes # <<>> /\ pushes' = Tail(pushes) /\ UNCHANGED monitorerVars
  BY DEF ReceivePush
<1>2. HeldInv' /\ Held' = Held
  BY <1>1, HeldStill DEF FeedInv
<1>3. /\ OneByOne(Tail(pushes), Held) /\ IsDelta(Head(pushes)) /\ TellsOnce(Head(pushes))
      /\ Tells(Head(pushes)) \subseteq AllOf(pushes)
      /\ Tells(Head(pushes)) \cap (Held \cup AllOf(Tail(pushes))) = {}
      /\ AllOf(Tail(pushes)) \subseteq AllOf(pushes)
  BY <1>1, OneLess DEF FeedInv
<1>4. Pending' = Held \cup AllOf(Tail(pushes))
  BY <1>1, <1>2 DEF Pending
<1>5. OneByOne(pushes', Held')
  BY <1>1, <1>2, <1>3
<1> QED BY <1>2, <1>3, <1>4, <1>5 DEF FeedInv, Pending

\* What was on its way is lost with the socket.
LEMMA FeedLost ==
  ASSUME FeedInv, SocketCloses
  PROVE  FeedInv' /\ Pending' \subseteq Pending
<1>1. pushes' = <<>> /\ UNCHANGED monitorerVars
  BY DEF SocketCloses
<1>2. HeldInv' /\ Held' = Held
  BY <1>1, HeldStill DEF FeedInv
<1> QED BY <1>1, <1>2, NoneYet DEF FeedInv, Pending

\* No step leaves anything to be told twice, and none has more to tell.
LEMMA FeedKeeps ==
  ASSUME TypeInv, LinkInv(script), FeedInv, [Next]_vars
  PROVE  FeedInv' /\ Pending' \subseteq Pending
<1>1. CASE UNCHANGED <<monitorerVars, pushes>>
  BY <1>1, FeedStill
<1>2. Mount \/ Answer \/ ReceiveAnswer \/ RequestRefused \/ RequestFails \/ PusherIsMade \/ SocketOpens
        => UNCHANGED <<monitorerVars, pushes>>
  BY DEF Mount, Answer, ReceiveAnswer, RequestRefused, RequestFails, PusherIsMade, SocketOpens
<1>3. User \/ WorkerMoves \/ PageHears \/ UNCHANGED vars => UNCHANGED <<monitorerVars, pushes>>
  BY DEF User, OpenFile, ClearReplay, Keys, SeekByBar, UserSends, WorkerMoves, PageHears, OnWorkerCleared,
         OnWorkerDelta, OnWorkerOpened, OnWorkerProgress, HeardUnchanged, vars, pageVars
<1> QED BY <1>1, <1>2, <1>3, FeedMoves, FeedPushed, FeedHeard, FeedLost DEF Next

\* What is not removed was there.
LEMMA RemoveAtKeeps ==
  ASSUME NEW q, q \in Seq(ToSet(q)), NEW i \in DOMAIN q
  PROVE  /\ RemoveAt(q, i) \in Seq(ToSet(RemoveAt(q, i)))
         /\ \A j \in DOMAIN RemoveAt(q, i) : \E k \in DOMAIN q : RemoveAt(q, i)[j] = q[k]
<1> DEFINE V == ToSet(q)
           a == SubSeq(q, 1, i - 1)
           b == SubSeq(q, i + 1, Len(q))
<1>1. q \in Seq(V) /\ Len(q) \in Nat /\ i \in 1 .. Len(q) /\ DOMAIN q = 1 .. Len(q)
  <2> HIDE DEF V
  <2>1. q \in Seq(V)
    BY DEF V
  <2> QED BY <2>1
<1>2. V = {q[k] : k \in DOMAIN q}
  BY DEF ToSet
<1> HIDE DEF V
<1>3. a \in Seq(V) /\ b \in Seq(V)
  BY <1>1
<1> HIDE DEF a, b
<1>4. a \o b \in Seq(V)
  BY <1>3
<1> DEFINE r == a \o b
<1>5. RemoveAt(q, i) = r
  BY DEF RemoveAt, a, b
<1>6. r \in Seq(V)
  BY <1>4
<1> HIDE DEF r
<1>7. \A j \in DOMAIN r : r[j] \in V
  BY <1>6
<1>8. r \in Seq(ToSet(r))
  BY <1>6, SequenceOfItsOwn
<1> QED BY <1>2, <1>5, <1>7, <1>8

\* A catch-up is a delta, and tells what the catch-up delta does.
LEMMA CatchUpIsADelta ==
  ASSUME TypeInv, NEW a \in CatchUps
  PROVE  IsDelta(a) /\ Tells(a) = Tells(cd) /\ (TellsOnce(a) <=> TellsOnce(cd))
<1>1. IsDelta(cd)
  BY DEF TypeInv
<1>2. a = cd \/ \E v : a = [cd EXCEPT !.values = v]
  BY DEF CatchUps
<1>3. ASSUME NEW v, a = [cd EXCEPT !.values = v]
      PROVE  IsDelta(a) /\ Tells(a) = Tells(cd) /\ (TellsOnce(a) <=> TellsOnce(cd))
  <2>1. /\ IsDelta(a) /\ a.connected = cd.connected /\ a.startedGroups = cd.startedGroups
        /\ a.startedNodes = cd.startedNodes /\ a.newStats = cd.newStats
    BY <1>1, <1>3, WithValues
  <2> QED BY <2>1, TellsTheSame
<1> QED BY <1>1, <1>2, <1>3

\* Between two handlers, what is to be announced in a delta is to be in the catch-up too.
LEMMA InTurnComing ==
  ASSUME ScriptInv(script), BetweenHandlers
  PROVE  Coming(script, InDelta) \subseteq Coming(script, InCatchUp)
<1>1. /\ StatsInTurn(script) /\ NodesInTurn(script) /\ LinksInTurn(script) /\ GroupsInTurn(script)
  BY DEF ScriptInv
<1>2. \A x : /\ Step("LinkInDelta", x).do \in SecondHalves /\ Step("GroupInDelta", x).do \in SecondHalves
             /\ Step("NodeInDelta", x).do \in SecondHalves /\ Step("StatInDelta", x).do \in SecondHalves
  BY DEF Step, SecondHalves
<1>3. LeftOf(script, Links, InDelta.link) \subseteq LeftOf(script, Links, InCatchUp.link)
  <2> SUFFICES ASSUME NEW x \in Links, Left(script, Step("LinkInDelta", x))
               PROVE  Left(script, Step("LinkInCatchUp", x))
    BY DEF LeftOf, InDelta, InCatchUp
  <2> DEFINE a == Step("LinkInCatchUp", x)
             b == Step("LinkInDelta", x)
  <2>1. Then(script, a, b) /\ b.do \in SecondHalves
    BY <1>1, <1>2 DEF LinksInTurn
  <2> HIDE DEF a, b
  <2>2. Left(script, b) => Left(script, a)
    BY <2>1, NoHalves
  <2> QED BY <2>2 DEF a, b
<1>4. LeftOf(script, Groups, InDelta.group) \subseteq LeftOf(script, Groups, InCatchUp.group)
  <2> SUFFICES ASSUME NEW x \in Groups, Left(script, Step("GroupInDelta", x))
               PROVE  Left(script, Step("GroupInCatchUp", x))
    BY DEF LeftOf, InDelta, InCatchUp
  <2> DEFINE a == Step("GroupInCatchUp", x)
             b == Step("GroupInDelta", x)
  <2>1. Then(script, a, b) /\ b.do \in SecondHalves
    BY <1>1, <1>2 DEF GroupsInTurn
  <2> HIDE DEF a, b
  <2>2. Left(script, b) => Left(script, a)
    BY <2>1, NoHalves
  <2> QED BY <2>2 DEF a, b
<1>5. LeftOf(script, Nodes, InDelta.node) \subseteq LeftOf(script, Nodes, InCatchUp.node)
  <2> SUFFICES ASSUME NEW x \in Nodes, Left(script, Step("NodeInDelta", x))
               PROVE  Left(script, Step("NodeInCatchUp", x))
    BY DEF LeftOf, InDelta, InCatchUp
  <2> DEFINE a == Step("NodeInCatchUp", x)
             b == Step("NodeInDelta", x)
  <2>1. Then(script, a, b) /\ b.do \in SecondHalves
    BY <1>1, <1>2 DEF NodesInTurn
  <2> HIDE DEF a, b
  <2>2. Left(script, b) => Left(script, a)
    BY <2>1, NoHalves
  <2> QED BY <2>2 DEF a, b
<1>6. LeftOf(script, Stats, InDelta.stat) \subseteq LeftOf(script, Stats, InCatchUp.stat)
  <2> SUFFICES ASSUME NEW x \in Stats, Left(script, Step("StatInDelta", x))
               PROVE  Left(script, Step("StatInCatchUp", x))
    BY DEF LeftOf, InDelta, InCatchUp
  <2> DEFINE a == Step("StatInCatchUp", x)
             b == Step("StatInDelta", x)
  <2>1. Then(script, a, b) /\ b.do \in SecondHalves
    BY <1>1, <1>2 DEF StatsInTurn
  <2> HIDE DEF a, b
  <2>2. Left(script, b) => Left(script, a)
    BY <2>1, NoHalves
  <2> QED BY <2>2 DEF a, b
<1>7. {s.id : s \in LeftOf(script, Stats, InDelta.stat)} \subseteq {s.id : s \in LeftOf(script, Stats, InCatchUp.stat)}
  BY <1>6
<1> QED BY <1>3, <1>4, <1>5, <1>7 DEF Coming

\* A delta that has values only tells nothing.
LEMMA ValuesTellNothing ==
  ASSUME NEW dl, IsDelta(dl), [dl EXCEPT !.values = <<>>] = NoDelta
  PROVE  Tells(dl) = {}
<1> DEFINE e == [dl EXCEPT !.values = <<>>]
<1>1. /\ e.connected = dl.connected /\ e.startedGroups = dl.startedGroups
      /\ e.startedNodes = dl.startedNodes /\ e.newStats = dl.newStats
  BY WithValues
<1>2. Tells(e) = Tells(dl)
  <2> HIDE DEF e
  <2> QED BY <1>1, TellsTheSame
<1> QED BY <1>2, NothingTold

\* An answer that is aligned with the deltas tells nothing they will tell.
LEMMA AlignedAnswer ==
  ASSUME TypeInv, HeldInv, ~Unaligned, NEW a \in CatchUps
  PROVE  IsDelta(a) /\ TellsOnce(a) /\ Tells(a) \cap Pending = {}
<1>1. IsDelta(a) /\ Tells(a) = Tells(cd) /\ TellsOnce(a)
  BY CatchUpIsADelta DEF HeldInv
<1>2. Tells(d) = {} /\ Tells(stater.delta) = {}
  BY ValuesTellNothing DEF Unaligned, TypeInv
<1>3. pushes = <<>> /\ BetweenHandlers
  BY DEF Unaligned
<1>4. AllOf(pushes) = {}
  BY <1>3, NoneYet
<1>5. Coming(script, InDelta) \subseteq Coming(script, InCatchUp)
  BY <1>3, InTurnComing DEF TypeInv
<1>6. Tells(cd) \cap Coming(script, InCatchUp) = {}
  BY DEF HeldInv
<1>7. Pending = Coming(script, InDelta)
  BY <1>2, <1>4 DEF Pending, Held
<1> QED BY <1>1, <1>5, <1>6, <1>7

\* Unless one was not aligned, answers on their way tell nothing the deltas will tell.
CaughtUp(dl, P) == TellsOnce(dl) /\ Tells(dl) \cap P = {}
AnswersInv ==
    /\ requests \in Seq(ToSet(requests))
    /\ \A i \in DOMAIN requests : requests[i].answered =>
           /\ IsDelta(requests[i].delta)
           /\ "unaligned" \notin trouble => CaughtUp(requests[i].delta, Pending)

\* Less to be told, fewer requests, more trouble.
LEMMA AnswersStay ==
  ASSUME AnswersInv, requests' \in Seq(ToSet(requests')),
         \A j \in DOMAIN requests' : \E k \in DOMAIN requests : requests'[j] = requests[k],
         "unaligned" \in trouble => "unaligned" \in trouble', Pending' \subseteq Pending
  PROVE  AnswersInv'
<1>1. ASSUME NEW j \in DOMAIN requests', requests'[j].answered
      PROVE  /\ IsDelta(requests'[j].delta)
             /\ "unaligned" \notin trouble' => CaughtUp(requests'[j].delta, Pending')
  <2>1. PICK k \in DOMAIN requests : requests'[j] = requests[k]
    OBVIOUS
  <2>2. IsDelta(requests[k].delta) /\ ("unaligned" \notin trouble => CaughtUp(requests[k].delta, Pending))
    BY <1>1, <2>1 DEF AnswersInv
  <2> QED BY <2>1, <2>2 DEF CaughtUp
<1> QED BY <1>1 DEF AnswersInv

\* A request more, which has no answer.
LEMMA AnswersAsked ==
  ASSUME AnswersInv, Asks, Pending' \subseteq Pending
  PROVE  AnswersInv'
<1> DEFINE r == [answered |-> FALSE, delta |-> NoDelta]
           V == ToSet(requests)
           a == Append(requests, r)
<1>1. requests' = a /\ requests \in Seq(V) /\ ~r.answered
  BY DEF Asks, AnswersInv
<1>2. a \in Seq(ToSet(a))
  BY Queues DEF AnswersInv
<1>3. requests # <<>> => trouble' = trouble
  BY DEF Asks, Remains
<1>4. \A j \in DOMAIN a : (j \in DOMAIN requests /\ a[j] = requests[j]) \/ a[j] = r
  <2> DEFINE S == V \cup {r}
  <2>0. r \in S /\ V \subseteq S
    OBVIOUS
  <2> HIDE DEF r, V, S
  <2>1. requests \in Seq(S) /\ r \in S
    BY <1>1, <2>0
  <2> QED BY <2>1
<1> HIDE DEF a, V, r
<1>5. ASSUME NEW j \in DOMAIN a, a[j].answered
      PROVE  IsDelta(a[j].delta) /\ ("unaligned" \notin trouble' => CaughtUp(a[j].delta, Pending'))
  <2>1. j \in DOMAIN requests /\ a[j] = requests[j]
    BY <1>1, <1>4, <1>5
  <2>2. requests # <<>>
    BY <2>1
  <2>3. trouble' = trouble
    BY <1>3, <2>2
  <2>4. IsDelta(requests[j].delta) /\ ("unaligned" \notin trouble => CaughtUp(requests[j].delta, Pending))
    BY <1>5, <2>1 DEF AnswersInv
  <2> QED BY <2>1, <2>3, <2>4 DEF CaughtUp
<1> QED BY <1>1, <1>2, <1>5 DEF AnswersInv

\* An answer.
LEMMA AnswersGiven ==
  ASSUME TypeInv, HeldInv, AnswersInv, Answer, Pending' \subseteq Pending
  PROVE  AnswersInv'
<1>1. PICK i \in DOMAIN requests : \E a \in CatchUps :
        /\ requests' = [requests EXCEPT ![i] = [answered |-> TRUE, delta |-> a]]
        /\ trouble' = trouble \cup (IF Unaligned THEN {"unaligned"} ELSE {})
  BY DEF Answer
<1>2. PICK a \in CatchUps :
        /\ requests' = [requests EXCEPT ![i] = [answered |-> TRUE, delta |-> a]]
        /\ trouble' = trouble \cup (IF Unaligned THEN {"unaligned"} ELSE {})
  BY <1>1
<1> DEFINE r == [answered |-> TRUE, delta |-> a]
           V == ToSet(requests)
           S == V \cup {r}
<1>3. r.delta = a
  OBVIOUS
<1>4. requests \in Seq(V) /\ V \subseteq S /\ r \in S
  BY DEF AnswersInv
<1>5. requests' = [requests EXCEPT ![i] = r]
  BY <1>2
<1> HIDE DEF r, V, S
<1>6. requests' \in Seq(S)
  <2>1. requests \in Seq(S)
    BY <1>4
  <2> QED BY <1>4, <1>5, <2>1
<1>7. requests' \in Seq(ToSet(requests'))
  <2> DEFINE q == requests'
  <2>1. q \in Seq(S)
    BY <1>6
  <2> HIDE DEF q
  <2>2. q \in Seq(ToSet(q))
    BY <2>1, SequenceOfItsOwn
  <2> QED BY <2>2 DEF q
<1>8. \A j \in DOMAIN requests' : j \in DOMAIN requests /\ (requests'[j] = requests[j] \/ requests'[j] = r)
  BY <1>5
<1>9. IsDelta(a) /\ ("unaligned" \notin trouble' => CaughtUp(a, Pending))
  BY <1>2, CatchUpIsADelta, AlignedAnswer DEF CaughtUp
<1>10. "unaligned" \notin trouble' => "unaligned" \notin trouble
  BY <1>2
<1>11. ASSUME NEW j \in DOMAIN requests', requests'[j].answered
       PROVE  IsDelta(requests'[j].delta) /\ ("unaligned" \notin trouble' => CaughtUp(requests'[j].delta, Pending'))
  <2>1. CASE requests'[j] = r
    BY <1>3, <1>9, <2>1 DEF CaughtUp
  <2>2. CASE requests'[j] = requests[j]
    <3>1. IsDelta(requests[j].delta) /\ ("unaligned" \notin trouble => CaughtUp(requests[j].delta, Pending))
      BY <1>8, <1>11, <2>2 DEF AnswersInv
    <3> QED BY <1>10, <2>2, <3>1 DEF CaughtUp
  <2> QED BY <1>8, <2>1, <2>2
<1> QED BY <1>7, <1>11 DEF AnswersInv

\* No step makes an answer overlap what is to be told.
LEMMA AnswersKeep ==
  ASSUME TypeInv, HeldInv, AnswersInv, [Next]_vars, Pending' \subseteq Pending
  PROVE  AnswersInv'
<1>1. CASE UNCHANGED requests /\ trouble \subseteq trouble'
  <2>1. requests' \in Seq(ToSet(requests'))
    BY <1>1 DEF AnswersInv
  <2> QED BY <1>1, <2>1, AnswersStay
<1>2. CASE Mount \/ OnWorkerCleared
  BY <1>2, AnswersAsked DEF Mount, OnWorkerCleared
<1>3. CASE Answer
  BY <1>3, AnswersGiven
<1>4. CASE ReceiveAnswer \/ RequestRefused \/ RequestFails
  <2>1. PICK i \in DOMAIN requests : requests' = RemoveAt(requests, i) /\ trouble \subseteq trouble'
    BY <1>4 DEF ReceiveAnswer, RequestRefused, RequestFails
  <2>2. /\ RemoveAt(requests, i) \in Seq(ToSet(RemoveAt(requests, i)))
        /\ \A j \in DOMAIN RemoveAt(requests, i) : \E k \in DOMAIN requests : RemoveAt(requests, i)[j] = requests[k]
    BY RemoveAtKeeps DEF AnswersInv
  <2>3. /\ requests' \in Seq(ToSet(requests'))
        /\ \A j \in DOMAIN requests' : \E k \in DOMAIN requests : requests'[j] = requests[k]
    BY <2>1, <2>2
  <2> QED BY <2>1, <2>3, AnswersStay
<1>5. PusherIsMade \/ SocketOpens \/ SocketCloses \/ FlowMoves \/ Push \/ ReceivePush
        => UNCHANGED requests /\ trouble \subseteq trouble'
  BY DEF PusherIsMade, SocketOpens, SocketCloses, FlowMoves, Push, ReceivePush, pageVars
<1>6. User \/ WorkerMoves \/ OnWorkerDelta \/ OnWorkerOpened \/ OnWorkerProgress \/ UNCHANGED vars
        => UNCHANGED requests /\ trouble \subseteq trouble'
  BY DEF User, OpenFile, ClearReplay, Keys, SeekByBar, UserSends, WorkerMoves, OnWorkerDelta, OnWorkerOpened,
         OnWorkerProgress, vars, pageVars
<1> QED BY <1>1, <1>2, <1>3, <1>4, <1>5, <1>6 DEF Next, PageHears

\* What deltas are about.
Things == Nodes \cup Groups \cup {GroupOf[n] : n \in Nodes} \cup Links \cup {s.id : s \in AllStats} \cup {s.node : s \in AllStats}

\* A delta of the monitorer fits what a store can show.
LEMMA DeltaFits ==
  ASSUME NEW dl, IsDelta(dl)
  PROVE  Fits(dl, Things)
<1>1. /\ dl.connected \in Seq(Links) /\ dl.disconnected \in Seq(Links)
      /\ dl.startedGroups \in Seq(Groups) /\ dl.startedNodes \in Seq(NodeRecs)
      /\ dl.doneGroups \in Seq(Groups) /\ dl.doneNodes \in Seq(Nodes) /\ dl.newStats \in Seq(AllStats)
  BY DEF IsDelta
<1>2. Links \subseteq Things /\ Groups \subseteq Things /\ Nodes \subseteq Things
  BY DEF Things
<1>3. NodeRecs \subseteq StartedCells(Things)
  BY DEF Things, NodeRecs, NodeRec, StartedCells
<1>4. AllStats \subseteq NewCells(Things)
  <2> SUFFICES ASSUME NEW s \in AllStats PROVE s \in NewCells(Things)
    OBVIOUS
  <2>1. s.id \in Things /\ s.node \in Things
    BY DEF Things
  <2>2. s = [id |-> s.id, node |-> s.node]
    BY DEF AllStats, Stats, FlowStats
  <2> QED BY <2>1, <2>2 DEF NewCells
<1>5. \A S, T : S \subseteq T => Seq(S) \subseteq Seq(T)
  OBVIOUS
<1> DEFINE A == StartedCells(Things)
           B == NewCells(Things)
           T == Things
           L == Links
           N == NodeRecs
           M == AllStats
<1>6. L \subseteq T /\ Groups \subseteq T /\ Nodes \subseteq T /\ N \subseteq A /\ M \subseteq B
  BY <1>2, <1>3, <1>4
<1> HIDE DEF A, B, T, L, N, M
<1>7. Seq(L) \subseteq Seq(T) /\ Seq(Groups) \subseteq Seq(T) /\ Seq(Nodes) \subseteq Seq(T)
      /\ Seq(N) \subseteq Seq(A) /\ Seq(M) \subseteq Seq(B)
  BY <1>5, <1>6
<1>8. Seq(Links) \subseteq Seq(Things) /\ Seq(Groups) \subseteq Seq(Things) /\ Seq(Nodes) \subseteq Seq(Things)
      /\ Seq(NodeRecs) \subseteq Seq(StartedCells(Things)) /\ Seq(AllStats) \subseteq Seq(NewCells(Things))
  BY <1>7 DEF A, B, T, L, N, M
<1> QED BY <1>1, <1>8, Zenon DEF Fits

\* What a live page shows is listed once, and will not be told to it again.
Shown(f, P) == \E U : Tidy(f, U) /\ Shows(f) \cap P = {}
FlowInv == ~replay.done /\ trouble \cap {"unaligned", "mixed"} = {} => Shown(flow, Pending)

\* An emptied store shows nothing.
LEMMA EmptyIsShown ==
  ASSUME NEW P
  PROVE  Shown(EmptyFlow, P)
BY EmptyIsTidy DEF Shown

\* A delta of things not shown, that will not be told again.
LEMMA DeltaIsShown ==
  ASSUME NEW f, NEW P, Shown(f, P), NEW dl, IsDelta(dl), TellsOnce(dl), Tells(dl) \cap Shows(f) = {},
         NEW P2, P2 \subseteq P, Tells(dl) \cap P2 = {}
  PROVE  Shown(OnDelta(f, dl), P2)
<1>1. PICK U : Tidy(f, U) /\ Shows(f) \cap P = {}
  BY DEF Shown
<1>2. Fits(dl, Things)
  BY DeltaFits
<1>3. /\ \E W : Tidy(OnDelta(f, dl), W)
      /\ Shows(OnDelta(f, dl)) \subseteq (Shows(f) \cup Tells(dl)) \ TakesBack(dl)
  BY <1>1, <1>2, OnDeltaTidy
<1>4. Shows(OnDelta(f, dl)) \cap P2 = {}
  BY <1>1, <1>3
<1> QED BY <1>3, <1>4 DEF Shown

\* A page that shows less than it did of what is to be told.
LEMMA StillShown ==
  ASSUME NEW f, NEW P, Shown(f, P), NEW P2, P2 \subseteq P
  PROVE  Shown(f, P2)
BY DEF Shown

\* No step shows a live page what it shows already, but for the troubles named.
LEMMA FlowKeeps ==
  ASSUME FeedInv, AnswersInv, FlowInv, ReplayInv, [Next]_vars, Pending' \subseteq Pending
  PROVE  FlowInv'
<1> SUFFICES ASSUME ~replay'.done, trouble' \cap {"unaligned", "mixed"} = {}
             PROVE  Shown(flow', Pending')
  BY DEF FlowInv
<1>1. CASE UNCHANGED <<flow, replay>> /\ trouble \subseteq trouble'
  BY <1>1, StillShown DEF FlowInv
<1>2. CASE Mount \/ OnWorkerCleared
  <2>1. flow' = EmptyFlow
    BY <1>2 DEF Mount, OnWorkerCleared, Asks
  <2> QED BY <2>1, EmptyIsShown
<1>3. CASE ReceiveAnswer
  <2>1. PICK i \in DOMAIN requests : /\ requests[i].answered /\ flow' = OnDelta(flow, requests[i].delta)
                                     /\ trouble' = trouble \cup OnAnswer(flow, requests[i].delta)
    BY <1>3 DEF ReceiveAnswer
  <2> DEFINE a == requests[i].delta
  <2>2. flow = EmptyFlow /\ "unaligned" \notin trouble
    BY <2>1 DEF OnAnswer
  <2>3. IsDelta(a) /\ TellsOnce(a) /\ Tells(a) \cap Pending = {}
    BY <2>1, <2>2 DEF AnswersInv, CaughtUp
  <2>4. Shown(EmptyFlow, Pending) /\ Shows(EmptyFlow) = {}
    BY EmptyIsShown, EmptyIsTidy
  <2> HIDE DEF a
  <2>5. Tells(a) \cap Shows(EmptyFlow) = {} /\ Tells(a) \cap Pending' = {}
    BY <2>3, <2>4
  <2>6. Shown(OnDelta(EmptyFlow, a), Pending')
    BY <2>3, <2>4, <2>5, DeltaIsShown
  <2> QED BY <2>1, <2>2, <2>6 DEF a
<1>4. CASE ReceivePush
  <2>1. /\ IsDelta(Head(pushes)) /\ TellsOnce(Head(pushes))
        /\ Tells(Head(pushes)) \subseteq Pending /\ Tells(Head(pushes)) \cap Pending' = {}
    BY <1>4, FeedHeard
  <2>2. replay' = replay /\ trouble \subseteq trouble'
    BY <1>4 DEF ReceivePush
  <2>3. flow' = OnDelta(flow, Head(pushes))
    BY <1>4, <2>2 DEF ReceivePush
  <2>4. Shown(flow, Pending)
    BY <2>2 DEF FlowInv
  <2> DEFINE e == Head(pushes)
  <2> HIDE DEF e
  <2>5. Shows(flow) \cap Pending = {}
    BY <2>4 DEF Shown
  <2>6. Tells(e) \cap Shows(flow) = {}
    BY <2>1, <2>5 DEF e
  <2>7. Shown(OnDelta(flow, e), Pending')
    BY <2>1, <2>4, <2>6, DeltaIsShown DEF e
  <2> QED BY <2>3, <2>7 DEF e
<1>5. CASE OnWorkerDelta \/ OnWorkerOpened
  BY <1>5, PageFollows DEF PageHears
<1>6. CASE OnWorkerProgress
  <2>1. ~replay.done
    BY <1>6, PageFollows DEF PageHears
  <2>2. flow' = flow /\ trouble' = trouble
    BY <1>6 DEF OnWorkerProgress
  <2> QED BY <2>1, <2>2, StillShown DEF FlowInv
<1>7. Answer \/ RequestRefused \/ RequestFails \/ PusherIsMade \/ SocketOpens \/ SocketCloses \/ FlowMoves \/ Push
        => UNCHANGED <<flow, replay>> /\ trouble \subseteq trouble'
  BY DEF Answer, RequestRefused, RequestFails, PusherIsMade, SocketOpens, SocketCloses, FlowMoves, Push, pageVars
<1>8. User \/ WorkerMoves \/ UNCHANGED vars => UNCHANGED <<flow, replay>> /\ trouble \subseteq trouble'
  BY DEF User, OpenFile, ClearReplay, Keys, SeekByBar, UserSends, WorkerMoves, vars, pageVars
<1> QED BY <1>1, <1>2, <1>3, <1>4, <1>5, <1>6, <1>7, <1>8 DEF Next, PageHears

\* The invariant of a live page.
PageInv == FeedInv /\ AnswersInv /\ FlowInv /\ ReplayInv

\* A page that was not mounted yet.
LEMMA InitPage == Init => PageInv
<1> SUFFICES ASSUME Init PROVE PageInv
  OBVIOUS
<1>1. PICK p \in Programs : MonitorFlow(p)
  BY DEF Init
<1>2. HeldInv
  BY <1>1, InitHeld
<1>3. flow = EmptyFlow /\ requests = <<>> /\ pushes = <<>>
  BY DEF Init
<1>4. FeedInv
  BY <1>2, <1>3, NoneYet DEF FeedInv
<1>5. AnswersInv
  <2>1. <<>> \in Seq(ToSet(<<>>)) /\ DOMAIN <<>> = {}
    OBVIOUS
  <2> QED BY <1>3, <2>1 DEF AnswersInv
<1>6. FlowInv
  BY <1>3, EmptyIsShown DEF FlowInv
<1> QED BY <1>4, <1>5, <1>6, InitFollows DEF PageInv

\* No step of the flow, the server, the network, the user or the worker breaks it.
LEMMA NextPage ==
  ASSUME TypeInv, LinkInv(script), PageInv, [Next]_vars
  PROVE  PageInv'
<1>1. FeedInv' /\ Pending' \subseteq Pending
  BY FeedKeeps DEF PageInv
<1>2. AnswersInv'
  BY <1>1, AnswersKeep DEF PageInv, FeedInv
<1>3. FlowInv'
  BY <1>1, FlowKeeps DEF PageInv
<1>4. ReplayInv'
  BY NextFollows DEF PageInv
<1> QED BY <1>1, <1>2, <1>3, <1>4 DEF PageInv

\* Whatever the flow, the network, the server and the user do, a live page lists nothing
\* twice, for any flow that links in turn, unless an answer of the catch-up was made while
\* a delta was pending, or came on top of something.
THEOREM DuplicatesHaveACauseHolds ==
  ASSUME \A p \in Programs : LinkedInTurn(p)
  PROVE  Spec => []DuplicatesHaveACause
<1>1. Init => PageInv
  BY InitPage
<1>2. (MonitorerInv /\ LinksInv) /\ PageInv /\ [Next]_vars => PageInv'
  BY NextPage DEF MonitorerInv, LinksInv
<1>3. PageInv => DuplicatesHaveACause
  <2> SUFFICES ASSUME PageInv, ~replay.done, trouble \cap {"unaligned", "mixed"} = {}
               PROVE  ListsOnce(flow)
    BY DEF DuplicatesHaveACause
  <2>1. PICK U : Tidy(flow, U)
    BY DEF PageInv, FlowInv, Shown
  <2> QED BY <2>1, TidyListsOnce
<1>4. Spec => [](MonitorerInv /\ LinksInv)
  BY LinksHold, PageIsAMonitorer, PTL
<1> QED BY <1>1, <1>2, <1>3, <1>4, PTL DEF Spec

---------------------------------------------------------------------------
(* What a live page goes on showing.                                       *)
(*                                                                         *)
(* A thing that can be withdrawn settles: once announced it stands, in the *)
(* catch-up or until a delta that withdraws it is handed over.  What a     *)
(* page shows stands, or is withdrawn by a delta on its way to the page.   *)

\* The steps that withdraw a thing, in the one half of the handlers and in the other.
OutOfDelta   == [link |-> "CutInDelta", group |-> "GroupDoneInDelta", node |-> "NodeDoneInDelta"]
OutOfCatchUp == [link |-> "DropLink", group |-> "DropGroup", node |-> "DropNode"]

\* What is still to be withdrawn.
Going(sc, half) ==
    ({"link"} \X LeftOf(sc, Links, half.link)) \cup ({"group"} \X LeftOf(sc, Groups, half.group))
        \cup ({"node"} \X LeftOf(sc, Nodes, half.node))

\* What a step of a handler does to a thing that is announced: it is not lost on its way to
\* a delta, and nothing else comes into the catch-up.
Lands(y) ==
    /\ y \in Coming(script, InDelta) => y \in Coming(script', InDelta) \/ y \in Tells(d')
    /\ y \in Tells(d) => y \in Tells(d')
    /\ y \in Tells(cd') => y \in Tells(cd) \/ y \in Coming(script, InCatchUp)
    /\ y \in Coming(script', InCatchUp) => y \in Coming(script, InCatchUp)

\* And to one that can be withdrawn: nothing is announced to a delta but in its turn, and
\* what leaves the catch-up is going to be withdrawn.
Settles(y) ==
    /\ Lands(y)
    /\ y \in Coming(script', InDelta) => y \in Coming(script, InDelta)
    /\ y \in Coming(script, InCatchUp) => y \in Coming(script', InCatchUp) \/ y \in Tells(cd')
    /\ y \in Tells(cd) => \/ y \in Tells(cd')
                          \/ /\ y \in Going(script', OutOfDelta) /\ y \notin Going(script', OutOfCatchUp)
                             /\ y \notin Coming(script, InDelta)
    /\ y \in Going(script, OutOfDelta) /\ y \notin Going(script, OutOfCatchUp) =>
           \/ y \in Going(script', OutOfDelta) /\ y \notin Going(script', OutOfCatchUp)
           \/ y \in TakesBack(d')
    /\ y \in TakesBack(d) => y \in TakesBack(d')
    /\ y \in Tells(d') => y \in Tells(d) \/ (y \in Coming(script, InDelta) /\ y \notin Coming(script, InCatchUp))
    /\ y \in TakesBack(d') =>
           y \in TakesBack(d) \/ (y \in Going(script, OutOfDelta) /\ y \notin Going(script, OutOfCatchUp))
    /\ y \in Going(script', OutOfDelta) /\ y \notin Going(script', OutOfCatchUp) =>
           \/ y \in Going(script, OutOfDelta) /\ y \notin Going(script, OutOfCatchUp)
           \/ y \notin Tells(cd') /\ y \notin Coming(script', InCatchUp)

\* The same, of one thing that c says is in the catch-up, t told by the pending delta and z
\* withdrawn by it.
LEMMA SettlesOne ==
  ASSUME NEW sc, NEW sc2, NEW st, NEW A1, NEW A2, NEW L1, NEW L2, Turns(sc, sc2, st, A1, A2, L1, L2),
         NEW c \in BOOLEAN, NEW t \in BOOLEAN, NEW z \in BOOLEAN,
         NEW cc \in BOOLEAN, NEW tt \in BOOLEAN, NEW zz \in BOOLEAN,
         cc <=> (c \/ st = A1) /\ st # L1, tt <=> t \/ st = A2, zz <=> z \/ st = L2
  PROVE  /\ Left(sc2, A2) => Left(sc, A2)
         /\ Left(sc, A1) => Left(sc2, A1) \/ cc
         /\ c => cc \/ (Left(sc2, L2) /\ ~Left(sc2, L1) /\ ~Left(sc, A2))
         /\ Left(sc, L2) /\ ~Left(sc, L1) => (Left(sc2, L2) /\ ~Left(sc2, L1)) \/ zz
         /\ z => zz
         /\ tt => t \/ (Left(sc, A2) /\ ~Left(sc, A1))
         /\ zz => z \/ (Left(sc, L2) /\ ~Left(sc, L1))
         /\ Left(sc2, L2) /\ ~Left(sc2, L1) => (Left(sc, L2) /\ ~Left(sc, L1)) \/ (~cc /\ ~Left(sc2, A1))
         /\ Left(sc, A2) => Left(sc2, A2) \/ tt
         /\ t => tt
         /\ cc => c \/ Left(sc, A1)
         /\ Left(sc2, A1) => Left(sc, A1)
<1>1. Turns(sc, sc2, st, A1, A2, L1, L2) OBVIOUS
<1>2. CASE st = L1 BY <1>1, <1>2 DEF Turns
<1>3. CASE st = L2 BY <1>1, <1>3 DEF Turns
<1>4. CASE st = A1 BY <1>1, <1>4 DEF Turns
<1>5. CASE st = A2 BY <1>1, <1>5 DEF Turns
<1>6. CASE st \notin {A1, A2, L1, L2} BY <1>1, <1>6 DEF Turns
<1> QED BY <1>2, <1>3, <1>4, <1>5, <1>6

\* A group among the things of a delta and of a script.
LEMMA AsGroup ==
  ASSUME NEW g \in Groups
  PROVE  /\ \A dl : <<"group", g>> \in Tells(dl) <=> g \in ToSet(dl.startedGroups)
         /\ \A dl : <<"group", g>> \in TakesBack(dl) <=> g \in ToSet(dl.doneGroups)
         /\ \A sc, half : <<"group", g>> \in Coming(sc, half) <=> Left(sc, Step(half.group, g))
         /\ \A sc, half : <<"group", g>> \in Going(sc, half) <=> Left(sc, Step(half.group, g))
<1>1. \A dl : <<"group", g>> \in Tells(dl) <=> g \in ToSet(dl.startedGroups) BY DEF Tells
<1>2. \A dl : <<"group", g>> \in TakesBack(dl) <=> g \in ToSet(dl.doneGroups) BY DEF TakesBack
<1>3. \A sc, do : g \in LeftOf(sc, Groups, do) <=> Left(sc, Step(do, g)) BY DEF LeftOf
<1>4. \A sc, half : <<"group", g>> \in Coming(sc, half) <=> g \in LeftOf(sc, Groups, half.group) BY DEF Coming
<1>5. \A sc, half : <<"group", g>> \in Going(sc, half) <=> g \in LeftOf(sc, Groups, half.group) BY DEF Going
<1> QED BY <1>1, <1>2, <1>3, <1>4, <1>5

\* A node is told by its record, taken back by its id.
LEMMA AsNode ==
  ASSUME NEW n \in Nodes
  PROVE  /\ \A dl : IsDelta(dl) => (<<"node", n>> \in Tells(dl) <=> NodeRec(n) \in ToSet(dl.startedNodes))
         /\ \A dl : <<"node", n>> \in TakesBack(dl) <=> n \in ToSet(dl.doneNodes)
         /\ \A sc, half : <<"node", n>> \in Coming(sc, half) <=> Left(sc, Step(half.node, n))
         /\ \A sc, half : <<"node", n>> \in Going(sc, half) <=> Left(sc, Step(half.node, n))
<1>1. ASSUME NEW dl, IsDelta(dl)
      PROVE  <<"node", n>> \in Tells(dl) <=> NodeRec(n) \in ToSet(dl.startedNodes)
  <2>1. <<"node", n>> \in Tells(dl) <=> n \in IdsOf(dl.startedNodes) BY DEF Tells
  <2>2. IdsOf(dl.startedNodes) = {x.id : x \in ToSet(dl.startedNodes)} BY IdsOfSet
  <2>3. dl.startedNodes \in Seq(NodeRecs) BY <1>1 DEF IsDelta
  <2>4. \A x \in ToSet(dl.startedNodes) : x \in NodeRecs BY <2>3 DEF ToSet
  <2>5. \A x \in NodeRecs : x = NodeRec(x.id) BY DEF NodeRecs, NodeRec
  <2>6. NodeRec(n).id = n BY DEF NodeRec
  <2> QED BY <2>1, <2>2, <2>4, <2>5, <2>6
<1>2. \A dl : <<"node", n>> \in TakesBack(dl) <=> n \in ToSet(dl.doneNodes) BY DEF TakesBack
<1>3. \A sc, do : n \in LeftOf(sc, Nodes, do) <=> Left(sc, Step(do, n)) BY DEF LeftOf
<1>4. \A sc, half : <<"node", n>> \in Coming(sc, half) <=> n \in LeftOf(sc, Nodes, half.node) BY DEF Coming
<1>5. \A sc, half : <<"node", n>> \in Going(sc, half) <=> n \in LeftOf(sc, Nodes, half.node) BY DEF Going
<1> QED BY <1>1, <1>2, <1>3, <1>4, <1>5

\* And a link.
LEMMA AsLink ==
  ASSUME NEW l \in Links
  PROVE  /\ \A dl : <<"link", l>> \in Tells(dl) <=> l \in ToSet(dl.connected)
         /\ \A dl : <<"link", l>> \in TakesBack(dl) <=> l \in ToSet(dl.disconnected)
         /\ \A sc, half : <<"link", l>> \in Coming(sc, half) <=> Left(sc, Step(half.link, l))
         /\ \A sc, half : <<"link", l>> \in Going(sc, half) <=> Left(sc, Step(half.link, l))
<1> DEFINE L == Links
<1>0. l \in L OBVIOUS
<1>1. \A dl : <<"link", l>> \in Tells(dl) <=> l \in ToSet(dl.connected) BY DEF Tells
<1>2. \A dl : <<"link", l>> \in TakesBack(dl) <=> l \in ToSet(dl.disconnected) BY DEF TakesBack
<1> HIDE DEF L
<1>3. \A sc, do : l \in LeftOf(sc, L, do) <=> Left(sc, Step(do, l)) BY <1>0 DEF LeftOf
<1>4. \A sc, half : <<"link", l>> \in Coming(sc, half) <=> l \in LeftOf(sc, L, half.link) BY DEF Coming, L
<1>5. \A sc, half : <<"link", l>> \in Going(sc, half) <=> l \in LeftOf(sc, L, half.link) BY DEF Going, L
<1> QED BY <1>1, <1>2, <1>3, <1>4, <1>5

\* Groups settle.
LEMMA GroupSettles ==
  ASSUME TypeInv, NEW t \in Threads, Handle(t), NEW g \in Groups
  PROVE  Settles(<<"group", g>>)
<1> DEFINE st == Head(script[t])
           A1 == Step("GroupInCatchUp", g)
           A2 == Step("GroupInDelta", g)
           L1 == Step("DropGroup", g)
           L2 == Step("GroupDoneInDelta", g)
           y == <<"group", g>>
           c == y \in Tells(cd)
           p == y \in Tells(d)
           z == y \in TakesBack(d)
           cc == y \in Tells(cd')
           pp == y \in Tells(d')
           zz == y \in TakesBack(d')
           sc == script
           sc2 == script'
<1>1. Turns(script, script', st, A1, A2, L1, L2) BY GroupTurns
<1>2. st = Step(st.do, Subject(t)) /\ EffectOnCatchUp(st.do, Subject(t)) /\ EffectOnDelta(st.do, Subject(t))
  BY HandleRuns, Effects
<1>3. /\ st = A1 <=> st.do = "GroupInCatchUp" /\ Subject(t) = g
      /\ st = A2 <=> st.do = "GroupInDelta" /\ Subject(t) = g
      /\ st = L1 <=> st.do = "DropGroup" /\ Subject(t) = g
      /\ st = L2 <=> st.do = "GroupDoneInDelta" /\ Subject(t) = g
  BY <1>2 DEF Step
<1>4. cc <=> (c \/ st = A1) /\ st # L1
  <2>1. ToSet(cd'.startedGroups) = (ToSet(cd.startedGroups) \cup {x \in {Subject(t)} : st.do = "GroupInCatchUp"})
                                       \ {x \in {Subject(t)} : st.do = "DropGroup"}
    BY <1>2 DEF EffectOnCatchUp
  <2>2. (c <=> g \in ToSet(cd.startedGroups)) /\ (cc <=> g \in ToSet(cd'.startedGroups)) BY AsGroup
  <2> HIDE DEF c, cc, st, A1, A2, L1, L2
  <2> QED BY <1>3, <2>1, <2>2
<1>5. (pp <=> p \/ st = A2) /\ (zz <=> z \/ st = L2)
  <2>1. /\ ToSet(d'.startedGroups) = ToSet(d.startedGroups) \cup {x \in {Subject(t)} : st.do = "GroupInDelta"}
        /\ ToSet(d'.doneGroups) = ToSet(d.doneGroups) \cup {x \in {Subject(t)} : st.do = "GroupDoneInDelta"}
    BY <1>2 DEF EffectOnDelta
  <2>2. /\ (p <=> g \in ToSet(d.startedGroups)) /\ (pp <=> g \in ToSet(d'.startedGroups))
        /\ (z <=> g \in ToSet(d.doneGroups)) /\ (zz <=> g \in ToSet(d'.doneGroups))
    BY AsGroup
  <2> HIDE DEF p, pp, z, zz, st, A1, A2, L1, L2
  <2> QED BY <1>3, <2>1, <2>2
<1>6. /\ (y \in Coming(sc, InDelta) <=> Left(sc, A2)) /\ (y \in Coming(sc2, InDelta) <=> Left(sc2, A2))
      /\ (y \in Coming(sc, InCatchUp) <=> Left(sc, A1)) /\ (y \in Coming(sc2, InCatchUp) <=> Left(sc2, A1))
      /\ (y \in Going(sc, OutOfDelta) <=> Left(sc, L2)) /\ (y \in Going(sc2, OutOfDelta) <=> Left(sc2, L2))
      /\ (y \in Going(sc, OutOfCatchUp) <=> Left(sc, L1)) /\ (y \in Going(sc2, OutOfCatchUp) <=> Left(sc2, L1))
  <2>1. /\ InDelta.group = "GroupInDelta" /\ InCatchUp.group = "GroupInCatchUp"
        /\ OutOfDelta.group = "GroupDoneInDelta" /\ OutOfCatchUp.group = "DropGroup"
    BY DEF InDelta, InCatchUp, OutOfDelta, OutOfCatchUp
  <2> HIDE DEF sc, sc2
  <2> QED BY <2>1, AsGroup
<1>7. /\ c \in BOOLEAN /\ p \in BOOLEAN /\ z \in BOOLEAN /\ cc \in BOOLEAN /\ pp \in BOOLEAN /\ zz \in BOOLEAN
      /\ Turns(sc, sc2, st, A1, A2, L1, L2)
  BY <1>1
<1>8. Settles(y) <=>
      /\ y \in Coming(sc2, InDelta) => y \in Coming(sc, InDelta)
      /\ y \in Coming(sc, InCatchUp) => y \in Coming(sc2, InCatchUp) \/ cc
      /\ c => cc \/ (y \in Going(sc2, OutOfDelta) /\ y \notin Going(sc2, OutOfCatchUp) /\ y \notin Coming(sc, InDelta))
      /\ y \in Going(sc, OutOfDelta) /\ y \notin Going(sc, OutOfCatchUp) =>
             (y \in Going(sc2, OutOfDelta) /\ y \notin Going(sc2, OutOfCatchUp)) \/ zz
      /\ z => zz
      /\ pp => p \/ (y \in Coming(sc, InDelta) /\ y \notin Coming(sc, InCatchUp))
      /\ zz => z \/ (y \in Going(sc, OutOfDelta) /\ y \notin Going(sc, OutOfCatchUp))
      /\ y \in Going(sc2, OutOfDelta) /\ y \notin Going(sc2, OutOfCatchUp) =>
             (y \in Going(sc, OutOfDelta) /\ y \notin Going(sc, OutOfCatchUp)) \/ (~cc /\ y \notin Coming(sc2, InCatchUp))
      /\ y \in Coming(sc, InDelta) => y \in Coming(sc2, InDelta) \/ pp
      /\ p => pp
      /\ cc => c \/ y \in Coming(sc, InCatchUp)
      /\ y \in Coming(sc2, InCatchUp) => y \in Coming(sc, InCatchUp)
  BY DEF Settles, Lands
<1> HIDE DEF st, A1, A2, L1, L2, c, p, z, cc, pp, zz, sc, sc2
<1>9. /\ Left(sc2, A2) => Left(sc, A2)
      /\ Left(sc, A1) => Left(sc2, A1) \/ cc
      /\ c => cc \/ (Left(sc2, L2) /\ ~Left(sc2, L1) /\ ~Left(sc, A2))
      /\ Left(sc, L2) /\ ~Left(sc, L1) => (Left(sc2, L2) /\ ~Left(sc2, L1)) \/ zz
      /\ z => zz
      /\ pp => p \/ (Left(sc, A2) /\ ~Left(sc, A1))
      /\ zz => z \/ (Left(sc, L2) /\ ~Left(sc, L1))
      /\ Left(sc2, L2) /\ ~Left(sc2, L1) => (Left(sc, L2) /\ ~Left(sc, L1)) \/ (~cc /\ ~Left(sc2, A1))
      /\ Left(sc, A2) => Left(sc2, A2) \/ pp
      /\ p => pp
      /\ cc => c \/ Left(sc, A1)
      /\ Left(sc2, A1) => Left(sc, A1)
  BY <1>4, <1>5, <1>7, SettlesOne
<1> HIDE DEF y
<1> QED BY <1>6, <1>8, <1>9 DEF y

\* Nodes settle.
LEMMA NodeSettles ==
  ASSUME TypeInv, NEW t \in Threads, Handle(t), NEW n \in Nodes
  PROVE  Settles(<<"node", n>>)
<1> DEFINE st == Head(script[t])
           A1 == Step("NodeInCatchUp", n)
           A2 == Step("NodeInDelta", n)
           L1 == Step("DropNode", n)
           L2 == Step("NodeDoneInDelta", n)
           y == <<"node", n>>
           c == y \in Tells(cd)
           p == y \in Tells(d)
           z == y \in TakesBack(d)
           cc == y \in Tells(cd')
           pp == y \in Tells(d')
           zz == y \in TakesBack(d')
           sc == script
           sc2 == script'
<1>1. Turns(script, script', st, A1, A2, L1, L2) BY NodeTurns
<1>2. st = Step(st.do, Subject(t)) /\ EffectOnCatchUp(st.do, Subject(t)) /\ EffectOnDelta(st.do, Subject(t))
  BY HandleRuns, Effects
<1>3. /\ st = A1 <=> st.do = "NodeInCatchUp" /\ Subject(t) = n
      /\ st = A2 <=> st.do = "NodeInDelta" /\ Subject(t) = n
      /\ st = L1 <=> st.do = "DropNode" /\ Subject(t) = n
      /\ st = L2 <=> st.do = "NodeDoneInDelta" /\ Subject(t) = n
  BY <1>2 DEF Step
<1>4. /\ NodeRec(n) \in NodeRecs /\ NodeRec(n).id = n
      /\ \A m : NodeRec(m) = NodeRec(n) => m = n
  <2>1. \A m : NodeRec(m).id = m BY DEF NodeRec
  <2> QED BY <2>1 DEF NodeRecs
<1>5. IsDelta(cd) /\ IsDelta(cd') /\ IsDelta(d) /\ IsDelta(d')
  BY <1>2 DEF TypeInv, EffectOnCatchUp, EffectOnDelta
<1>6. cc <=> (c \/ st = A1) /\ st # L1
  <2>1. ToSet(cd'.startedNodes) =
            (ToSet(cd.startedNodes) \cup {NodeRec(m) : m \in {x \in {Subject(t)} : st.do = "NodeInCatchUp"}})
                \ {r \in NodeRecs : st.do = "DropNode" /\ r.id = Subject(t)}
    BY <1>2 DEF EffectOnCatchUp
  <2>2. (c <=> NodeRec(n) \in ToSet(cd.startedNodes)) /\ (cc <=> NodeRec(n) \in ToSet(cd'.startedNodes))
    BY <1>5, AsNode
  <2> HIDE DEF c, cc, st, A1, A2, L1, L2
  <2> QED BY <1>3, <1>4, <2>1, <2>2
<1>7. (pp <=> p \/ st = A2) /\ (zz <=> z \/ st = L2)
  <2>1. /\ ToSet(d'.startedNodes) =
               ToSet(d.startedNodes) \cup {NodeRec(m) : m \in {x \in {Subject(t)} : st.do = "NodeInDelta"}}
        /\ ToSet(d'.doneNodes) = ToSet(d.doneNodes) \cup {x \in {Subject(t)} : st.do = "NodeDoneInDelta"}
    BY <1>2 DEF EffectOnDelta
  <2>2. /\ (p <=> NodeRec(n) \in ToSet(d.startedNodes)) /\ (pp <=> NodeRec(n) \in ToSet(d'.startedNodes))
        /\ (z <=> n \in ToSet(d.doneNodes)) /\ (zz <=> n \in ToSet(d'.doneNodes))
    BY <1>5, AsNode
  <2> HIDE DEF p, pp, z, zz, st, A1, A2, L1, L2
  <2> QED BY <1>3, <1>4, <2>1, <2>2
<1>8. /\ (y \in Coming(sc, InDelta) <=> Left(sc, A2)) /\ (y \in Coming(sc2, InDelta) <=> Left(sc2, A2))
      /\ (y \in Coming(sc, InCatchUp) <=> Left(sc, A1)) /\ (y \in Coming(sc2, InCatchUp) <=> Left(sc2, A1))
      /\ (y \in Going(sc, OutOfDelta) <=> Left(sc, L2)) /\ (y \in Going(sc2, OutOfDelta) <=> Left(sc2, L2))
      /\ (y \in Going(sc, OutOfCatchUp) <=> Left(sc, L1)) /\ (y \in Going(sc2, OutOfCatchUp) <=> Left(sc2, L1))
  <2>1. /\ InDelta.node = "NodeInDelta" /\ InCatchUp.node = "NodeInCatchUp"
        /\ OutOfDelta.node = "NodeDoneInDelta" /\ OutOfCatchUp.node = "DropNode"
    BY DEF InDelta, InCatchUp, OutOfDelta, OutOfCatchUp
  <2> HIDE DEF sc, sc2
  <2> QED BY <2>1, AsNode
<1>9. /\ c \in BOOLEAN /\ p \in BOOLEAN /\ z \in BOOLEAN /\ cc \in BOOLEAN /\ pp \in BOOLEAN /\ zz \in BOOLEAN
      /\ Turns(sc, sc2, st, A1, A2, L1, L2)
  BY <1>1
<1>10. Settles(y) <=>
      /\ y \in Coming(sc2, InDelta) => y \in Coming(sc, InDelta)
      /\ y \in Coming(sc, InCatchUp) => y \in Coming(sc2, InCatchUp) \/ cc
      /\ c => cc \/ (y \in Going(sc2, OutOfDelta) /\ y \notin Going(sc2, OutOfCatchUp) /\ y \notin Coming(sc, InDelta))
      /\ y \in Going(sc, OutOfDelta) /\ y \notin Going(sc, OutOfCatchUp) =>
             (y \in Going(sc2, OutOfDelta) /\ y \notin Going(sc2, OutOfCatchUp)) \/ zz
      /\ z => zz
      /\ pp => p \/ (y \in Coming(sc, InDelta) /\ y \notin Coming(sc, InCatchUp))
      /\ zz => z \/ (y \in Going(sc, OutOfDelta) /\ y \notin Going(sc, OutOfCatchUp))
      /\ y \in Going(sc2, OutOfDelta) /\ y \notin Going(sc2, OutOfCatchUp) =>
             (y \in Going(sc, OutOfDelta) /\ y \notin Going(sc, OutOfCatchUp)) \/ (~cc /\ y \notin Coming(sc2, InCatchUp))
      /\ y \in Coming(sc, InDelta) => y \in Coming(sc2, InDelta) \/ pp
      /\ p => pp
      /\ cc => c \/ y \in Coming(sc, InCatchUp)
      /\ y \in Coming(sc2, InCatchUp) => y \in Coming(sc, InCatchUp)
  BY DEF Settles, Lands
<1> HIDE DEF st, A1, A2, L1, L2, c, p, z, cc, pp, zz, sc, sc2
<1>11. /\ Left(sc2, A2) => Left(sc, A2)
       /\ Left(sc, A1) => Left(sc2, A1) \/ cc
       /\ c => cc \/ (Left(sc2, L2) /\ ~Left(sc2, L1) /\ ~Left(sc, A2))
       /\ Left(sc, L2) /\ ~Left(sc, L1) => (Left(sc2, L2) /\ ~Left(sc2, L1)) \/ zz
       /\ z => zz
       /\ pp => p \/ (Left(sc, A2) /\ ~Left(sc, A1))
       /\ zz => z \/ (Left(sc, L2) /\ ~Left(sc, L1))
       /\ Left(sc2, L2) /\ ~Left(sc2, L1) => (Left(sc, L2) /\ ~Left(sc, L1)) \/ (~cc /\ ~Left(sc2, A1))
       /\ Left(sc, A2) => Left(sc2, A2) \/ pp
       /\ p => pp
       /\ cc => c \/ Left(sc, A1)
       /\ Left(sc2, A1) => Left(sc, A1)
  BY <1>6, <1>7, <1>9, SettlesOne
<1> HIDE DEF y
<1> QED BY <1>8, <1>10, <1>11 DEF y
\* Links settle, when they come in turn.
LEMMA LinkSettles ==
  ASSUME TypeInv, LinkInv(script), NEW t \in Threads, Handle(t), NEW l \in Links
  PROVE  Settles(<<"link", l>>)
<1> DEFINE st == Head(script[t])
           A1 == Step("LinkInCatchUp", l)
           A2 == Step("LinkInDelta", l)
           L1 == Step("DropLink", l)
           L2 == Step("CutInDelta", l)
           y == <<"link", l>>
           c == y \in Tells(cd)
           p == y \in Tells(d)
           z == y \in TakesBack(d)
           cc == y \in Tells(cd')
           pp == y \in Tells(d')
           zz == y \in TakesBack(d')
           sc == script
           sc2 == script'
<1>1. Turns(script, script', st, A1, A2, L1, L2) BY LinkTurns
<1>2. st = Step(st.do, Subject(t)) /\ EffectOnCatchUp(st.do, Subject(t)) /\ EffectOnDelta(st.do, Subject(t))
  BY HandleRuns, Effects
<1>3. /\ st = A1 <=> st.do = "LinkInCatchUp" /\ Subject(t) = l
      /\ st = A2 <=> st.do = "LinkInDelta" /\ Subject(t) = l
      /\ st = L1 <=> st.do = "DropLink" /\ Subject(t) = l
      /\ st = L2 <=> st.do = "CutInDelta" /\ Subject(t) = l
  BY <1>2 DEF Step
<1>4. cc <=> (c \/ st = A1) /\ st # L1
  <2>1. ToSet(cd'.connected) = (ToSet(cd.connected) \cup {x \in {Subject(t)} : st.do = "LinkInCatchUp"})
                                       \ {x \in {Subject(t)} : st.do = "DropLink"}
    BY <1>2 DEF EffectOnCatchUp
  <2>2. (c <=> l \in ToSet(cd.connected)) /\ (cc <=> l \in ToSet(cd'.connected)) BY AsLink
  <2> HIDE DEF c, cc, st, A1, A2, L1, L2
  <2> QED BY <1>3, <2>1, <2>2
<1>5. (pp <=> p \/ st = A2) /\ (zz <=> z \/ st = L2)
  <2>1. /\ ToSet(d'.connected) = ToSet(d.connected) \cup {x \in {Subject(t)} : st.do = "LinkInDelta"}
        /\ ToSet(d'.disconnected) = ToSet(d.disconnected) \cup {x \in {Subject(t)} : st.do = "CutInDelta"}
    BY <1>2 DEF EffectOnDelta
  <2>2. /\ (p <=> l \in ToSet(d.connected)) /\ (pp <=> l \in ToSet(d'.connected))
        /\ (z <=> l \in ToSet(d.disconnected)) /\ (zz <=> l \in ToSet(d'.disconnected))
    BY AsLink
  <2> HIDE DEF p, pp, z, zz, st, A1, A2, L1, L2
  <2> QED BY <1>3, <2>1, <2>2
<1>6. /\ (y \in Coming(sc, InDelta) <=> Left(sc, A2)) /\ (y \in Coming(sc2, InDelta) <=> Left(sc2, A2))
      /\ (y \in Coming(sc, InCatchUp) <=> Left(sc, A1)) /\ (y \in Coming(sc2, InCatchUp) <=> Left(sc2, A1))
      /\ (y \in Going(sc, OutOfDelta) <=> Left(sc, L2)) /\ (y \in Going(sc2, OutOfDelta) <=> Left(sc2, L2))
      /\ (y \in Going(sc, OutOfCatchUp) <=> Left(sc, L1)) /\ (y \in Going(sc2, OutOfCatchUp) <=> Left(sc2, L1))
  <2>1. /\ InDelta.link = "LinkInDelta" /\ InCatchUp.link = "LinkInCatchUp"
        /\ OutOfDelta.link = "CutInDelta" /\ OutOfCatchUp.link = "DropLink"
    BY DEF InDelta, InCatchUp, OutOfDelta, OutOfCatchUp
  <2> HIDE DEF sc, sc2
  <2> QED BY <2>1, AsLink
<1>7. /\ c \in BOOLEAN /\ p \in BOOLEAN /\ z \in BOOLEAN /\ cc \in BOOLEAN /\ pp \in BOOLEAN /\ zz \in BOOLEAN
      /\ Turns(sc, sc2, st, A1, A2, L1, L2)
  BY <1>1
<1>8. Settles(y) <=>
      /\ y \in Coming(sc2, InDelta) => y \in Coming(sc, InDelta)
      /\ y \in Coming(sc, InCatchUp) => y \in Coming(sc2, InCatchUp) \/ cc
      /\ c => cc \/ (y \in Going(sc2, OutOfDelta) /\ y \notin Going(sc2, OutOfCatchUp) /\ y \notin Coming(sc, InDelta))
      /\ y \in Going(sc, OutOfDelta) /\ y \notin Going(sc, OutOfCatchUp) =>
             (y \in Going(sc2, OutOfDelta) /\ y \notin Going(sc2, OutOfCatchUp)) \/ zz
      /\ z => zz
      /\ pp => p \/ (y \in Coming(sc, InDelta) /\ y \notin Coming(sc, InCatchUp))
      /\ zz => z \/ (y \in Going(sc, OutOfDelta) /\ y \notin Going(sc, OutOfCatchUp))
      /\ y \in Going(sc2, OutOfDelta) /\ y \notin Going(sc2, OutOfCatchUp) =>
             (y \in Going(sc, OutOfDelta) /\ y \notin Going(sc, OutOfCatchUp)) \/ (~cc /\ y \notin Coming(sc2, InCatchUp))
      /\ y \in Coming(sc, InDelta) => y \in Coming(sc2, InDelta) \/ pp
      /\ p => pp
      /\ cc => c \/ y \in Coming(sc, InCatchUp)
      /\ y \in Coming(sc2, InCatchUp) => y \in Coming(sc, InCatchUp)
  BY DEF Settles, Lands
<1> HIDE DEF st, A1, A2, L1, L2, c, p, z, cc, pp, zz, sc, sc2
<1>9. /\ Left(sc2, A2) => Left(sc, A2)
      /\ Left(sc, A1) => Left(sc2, A1) \/ cc
      /\ c => cc \/ (Left(sc2, L2) /\ ~Left(sc2, L1) /\ ~Left(sc, A2))
      /\ Left(sc, L2) /\ ~Left(sc, L1) => (Left(sc2, L2) /\ ~Left(sc2, L1)) \/ zz
      /\ z => zz
      /\ pp => p \/ (Left(sc, A2) /\ ~Left(sc, A1))
      /\ zz => z \/ (Left(sc, L2) /\ ~Left(sc, L1))
      /\ Left(sc2, L2) /\ ~Left(sc2, L1) => (Left(sc, L2) /\ ~Left(sc, L1)) \/ (~cc /\ ~Left(sc2, A1))
      /\ Left(sc, A2) => Left(sc2, A2) \/ pp
      /\ p => pp
      /\ cc => c \/ Left(sc, A1)
      /\ Left(sc2, A1) => Left(sc, A1)
  BY <1>4, <1>5, <1>7, SettlesOne
<1> HIDE DEF y
<1> QED BY <1>6, <1>8, <1>9 DEF y

\* The things of a flow that can be withdrawn; stats leave with their nodes.
Removables == ({"link"} \X Links) \cup ({"group"} \X Groups) \cup ({"node"} \X Nodes)

\* Whatever can be withdrawn settles.
LEMMA ThingsSettle ==
  ASSUME TypeInv, LinkInv(script), NEW t \in Threads, Handle(t), NEW y \in Removables
  PROVE  Settles(y)
<1> DEFINE L == Links
<1>1. \/ \E l \in L : y = <<"link", l>>
      \/ \E g \in Groups : y = <<"group", g>>
      \/ \E n \in Nodes : y = <<"node", n>>
  <2>1. y \in ({"link"} \X L) \cup ({"group"} \X Groups) \cup ({"node"} \X Nodes)
    BY DEF Removables
  <2> HIDE DEF L
  <2> QED BY <2>1
<1>2. CASE \E l \in L : y = <<"link", l>>
  BY <1>2, LinkSettles
<1>3. CASE \E g \in Groups : y = <<"group", g>>
  BY <1>3, GroupSettles
<1>4. CASE \E n \in Nodes : y = <<"node", n>>
  BY <1>4, NodeSettles
<1> QED BY <1>1, <1>2, <1>3, <1>4

\* Of S, what is not a stat can be withdrawn, and is in T.
Within(S, T) == \A y \in S : y[1] = "stat" \/ y \in Removables \cap T

\* A part of S lies within whatever holds the withdrawable part of T.
LEMMA WithinMore ==
  ASSUME NEW S, NEW T, Within(S, T), NEW S2, S2 \subseteq S, NEW T2, T \cap Removables \subseteq T2
  PROVE  Within(S2, T2)
BY DEF Within

\* What a delta tells and what is to be announced are stats, or can be withdrawn.
LEMMA DeltaNames ==
  ASSUME NEW dl, IsDelta(dl), NEW y \in Tells(dl)
  PROVE  y[1] = "stat" \/ y \in Removables
<1> DEFINE L == Links
           A == ToSet(dl.connected)
           B == ToSet(dl.startedGroups)
           C == IdsOf(dl.startedNodes)
           D == IdsOf(dl.newStats)
<1>1. A \subseteq L /\ B \subseteq Groups
  BY DEF IsDelta, ToSet
<1>2. C \subseteq Nodes
  <2>1. C = {x.id : x \in ToSet(dl.startedNodes)}
    BY IdsOfSet
  <2>2. ToSet(dl.startedNodes) \subseteq NodeRecs
    BY DEF IsDelta, ToSet
  <2>3. \A x \in NodeRecs : x.id \in Nodes
    BY DEF NodeRecs, NodeRec
  <2> QED BY <2>1, <2>2, <2>3
<1>3. y \in ({"link"} \X A) \cup ({"group"} \X B) \cup ({"node"} \X C) \cup ({"stat"} \X D)
  BY DEF Tells
<1>4. Removables = ({"link"} \X L) \cup ({"group"} \X Groups) \cup ({"node"} \X Nodes)
  BY DEF Removables
<1> HIDE DEF A, B, C, D, L
<1> QED BY <1>1, <1>2, <1>3, <1>4

\* Whatever is still to be announced is a stat, or can be withdrawn.
LEMMA ComingNames ==
  ASSUME NEW sc, NEW half, NEW y \in Coming(sc, half)
  PROVE  y[1] = "stat" \/ y \in Removables
<1> DEFINE L == Links
           A == LeftOf(sc, L, half.link)
           B == LeftOf(sc, Groups, half.group)
           C == LeftOf(sc, Nodes, half.node)
           D == {s.id : s \in LeftOf(sc, Stats, half.stat)}
<1>1. A \subseteq L /\ B \subseteq Groups /\ C \subseteq Nodes
  BY DEF LeftOf
<1>2. y \in ({"link"} \X A) \cup ({"group"} \X B) \cup ({"node"} \X C) \cup ({"stat"} \X D)
  BY DEF Coming
<1>3. Removables = ({"link"} \X L) \cup ({"group"} \X Groups) \cup ({"node"} \X Nodes)
  BY DEF Removables
<1> HIDE DEF A, B, C, D, L
<1> QED BY <1>1, <1>2, <1>3

\* What stands: what the catch-up has, or is withdrawn from it and not yet from the pending
\* delta, or is withdrawn in the pending delta; then in the one the stater holds.
Stands == Tells(cd) \cup (Going(script, OutOfDelta) \ Going(script, OutOfCatchUp)) \cup TakesBack(d)
StandsNow == Stands \cup TakesBack(stater.delta)

\* Nothing is announced that does not stand.
WithdrawInv ==
    /\ Within(Coming(script, InDelta) \ Coming(script, InCatchUp), Tells(cd))
    /\ Within(Tells(d), Stands)
    /\ Within(Tells(stater.delta), StandsNow)

\* A step of a handler lets nothing stand no more.
LEMMA WithdrawHandled ==
  ASSUME TypeInv, LinkInv(script), WithdrawInv, NEW t \in Threads, Handle(t)
  PROVE  WithdrawInv' /\ StandsNow \cap Removables \subseteq StandsNow'
<1> DEFINE C == Coming(script, InDelta)
           C2 == Coming(script', InDelta)
           K == Coming(script, InCatchUp)
           K2 == Coming(script', InCatchUp)
           G == Going(script, OutOfDelta) \ Going(script, OutOfCatchUp)
           G2 == Going(script', OutOfDelta) \ Going(script', OutOfCatchUp)
           A == Tells(cd)
           A2 == Tells(cd')
           P == Tells(d)
           P2 == Tells(d')
           Z == TakesBack(d)
           Z2 == TakesBack(d')
           e == stater.delta
           R == Removables
<1>1. \A y \in R :
          /\ y \in C2 => y \in C
          /\ y \in K => y \in K2 \/ y \in A2
          /\ y \in A => y \in A2 \/ (y \in G2 /\ y \notin C)
          /\ y \in G => y \in G2 \/ y \in Z2
          /\ y \in Z => y \in Z2
          /\ y \in P2 => y \in P \/ (y \in C /\ y \notin K)
  <2> TAKE y \in R
  <2>1. Settles(y)
    BY ThingsSettle
  <2> QED BY <2>1 DEF Settles
<1>2. /\ \A y \in C \ K : y[1] = "stat" \/ y \in R \cap A
      /\ \A y \in P : y[1] = "stat" \/ y \in R \cap Stands
      /\ \A y \in Tells(e) : y[1] = "stat" \/ y \in R \cap StandsNow
  BY DEF WithdrawInv, Within
<1>3. /\ Stands = A \cup G \cup Z /\ Stands' = A2 \cup G2 \cup Z2
      /\ StandsNow = Stands \cup TakesBack(e) /\ StandsNow' = Stands' \cup TakesBack(e)
  <2>1. stater' = stater
    BY HandleRuns
  <2> QED BY <2>1 DEF Stands, StandsNow
<1>4. WithdrawInv' <=> /\ \A y \in C2 \ K2 : y[1] = "stat" \/ y \in R \cap A2
                       /\ \A y \in P2 : y[1] = "stat" \/ y \in R \cap Stands'
                       /\ \A y \in Tells(e) : y[1] = "stat" \/ y \in R \cap StandsNow'
  <2>1. stater' = stater
    BY HandleRuns
  <2> QED BY <2>1 DEF WithdrawInv, Within
<1>5. /\ \A y \in C2 : y[1] = "stat" \/ y \in R
      /\ \A y \in P2 : y[1] = "stat" \/ y \in R
  <2>1. IsDelta(d')
    BY Effects DEF EffectOnDelta
  <2> QED BY <2>1, DeltaNames, ComingNames
<1> DEFINE S == Stands
           S2 == Stands'
           N == StandsNow
           N2 == StandsNow'
<1> HIDE DEF C, C2, K, K2, G, G2, A, A2, P, P2, Z, Z2, e, R, S, S2, N, N2
<1>6. /\ \A y \in C \ K : y[1] = "stat" \/ y \in R \cap A
      /\ \A y \in P : y[1] = "stat" \/ y \in R \cap S
      /\ \A y \in Tells(e) : y[1] = "stat" \/ y \in R \cap N
      /\ S = A \cup G \cup Z /\ S2 = A2 \cup G2 \cup Z2
      /\ N = S \cup TakesBack(e) /\ N2 = S2 \cup TakesBack(e)
  BY <1>2, <1>3 DEF S, S2, N, N2
<1>7. \A y \in R : (y \in S => y \in S2) /\ (y \in N => y \in N2)
  BY <1>1, <1>6
<1>8. \A y \in C2 \ K2 : y[1] = "stat" \/ y \in R \cap A2
  BY <1>1, <1>5, <1>6
<1>9. \A y \in P2 : y[1] = "stat" \/ y \in R \cap S2
  BY <1>1, <1>5, <1>6, <1>7
<1>10. \A y \in Tells(e) : y[1] = "stat" \/ y \in R \cap N2
  BY <1>6, <1>7
<1> QED BY <1>4, <1>7, <1>8, <1>9, <1>10 DEF S2, N, N2, R

\* A delta in which nothing happened takes nothing back, nor does one that differs in the
\* values only, or one that is empty to the stater.
LEMMA NothingTakenBack ==
  /\ TakesBack(NoDelta) = {}
  /\ \A dl, e : /\ e.disconnected = dl.disconnected /\ e.doneGroups = dl.doneGroups /\ e.doneNodes = dl.doneNodes
                => TakesBack(e) = TakesBack(dl)
  /\ \A dl : IsEmpty(dl) => TakesBack(dl) = {}
<1>1. \A dl : dl.disconnected = <<>> /\ dl.doneGroups = <<>> /\ dl.doneNodes = <<>> => TakesBack(dl) = {}
  <2>1. ToSet(<<>>) = {}
    BY DEF ToSet
  <2>2. ASSUME NEW dl, dl.disconnected = <<>> /\ dl.doneGroups = <<>> /\ dl.doneNodes = <<>>
        PROVE  TakesBack(dl) = {}
    <3>1. TakesBack(dl) = ({"link"} \X {}) \cup ({"group"} \X {}) \cup ({"node"} \X {})
      BY <2>1, <2>2, Zenon DEF TakesBack
    <3> QED BY <3>1
  <2> QED BY <2>2
<1>2. NoDelta.disconnected = <<>> /\ NoDelta.doneGroups = <<>> /\ NoDelta.doneNodes = <<>>
  BY DEF NoDelta
<1>3. \A dl : IsEmpty(dl) => dl.disconnected = <<>> /\ dl.doneGroups = <<>> /\ dl.doneNodes = <<>>
  BY DEF IsEmpty
<1>4. TakesBack(NoDelta) = {}
  BY <1>1, <1>2
<1>5. \A dl : IsEmpty(dl) => TakesBack(dl) = {}
  BY <1>1, <1>3
<1> QED BY <1>4, <1>5 DEF TakesBack

\* What the stater does lets nothing stand no more, but for what it hands over.
LEMMA WithdrawByStater ==
  ASSUME TypeInv, WithdrawInv, Sample \/ SwapDelta \/ Deliver
  PROVE  /\ WithdrawInv'
         /\ ~Deliver => StandsNow \subseteq StandsNow'
         /\ Deliver => /\ StandsNow \subseteq StandsNow' \cup TakesBack(Handed)
                       /\ Within(Tells(Handed), StandsNow' \cup TakesBack(Handed))
                       /\ ~HandsOver => TakesBack(Handed) = {}
<1>0. /\ IsDelta(cd) /\ IsDelta(stater.delta) /\ (stater.pc # "swapped" => stater.delta = NoDelta)
      /\ stater \in [pc : {"idle", "sampled", "swapped"}, sampled : {stater.sampled}, delta : {stater.delta}]
  BY DEF TypeInv
<1>1. CASE Sample
  <2>1. script' = script /\ cd' = cd /\ d' = d /\ stater.pc = "idle"
        /\ stater' = [stater EXCEPT !.pc = "sampled", !.sampled = valuers]
    BY <1>1 DEF Sample
  <2>2. stater'.delta = stater.delta
    BY <1>0, <2>1
  <2>3. ~Deliver
    BY <2>1 DEF Deliver
  <2> QED BY <2>1, <2>2, <2>3 DEF WithdrawInv, Stands, StandsNow
<1>2. CASE SwapDelta
  <2>1. script' = script /\ cd' = cd /\ d' = NoDelta /\ stater.pc = "sampled"
        /\ stater' = [stater EXCEPT !.pc = "swapped", !.delta = d]
    BY <1>2 DEF SwapDelta
  <2>2. stater'.delta = d /\ stater.delta = NoDelta
    BY <1>0, <2>1
  <2>3. ~Deliver
    BY <2>1 DEF Deliver
  <2>4. StandsNow' = Stands /\ StandsNow = Stands /\ TakesBack(d') = {} /\ Tells(d') = {}
    BY <2>1, <2>2, NothingTakenBack, NothingTold DEF Stands, StandsNow
  <2>5. WithdrawInv'
    <3>1. Within(Tells(d'), Stands')
      BY <2>4 DEF Within
    <3>2. Within(Tells(stater'.delta), StandsNow')
      BY <2>2, <2>4 DEF WithdrawInv
    <3> QED BY <2>1, <3>1, <3>2 DEF WithdrawInv
  <2> QED BY <2>3, <2>4, <2>5
<1>3. CASE Deliver
  <2>1. script' = script /\ cd' = [cd EXCEPT !.values = Sampled] /\ d' = d /\ stater' = Idle /\ stater.pc = "swapped"
    BY <1>3 DEF Deliver
  <2>2. stater'.delta = NoDelta
    BY <2>1 DEF Idle
  <2>3. /\ cd'.connected = cd.connected /\ cd'.startedGroups = cd.startedGroups
        /\ cd'.startedNodes = cd.startedNodes /\ cd'.newStats = cd.newStats
    BY <1>0, <2>1, WithValues
  <2>4. Tells(cd') = Tells(cd)
    BY <2>3, TellsTheSame
  <2>5. /\ Handed.connected = stater.delta.connected /\ Handed.startedGroups = stater.delta.startedGroups
        /\ Handed.startedNodes = stater.delta.startedNodes /\ Handed.newStats = stater.delta.newStats
        /\ Handed.disconnected = stater.delta.disconnected /\ Handed.doneGroups = stater.delta.doneGroups
        /\ Handed.doneNodes = stater.delta.doneNodes
    BY <1>0, WithValues DEF Handed
  <2>6. Tells(Handed) = Tells(stater.delta) /\ TakesBack(Handed) = TakesBack(stater.delta)
    BY <2>5, TellsTheSame, NothingTakenBack
  <2>7. Stands' = Stands /\ StandsNow' = Stands /\ StandsNow = Stands \cup TakesBack(Handed)
    BY <2>1, <2>2, <2>4, <2>6, NothingTakenBack DEF Stands, StandsNow
  <2>8. WithdrawInv'
    <3>1. Within(Tells(stater'.delta), StandsNow')
      BY <2>2, NothingTold DEF Within
    <3> QED BY <2>1, <2>4, <2>7, <3>1 DEF WithdrawInv
  <2>9. Within(Tells(Handed), StandsNow' \cup TakesBack(Handed))
    BY <2>6, <2>7 DEF WithdrawInv
  <2>10. ~HandsOver => TakesBack(Handed) = {}
    BY <2>1, NothingTakenBack DEF HandsOver
  <2> QED BY <1>3, <2>7, <2>8, <2>9, <2>10
<1> QED BY <1>1, <1>2, <1>3

\* Between two handlers, what is to be withdrawn from a delta is to be withdrawn from the
\* catch-up too.
LEMMA InTurnGoing ==
  ASSUME ScriptInv(script), BetweenHandlers
  PROVE  Going(script, OutOfDelta) \subseteq Going(script, OutOfCatchUp)
<1>1. /\ NodesInTurn(script) /\ LinksInTurn(script) /\ GroupsInTurn(script)
  BY DEF ScriptInv
<1>2. \A x : /\ Step("CutInDelta", x).do \in SecondHalves /\ Step("GroupDoneInDelta", x).do \in SecondHalves
             /\ Step("NodeDoneInDelta", x).do \in SecondHalves
  BY DEF Step, SecondHalves
<1>3. LeftOf(script, Links, OutOfDelta.link) \subseteq LeftOf(script, Links, OutOfCatchUp.link)
  <2> SUFFICES ASSUME NEW x \in Links, Left(script, Step("CutInDelta", x))
               PROVE  Left(script, Step("DropLink", x))
    BY DEF LeftOf, OutOfDelta, OutOfCatchUp
  <2> DEFINE a == Step("DropLink", x)
             b == Step("CutInDelta", x)
  <2>1. Then(script, a, b) /\ b.do \in SecondHalves
    BY <1>1, <1>2 DEF LinksInTurn
  <2> HIDE DEF a, b
  <2>2. Left(script, b) => Left(script, a)
    BY <2>1, NoHalves
  <2> QED BY <2>2 DEF a, b
<1>4. LeftOf(script, Groups, OutOfDelta.group) \subseteq LeftOf(script, Groups, OutOfCatchUp.group)
  <2> SUFFICES ASSUME NEW x \in Groups, Left(script, Step("GroupDoneInDelta", x))
               PROVE  Left(script, Step("DropGroup", x))
    BY DEF LeftOf, OutOfDelta, OutOfCatchUp
  <2> DEFINE a == Step("DropGroup", x)
             b == Step("GroupDoneInDelta", x)
  <2>1. Then(script, a, b) /\ b.do \in SecondHalves
    BY <1>1, <1>2 DEF GroupsInTurn
  <2> HIDE DEF a, b
  <2>2. Left(script, b) => Left(script, a)
    BY <2>1, NoHalves
  <2> QED BY <2>2 DEF a, b
<1>5. LeftOf(script, Nodes, OutOfDelta.node) \subseteq LeftOf(script, Nodes, OutOfCatchUp.node)
  <2> SUFFICES ASSUME NEW x \in Nodes, Left(script, Step("NodeDoneInDelta", x))
               PROVE  Left(script, Step("DropNode", x))
    BY DEF LeftOf, OutOfDelta, OutOfCatchUp
  <2> DEFINE a == Step("DropNode", x)
             b == Step("NodeDoneInDelta", x)
  <2>1. Then(script, a, b) /\ b.do \in SecondHalves
    BY <1>1, <1>2 DEF NodesInTurn
  <2> HIDE DEF a, b
  <2>2. Left(script, b) => Left(script, a)
    BY <2>1, NoHalves
  <2> QED BY <2>2 DEF a, b
<1> QED BY <1>3, <1>4, <1>5 DEF Going

\* Scripts that were not begun announce what they announce in both halves.
LEMMA WholeComing ==
  ASSUME NEW sc, AllWhole(sc)
  PROVE  Coming(sc, InDelta) \subseteq Coming(sc, InCatchUp)
<1>1. LeftOf(sc, Links, InDelta.link) \subseteq LeftOf(sc, Links, InCatchUp.link)
  BY DEF AllWhole, Whole, LeftOf, InDelta, InCatchUp
<1>2. LeftOf(sc, Groups, InDelta.group) \subseteq LeftOf(sc, Groups, InCatchUp.group)
  BY DEF AllWhole, Whole, LeftOf, InDelta, InCatchUp
<1>3. LeftOf(sc, Nodes, InDelta.node) \subseteq LeftOf(sc, Nodes, InCatchUp.node)
  BY DEF AllWhole, Whole, LeftOf, InDelta, InCatchUp
<1>4. LeftOf(sc, Stats, InDelta.stat) \subseteq LeftOf(sc, Stats, InCatchUp.stat)
  BY DEF AllWhole, Whole, LeftOf, InDelta, InCatchUp
<1>5. {s.id : s \in LeftOf(sc, Stats, InDelta.stat)} \subseteq {s.id : s \in LeftOf(sc, Stats, InCatchUp.stat)}
  BY <1>4
<1> QED BY <1>1, <1>2, <1>3, <1>5 DEF Coming

\* It begins with the stats of the flow.
LEMMA InitWithdraws ==
  ASSUME NEW p \in Programs, MonitorFlow(p), TypeInv
  PROVE  WithdrawInv
<1> DEFINE fs == [i \in DOMAIN p.flowStats |-> [id |-> p.flowStats[i], node |-> NoNode]]
<1>1. script = ScriptOf(p) /\ cd = [NoDelta EXCEPT !.newStats = fs] /\ d = cd /\ stater.delta = NoDelta
  BY DEF MonitorFlow, Idle
<1>2. AllWhole(script)
  <2>1. IsProgram(p)
    BY ProgramsAssumption
  <2> QED BY <1>1, <2>1, ProgramScript
<1>3. Tells(d) = Tells(cd)
  BY <1>1
<1>4. Tells(cd) \subseteq Stands
  BY DEF Stands
<1>5. Within(Tells(d), Stands)
  <2>1. \A y \in Tells(cd) : y[1] = "stat" \/ y \in Removables
    BY DeltaNames DEF TypeInv
  <2> QED BY <1>3, <1>4, <2>1 DEF Within
<1>6. Within(Tells(stater.delta), StandsNow)
  BY <1>1, NothingTold DEF Within
<1>7. Within(Coming(script, InDelta) \ Coming(script, InCatchUp), Tells(cd))
  BY <1>2, WholeComing DEF Within
<1> QED BY <1>5, <1>6, <1>7 DEF WithdrawInv

\* What the deltas from the m-th on will have the page withdraw.
Away(q, m) == UNION {TakesBack(q[k]) : k \in {j \in DOMAIN q : j >= m}}

\* Each delta of a queue names nothing but what is in H or will be withdrawn.
Backed(q, H) == \A m \in DOMAIN q : Within(Tells(q[m]), H \cup Away(q, m))

\* One delta more, which takes with it what it withdraws.
LEMMA OneMoreBacked ==
  ASSUME NEW q, q \in Seq(ToSet(q)), NEW H, Backed(q, H), NEW e, NEW H2, H \cap Removables \subseteq H2 \cup TakesBack(e),
         Within(Tells(e), H2 \cup TakesBack(e))
  PROVE  /\ Backed(Append(q, e), H2)
         /\ (H \cup Away(q, 1)) \cap Removables \subseteq H2 \cup Away(Append(q, e), 1)
<1>2. /\ Len(q) \in Nat /\ DOMAIN q = 1 .. Len(q) /\ DOMAIN Append(q, e) = 1 .. Len(q) + 1
      /\ Append(q, e)[Len(q) + 1] = e /\ \A i \in 1 .. Len(q) : Append(q, e)[i] = q[i]
  <2> DEFINE S == ToSet(q) \cup {e}
             V == ToSet(q)
  <2>1. q \in Seq(V)
    OBVIOUS
  <2>2. V \subseteq S /\ e \in S
    OBVIOUS
  <2> HIDE DEF S, V
  <2>3. q \in Seq(S)
    BY <2>1, <2>2
  <2> QED BY <2>2, <2>3
<1> DEFINE a == Append(q, e)
           n == Len(q) + 1
<1> HIDE DEF a
<1>3. /\ \A i \in DOMAIN q : i \in DOMAIN a /\ a[i] = q[i] /\ i <= n /\ i >= 1
      /\ n \in DOMAIN a /\ a[n] = e /\ n >= n /\ n >= 1
      /\ \A i \in DOMAIN a : (i \in DOMAIN q) \/ i = n
  BY <1>2 DEF a
<1> HIDE DEF n
<1>4. ASSUME NEW m, m = 1 \/ m \in DOMAIN q
      PROVE  Away(q, m) \cup TakesBack(e) \subseteq Away(a, m)
  <2>1. \A k \in {j \in DOMAIN q : j >= m} : k \in {j \in DOMAIN a : j >= m} /\ a[k] = q[k]
    BY <1>3
  <2>2. n \in {j \in DOMAIN a : j >= m}
    BY <1>3, <1>4
  <2> QED BY <1>3, <2>1, <2>2 DEF Away
<1>5. TakesBack(e) \subseteq Away(a, n)
  <2>1. n \in {j \in DOMAIN a : j >= n}
    BY <1>3
  <2> QED BY <1>3, <2>1 DEF Away
<1>6. ASSUME NEW m \in DOMAIN a PROVE Within(Tells(a[m]), H2 \cup Away(a, m))
  <2>1. CASE m \in DOMAIN q
    <3>1. Within(Tells(q[m]), H \cup Away(q, m))
      BY <2>1 DEF Backed
    <3>2. (H \cup Away(q, m)) \cap Removables \subseteq H2 \cup Away(a, m)
      BY <1>4, <2>1
    <3> QED BY <1>3, <2>1, <3>1, <3>2, WithinMore
  <2>2. CASE m = n
    <3>1. (H2 \cup TakesBack(e)) \cap Removables \subseteq H2 \cup Away(a, m)
      BY <1>5, <2>2
    <3> QED BY <1>3, <2>2, <3>1, WithinMore
  <2> QED BY <1>3, <2>1, <2>2
<1>7. (H \cup Away(q, 1)) \cap Removables \subseteq H2 \cup Away(a, 1)
  BY <1>4
<1> QED BY <1>6, <1>7 DEF Backed, a

\* One delta less: what it does not withdraw, the others will.
LEMMA OneLessBacked ==
  ASSUME NEW q, q \in Seq(ToSet(q)), q # <<>>, NEW H, Backed(q, H)
  PROVE  /\ Backed(Tail(q), H)
         /\ Within(Tells(Head(q)), H \cup Away(q, 1))
         /\ Away(q, 1) = TakesBack(Head(q)) \cup Away(Tail(q), 1)
<1>2. /\ Len(q) \in Nat /\ DOMAIN q = 1 .. Len(q) /\ 1 \in DOMAIN q /\ Head(q) = q[1]
      /\ DOMAIN Tail(q) = 1 .. Len(q) - 1
      /\ \A i \in 1 .. Len(q) - 1 : Tail(q)[i] = q[i + 1]
  <2> DEFINE V == ToSet(q)
  <2>1. q \in Seq(V)
    OBVIOUS
  <2> HIDE DEF V
  <2> QED BY <2>1
<1> DEFINE s == Tail(q)
<1> HIDE DEF s
<1>3. /\ \A i \in DOMAIN s : i + 1 \in DOMAIN q /\ s[i] = q[i + 1] /\ i \in Nat /\ i >= 1
      /\ \A k \in DOMAIN q : k # 1 => k - 1 \in DOMAIN s /\ s[k - 1] = q[k] /\ k - 1 >= 1
      /\ \A k \in DOMAIN q : k \in Nat
      /\ \A k \in DOMAIN q : k >= 1
  BY <1>2 DEF s
<1>4. ASSUME NEW m \in DOMAIN s PROVE Away(q, m + 1) \subseteq Away(s, m)
  <2>1. ASSUME NEW k \in DOMAIN q, k >= m + 1
        PROVE  k - 1 \in DOMAIN s /\ s[k - 1] = q[k] /\ k - 1 >= m
    <3>1. k # 1 /\ k \in Nat /\ m \in Nat
      BY <1>3, <2>1
    <3> QED BY <1>3, <2>1, <3>1
  <2>2. ASSUME NEW k \in DOMAIN q, k >= m + 1
        PROVE  TakesBack(q[k]) \subseteq Away(s, m)
    <3> DEFINE i == k - 1
    <3>1. i \in DOMAIN s /\ s[i] = q[k] /\ i >= m
      BY <2>1, <2>2
    <3> HIDE DEF i
    <3> QED BY <3>1 DEF Away
  <2> QED BY <2>2 DEF Away
<1>5. ASSUME NEW m \in DOMAIN s PROVE Within(Tells(s[m]), H \cup Away(s, m))
  <2> DEFINE n == m + 1
  <2>1. n \in DOMAIN q /\ s[m] = q[n] /\ Away(q, n) \subseteq Away(s, m)
    BY <1>3, <1>4
  <2> HIDE DEF n
  <2>2. Within(Tells(q[n]), H \cup Away(q, n))
    BY <2>1 DEF Backed
  <2>3. (H \cup Away(q, n)) \cap Removables \subseteq H \cup Away(s, m)
    BY <2>1
  <2> QED BY <2>1, <2>2, <2>3, WithinMore
<1>6. Within(Tells(q[1]), H \cup Away(q, 1))
  BY <1>2 DEF Backed
<1>7. Away(q, 1) = TakesBack(q[1]) \cup Away(s, 1)
  <2>1. ASSUME NEW k \in DOMAIN q PROVE TakesBack(q[k]) \subseteq TakesBack(q[1]) \cup Away(s, 1)
    <3>1. CASE k = 1
      BY <3>1
    <3>2. CASE k # 1
      <4> DEFINE i == k - 1
      <4>1. i \in DOMAIN s /\ s[i] = q[k] /\ i >= 1
        BY <1>3, <3>2
      <4> HIDE DEF i
      <4> QED BY <4>1 DEF Away
    <3> QED BY <3>1, <3>2
  <2>2. ASSUME NEW k \in DOMAIN s PROVE TakesBack(s[k]) \subseteq Away(q, 1)
    <3> DEFINE i == k + 1
    <3>1. i \in DOMAIN q /\ s[k] = q[i] /\ i >= 1
      BY <1>3
    <3> HIDE DEF i
    <3> QED BY <3>1 DEF Away
  <2>3. TakesBack(q[1]) \subseteq Away(q, 1)
    BY <1>2, <1>3 DEF Away
  <2>4. Away(q, 1) \subseteq TakesBack(q[1]) \cup Away(s, 1)
    BY <2>1 DEF Away
  <2>5. Away(s, 1) \subseteq Away(q, 1)
    BY <2>2 DEF Away
  <2> QED BY <2>3, <2>4, <2>5
<1> QED BY <1>2, <1>5, <1>6, <1>7 DEF Backed, s

\* What a live page may show: what stands, and what deltas on their way will withdraw.
StillThere == StandsNow \cup Away(pushes, 1)

\* Unless one was lost, deltas on their way, answers and the page name nothing else.
PushesInv == "lost" \notin trouble => Backed(pushes, StandsNow)
AnsweredInv == trouble \cap {"overtaken", "lost"} = {} =>
    \A i \in DOMAIN requests : requests[i].answered => Within(Tells(requests[i].delta), StillThere)
ShownInv == ~replay.done /\ trouble \cap {"unaligned", "mixed", "overtaken", "lost"} = {} =>
    Within(Shows(flow), StillThere)

\* Nothing happens on a page that is not mounted.
UnmountedInv ==
    /\ budget \in [mounts : {0, 1}, drops : Nat, fails : Nat, opens : Nat, clicks : Nat]
    /\ ~Mounted => /\ requests = <<>> /\ pushes = <<>> /\ flow = EmptyFlow /\ socket = "waiting"
                   /\ toWorker = <<>> /\ toPage = <<>> /\ loading = {} /\ ~replay.done

\* Spending leaves a budget.
LEMMA Spent ==
  ASSUME NEW b \in [mounts : {0, 1}, drops : Nat, fails : Nat, opens : Nat, clicks : Nat],
         NEW what \in {"mounts", "drops", "fails", "opens", "clicks"}, b[what] > 0,
         NEW b2, b2 = [b EXCEPT ![what] = @ - 1]
  PROVE  /\ b2 \in [mounts : {0, 1}, drops : Nat, fails : Nat, opens : Nat, clicks : Nat]
         /\ b2.mounts = IF what = "mounts" THEN 0 ELSE b.mounts
<1>1. CASE what = "mounts"
  BY <1>1
<1>2. CASE what = "drops"
  BY <1>2
<1>3. CASE what = "fails"
  BY <1>3
<1>4. CASE what = "opens"
  BY <1>4
<1>5. CASE what = "clicks"
  BY <1>5
<1> QED BY <1>1, <1>2, <1>3, <1>4, <1>5

\* And nothing but mounting it begins.
LEMMA UnmountedKeeps ==
  ASSUME UnmountedInv, [Next]_vars
  PROVE  UnmountedInv'
<1> DEFINE B == [mounts : {0, 1}, drops : Nat, fails : Nat, opens : Nat, clicks : Nat]
           W == {"mounts", "drops", "fails", "opens", "clicks"}
<1>0. budget \in B
  BY DEF UnmountedInv
<1>1. ASSUME NEW what \in W, Spend(what)
      PROVE  budget' \in B /\ budget'.mounts = IF what = "mounts" THEN 0 ELSE budget.mounts
  <2> DEFINE b == budget
             b2 == budget'
  <2>1. b \in B /\ b[what] > 0 /\ b2 = [b EXCEPT ![what] = @ - 1]
    BY <1>0, <1>1 DEF Spend
  <2> HIDE DEF b, b2
  <2>2. b2 \in B /\ b2.mounts = IF what = "mounts" THEN 0 ELSE b.mounts
    BY <2>1, Spent
  <2> QED BY <2>2 DEF b, b2
<1>2. /\ "mounts" \in W /\ "drops" \in W /\ "fails" \in W /\ "opens" \in W /\ "clicks" \in W
  OBVIOUS
<1>3. budget' \in B /\ (budget'.mounts = budget.mounts \/ budget'.mounts = 0)
  <2> HIDE DEF B, W
  <2>1. CASE UNCHANGED budget
    BY <1>0, <2>1
  <2>2. CASE \E what \in W : Spend(what)
    BY <1>1, <2>2
  <2>3. UNCHANGED budget \/ \E what \in W : Spend(what)
    <3>1. CASE Mount \/ RequestFails \/ SocketCloses \/ OpenFile \/ ClearReplay \/ Keys \/ SeekByBar
      BY <1>2, <3>1 DEF Mount, RequestFails, SocketCloses, OpenFile, ClearReplay, Keys, SeekByBar, UserSends
    <3>2. CASE PusherIsMade \/ Push
      BY <1>2, <3>2 DEF PusherIsMade, Push
    <3>3. CASE Answer \/ ReceiveAnswer \/ RequestRefused \/ SocketOpens \/ FlowMoves \/ ReceivePush \/ WorkerMoves
               \/ PageHears \/ UNCHANGED vars
      BY <3>3 DEF Answer, ReceiveAnswer, RequestRefused, SocketOpens, FlowMoves, ReceivePush, WorkerMoves, PageHears,
                  OnWorkerCleared, OnWorkerDelta, OnWorkerOpened, OnWorkerProgress, HeardUnchanged, vars, pageVars
    <3> QED BY <3>1, <3>2, <3>3 DEF Next, User
  <2> QED BY <2>1, <2>2, <2>3
<1>4. CASE Mounted \/ Mount
  <2>1. Mounted'
    <3>1. CASE Mounted
      BY <1>3, <3>1 DEF Mounted
    <3>2. CASE Mount
      <4>1. Spend("mounts")
        BY <3>2 DEF Mount
      <4> QED BY <1>1, <1>2, <4>1 DEF Mounted
    <3> QED BY <1>4, <3>1, <3>2
  <2> QED BY <1>3, <2>1 DEF UnmountedInv
<1>5. CASE ~Mounted /\ ~Mount
  <2>1. /\ requests = <<>> /\ pushes = <<>> /\ flow = EmptyFlow /\ socket = "waiting"
        /\ toWorker = <<>> /\ toPage = <<>> /\ loading = {} /\ ~replay.done
    BY <1>5 DEF UnmountedInv
  <2>2. FlowMoves \/ Push \/ UNCHANGED vars
    <3>1. ~Answer /\ ~ReceiveAnswer /\ ~RequestRefused /\ ~RequestFails
      BY <2>1 DEF Answer, ReceiveAnswer, RequestRefused, RequestFails
    <3>2. ~PusherIsMade /\ ~SocketOpens /\ ~SocketCloses /\ ~ReceivePush
      BY <1>5, <2>1 DEF PusherIsMade, SocketOpens, SocketCloses, ReceivePush
    <3>3. ~User
      BY <1>5, <2>1 DEF User, OpenFile, ClearReplay, Keys, SeekByBar
    <3>4. ~WorkerMoves /\ ~PageHears
      BY <2>1 DEF WorkerMoves, WorkerStep, PageHears, OnWorkerCleared, OnWorkerDelta, OnWorkerOpened,
                  OnWorkerProgress, Hears, WorkerHandles, WorkerClear, WorkerOpen, WorkerNext,
                  WorkerPrevious, WorkerSeek, WorkerLoad, Receives
    <3> QED BY <1>5, <3>1, <3>2, <3>3, <3>4 DEF Next
  <2>3. UNCHANGED <<workerVars, flow, replay, requests, socket, pushes>>
    BY <2>1, <2>2 DEF FlowMoves, Push, vars, pageVars
  <2> QED BY <1>3, <2>1, <2>3 DEF UnmountedInv, workerVars
<1> QED BY <1>4, <1>5

\* A page that is not mounted shows nothing, and nothing is on its way to it.
LEMMA NothingUnmounted ==
  ASSUME UnmountedInv, ~Mounted, UNCHANGED <<pushes, requests, flow>>
  PROVE  PushesInv' /\ AnsweredInv' /\ ShownInv'
<1>1. pushes' = <<>> /\ requests' = <<>> /\ flow' = EmptyFlow
  BY DEF UnmountedInv
<1>2. Shows(EmptyFlow) = {}
  BY EmptyIsTidy
<1> QED BY <1>1, <1>2 DEF PushesInv, AnsweredInv, ShownInv, Backed, Within

\* Where nothing that is there goes, nothing new is answered and the page shows no more.
LEMMA GhostsStay ==
  ASSUME AnsweredInv, trouble \subseteq trouble',
         "lost" \notin trouble' => StillThere \cap Removables \subseteq StillThere'
  PROVE  /\ (\A j \in DOMAIN requests' : \E k \in DOMAIN requests : requests'[j] = requests[k]) => AnsweredInv'
         /\ ShownInv /\ UNCHANGED <<flow, replay>> => ShownInv'
<1>1. ASSUME \A j \in DOMAIN requests' : \E k \in DOMAIN requests : requests'[j] = requests[k]
      PROVE  AnsweredInv'
  <2> SUFFICES ASSUME trouble' \cap {"overtaken", "lost"} = {},
                      NEW j \in DOMAIN requests', requests'[j].answered
               PROVE  Within(Tells(requests'[j].delta), StillThere')
    BY DEF AnsweredInv
  <2>1. PICK k \in DOMAIN requests : requests'[j] = requests[k]
    BY <1>1
  <2>2. Within(Tells(requests[k].delta), StillThere)
    BY <2>1 DEF AnsweredInv
  <2> DEFINE S == Tells(requests[k].delta)
             T == StillThere
             T2 == StillThere'
  <2>3. Within(S, T) /\ T \cap Removables \subseteq T2
    BY <2>2
  <2> HIDE DEF S, T, T2
  <2>4. Within(S, T2)
    BY <2>3, WithinMore
  <2> QED BY <2>1, <2>4 DEF S, T2
<1>2. ASSUME ShownInv, UNCHANGED <<flow, replay>>
      PROVE  ShownInv'
  <2> SUFFICES ASSUME ~replay'.done, trouble' \cap {"unaligned", "mixed", "overtaken", "lost"} = {}
               PROVE  Within(Shows(flow'), StillThere')
    BY DEF ShownInv
  <2> DEFINE S == Shows(flow)
             T == StillThere
             T2 == StillThere'
  <2>1. Within(S, T) /\ T \cap Removables \subseteq T2
    BY <1>2 DEF ShownInv
  <2> HIDE DEF S, T, T2
  <2>2. Within(S, T2)
    BY <2>1, WithinMore
  <2> QED BY <1>2, <2>2 DEF S, T2
<1> QED BY <1>1, <1>2

\* Where nothing of the monitorer changes and nothing is pushed, what is there stays.
LEMMA ThereStill ==
  ASSUME UNCHANGED <<monitorerVars, pushes>>
  PROVE  /\ WithdrawInv => WithdrawInv'
         /\ StillThere' = StillThere
         /\ PushesInv /\ (pushes # <<>> /\ "lost" \in trouble => "lost" \in trouble') => PushesInv'
<1>1. StandsNow' = StandsNow /\ (WithdrawInv => WithdrawInv')
  BY DEF monitorerVars, StandsNow, Stands, WithdrawInv
<1>2. pushes' = pushes
  OBVIOUS
<1>3. StillThere' = StillThere
  BY <1>1, <1>2 DEF StillThere
<1>4. ASSUME PushesInv, pushes # <<>> /\ "lost" \in trouble => "lost" \in trouble'
      PROVE  PushesInv'
  <2>1. CASE pushes = <<>>
    BY <1>2, <2>1 DEF PushesInv, Backed
  <2>2. CASE pushes # <<>>
    BY <1>1, <1>2, <1>4, <2>2 DEF PushesInv
  <2> QED BY <2>1, <2>2
<1> QED BY <1>1, <1>3, <1>4

\* The flow goes on, or the stater.
LEMMA GhostsMove ==
  ASSUME TypeInv, LinkInv(script), WithdrawInv, PushesInv, AnsweredInv, ShownInv, FlowMoves
  PROVE  WithdrawInv' /\ PushesInv' /\ AnsweredInv' /\ ShownInv'
<1>1. WithdrawInv' /\ StandsNow \cap Removables \subseteq StandsNow'
  <2>1. CASE \E t \in Threads : Handle(t)
    BY <2>1, WithdrawHandled
  <2>2. CASE Sample \/ SwapDelta
    <3>1. ~Deliver
      BY <2>2 DEF Sample, SwapDelta, Deliver
    <3> QED BY <2>2, <3>1, WithdrawByStater
  <2> QED BY <2>1, <2>2 DEF FlowMoves
<1>2. UNCHANGED <<pushes, requests, flow, replay, trouble>>
  BY DEF FlowMoves, pageVars
<1>3. PushesInv'
  <2> SUFFICES ASSUME "lost" \notin trouble, NEW m \in DOMAIN pushes
               PROVE  Within(Tells(pushes[m]), StandsNow' \cup Away(pushes, m))
    BY <1>2 DEF PushesInv, Backed
  <2>1. Within(Tells(pushes[m]), StandsNow \cup Away(pushes, m))
    BY DEF PushesInv, Backed
  <2> DEFINE S == Tells(pushes[m])
             T == StandsNow \cup Away(pushes, m)
             T2 == StandsNow' \cup Away(pushes, m)
  <2>2. Within(S, T) /\ T \cap Removables \subseteq T2
    BY <1>1, <2>1
  <2> HIDE DEF S, T, T2
  <2>3. Within(S, T2)
    BY <2>2, WithinMore
  <2> QED BY <2>3 DEF S, T2
<1>4. StillThere \cap Removables \subseteq StillThere'
  BY <1>1, <1>2 DEF StillThere
<1>5. trouble \subseteq trouble' /\ \A j \in DOMAIN requests' : \E k \in DOMAIN requests : requests'[j] = requests[k]
  BY <1>2
<1> QED BY <1>1, <1>2, <1>3, <1>4, <1>5, GhostsStay

\* The stater pushes what it holds, or nothing.
LEMMA GhostsPushed ==
  ASSUME TypeInv, FeedInv, UnmountedInv, WithdrawInv, PushesInv, AnsweredInv, ShownInv, Push
  PROVE  WithdrawInv' /\ PushesInv' /\ AnsweredInv' /\ ShownInv'
<1>1. Deliver /\ trouble \subseteq trouble' /\ UNCHANGED <<requests, flow, replay>>
  BY DEF Push
<1>2. /\ WithdrawInv' /\ StandsNow \subseteq StandsNow' \cup TakesBack(Handed)
      /\ Within(Tells(Handed), StandsNow' \cup TakesBack(Handed))
      /\ ~HandsOver => TakesBack(Handed) = {}
  BY <1>1, WithdrawByStater
<1>3. \/ pushes' = Append(pushes, Handed) /\ trouble' = trouble
      \/ pushes' = pushes /\ trouble' = trouble \cup Missed
      \/ pushes' = pushes /\ ~HandsOver
  BY DEF Push
<1>4. \A j \in DOMAIN requests' : \E k \in DOMAIN requests : requests'[j] = requests[k]
  BY <1>1
<1>5. pushes \in Seq(ToSet(pushes))
  BY DEF FeedInv, OneByOne
<1>6. CASE pushes' = Append(pushes, Handed) /\ trouble' = trouble
  <2> DEFINE H == StandsNow
             H2 == StandsNow'
             e == Handed
  <2>1. H \cap Removables \subseteq H2 \cup TakesBack(e) /\ Within(Tells(e), H2 \cup TakesBack(e))
    BY <1>2
  <2> HIDE DEF H, H2, e
  <2>2. ASSUME "lost" \notin trouble
        PROVE  /\ Backed(Append(pushes, e), H2)
               /\ (H \cup Away(pushes, 1)) \cap Removables \subseteq H2 \cup Away(Append(pushes, e), 1)
    <3>1. Backed(pushes, H)
      BY <2>2 DEF PushesInv, H
    <3> QED BY <1>5, <2>1, <3>1, OneMoreBacked
  <2>3. PushesInv' /\ ("lost" \notin trouble' => StillThere \cap Removables \subseteq StillThere')
    BY <1>6, <2>2 DEF PushesInv, StillThere, H, H2, e
  <2> QED BY <1>1, <1>2, <1>4, <2>3, GhostsStay
<1>7. CASE pushes' = pushes /\ trouble' = trouble \cup Missed
  <2>1. CASE Mounted
    <3>1. "lost" \in trouble'
      BY <1>7, <2>1 DEF Missed
    <3> QED BY <1>2, <3>1 DEF PushesInv, AnsweredInv, ShownInv
  <2>2. CASE ~Mounted
    BY <1>1, <1>2, <1>7, <2>2, NothingUnmounted
  <2> QED BY <2>1, <2>2
<1>8. CASE pushes' = pushes /\ ~HandsOver
  <2>1. StandsNow \cap Removables \subseteq StandsNow'
    BY <1>2, <1>8
  <2>2. StillThere \cap Removables \subseteq StillThere'
    BY <1>8, <2>1 DEF StillThere
  <2>3. PushesInv'
    <3> SUFFICES ASSUME "lost" \notin trouble', NEW m \in DOMAIN pushes
                 PROVE  Within(Tells(pushes[m]), StandsNow' \cup Away(pushes, m))
      BY <1>8 DEF PushesInv, Backed
    <3>1. Within(Tells(pushes[m]), StandsNow \cup Away(pushes, m))
      BY <1>1 DEF PushesInv, Backed
    <3> DEFINE S == Tells(pushes[m])
               T == StandsNow \cup Away(pushes, m)
               T2 == StandsNow' \cup Away(pushes, m)
    <3>2. Within(S, T) /\ T \cap Removables \subseteq T2
      BY <2>1, <3>1
    <3> HIDE DEF S, T, T2
    <3>3. Within(S, T2)
      BY <3>2, WithinMore
    <3> QED BY <3>3 DEF S, T2
  <2> QED BY <1>1, <1>2, <1>4, <2>2, <2>3, GhostsStay
<1> QED BY <1>3, <1>6, <1>7, <1>8

\* A page that hears a delta, with no answer awaited, shows what is there.
LEMMA GhostsHeard ==
  ASSUME FeedInv, FlowInv, AnswersInv, WithdrawInv, PushesInv, AnsweredInv, ShownInv, ReceivePush
  PROVE  WithdrawInv' /\ PushesInv' /\ AnsweredInv' /\ ShownInv'
<1>1. /\ pushes # <<>> /\ pushes' = Tail(pushes) /\ UNCHANGED <<monitorerVars, requests, replay>>
      /\ trouble \subseteq trouble' /\ Overtakes \subseteq trouble'
  BY DEF ReceivePush, OnPush
<1>2. StandsNow' = StandsNow /\ WithdrawInv'
  BY <1>1 DEF monitorerVars, StandsNow, Stands, WithdrawInv
<1>3. pushes \in Seq(ToSet(pushes))
  BY DEF FeedInv, OneByOne
<1> DEFINE H == StandsNow
           e == Head(pushes)
<1>4. ASSUME "lost" \notin trouble'
      PROVE  /\ Backed(Tail(pushes), H) /\ Within(Tells(e), H \cup Away(pushes, 1))
             /\ Away(pushes, 1) = TakesBack(e) \cup Away(Tail(pushes), 1)
  <2>1. Backed(pushes, H)
    BY <1>1, <1>4 DEF PushesInv
  <2> HIDE DEF H
  <2> QED BY <1>1, <1>3, <2>1, OneLessBacked
<1>5. PushesInv'
  BY <1>1, <1>2, <1>4 DEF PushesInv
<1>6. "overtaken" \notin trouble' => \A i \in DOMAIN requests : ~requests[i].answered
  BY <1>1 DEF Overtakes, Awaited
<1>7. AnsweredInv'
  BY <1>1, <1>6 DEF AnsweredInv
<1>8. ShownInv'
  <2> SUFFICES ASSUME ~replay.done, trouble' \cap {"unaligned", "mixed", "overtaken", "lost"} = {}
               PROVE  Within(Shows(flow'), StillThere')
    BY <1>1 DEF ShownInv
  <2>1. flow' = OnDelta(flow, e)
    BY DEF ReceivePush
  <2>2. trouble \cap {"unaligned", "mixed", "overtaken", "lost"} = {} /\ trouble \cap {"unaligned", "mixed"} = {}
    BY <1>1
  <2>3. IsDelta(e) /\ TellsOnce(e) /\ Tells(e) \subseteq Pending
    BY FeedHeard
  <2>4. PICK U : Tidy(flow, U) /\ Shows(flow) \cap Pending = {}
    BY <2>2 DEF FlowInv, Shown
  <2>5. Within(Shows(flow), H \cup Away(pushes, 1))
    BY <2>2 DEF ShownInv, StillThere
  <2>6. StillThere' = H \cup Away(Tail(pushes), 1)
    BY <1>1, <1>2 DEF StillThere
  <2> HIDE DEF H, e
  <2>7. Tells(e) \cap Shows(flow) = {} /\ Fits(e, Things)
    BY <2>3, <2>4, DeltaFits
  <2>8. Shows(OnDelta(flow, e)) \subseteq (Shows(flow) \cup Tells(e)) \ TakesBack(e)
    BY <2>3, <2>4, <2>7, OnDeltaTidy
  <2>9. Within(Tells(e), H \cup Away(pushes, 1)) /\ Away(pushes, 1) = TakesBack(e) \cup Away(Tail(pushes), 1)
    BY <1>4
  <2> DEFINE Q == Shows(OnDelta(flow, e))
             A == Shows(flow)
             B == Tells(e)
             Z == TakesBack(e)
             X == Away(Tail(pushes), 1)
  <2>10. Q \subseteq (A \cup B) \ Z /\ Within(A, H \cup (Z \cup X)) /\ Within(B, H \cup (Z \cup X))
    BY <2>5, <2>8, <2>9
  <2> HIDE DEF Q, A, B, Z, X
  <2>11. Within(Q, H \cup X)
    BY <2>10 DEF Within
  <2> QED BY <2>1, <2>6, <2>11 DEF Q, X
<1> QED BY <1>2, <1>5, <1>7, <1>8

\* The socket closes: nothing is lost, or it is known.
LEMMA GhostsClosed ==
  ASSUME UnmountedInv, WithdrawInv, PushesInv, AnsweredInv, ShownInv, SocketCloses
  PROVE  WithdrawInv' /\ PushesInv' /\ AnsweredInv' /\ ShownInv'
<1>1. /\ pushes' = <<>> /\ UNCHANGED <<monitorerVars, requests, flow, replay>> /\ trouble \subseteq trouble'
      /\ pushes # <<>> => Missed \subseteq trouble'
  BY DEF SocketCloses
<1>2. Mounted
  BY DEF SocketCloses, UnmountedInv
<1>3. CASE pushes = <<>>
  <2>1. UNCHANGED <<monitorerVars, pushes>>
    BY <1>1, <1>3
  <2>2. WithdrawInv' /\ StillThere' = StillThere /\ PushesInv'
    BY <1>3, <2>1, ThereStill
  <2>3. \A j \in DOMAIN requests' : \E k \in DOMAIN requests : requests'[j] = requests[k]
    BY <1>1
  <2>4. StillThere \cap Removables \subseteq StillThere'
    BY <2>2
  <2> QED BY <1>1, <2>2, <2>3, <2>4, GhostsStay
<1>4. CASE pushes # <<>>
  <2>1. "lost" \in trouble'
    BY <1>1, <1>2, <1>4 DEF Missed
  <2>2. WithdrawInv'
    BY <1>1 DEF monitorerVars, StandsNow, Stands, WithdrawInv
  <2> QED BY <2>1, <2>2 DEF PushesInv, AnsweredInv, ShownInv
<1> QED BY <1>3, <1>4

\* An emptied page shows nothing, and forgets nothing that may still do harm.
LEMMA GhostsAsked ==
  ASSUME AnswersInv, PushesInv, AnsweredInv, Asks, WithdrawInv, UNCHANGED <<monitorerVars, pushes>>
  PROVE  WithdrawInv' /\ PushesInv' /\ AnsweredInv' /\ ShownInv'
<1> DEFINE r == [answered |-> FALSE, delta |-> NoDelta]
           V == ToSet(requests)
           a == Append(requests, r)
<1>1. requests' = a /\ requests \in Seq(V) /\ ~r.answered /\ flow' = EmptyFlow
  BY DEF Asks, AnswersInv
<1>2. /\ requests # <<>> => trouble' = trouble
      /\ pushes # <<>> /\ "lost" \in trouble => "lost" \in trouble'
  BY DEF Asks, Remains
<1>3. WithdrawInv' /\ StillThere' = StillThere /\ PushesInv'
  BY <1>2, ThereStill
<1>4. \A j \in DOMAIN a : (j \in DOMAIN requests /\ a[j] = requests[j]) \/ a[j] = r
  <2> DEFINE S == V \cup {r}
  <2>0. r \in S /\ V \subseteq S
    OBVIOUS
  <2> HIDE DEF r, V, S
  <2>1. requests \in Seq(S) /\ r \in S
    BY <1>1, <2>0
  <2> QED BY <2>1
<1> HIDE DEF a, V, r
<1>5. AnsweredInv'
  <2> SUFFICES ASSUME trouble' \cap {"overtaken", "lost"} = {}, NEW j \in DOMAIN a, a[j].answered
               PROVE  Within(Tells(a[j].delta), StillThere)
    BY <1>1, <1>3 DEF AnsweredInv
  <2>1. j \in DOMAIN requests /\ a[j] = requests[j]
    BY <1>1, <1>4
  <2>2. requests # <<>>
    BY <2>1
  <2>3. trouble' = trouble
    BY <1>2, <2>2
  <2> QED BY <2>1, <2>3 DEF AnsweredInv
<1>6. ShownInv'
  <2>1. Shows(EmptyFlow) = {}
    BY EmptyIsTidy
  <2> QED BY <1>1, <2>1 DEF ShownInv, Within
<1> QED BY <1>3, <1>5, <1>6

\* An answer tells what the catch-up has.
LEMMA GhostsAnswered ==
  ASSUME TypeInv, PushesInv, AnsweredInv, ShownInv, WithdrawInv, Answer
  PROVE  WithdrawInv' /\ PushesInv' /\ AnsweredInv' /\ ShownInv'
<1>1. /\ UNCHANGED <<monitorerVars, pushes>> /\ UNCHANGED <<flow, replay>> /\ trouble \subseteq trouble'
  BY DEF Answer
<1>2. PICK i \in DOMAIN requests : \E a \in CatchUps :
        requests' = [requests EXCEPT ![i] = [answered |-> TRUE, delta |-> a]]
  BY DEF Answer
<1>3. PICK a \in CatchUps : requests' = [requests EXCEPT ![i] = [answered |-> TRUE, delta |-> a]]
  BY <1>2
<1>4. WithdrawInv' /\ StillThere' = StillThere /\ PushesInv'
  BY <1>1, ThereStill
<1>5. ShownInv'
  <2>1. StillThere \cap Removables \subseteq StillThere'
    BY <1>4
  <2> QED BY <1>1, <2>1, GhostsStay
<1>6. Within(Tells(a), StillThere)
  <2>1. IsDelta(a) /\ Tells(a) = Tells(cd)
    BY CatchUpIsADelta
  <2>2. \A y \in Tells(a) : y[1] = "stat" \/ y \in Removables
    BY <2>1, DeltaNames
  <2>3. Tells(a) \subseteq StillThere
    BY <2>1 DEF StillThere, StandsNow, Stands
  <2> QED BY <2>2, <2>3 DEF Within
<1> DEFINE r == [answered |-> TRUE, delta |-> a]
<1>7. r.delta = a /\ requests' = [requests EXCEPT ![i] = r]
  BY <1>3
<1> HIDE DEF r
<1>8. \A j \in DOMAIN requests' : j \in DOMAIN requests /\ (requests'[j] = requests[j] \/ requests'[j] = r)
  BY <1>7
<1>9. AnsweredInv'
  <2> SUFFICES ASSUME trouble' \cap {"overtaken", "lost"} = {}, NEW j \in DOMAIN requests', requests'[j].answered
               PROVE  Within(Tells(requests'[j].delta), StillThere)
    BY <1>4 DEF AnsweredInv
  <2>1. trouble \cap {"overtaken", "lost"} = {}
    BY <1>1
  <2>2. CASE requests'[j] = r
    BY <1>6, <1>7, <2>2
  <2>3. CASE requests'[j] = requests[j]
    BY <1>8, <2>1, <2>3 DEF AnsweredInv
  <2> QED BY <1>8, <2>2, <2>3
<1> QED BY <1>4, <1>5, <1>9

\* What an answer shows to an empty page is there.
LEMMA GhostsReceived ==
  ASSUME AnswersInv, PushesInv, AnsweredInv, ShownInv, WithdrawInv, ReceiveAnswer
  PROVE  WithdrawInv' /\ PushesInv' /\ AnsweredInv' /\ ShownInv'
<1>1. PICK i \in DOMAIN requests : /\ requests[i].answered /\ flow' = OnDelta(flow, requests[i].delta)
                                   /\ requests' = RemoveAt(requests, i)
                                   /\ trouble' = trouble \cup OnAnswer(flow, requests[i].delta)
                                   /\ UNCHANGED <<monitorerVars, replay, pushes>>
  BY DEF ReceiveAnswer
<1>2. trouble \subseteq trouble' /\ UNCHANGED <<monitorerVars, pushes>>
  BY <1>1
<1>3. WithdrawInv' /\ StillThere' = StillThere /\ PushesInv'
  BY <1>2, ThereStill
<1>4. AnsweredInv'
  <2>1. \A j \in DOMAIN RemoveAt(requests, i) : \E k \in DOMAIN requests : RemoveAt(requests, i)[j] = requests[k]
    BY RemoveAtKeeps DEF AnswersInv
  <2>2. \A j \in DOMAIN requests' : \E k \in DOMAIN requests : requests'[j] = requests[k]
    BY <1>1, <2>1
  <2>3. StillThere \cap Removables \subseteq StillThere'
    BY <1>3
  <2> QED BY <1>2, <2>2, <2>3, GhostsStay
<1>5. ShownInv'
  <2> SUFFICES ASSUME ~replay.done, trouble' \cap {"unaligned", "mixed", "overtaken", "lost"} = {}
               PROVE  Within(Shows(flow'), StillThere)
    BY <1>1, <1>3 DEF ShownInv
  <2> DEFINE a == requests[i].delta
  <2>1. flow = EmptyFlow /\ "unaligned" \notin trouble /\ trouble \cap {"overtaken", "lost"} = {}
    BY <1>1 DEF OnAnswer
  <2>2. IsDelta(a) /\ TellsOnce(a) /\ Within(Tells(a), StillThere)
    BY <1>1, <2>1 DEF AnswersInv, CaughtUp, AnsweredInv
  <2> HIDE DEF a
  <2>3. Tidy(EmptyFlow, Things) /\ Shows(EmptyFlow) = {} /\ Fits(a, Things)
    BY <2>2, EmptyIsTidy, DeltaFits
  <2>4. Tells(a) \cap Shows(EmptyFlow) = {}
    BY <2>3
  <2>5. Shows(OnDelta(EmptyFlow, a)) \subseteq (Shows(EmptyFlow) \cup Tells(a)) \ TakesBack(a)
    BY <2>2, <2>3, <2>4, OnDeltaTidy
  <2>6. Shows(OnDelta(EmptyFlow, a)) \subseteq Tells(a)
    BY <2>3, <2>5
  <2>7. flow' = OnDelta(EmptyFlow, a)
    BY <1>1, <2>1 DEF a
  <2> DEFINE S == Tells(a)
             S2 == Shows(OnDelta(EmptyFlow, a))
             T == StillThere
  <2>8. S2 \subseteq S /\ Within(S, T)
    BY <2>2, <2>6
  <2> HIDE DEF S, S2, T
  <2>9. Within(S2, T)
    BY <2>8 DEF Within
  <2> QED BY <2>7, <2>9 DEF S2, T
<1> QED BY <1>3, <1>4, <1>5

\* The invariant of what a live page shows.
GhostInv == UnmountedInv /\ WithdrawInv /\ PushesInv /\ AnsweredInv /\ ShownInv

\* No step shows a live page what is gone, but for the troubles named.
LEMMA GhostsKeep ==
  ASSUME TypeInv, LinkInv(script), PageInv, GhostInv, [Next]_vars
  PROVE  GhostInv'
<1>0. /\ FeedInv /\ FlowInv /\ AnswersInv /\ ReplayInv
      /\ UnmountedInv /\ WithdrawInv /\ PushesInv /\ AnsweredInv /\ ShownInv
  BY DEF PageInv, GhostInv
<1>1. UnmountedInv'
  BY <1>0, UnmountedKeeps
<1> SUFFICES WithdrawInv' /\ PushesInv' /\ AnsweredInv' /\ ShownInv'
  BY <1>1 DEF GhostInv
<1>2. CASE /\ UNCHANGED <<monitorerVars, pushes>> /\ trouble \subseteq trouble'
           /\ \A j \in DOMAIN requests' : \E k \in DOMAIN requests : requests'[j] = requests[k]
           /\ UNCHANGED <<flow, replay>> \/ replay'.done
  <2>1. WithdrawInv' /\ StillThere' = StillThere /\ PushesInv'
    BY <1>0, <1>2, ThereStill
  <2>2. StillThere \cap Removables \subseteq StillThere'
    BY <2>1
  <2>3. AnsweredInv' /\ (UNCHANGED <<flow, replay>> => ShownInv')
    BY <1>0, <1>2, <2>2, GhostsStay
  <2>4. replay'.done => ShownInv'
    BY DEF ShownInv
  <2> QED BY <1>2, <2>1, <2>3, <2>4
<1>3. CASE Mount \/ OnWorkerCleared
  BY <1>0, <1>3, GhostsAsked DEF Mount, OnWorkerCleared, HeardUnchanged
<1>4. CASE Answer
  BY <1>0, <1>4, GhostsAnswered
<1>5. CASE ReceiveAnswer
  BY <1>0, <1>5, GhostsReceived
<1>6. CASE RequestRefused \/ RequestFails
  <2>1. PICK i \in DOMAIN requests : /\ requests' = RemoveAt(requests, i) /\ trouble \subseteq trouble'
                                     /\ UNCHANGED <<monitorerVars, pushes>> /\ UNCHANGED <<flow, replay>>
    BY <1>6 DEF RequestRefused, RequestFails
  <2>2. \A j \in DOMAIN RemoveAt(requests, i) : \E k \in DOMAIN requests : RemoveAt(requests, i)[j] = requests[k]
    BY <1>0, RemoveAtKeeps DEF AnswersInv
  <2>3. \A j \in DOMAIN requests' : \E k \in DOMAIN requests : requests'[j] = requests[k]
    BY <2>1, <2>2
  <2> QED BY <1>2, <2>1, <2>3
<1>7. CASE FlowMoves
  BY <1>0, <1>7, GhostsMove
<1>8. CASE Push
  BY <1>0, <1>8, GhostsPushed
<1>9. CASE ReceivePush
  BY <1>0, <1>9, GhostsHeard
<1>10. CASE SocketCloses
  BY <1>0, <1>10, GhostsClosed
<1>11. CASE OnWorkerDelta \/ OnWorkerOpened
  <2>1. replay'.done
    BY <1>0, <1>11, PageFollows DEF PageHears
  <2>2. UNCHANGED <<monitorerVars, pushes, trouble, requests>>
    BY <1>11 DEF OnWorkerDelta, OnWorkerOpened, HeardUnchanged
  <2> QED BY <1>2, <2>1, <2>2
<1>12. CASE OnWorkerProgress
  <2>1. UNCHANGED <<monitorerVars, pushes>> /\ UNCHANGED <<trouble, requests, flow>>
    BY <1>12 DEF OnWorkerProgress, HeardUnchanged
  <2>2. replay.done => replay'.done
    BY <1>0, <1>12, PageFollows DEF PageHears
  <2>3. WithdrawInv' /\ StillThere' = StillThere /\ PushesInv'
    BY <1>0, <2>1, ThereStill
  <2>4. AnsweredInv' /\ ShownInv'
    BY <1>0, <2>1, <2>2, <2>3 DEF AnsweredInv, ShownInv
  <2> QED BY <2>3, <2>4
<1>13. PusherIsMade \/ SocketOpens \/ User \/ WorkerMoves \/ UNCHANGED vars =>
         /\ UNCHANGED <<monitorerVars, pushes>> /\ trouble \subseteq trouble'
         /\ UNCHANGED requests /\ UNCHANGED <<flow, replay>>
  BY DEF PusherIsMade, SocketOpens, User, OpenFile, ClearReplay, Keys, SeekByBar, UserSends, WorkerMoves, vars, pageVars
<1>14. UNCHANGED requests => \A j \in DOMAIN requests' : \E k \in DOMAIN requests : requests'[j] = requests[k]
  OBVIOUS
<1> QED BY <1>2, <1>3, <1>4, <1>5, <1>6, <1>7, <1>8, <1>9, <1>10, <1>11, <1>12, <1>13, <1>14 DEF Next, PageHears

\* A page that was not mounted yet.
LEMMA InitGhosts == Init => GhostInv
<1> SUFFICES ASSUME Init PROVE GhostInv
  OBVIOUS
<1>1. PICK p \in Programs : MonitorFlow(p) /\ budget = p.budget
  BY DEF Init
<1>2. TypeInv
  BY <1>1, InitHolds DEF MonitorerInv
<1>3. WithdrawInv
  BY <1>1, <1>2, InitWithdraws
<1>4. /\ requests = <<>> /\ pushes = <<>> /\ flow = EmptyFlow /\ socket = "waiting"
      /\ toWorker = <<>> /\ toPage = <<>> /\ loading = {} /\ ~replay.done
  BY DEF Init, WorkerInit, NoReplay
<1>5. UnmountedInv
  BY <1>1, <1>4, BudgetAssumption DEF UnmountedInv
<1>6. Shows(flow) = {}
  BY <1>4, EmptyIsTidy
<1>7. PushesInv /\ AnsweredInv /\ ShownInv
  BY <1>4, <1>6 DEF PushesInv, AnsweredInv, ShownInv, Backed, Within
<1> QED BY <1>3, <1>5, <1>7 DEF GhostInv

\* What a page lists is what it shows.
LEMMA ListedIsShown ==
  ASSUME NEW f
  PROVE  GroupsShown(f) = IdsOf(f.groups) /\ NodesShown(f) \subseteq NodeIdsOf(f.groups)
<1>1. GroupsShown(f) = IdsOf(f.groups)
  BY IdsOfSet DEF GroupsShown
<1> DEFINE g == f.groups
<1>2. ASSUME NEW p \in NodePlaces(f) PROVE NodeAt(f, p).id \in NodeIdsOf(g)
  <2>1. PICK i \in DOMAIN g : p \in {<<i, j>> : j \in DOMAIN g[i].nodes}
    BY DEF NodePlaces
  <2>2. PICK j \in DOMAIN g[i].nodes : p = <<i, j>>
    BY <2>1
  <2>3. NodeAt(f, p) = g[i].nodes[j]
    BY <2>2 DEF NodeAt
  <2> DEFINE x == g[i].nodes[j]
  <2>4. x \in ToSet(g[i].nodes)
    BY DEF ToSet
  <2> HIDE DEF g, x
  <2>5. <<g[i].id, x>> \in Members(g)
    BY <2>4, MembersThere
  <2>6. <<g[i].id, x>>[2].id = x.id
    OBVIOUS
  <2>7. x.id \in NodeIdsOf(g)
    BY <2>5, <2>6 DEF NodeIdsOf
  <2> QED BY <2>3, <2>7 DEF x, g
<1> QED BY <1>1, <1>2 DEF NodesShown

\* When nothing is on its way and no handler is between its two halves, nothing stands but
\* what the catch-up has.
LEMMA NothingElseStands ==
  ASSUME TypeInv, LiveQuiet
  PROVE  StillThere = Tells(cd)
<1>1. Going(script, OutOfDelta) \subseteq Going(script, OutOfCatchUp)
  BY InTurnGoing DEF TypeInv, LiveQuiet
<1>2. stater.delta = NoDelta /\ d = NoDelta
  BY DEF TypeInv, LiveQuiet
<1>3. TakesBack(NoDelta) = {}
  BY NothingTakenBack
<1>4. Away(pushes, 1) = {}
  <2>1. pushes = <<>> /\ DOMAIN <<>> = {}
    BY DEF LiveQuiet
  <2> QED BY <2>1 DEF Away
<1>5. StandsNow = Tells(cd)
  BY <1>1, <1>2, <1>3 DEF StandsNow, Stands
<1> QED BY <1>4, <1>5 DEF StillThere

\* What a store shows is told by a delta, then so is what it lists.
LEMMA ShownIsTold ==
  ASSUME NEW f, NEW dl, Within(Shows(f), Tells(dl))
  PROVE  /\ GroupsShown(f) \subseteq ToSet(dl.startedGroups)
         /\ NodesShown(f) \subseteq {n.id : n \in ToSet(dl.startedNodes)}
         /\ ToSet(f.connections) \subseteq ToSet(dl.connected)
<1> DEFINE A == ToSet(dl.connected)
           B == ToSet(dl.startedGroups)
           C == IdsOf(dl.startedNodes)
           D == IdsOf(dl.newStats)
           X == ToSet(f.connections)
           Y == IdsOf(f.groups)
           Z == NodeIdsOf(f.groups)
           V == StatIdsOf(f.groups) \cup IdsOf(f.stats)
<1>1. \A y \in ({"link"} \X X) \cup ({"group"} \X Y) \cup ({"node"} \X Z) \cup ({"stat"} \X V) :
          y[1] = "stat" \/ y \in ({"link"} \X A) \cup ({"group"} \X B) \cup ({"node"} \X C) \cup ({"stat"} \X D)
  BY DEF Within, Shows, Tells
<1>2. GroupsShown(f) = Y /\ NodesShown(f) \subseteq Z
  BY ListedIsShown
<1>3. C = {n.id : n \in ToSet(dl.startedNodes)}
  BY IdsOfSet
<1> HIDE DEF A, B, C, D, X, Y, Z, V
<1>4. ASSUME NEW x \in X PROVE x \in A
  <2>1. <<"link", x>> \in {"link"} \X X /\ <<"link", x>>[1] = "link"
    OBVIOUS
  <2>2. <<"link", x>> \in ({"link"} \X A) \cup ({"group"} \X B) \cup ({"node"} \X C) \cup ({"stat"} \X D)
    BY <1>1, <2>1
  <2> QED BY <2>2
<1>5. ASSUME NEW x \in Y PROVE x \in B
  <2>1. <<"group", x>> \in {"group"} \X Y /\ <<"group", x>>[1] = "group"
    OBVIOUS
  <2>2. <<"group", x>> \in ({"link"} \X A) \cup ({"group"} \X B) \cup ({"node"} \X C) \cup ({"stat"} \X D)
    BY <1>1, <2>1
  <2> QED BY <2>2
<1>6. ASSUME NEW x \in Z PROVE x \in C
  <2>1. <<"node", x>> \in {"node"} \X Z /\ <<"node", x>>[1] = "node"
    OBVIOUS
  <2>2. <<"node", x>> \in ({"link"} \X A) \cup ({"group"} \X B) \cup ({"node"} \X C) \cup ({"stat"} \X D)
    BY <1>1, <2>1
  <2> QED BY <2>2
<1>7. Y \subseteq B /\ Z \subseteq C /\ X \subseteq A
  BY <1>4, <1>5, <1>6
<1> QED BY <1>2, <1>3, <1>7 DEF A, B, X

\* Whatever the flow, the network, the server and the user do, a live page goes on showing
\* only what the flow has, for any flow that links in turn, unless a delta was lost, or an
\* answer of the catch-up was taken with deltas in the wrong order.
THEOREM GhostsHaveACauseHolds ==
  ASSUME \A p \in Programs : LinkedInTurn(p)
  PROVE  Spec => []GhostsHaveACause
<1>1. Init => PageInv /\ GhostInv
  BY InitPage, InitGhosts
<1>2. (MonitorerInv /\ LinksInv) /\ (PageInv /\ GhostInv) /\ [Next]_vars => (PageInv /\ GhostInv)'
  BY NextPage, GhostsKeep DEF MonitorerInv, LinksInv
<1>3. (MonitorerInv /\ LinksInv) /\ (PageInv /\ GhostInv) => GhostsHaveACause
  <2> SUFFICES ASSUME TypeInv, ShownInv, LiveQuiet, trouble \cap {"unaligned", "mixed", "overtaken", "lost"} = {}
               PROVE  /\ GroupsShown(flow) \subseteq ToSet(cd.startedGroups)
                      /\ NodesShown(flow) \subseteq {n.id : n \in ToSet(cd.startedNodes)}
                      /\ ToSet(flow.connections) \subseteq ToSet(cd.connected)
    BY DEF GhostsHaveACause, MonitorerInv, GhostInv
  <2>1. Within(Shows(flow), StillThere)
    BY DEF ShownInv, LiveQuiet
  <2>2. Within(Shows(flow), Tells(cd))
    BY <2>1, NothingElseStands
  <2> QED BY <2>2, ShownIsTold
<1>4. Spec => [](MonitorerInv /\ LinksInv)
  BY LinksHold, PageIsAMonitorer, PTL
<1> QED BY <1>1, <1>2, <1>3, <1>4, PTL DEF Spec

---------------------------------------------------------------------------
(* What a live page shows in the end.                                      *)
(*                                                                         *)
(* What is gone is in the catch-up no more, and does not come back.  What  *)
(* deltas withdraw is gone; what the catch-up has and is not to be told    *)
(* any more, the page shows or is being told.                              *)

\* A thing the catch-up has not, and will not have.
IsGone(y) == y \notin Tells(cd) /\ y \notin Coming(script, InCatchUp)

\* What a delta takes away from a page: what it withdraws, and the nodes of its groups.
Ended(dl) == TakesBack(dl) \cup ({"node"} \X {n \in Nodes : GroupOf[n] \in ToSet(dl.doneGroups)})

\* What a delta withdraws is gone, and so is what is about to be withdrawn by one; when a
\* group is, its nodes that are not gone are to be withdrawn before.
Leaving == Going(script, OutOfDelta) \ Going(script, OutOfCatchUp)
GoneInv ==
    /\ \A y \in Leaving \cup Ended(d) \cup Ended(stater.delta) : IsGone(y)
    /\ \A n \in Nodes : <<"group", GroupOf[n]>> \in Going(script, OutOfDelta) /\ ~IsGone(<<"node", n>>) =>
           <<"node", n>> \in Going(script, OutOfDelta)

\* What is withdrawn can be.
LEMMA WithdrawnNames ==
  ASSUME NEW dl, IsDelta(dl)
  PROVE  Ended(dl) \subseteq Removables /\ TakesBack(dl) \subseteq Removables
<1> DEFINE L == Links
           A == ToSet(dl.disconnected)
           B == ToSet(dl.doneGroups)
           C == ToSet(dl.doneNodes)
           D == {n \in Nodes : GroupOf[n] \in ToSet(dl.doneGroups)}
<1>1. A \subseteq L /\ B \subseteq Groups /\ C \subseteq Nodes /\ D \subseteq Nodes
  BY DEF IsDelta, ToSet
<1>2. Removables = ({"link"} \X L) \cup ({"group"} \X Groups) \cup ({"node"} \X Nodes)
  BY DEF Removables
<1>3. /\ TakesBack(dl) = ({"link"} \X A) \cup ({"group"} \X B) \cup ({"node"} \X C)
      /\ Ended(dl) = TakesBack(dl) \cup ({"node"} \X D)
  BY DEF TakesBack, Ended
<1> HIDE DEF A, B, C, D, L
<1> QED BY <1>1, <1>2, <1>3

\* And so can what is to be.
LEMMA GoingNames ==
  ASSUME NEW sc, NEW half
  PROVE  Going(sc, half) \subseteq Removables
<1> DEFINE L == Links
           A == LeftOf(sc, L, half.link)
           B == LeftOf(sc, Groups, half.group)
           C == LeftOf(sc, Nodes, half.node)
<1>1. A \subseteq L /\ B \subseteq Groups /\ C \subseteq Nodes
  BY DEF LeftOf
<1>2. Going(sc, half) = ({"link"} \X A) \cup ({"group"} \X B) \cup ({"node"} \X C)
  BY DEF Going
<1>3. Removables = ({"link"} \X L) \cup ({"group"} \X Groups) \cup ({"node"} \X Nodes)
  BY DEF Removables
<1> HIDE DEF A, B, C, L
<1> QED BY <1>1, <1>2, <1>3

\* A stat is not lost on its way to a delta either, and none comes into the catch-up but in
\* its turn.
LEMMA StatLands ==
  ASSUME TypeInv, NEW t \in Threads, Handle(t), NEW i
  PROVE  Lands(<<"stat", i>>)
<1> DEFINE y == <<"stat", i>>
           st == Head(script[t])
<1>1. Ran(script, script', t) /\ st = Step(st.do, Subject(t)) BY HandleRuns
<1>2. EffectOnCatchUp(st.do, Subject(t)) /\ EffectOnDelta(st.do, Subject(t)) /\ StepIn(t, st)
  BY HandleRuns, Effects
<1>3. Scripted(script) BY DEF TypeInv, ScriptInv
<1>4. /\ Left(script, st)
      /\ \A x : Left(script', x) => Left(script, x)
      /\ \A x : x # st /\ Left(script, x) => Left(script', x)
  <2> DEFINE sc == script
             sc2 == script'
  <2>1. Ran(sc, sc2, t) /\ Scripted(sc) BY <1>1, <1>3
  <2> HIDE DEF sc, sc2
  <2>2. /\ Left(sc, Head(sc[t]))
        /\ \A x : Left(sc2, x) => Left(sc, x)
        /\ \A x : x # Head(sc[t]) /\ Left(sc, x) => Left(sc2, x)
    BY <2>1, RanLeaves
  <2> QED BY <2>2 DEF sc, sc2
<1>5. /\ \A dl : y \in Tells(dl) <=> \E s \in ToSet(dl.newStats) : s.id = i
      /\ \A sc, half : y \in Coming(sc, half) <=> \E s \in Stats : Left(sc, Step(half.stat, s)) /\ s.id = i
  <2>1. ASSUME NEW dl PROVE y \in Tells(dl) <=> \E s \in ToSet(dl.newStats) : s.id = i
    <3>1. y \in Tells(dl) <=> i \in IdsOf(dl.newStats) BY DEF Tells
    <3> QED BY <3>1, IdsOfSet
  <2>2. ASSUME NEW sc, NEW half
        PROVE  y \in Coming(sc, half) <=> \E s \in Stats : Left(sc, Step(half.stat, s)) /\ s.id = i
    <3>1. y \in Coming(sc, half) <=> i \in {s.id : s \in LeftOf(sc, Stats, half.stat)} BY DEF Coming
    <3> QED BY <3>1 DEF LeftOf
  <2> QED BY <2>1, <2>2
<1>6. /\ ToSet(d'.newStats) = ToSet(d.newStats) \cup {s \in {Subject(t)} : st.do = "StatInDelta"}
      /\ \A s \in ToSet(cd'.newStats) : s \in ToSet(cd.newStats) \/ (s = Subject(t) /\ st.do = "StatInCatchUp")
  BY <1>2 DEF EffectOnDelta, EffectOnCatchUp
<1>7. InDelta.stat = "StatInDelta" /\ InCatchUp.stat = "StatInCatchUp" BY DEF InDelta, InCatchUp
<1>8. ASSUME NEW s \in Stats, Left(script, Step("StatInDelta", s))
      PROVE  Left(script', Step("StatInDelta", s)) \/ s \in ToSet(d'.newStats)
  <2>1. CASE Step("StatInDelta", s) = st
    <3>1. s = Subject(t) /\ st.do = "StatInDelta" BY <1>1, <2>1 DEF Step
    <3> QED BY <1>6, <3>1
  <2> QED BY <1>4, <1>8, <2>1
<1>9. st.do = "StatInCatchUp" => Subject(t) \in Stats /\ Left(script, Step("StatInCatchUp", Subject(t)))
  <2>1. st.do = "StatInCatchUp" => st.of \in Stats
    BY <1>2 DEF StepIn, LinkDos, StatDos, StartDos, EndDos, GroupStartDos, GroupEndDos
  <2>2. st.of = Subject(t) BY DEF Subject
  <2> QED BY <1>1, <1>4, <2>1, <2>2
<1> HIDE DEF y, st
<1>10. /\ y \in Coming(script, InDelta) => y \in Coming(script', InDelta) \/ y \in Tells(d')
       /\ y \in Tells(d) => y \in Tells(d')
  BY <1>5, <1>6, <1>7, <1>8
<1>11. /\ y \in Tells(cd') => y \in Tells(cd) \/ y \in Coming(script, InCatchUp)
       /\ y \in Coming(script', InCatchUp) => y \in Coming(script, InCatchUp)
  BY <1>4, <1>5, <1>6, <1>7, <1>9
<1> QED BY <1>10, <1>11 DEF Lands, y

\* Things are named by their kind and their id.
LEMMA NamedTwice ==
  /\ \A dl : \A y \in Tells(dl) : y = <<y[1], y[2]>>
  /\ \A sc, half : \A y \in Coming(sc, half) : y = <<y[1], y[2]>>
<1>1. ASSUME NEW dl, NEW y \in Tells(dl)
      PROVE  y = <<y[1], y[2]>>
  <2> DEFINE A == ToSet(dl.connected)
             B == ToSet(dl.startedGroups)
             C == IdsOf(dl.startedNodes)
             D == IdsOf(dl.newStats)
  <2>1. y \in ({"link"} \X A) \cup ({"group"} \X B) \cup ({"node"} \X C) \cup ({"stat"} \X D)
    BY DEF Tells
  <2> HIDE DEF A, B, C, D
  <2> QED BY <2>1
<1>2. ASSUME NEW sc, NEW half, NEW y \in Coming(sc, half)
      PROVE  y = <<y[1], y[2]>>
  <2> DEFINE A == LeftOf(sc, Links, half.link)
             B == LeftOf(sc, Groups, half.group)
             C == LeftOf(sc, Nodes, half.node)
             D == {s.id : s \in LeftOf(sc, Stats, half.stat)}
  <2>1. y \in ({"link"} \X A) \cup ({"group"} \X B) \cup ({"node"} \X C) \cup ({"stat"} \X D)
    BY DEF Coming
  <2> HIDE DEF A, B, C, D
  <2> QED BY <2>1
<1> QED BY <1>1, <1>2

\* What there is to be told is not lost on its way to a delta, whatever it is, and nothing
\* comes into the catch-up but in its turn.
LEMMA AllLand ==
  ASSUME TypeInv, LinkInv(script), NEW t \in Threads, Handle(t)
  PROVE  /\ Coming(script, InDelta) \subseteq Coming(script', InDelta) \cup Tells(d')
         /\ Tells(d) \subseteq Tells(d')
         /\ Tells(cd') \subseteq Tells(cd) \cup Coming(script, InCatchUp)
         /\ Coming(script', InCatchUp) \subseteq Coming(script, InCatchUp)
<1>1. ASSUME NEW y, (y[1] = "stat" /\ y = <<y[1], y[2]>>) \/ y \in Removables
      PROVE  Lands(y)
  <2>1. CASE y \in Removables
    BY <2>1, ThingsSettle DEF Settles
  <2>2. CASE y[1] = "stat" /\ y = <<y[1], y[2]>>
    <3>1. y = <<"stat", y[2]>>
      BY <2>2
    <3>2. Lands(<<"stat", y[2]>>)
      BY StatLands
    <3> QED BY <3>1, <3>2
  <2> QED BY <1>1, <2>1, <2>2
<1>2. IsDelta(d) /\ IsDelta(cd')
  BY Effects DEF EffectOnCatchUp, TypeInv
<1>3. \A y \in Coming(script, InDelta) \cup Coming(script', InCatchUp) : Lands(y)
  BY <1>1, ComingNames, NamedTwice
<1>4. \A y \in Tells(d) \cup Tells(cd') : Lands(y)
  BY <1>1, <1>2, DeltaNames, NamedTwice
<1> QED BY <1>3, <1>4 DEF Lands

\* The steps of the monitorer, for what is told: those of handlers, and those of the stater,
\* which does not touch the catch-up but for its values.
LEMMA StaterIdles ==
  ASSUME TypeInv, Sample \/ SwapDelta \/ Deliver
  PROVE  /\ script' = script
         /\ cd'.connected = cd.connected /\ cd'.startedGroups = cd.startedGroups
         /\ cd'.startedNodes = cd.startedNodes /\ cd'.newStats = cd.newStats
         /\ cd'.disconnected = cd.disconnected /\ cd'.doneGroups = cd.doneGroups /\ cd'.doneNodes = cd.doneNodes
         /\ Tells(cd') = Tells(cd)
<1>1. IsDelta(cd)
  BY DEF TypeInv
<1>2. script' = script /\ (cd' = cd \/ cd' = [cd EXCEPT !.values = Sampled])
  BY DEF Sample, SwapDelta, Deliver
<1>3. /\ cd'.connected = cd.connected /\ cd'.startedGroups = cd.startedGroups
      /\ cd'.startedNodes = cd.startedNodes /\ cd'.newStats = cd.newStats
      /\ cd'.disconnected = cd.disconnected /\ cd'.doneGroups = cd.doneGroups /\ cd'.doneNodes = cd.doneNodes
  <2>1. CASE cd' = cd
    BY <2>1
  <2>2. CASE cd' = [cd EXCEPT !.values = Sampled]
    <3> DEFINE e == cd'
               c == cd
    <3>1. IsDelta(c) /\ e = [c EXCEPT !.values = Sampled]
      BY <1>1, <2>2
    <3> HIDE DEF e, c
    <3> QED BY <3>1, WithValues DEF e, c
  <2> QED BY <1>2, <2>1, <2>2
<1>4. Tells(cd') = Tells(cd)
  <2> DEFINE e == cd'
             c == cd
  <2> HIDE DEF e, c
  <2>1. e.connected = c.connected /\ e.startedGroups = c.startedGroups
        /\ e.startedNodes = c.startedNodes /\ e.newStats = c.newStats
    BY <1>3 DEF e, c
  <2>2. Tells(e) = Tells(c)
    BY <2>1, TellsTheSame
  <2> QED BY <2>2 DEF e, c
<1> QED BY <1>2, <1>3, <1>4

\* What is gone does not come back.
LEMMA GoneStays ==
  ASSUME TypeInv, LinkInv(script), [MonitorerNext]_monitorerVars, NEW y, IsGone(y)
  PROVE  IsGone(y)'
<1>1. y \notin Tells(cd) /\ y \notin Coming(script, InCatchUp)
  BY DEF IsGone
<1>2. y \notin Tells(cd') /\ y \notin Coming(script', InCatchUp)
  <2>1. CASE \E t \in Threads : Handle(t)
    BY <1>1, <2>1, AllLand
  <2>2. CASE Sample \/ SwapDelta \/ Deliver
    BY <1>1, <2>2, StaterIdles
  <2>3. CASE UNCHANGED monitorerVars
    BY <1>1, <2>3 DEF monitorerVars
  <2> QED BY <2>1, <2>2, <2>3 DEF MonitorerNext
<1> QED BY <1>2 DEF IsGone

\* Less and less is still to be withdrawn.
LEMMA GoingLess ==
  ASSUME NEW sc, NEW sc2, NEW half, \A x : Left(sc2, x) => Left(sc, x)
  PROVE  Going(sc2, half) \subseteq Going(sc, half)
<1>1. \A S, do : LeftOf(sc2, S, do) \subseteq LeftOf(sc, S, do)
  BY DEF LeftOf
<1> DEFINE A == LeftOf(sc, Links, half.link)
           A2 == LeftOf(sc2, Links, half.link)
           B == LeftOf(sc, Groups, half.group)
           B2 == LeftOf(sc2, Groups, half.group)
           C == LeftOf(sc, Nodes, half.node)
           C2 == LeftOf(sc2, Nodes, half.node)
<1>2. A2 \subseteq A /\ B2 \subseteq B /\ C2 \subseteq C
  BY <1>1
<1>3. /\ Going(sc, half) = ({"link"} \X A) \cup ({"group"} \X B) \cup ({"node"} \X C)
      /\ Going(sc2, half) = ({"link"} \X A2) \cup ({"group"} \X B2) \cup ({"node"} \X C2)
  BY DEF Going
<1> HIDE DEF A, A2, B, B2, C, C2
<1> QED BY <1>2, <1>3

\* When a group is withdrawn from the pending delta, its nodes are gone: the group has waited
\* for those that started.
LEMMA NodesOfGroupsGone ==
  ASSUME TypeInv, GoneInv, NEW t \in Threads, Handle(t), Head(script[t]).do = "GroupDoneInDelta",
         NEW n \in Nodes, GroupOf[n] = Subject(t)
  PROVE  IsGone(<<"node", n>>)
<1> DEFINE g == GroupOf[n]
           st == Head(script[t])
           l == Step("NodeDoneInDelta", n)
<1>1. Ran(script, script', t) /\ MayRun(t) /\ st = Step(st.do, Subject(t)) /\ StepIn(t, st)
  BY HandleRuns
<1>2. st.of = Subject(t)
  BY DEF Subject
<1>3. t \in Groups /\ t = g
  BY <1>1, <1>2 DEF StepIn, LinkDos, StatDos, StartDos, EndDos, GroupStartDos, GroupEndDos
<1>4. Scripted(script) /\ Placed(script)
  BY DEF TypeInv, ScriptInv
<1>5. <<"group", g>> \in Going(script, OutOfDelta)
  <2>1. Left(script, st)
    BY <1>1, <1>4, RanLeaves
  <2>2. st = Step("GroupDoneInDelta", g) /\ OutOfDelta.group = "GroupDoneInDelta"
    BY <1>1 DEF OutOfDelta
  <2> HIDE DEF st
  <2> QED BY <1>3, <2>1, <2>2, AsGroup
<1>6. SUFFICES ASSUME ~IsGone(<<"node", n>>) PROVE FALSE
  OBVIOUS
<1>7. <<"node", n>> \in Going(script, OutOfDelta)
  BY <1>5, <1>6 DEF GoneInv
<1>8. Left(script, l)
  BY <1>7, AsNode DEF OutOfDelta
<1>9. PICK u \in Threads : \E i \in DOMAIN script[u] : script[u][i] = l
  BY <1>8 DEF Left
<1>10. PICK i \in DOMAIN script[u] : script[u][i] = l
  BY <1>9
<1>11. StepIn(u, l)
  BY <1>4, <1>10 DEF Placed
<1>12. u = n
  BY <1>11 DEF StepIn, LinkDos, StatDos, StartDos, EndDos, GroupStartDos, GroupEndDos, Step
<1>13. script[n] = <<>>
  BY <1>1, <1>3 DEF MayRun
<1> QED BY <1>10, <1>12, <1>13

\* A step of a handler withdraws only what is gone.
LEMMA GoneHandled ==
  ASSUME TypeInv, LinkInv(script), GoneInv, NEW t \in Threads, Handle(t)
  PROVE  GoneInv'
<1> DEFINE st == Head(script[t])
<1>1. Ran(script, script', t) /\ stater' = stater /\ st = Step(st.do, Subject(t)) /\ StepIn(t, st)
  BY HandleRuns
<1>2. IsDelta(d') /\ ToSet(d'.doneGroups) = ToSet(d.doneGroups) \cup {g \in {Subject(t)} : st.do = "GroupDoneInDelta"}
  BY Effects DEF EffectOnDelta
<1>3. \A y : IsGone(y) => IsGone(y)'
  BY GoneStays DEF MonitorerNext
<1>4. \A y \in Leaving \cup Ended(d) \cup Ended(stater.delta) : IsGone(y)
  BY DEF GoneInv
<1>5. ASSUME NEW y \in Leaving' PROVE IsGone(y)'
  <2>1. y \in Removables
    BY GoingNames DEF Leaving
  <2>2. y \in Leaving \/ (y \notin Tells(cd') /\ y \notin Coming(script', InCatchUp))
    BY <2>1, ThingsSettle DEF Settles, Leaving
  <2> QED BY <1>3, <1>4, <2>2 DEF IsGone
<1>6. ASSUME NEW y \in TakesBack(d') PROVE IsGone(y)'
  <2>1. y \in Removables
    BY <1>2, WithdrawnNames
  <2>2. y \in TakesBack(d) \/ y \in Leaving
    BY <2>1, ThingsSettle DEF Settles, Leaving
  <2>3. TakesBack(d) \subseteq Ended(d)
    BY DEF Ended
  <2> QED BY <1>3, <1>4, <2>2, <2>3
<1>7. ASSUME NEW n \in Nodes, GroupOf[n] \in ToSet(d'.doneGroups) PROVE IsGone(<<"node", n>>)'
  <2>1. CASE GroupOf[n] \in ToSet(d.doneGroups)
    <3>1. <<"node", n>> \in Ended(d)
      BY <2>1 DEF Ended
    <3> QED BY <1>3, <1>4, <3>1
  <2>2. CASE GroupOf[n] \notin ToSet(d.doneGroups)
    <3>1. GroupOf[n] = Subject(t) /\ st.do = "GroupDoneInDelta"
      BY <1>2, <1>7, <2>2
    <3> QED BY <1>3, <3>1, NodesOfGroupsGone
  <2> QED BY <2>1, <2>2
<1>8. ASSUME NEW y \in Ended(d') PROVE IsGone(y)'
  BY <1>6, <1>7, <1>8 DEF Ended
<1>9. Ended(stater'.delta) = Ended(stater.delta)
  BY <1>1
<1>10. Going(script', OutOfDelta) \subseteq Going(script, OutOfDelta)
  <2> DEFINE sc == script
             sc2 == script'
  <2>1. Ran(sc, sc2, t) /\ Scripted(sc)
    BY <1>1 DEF TypeInv, ScriptInv
  <2> HIDE DEF sc, sc2
  <2>2. Going(sc2, OutOfDelta) \subseteq Going(sc, OutOfDelta)
    BY <2>1, RanLeaves, GoingLess
  <2> QED BY <2>2 DEF sc, sc2
<1>11. ASSUME NEW n \in Nodes, <<"group", GroupOf[n]>> \in Going(script', OutOfDelta), ~IsGone(<<"node", n>>)'
       PROVE  <<"node", n>> \in Going(script', OutOfDelta)
  <2> DEFINE y == <<"node", n>>
  <2>1. ~IsGone(y) /\ <<"group", GroupOf[n]>> \in Going(script, OutOfDelta)
    BY <1>3, <1>10, <1>11
  <2>2. y \in Going(script, OutOfDelta) /\ y \notin Leaving /\ y \in Removables
    BY <1>4, <2>1, GoingNames DEF GoneInv
  <2>3. y \in Going(script, OutOfCatchUp)
    BY <2>2 DEF Leaving
  <2>4. Left(script, Step("NodeDoneInDelta", n)) /\ Left(script, Step("DropNode", n))
    BY <2>2, <2>3, AsNode DEF OutOfDelta, OutOfCatchUp
  <2>5. Turns(script, script', st, Step("NodeInCatchUp", n), Step("NodeInDelta", n),
              Step("DropNode", n), Step("NodeDoneInDelta", n))
    BY NodeTurns
  <2>6. Left(script', Step("NodeDoneInDelta", n))
    BY <2>4, <2>5 DEF Turns
  <2> DEFINE sc2 == script'
  <2>7. Left(sc2, Step("NodeDoneInDelta", n))
    BY <2>6
  <2> HIDE DEF sc2
  <2>8. y \in Going(sc2, OutOfDelta)
    BY <2>7, AsNode DEF OutOfDelta
  <2> QED BY <2>8 DEF sc2
<1> QED BY <1>3, <1>4, <1>5, <1>8, <1>9, <1>11 DEF GoneInv

\* The stater moves what was withdrawn on, and withdraws nothing.
LEMMA GoneByStater ==
  ASSUME TypeInv, LinkInv(script), GoneInv, Sample \/ SwapDelta \/ Deliver
  PROVE  GoneInv'
<1>1. script' = script
  BY StaterIdles
<1>2. \A y : IsGone(y) <=> IsGone(y)'
  BY StaterIdles DEF IsGone
<1>3. Ended(NoDelta) = {}
  BY NothingTakenBack, NoDeltaIsDelta DEF Ended
<1>4. Ended(d') \cup Ended(stater'.delta) \subseteq Ended(d) \cup Ended(stater.delta)
  <2>1. /\ stater \in [pc : {"idle", "sampled", "swapped"}, sampled : {stater.sampled}, delta : {stater.delta}]
    BY DEF TypeInv
  <2>2. CASE Sample
    <3>1. d' = d /\ stater'.delta = stater.delta
      BY <2>1, <2>2 DEF Sample
    <3> QED BY <3>1
  <2>3. CASE SwapDelta
    <3>1. d' = NoDelta /\ stater'.delta = d
      BY <2>1, <2>3 DEF SwapDelta
    <3> QED BY <1>3, <3>1
  <2>4. CASE Deliver
    <3>1. d' = d /\ stater'.delta = NoDelta
      BY <2>4 DEF Deliver, Idle
    <3> QED BY <1>3, <3>1
  <2> QED BY <2>2, <2>3, <2>4
<1>5. Leaving' = Leaving
  BY <1>1 DEF Leaving
<1> QED BY <1>1, <1>2, <1>4, <1>5 DEF GoneInv

\* It holds of programs, and goes on holding.
LEMMA GoneKeeps ==
  ASSUME TypeInv, LinkInv(script), GoneInv, [MonitorerNext]_monitorerVars
  PROVE  GoneInv'
<1>1. CASE UNCHANGED monitorerVars
  BY <1>1 DEF monitorerVars, GoneInv, Leaving, IsGone
<1>2. CASE \E t \in Threads : Handle(t)
  BY <1>2, GoneHandled
<1>3. CASE Sample \/ SwapDelta \/ Deliver
  BY <1>3, GoneByStater
<1> QED BY <1>1, <1>2, <1>3 DEF MonitorerNext

\* It holds of programs.
LEMMA InitGone ==
  ASSUME NEW p \in Programs, MonitorFlow(p)
  PROVE  GoneInv
<1>0. TypeInv
  BY InitHolds DEF MonitorerInv
<1>1. /\ script = ScriptOf(p) /\ d = cd /\ stater = Idle
      /\ cd = [NoDelta EXCEPT !.newStats = [i \in DOMAIN p.flowStats |-> [id |-> p.flowStats[i], node |-> NoNode]]]
  BY DEF MonitorFlow
<1>2. IsProgram(p) /\ ScriptInv(script) /\ AllWhole(script)
  BY <1>1, ProgramsAssumption, ProgramScript
<1>3. Leaving = {}
  <2> SUFFICES ASSUME NEW y \in Going(script, OutOfDelta) PROVE y \in Going(script, OutOfCatchUp)
    BY DEF Leaving
  <2> DEFINE L == Links
             sc == script
  <2>1. /\ \A l \in L : Left(sc, Step("CutInDelta", l)) => Left(sc, Step("DropLink", l))
        /\ \A g \in Groups : Left(sc, Step("GroupDoneInDelta", g)) => Left(sc, Step("DropGroup", g))
        /\ \A n \in Nodes : Left(sc, Step("NodeDoneInDelta", n)) => Left(sc, Step("DropNode", n))
    BY <1>2 DEF AllWhole, Whole
  <2>2. /\ OutOfDelta.link = "CutInDelta" /\ OutOfDelta.group = "GroupDoneInDelta" /\ OutOfDelta.node = "NodeDoneInDelta"
        /\ OutOfCatchUp.link = "DropLink" /\ OutOfCatchUp.group = "DropGroup" /\ OutOfCatchUp.node = "DropNode"
    BY DEF OutOfDelta, OutOfCatchUp
  <2> DEFINE A == LeftOf(sc, L, "CutInDelta")
             A2 == LeftOf(sc, L, "DropLink")
             B == LeftOf(sc, Groups, "GroupDoneInDelta")
             B2 == LeftOf(sc, Groups, "DropGroup")
             C == LeftOf(sc, Nodes, "NodeDoneInDelta")
             C2 == LeftOf(sc, Nodes, "DropNode")
  <2> HIDE DEF L
  <2>3. A \subseteq A2 /\ B \subseteq B2 /\ C \subseteq C2
    BY <2>1 DEF LeftOf
  <2>4. /\ Going(sc, OutOfDelta) = ({"link"} \X A) \cup ({"group"} \X B) \cup ({"node"} \X C)
        /\ Going(sc, OutOfCatchUp) = ({"link"} \X A2) \cup ({"group"} \X B2) \cup ({"node"} \X C2)
    BY <2>2 DEF Going, L
  <2>5. y \in Going(sc, OutOfDelta)
    OBVIOUS
  <2> HIDE DEF A, A2, B, B2, C, C2, sc
  <2>6. y \in Going(sc, OutOfCatchUp)
    BY <2>3, <2>4, <2>5
  <2> QED BY <2>6 DEF sc
<1>4. Ended(d) = {} /\ Ended(stater.delta) = {}
  <2>1. Ended(NoDelta) = {}
    BY NothingTakenBack, NoDeltaIsDelta DEF Ended
  <2>2. d.disconnected = NoDelta.disconnected /\ d.doneGroups = NoDelta.doneGroups /\ d.doneNodes = NoDelta.doneNodes
    BY <1>1 DEF NoDelta
  <2>3. TakesBack(d) = TakesBack(NoDelta)
    BY <2>2, NothingTakenBack
  <2>4. Ended(d) = Ended(NoDelta)
    BY <2>2, <2>3 DEF Ended
  <2>5. stater.delta = NoDelta
    BY <1>1 DEF Idle
  <2> QED BY <2>1, <2>4, <2>5
<1>5. ASSUME NEW n \in Nodes, <<"group", GroupOf[n]>> \in Going(script, OutOfDelta), ~IsGone(<<"node", n>>)
      PROVE  <<"node", n>> \in Going(script, OutOfDelta)
  <2> DEFINE g == GroupOf[n]
             q == Step("GroupDoneInDelta", g)
             l == Step("NodeDoneInDelta", n)
             a == Step("NodeInDelta", n)
  <2>1. g \in Groups
    <3> DEFINE A == LeftOf(script, Links, OutOfDelta.link)
               B == LeftOf(script, Groups, OutOfDelta.group)
               C == LeftOf(script, Nodes, OutOfDelta.node)
    <3>1. <<"group", g>> \in ({"link"} \X A) \cup ({"group"} \X B) \cup ({"node"} \X C)
      BY <1>5 DEF Going
    <3>2. B \subseteq Groups
      BY DEF LeftOf
    <3> HIDE DEF A, B, C
    <3> QED BY <3>1, <3>2
  <2>2. Left(script, q)
    BY <1>5, <2>1, AsGroup DEF OutOfDelta
  <2>3. \A u \in Threads : \A i \in DOMAIN script[u] : StepIn(u, script[u][i])
    BY <1>2 DEF ScriptInv, Placed
  <2>4. q \in ToSet(script[g])
    <3>1. PICK u \in Threads : \E i \in DOMAIN script[u] : script[u][i] = q
      BY <2>2 DEF Left
    <3>2. PICK i \in DOMAIN script[u] : script[u][i] = q
      BY <3>1
    <3>3. StepIn(u, q)
      BY <2>3, <3>2
    <3>4. u = g
      BY <3>3 DEF StepIn, LinkDos, StatDos, StartDos, EndDos, GroupStartDos, GroupEndDos, Step
    <3> QED BY <3>2, <3>4 DEF ToSet
  <2>5. Left(script, a)
    <3>1. <<"node", n>> \in Coming(script, InCatchUp)
      <4>1. ToSet(cd.startedNodes) = {}
        BY <1>1, NoDeltaIsDelta DEF NoDelta
      <4>2. IsDelta(cd)
        BY <1>0 DEF TypeInv
      <4>3. <<"node", n>> \notin Tells(cd)
        BY <4>1, <4>2, AsNode
      <4> QED BY <1>5, <4>3 DEF IsGone
    <3>2. Left(script, Step("NodeInCatchUp", n))
      BY <3>1, AsNode DEF InCatchUp
    <3>3. Then(script, Step("NodeInCatchUp", n), a) /\ Scripted(script)
      BY <1>2 DEF ScriptInv, NodesInTurn
    <3> HIDE DEF a
    <3> QED BY <3>2, <3>3, InTurn
  <2>6. a \in ToSet(p.user)
    <3>1. PICK u \in Threads : \E i \in DOMAIN script[u] : script[u][i] = a
      BY <2>5 DEF Left
    <3>2. PICK i \in DOMAIN script[u] : script[u][i] = a
      BY <3>1
    <3>3. StepIn(u, a)
      BY <2>3, <3>2
    <3>4. u = UserThread
      BY <3>3 DEF StepIn, LinkDos, StatDos, StartDos, EndDos, GroupStartDos, GroupEndDos, Step
    <3>5. script[UserThread] = p.user
      BY <1>1 DEF ScriptOf, Threads
    <3> QED BY <3>2, <3>4, <3>5 DEF ToSet
  <2>7. l \in ToSet(script[n])
    BY <1>1, <1>2, <2>4, <2>6 DEF IsProgram
  <2>8. Left(script, l)
    BY <2>7 DEF Left, ToSet, Threads
  <2> QED BY <2>8, AsNode DEF OutOfDelta
<1> QED BY <1>3, <1>4, <1>5 DEF GoneInv

\* Answers under way were so before, or tell what the catch-up is; no trouble is forgotten.
LEMMA AnswersGo ==
  ASSUME AnswersInv, [Next]_vars, NEW j \in DOMAIN requests', requests'[j].answered
  PROVE  /\ trouble \subseteq trouble'
         /\ \/ \E k \in DOMAIN requests : requests'[j] = requests[k]
            \/ UNCHANGED <<monitorerVars, pushes>> /\ \E a \in CatchUps : requests'[j].delta = a
<1>1. CASE UNCHANGED requests /\ trouble \subseteq trouble'
  BY <1>1
<1>2. CASE Mount \/ OnWorkerCleared
  <2> DEFINE r == [answered |-> FALSE, delta |-> NoDelta]
             V == ToSet(requests)
             a == Append(requests, r)
  <2>1. requests' = a /\ requests \in Seq(V) /\ ~r.answered /\ (requests # <<>> => trouble' = trouble)
    BY <1>2 DEF Mount, OnWorkerCleared, Asks, Remains, AnswersInv
  <2>2. \A m \in DOMAIN a : (m \in DOMAIN requests /\ a[m] = requests[m]) \/ a[m] = r
    <3> DEFINE S == V \cup {r}
    <3>0. r \in S /\ V \subseteq S
      OBVIOUS
    <3> HIDE DEF r, V, S
    <3>1. requests \in Seq(S) /\ r \in S
      BY <2>1, <3>0
    <3> QED BY <3>1
  <2> HIDE DEF a, V, r
  <2>3. j \in DOMAIN requests /\ requests'[j] = requests[j]
    BY <2>1, <2>2
  <2>4. requests # <<>>
    BY <2>3
  <2> QED BY <2>1, <2>3, <2>4
<1>3. CASE Answer
  <2>1. PICK i \in DOMAIN requests : \E a \in CatchUps :
          requests' = [requests EXCEPT ![i] = [answered |-> TRUE, delta |-> a]]
    BY <1>3 DEF Answer
  <2>2. PICK a \in CatchUps : requests' = [requests EXCEPT ![i] = [answered |-> TRUE, delta |-> a]]
    BY <2>1
  <2>3. UNCHANGED <<monitorerVars, pushes>> /\ trouble \subseteq trouble'
    BY <1>3 DEF Answer
  <2> DEFINE r == [answered |-> TRUE, delta |-> a]
  <2>4. r.delta = a /\ requests' = [requests EXCEPT ![i] = r]
    BY <2>2
  <2> HIDE DEF r
  <2>5. j \in DOMAIN requests /\ (requests'[j] = requests[j] \/ requests'[j] = r)
    BY <2>4
  <2> QED BY <2>3, <2>4, <2>5
<1>4. CASE ReceiveAnswer \/ RequestRefused \/ RequestFails
  <2>1. PICK i \in DOMAIN requests : requests' = RemoveAt(requests, i) /\ trouble \subseteq trouble'
    BY <1>4 DEF ReceiveAnswer, RequestRefused, RequestFails
  <2>2. \A m \in DOMAIN RemoveAt(requests, i) : \E k \in DOMAIN requests : RemoveAt(requests, i)[m] = requests[k]
    BY RemoveAtKeeps DEF AnswersInv
  <2> QED BY <2>1, <2>2
<1>5. PusherIsMade \/ SocketOpens \/ SocketCloses \/ FlowMoves \/ Push \/ ReceivePush
        => UNCHANGED requests /\ trouble \subseteq trouble'
  BY DEF PusherIsMade, SocketOpens, SocketCloses, FlowMoves, Push, ReceivePush, pageVars
<1>6. User \/ WorkerMoves \/ OnWorkerDelta \/ OnWorkerOpened \/ OnWorkerProgress \/ UNCHANGED vars
        => UNCHANGED requests /\ trouble \subseteq trouble'
  BY DEF User, OpenFile, ClearReplay, Keys, SeekByBar, UserSends, WorkerMoves, OnWorkerDelta, OnWorkerOpened,
         OnWorkerProgress, vars, pageVars
<1> QED BY <1>1, <1>2, <1>3, <1>4, <1>5, <1>6 DEF Next, PageHears

\* Deltas on their way were so before, or are what the stater hands over.
LEMMA PushesGo ==
  ASSUME FeedInv, [Next]_vars, NEW m \in DOMAIN pushes'
  PROVE  \/ \E k \in DOMAIN pushes : pushes'[m] = pushes[k]
         \/ Deliver /\ pushes'[m] = Handed
<1>0. pushes \in Seq(ToSet(pushes))
  BY DEF FeedInv, OneByOne
<1>1. CASE UNCHANGED pushes
  BY <1>1
<1>2. CASE Push
  <2>1. Deliver /\ (pushes' = pushes \/ pushes' = Append(pushes, Handed))
    BY <1>2 DEF Push
  <2>2. CASE pushes' = Append(pushes, Handed)
    <3> DEFINE V == ToSet(pushes)
               r == Handed
               S == V \cup {r}
    <3>0. r \in S /\ V \subseteq S
      OBVIOUS
    <3>1. pushes \in Seq(V) /\ pushes' = Append(pushes, r)
      BY <1>0, <2>2
    <3> HIDE DEF r, V, S
    <3>2. pushes \in Seq(S) /\ r \in S
      BY <3>0, <3>1
    <3>3. pushes'[m] = r \/ (m \in DOMAIN pushes /\ pushes'[m] = pushes[m])
      BY <3>1, <3>2
    <3> QED BY <2>1, <3>3 DEF r
  <2> QED BY <2>1, <2>2
<1>3. CASE ReceivePush
  <2>1. pushes' = Tail(pushes) /\ pushes # <<>>
    BY <1>3 DEF ReceivePush
  <2> DEFINE V == ToSet(pushes)
  <2>2. pushes \in Seq(V)
    BY <1>0
  <2> HIDE DEF V
  <2>3. m + 1 \in DOMAIN pushes /\ pushes'[m] = pushes[m + 1]
    BY <2>1, <2>2
  <2> QED BY <2>3
<1>4. CASE SocketCloses
  BY <1>4 DEF SocketCloses
<1>5. Mount \/ Answer \/ ReceiveAnswer \/ RequestRefused \/ RequestFails \/ PusherIsMade \/ SocketOpens \/ FlowMoves
        => UNCHANGED pushes
  BY DEF Mount, Answer, ReceiveAnswer, RequestRefused, RequestFails, PusherIsMade, SocketOpens, FlowMoves, pageVars
<1>6. User \/ WorkerMoves \/ PageHears \/ UNCHANGED vars => UNCHANGED pushes
  BY DEF User, OpenFile, ClearReplay, Keys, SeekByBar, UserSends, WorkerMoves, PageHears, OnWorkerCleared, OnWorkerDelta,
         OnWorkerOpened, OnWorkerProgress, HeardUnchanged, vars, pageVars
<1> QED BY <1>1, <1>2, <1>3, <1>4, <1>5, <1>6 DEF Next

\* The catch-up withdraws nothing, and so nor do answers; what deltas on their way withdraw
\* is gone.
AddsOnly(dl) == dl.disconnected = <<>> /\ dl.doneGroups = <<>> /\ dl.doneNodes = <<>>
EndInv ==
    /\ AddsOnly(cd)
    /\ \A i \in DOMAIN requests : requests[i].answered => AddsOnly(requests[i].delta)
    /\ \A m \in DOMAIN pushes : \A y \in Ended(pushes[m]) : IsGone(y)

\* What withdraws nothing takes nothing away.
LEMMA AddsOnlyEndsNothing ==
  ASSUME NEW dl, AddsOnly(dl)
  PROVE  Ended(dl) = {}
<1>1. dl.disconnected = NoDelta.disconnected /\ dl.doneGroups = NoDelta.doneGroups /\ dl.doneNodes = NoDelta.doneNodes
  BY DEF AddsOnly, NoDelta
<1>2. TakesBack(dl) = {}
  BY <1>1, NothingTakenBack
<1>3. ToSet(dl.doneGroups) = {}
  BY <1>1, NoDeltaIsDelta
<1> QED BY <1>2, <1>3 DEF Ended

\* A step of the monitorer does not write what the catch-up withdraws.
LEMMA CatchUpAddsOnly ==
  ASSUME TypeInv, AddsOnly(cd), [MonitorerNext]_monitorerVars
  PROVE  AddsOnly(cd')
<1>1. CASE UNCHANGED monitorerVars
  BY <1>1 DEF monitorerVars
<1>2. CASE \E t \in Threads : Handle(t)
  <2>1. PICK t \in Threads : Handle(t)
    BY <1>2
  <2>2. \/ cd' = cd
        \/ \E q : cd' = [cd EXCEPT !.newStats = q]
        \/ \E q : cd' = [cd EXCEPT !.startedNodes = q]
        \/ \E q : cd' = [cd EXCEPT !.connected = q]
        \/ \E q : cd' = [cd EXCEPT !.startedGroups = q]
    <3>1. CASE StatInCatchUp(t) \/ DropStats(t)
      BY <3>1 DEF StatInCatchUp, DropStats
    <3>2. CASE NodeInCatchUp(t) \/ DropNode(t)
      BY <3>2 DEF NodeInCatchUp, DropNode
    <3>3. CASE LinkInCatchUp(t) \/ DropLink(t)
      BY <3>3 DEF LinkInCatchUp, DropLink
    <3>4. CASE GroupInCatchUp(t) \/ DropGroup(t)
      BY <3>4 DEF GroupInCatchUp, DropGroup
    <3>5. CASE AddValuer(t) \/ StatInDelta(t) \/ NodeInDelta(t) \/ RemoveValuers(t) \/ NodeDoneInDelta(t)
               \/ LinkInDelta(t) \/ CutInDelta(t) \/ GroupInDelta(t) \/ GroupDoneInDelta(t)
      BY <3>5 DEF AddValuer, StatInDelta, NodeInDelta, RemoveValuers, NodeDoneInDelta, LinkInDelta, CutInDelta,
                  GroupInDelta, GroupDoneInDelta
    <3> QED BY <2>1, <3>1, <3>2, <3>3, <3>4, <3>5 DEF Handle
  <2> DEFINE c == cd
             e == cd'
  <2>3. /\ IsDelta(c) /\ AddsOnly(c)
        /\ \/ e = c
           \/ \E q : e = [c EXCEPT !.newStats = q]
           \/ \E q : e = [c EXCEPT !.startedNodes = q]
           \/ \E q : e = [c EXCEPT !.connected = q]
           \/ \E q : e = [c EXCEPT !.startedGroups = q]
    BY <2>2 DEF TypeInv
  <2> HIDE DEF c, e
  <2>4. AddsOnly(e)
    BY <2>3 DEF AddsOnly, IsDelta
  <2> QED BY <2>4 DEF e
<1>3. CASE Sample \/ SwapDelta \/ Deliver
  BY <1>3, StaterIdles DEF AddsOnly
<1> QED BY <1>1, <1>2, <1>3 DEF MonitorerNext

\* Whatever happens, only what is gone is being withdrawn.
LEMMA EndKeeps ==
  ASSUME TypeInv, LinkInv(script), GoneInv, FeedInv, AnswersInv, EndInv, [Next]_vars
  PROVE  EndInv'
<1>0. [MonitorerNext]_monitorerVars
  BY MonitorerStep
<1>1. AddsOnly(cd')
  BY <1>0, CatchUpAddsOnly DEF EndInv
<1>2. \A y : IsGone(y) => IsGone(y)'
  BY <1>0, GoneStays
<1>3. ASSUME NEW m \in DOMAIN pushes', NEW y \in Ended(pushes'[m])
      PROVE  IsGone(y)'
  <2>1. CASE \E k \in DOMAIN pushes : pushes'[m] = pushes[k]
    BY <1>2, <1>3, <2>1 DEF EndInv
  <2>2. CASE Deliver /\ pushes'[m] = Handed
    <3>1. IsDelta(stater.delta)
      BY DEF TypeInv
    <3>2. /\ Handed.disconnected = stater.delta.disconnected /\ Handed.doneGroups = stater.delta.doneGroups
          /\ Handed.doneNodes = stater.delta.doneNodes
      BY <3>1, WithValues DEF Handed
    <3>3. TakesBack(Handed) = TakesBack(stater.delta)
      BY <3>2, NothingTakenBack
    <3>4. Ended(Handed) = Ended(stater.delta)
      BY <3>2, <3>3 DEF Ended
    <3>5. y \in Ended(stater.delta)
      BY <1>3, <2>2, <3>4
    <3> QED BY <1>2, <3>5 DEF GoneInv
  <2> QED BY <2>1, <2>2, PushesGo
<1>4. ASSUME NEW i \in DOMAIN requests', requests'[i].answered
      PROVE  AddsOnly(requests'[i].delta)
  <2>1. CASE \E k \in DOMAIN requests : requests'[i] = requests[k]
    BY <1>4, <2>1 DEF EndInv
  <2>2. CASE \E a \in CatchUps : requests'[i].delta = a
    <3>1. PICK a \in CatchUps : requests'[i].delta = a
      BY <2>2
    <3>2. a = cd \/ \E v : a = [cd EXCEPT !.values = v]
      BY DEF CatchUps
    <3>3. IsDelta(cd) /\ AddsOnly(cd)
      BY DEF TypeInv, EndInv
    <3>4. AddsOnly(a)
      BY <3>2, <3>3, WithValues DEF AddsOnly
    <3> QED BY <3>1, <3>4
  <2> QED BY <1>4, <2>1, <2>2, AnswersGo
<1> QED BY <1>1, <1>3, <1>4 DEF EndInv

\* At first nothing is withdrawn, and nothing is on its way.
LEMMA InitEnd == Init => EndInv
<1> SUFFICES ASSUME Init PROVE EndInv
  OBVIOUS
<1>1. PICK p \in Programs : MonitorFlow(p)
  BY DEF Init
<1>2. cd = [NoDelta EXCEPT !.newStats = [i \in DOMAIN p.flowStats |-> [id |-> p.flowStats[i], node |-> NoNode]]]
  BY <1>1 DEF MonitorFlow
<1>3. AddsOnly(cd)
  BY <1>2 DEF AddsOnly, NoDelta
<1>4. requests = <<>> /\ pushes = <<>>
  BY DEF Init
<1> QED BY <1>3, <1>4 DEF EndInv

\* The stats of nodes that are gone: the page drops them with the nodes.
StatsOfGone == {<<"stat", s.id>> : s \in {x \in Stats : IsGone(<<"node", x.node>>)}}

\* What the catch-up has and no delta is still to announce; and what deltas are to tell.
Wanted == (Tells(cd) \ Coming(script, InDelta)) \ StatsOfGone
Way == AllOf(pushes) \cup Tells(stater.delta) \cup Tells(d)

\* Untroubled, a live page shows it or is to be told, and so does an answer tell it.
CoverInv == trouble = {} =>
    /\ Mounted /\ ~replay.done /\ config.api /\ requests = <<>> => Wanted \subseteq Shows(flow) \cup Way
    /\ \A i \in DOMAIN requests : requests[i].answered => Wanted \subseteq Tells(requests[i].delta) \cup Way

\* What is to be announced to the catch-up is to be announced to a delta after it.
LEMMA ComingInTurn ==
  ASSUME ScriptInv(script)
  PROVE  Coming(script, InCatchUp) \subseteq Coming(script, InDelta)
<1> DEFINE L == Links
           sc == script
<1>1. /\ Scripted(sc) /\ StatsInTurn(sc) /\ NodesInTurn(sc) /\ LinksInTurn(sc) /\ GroupsInTurn(sc)
  BY DEF ScriptInv
<1> HIDE DEF sc
<1>2. ASSUME NEW a, NEW b, Then(sc, a, b), Left(sc, a)
      PROVE  Left(sc, b)
  BY <1>1, <1>2, InTurn
<1>3. LeftOf(sc, L, "LinkInCatchUp") \subseteq LeftOf(sc, L, "LinkInDelta")
  BY <1>1, <1>2 DEF LeftOf, LinksInTurn
<1>4. LeftOf(sc, Groups, "GroupInCatchUp") \subseteq LeftOf(sc, Groups, "GroupInDelta")
  BY <1>1, <1>2 DEF LeftOf, GroupsInTurn
<1>5. LeftOf(sc, Nodes, "NodeInCatchUp") \subseteq LeftOf(sc, Nodes, "NodeInDelta")
  BY <1>1, <1>2 DEF LeftOf, NodesInTurn
<1>6. LeftOf(sc, Stats, "StatInCatchUp") \subseteq LeftOf(sc, Stats, "StatInDelta")
  BY <1>1, <1>2 DEF LeftOf, StatsInTurn
<1> DEFINE A == LeftOf(sc, L, "LinkInCatchUp")
           A2 == LeftOf(sc, L, "LinkInDelta")
           B == LeftOf(sc, Groups, "GroupInCatchUp")
           B2 == LeftOf(sc, Groups, "GroupInDelta")
           C == LeftOf(sc, Nodes, "NodeInCatchUp")
           C2 == LeftOf(sc, Nodes, "NodeInDelta")
           D == {s.id : s \in LeftOf(sc, Stats, "StatInCatchUp")}
           D2 == {s.id : s \in LeftOf(sc, Stats, "StatInDelta")}
<1>7. A \subseteq A2 /\ B \subseteq B2 /\ C \subseteq C2 /\ D \subseteq D2
  BY <1>3, <1>4, <1>5, <1>6
<1>8. /\ Coming(sc, InCatchUp) = ({"link"} \X A) \cup ({"group"} \X B) \cup ({"node"} \X C) \cup ({"stat"} \X D)
      /\ Coming(sc, InDelta) = ({"link"} \X A2) \cup ({"group"} \X B2) \cup ({"node"} \X C2) \cup ({"stat"} \X D2)
  BY DEF Coming, InCatchUp, InDelta
<1> HIDE DEF A, A2, B, B2, C, C2, D, D2, L
<1>9. Coming(sc, InCatchUp) \subseteq Coming(sc, InDelta)
  BY <1>7, <1>8
<1> QED BY <1>9 DEF sc

\* The stats of what is gone stay so.
LEMMA GoneStatsStay ==
  ASSUME TypeInv, LinkInv(script), [MonitorerNext]_monitorerVars
  PROVE  StatsOfGone \subseteq StatsOfGone'
<1> SUFFICES ASSUME NEW y \in StatsOfGone PROVE y \in StatsOfGone'
  OBVIOUS
<1>1. PICK s \in Stats : IsGone(<<"node", s.node>>) /\ y = <<"stat", s.id>>
  BY DEF StatsOfGone
<1>2. IsGone(<<"node", s.node>>)'
  BY <1>1, GoneStays
<1> QED BY <1>1, <1>2 DEF StatsOfGone

\* A step of a handler takes no thing off its way, and makes only those wanted it puts there.
LEMMA WantedHandled ==
  ASSUME TypeInv, LinkInv(script), NEW t \in Threads, Handle(t), UNCHANGED pushes
  PROVE  Wanted' \subseteq Wanted \cup Way' /\ Way \subseteq Way'
<1>1. stater' = stater
  BY HandleRuns
<1>2. /\ Coming(script, InDelta) \subseteq Coming(script', InDelta) \cup Tells(d')
      /\ Tells(d) \subseteq Tells(d')
      /\ Tells(cd') \subseteq Tells(cd) \cup Coming(script, InCatchUp)
  BY AllLand
<1>3. Coming(script, InCatchUp) \subseteq Coming(script, InDelta)
  BY ComingInTurn DEF TypeInv
<1>4. StatsOfGone \subseteq StatsOfGone'
  BY GoneStatsStay DEF MonitorerNext
<1>5. Way' = AllOf(pushes) \cup Tells(stater.delta) \cup Tells(d')
  BY <1>1 DEF Way
<1>6. Wanted' = (Tells(cd') \ Coming(script', InDelta)) \ StatsOfGone'
  BY DEF Wanted
<1> QED BY <1>2, <1>3, <1>4, <1>5, <1>6 DEF Way, Wanted

\* The stater keeps what it wants to tell, until it hands it over.
LEMMA WantedByStater ==
  ASSUME TypeInv, Sample \/ SwapDelta \/ Deliver
  PROVE  /\ Wanted' = Wanted
         /\ Tells(stater.delta) \cup Tells(d) \subseteq Tells(stater'.delta) \cup Tells(d') \cup Tells(Handed)
         /\ ~Deliver => Tells(stater.delta) \cup Tells(d) \subseteq Tells(stater'.delta) \cup Tells(d')
<1>0. /\ IsDelta(stater.delta) /\ (stater.pc # "swapped" => stater.delta = NoDelta)
      /\ stater \in [pc : {"idle", "sampled", "swapped"}, sampled : {stater.sampled}, delta : {stater.delta}]
  BY DEF TypeInv
<1>1. Wanted' = Wanted
  BY StaterIdles DEF Wanted, StatsOfGone, IsGone
<1>2. CASE Sample
  <2>1. d' = d /\ stater' = [stater EXCEPT !.pc = "sampled", !.sampled = valuers]
    BY <1>2 DEF Sample
  <2>2. stater'.delta = stater.delta
    BY <1>0, <2>1
  <2> QED BY <1>1, <2>1, <2>2
<1>3. CASE SwapDelta
  <2>1. d' = NoDelta /\ stater.pc = "sampled" /\ stater' = [stater EXCEPT !.pc = "swapped", !.delta = d]
    BY <1>3 DEF SwapDelta
  <2>2. stater'.delta = d /\ stater.delta = NoDelta
    BY <1>0, <2>1
  <2> QED BY <1>1, <2>1, <2>2, NothingTold
<1>4. CASE Deliver
  <2>1. d' = d
    BY <1>4 DEF Deliver
  <2>2. Tells(Handed) = Tells(stater.delta)
    <3>1. /\ Handed.connected = stater.delta.connected /\ Handed.startedGroups = stater.delta.startedGroups
          /\ Handed.startedNodes = stater.delta.startedNodes /\ Handed.newStats = stater.delta.newStats
      BY <1>0, WithValues DEF Handed
    <3> QED BY <3>1, TellsTheSame
  <2> QED BY <1>1, <1>4, <2>1, <2>2
<1> QED BY <1>2, <1>3, <1>4

\* What the stater hands over goes to the page, is empty, or is trouble.
LEMMA HandedGoes ==
  ASSUME TypeInv, FeedInv, Mounted, Push, trouble' = {}
  PROVE  AllOf(pushes) \cup Tells(Handed) \subseteq AllOf(pushes')
<1>1. CASE HandsOver /\ socket = "open"
  <2>1. pushes' = Append(pushes, Handed)
    BY <1>1 DEF Push, Missed
  <2> DEFINE V == ToSet(pushes)
             r == Handed
             S == V \cup {r}
             q == pushes
             q2 == pushes'
  <2>2. q \in Seq(V) /\ r \in S /\ V \subseteq S /\ q2 = Append(q, r)
    BY <2>1 DEF FeedInv, OneByOne
  <2> HIDE DEF V, r, S, q, q2
  <2>3. q \in Seq(S)
    BY <2>2
  <2>4. /\ DOMAIN q2 = DOMAIN q \cup {Len(q) + 1}
        /\ \A m \in DOMAIN q : q2[m] = q[m]
        /\ q2[Len(q) + 1] = r
    BY <2>2, <2>3
  <2>5. AllOf(q) \cup Tells(r) \subseteq AllOf(q2)
    BY <2>4 DEF AllOf
  <2> QED BY <2>5 DEF q, q2, r
<1>2. CASE ~(HandsOver /\ socket = "open")
  <2>1. ~HandsOver /\ Handed.startedNodes = <<>> /\ pushes' = pushes /\ Deliver
    BY <1>2 DEF Push, Missed
  <2>2. IsEmpty(Handed)
    BY <2>1 DEF HandsOver, Deliver
  <2>3. /\ Handed.connected = NoDelta.connected /\ Handed.startedGroups = NoDelta.startedGroups
        /\ Handed.startedNodes = NoDelta.startedNodes /\ Handed.newStats = NoDelta.newStats
    BY <2>1, <2>2 DEF IsEmpty, NoDelta
  <2>4. Tells(Handed) = {}
    BY <2>3, TellsTheSame, NothingTold
  <2> QED BY <2>1, <2>4
<1> QED BY <1>1, <1>2

\* The flow goes on, or the stater: untroubled, what is wanted was, or is on its way.
LEMMA WantedMoves ==
  ASSUME TypeInv, LinkInv(script), FeedInv, Mounted, FlowMoves \/ Push, trouble' = {}
  PROVE  Wanted' \subseteq Wanted \cup Way' /\ Way \subseteq Way'
<1>1. CASE FlowMoves
  <2>1. pushes' = pushes
    BY <1>1 DEF FlowMoves, pageVars
  <2>2. CASE \E t \in Threads : Handle(t)
    BY <2>1, <2>2, WantedHandled
  <2>3. CASE Sample \/ SwapDelta
    <3>1. ~Deliver
      BY <2>3 DEF Sample, SwapDelta, Deliver
    <3> QED BY <2>1, <2>3, <3>1, WantedByStater DEF Way
  <2> QED BY <1>1, <2>2, <2>3 DEF FlowMoves
<1>2. CASE Push
  <2>1. Deliver
    BY <1>2 DEF Push
  <2> QED BY <1>2, <2>1, WantedByStater, HandedGoes DEF Way
<1> QED BY <1>1, <1>2

\* A page is mounted once, by App.vue.
LEMMA MountedStays ==
  ASSUME UnmountedInv, [Next]_vars, ~Mount
  PROVE  Mounted' => Mounted
<1> DEFINE B == [mounts : {0, 1}, drops : Nat, fails : Nat, opens : Nat, clicks : Nat]
           W == {"mounts", "drops", "fails", "opens", "clicks"}
<1>0. budget \in B
  BY DEF UnmountedInv
<1>1. ASSUME NEW what \in W, what # "mounts", Spend(what)
      PROVE  budget'.mounts = budget.mounts
  <2> DEFINE b == budget
             b2 == budget'
  <2>1. b \in B /\ b[what] > 0 /\ b2 = [b EXCEPT ![what] = @ - 1]
    BY <1>0, <1>1 DEF Spend
  <2> HIDE DEF b, b2
  <2>2. b2.mounts = IF what = "mounts" THEN 0 ELSE b.mounts
    BY <2>1, Spent
  <2> QED BY <1>1, <2>2 DEF b, b2
<1>2. \A what \in {"drops", "fails", "opens", "clicks"} : what \in W /\ what # "mounts"
  OBVIOUS
<1> HIDE DEF B, W
<1>3. UNCHANGED budget \/ \E what \in {"drops", "fails", "opens", "clicks"} : Spend(what)
  <2>1. CASE RequestFails \/ SocketCloses \/ OpenFile \/ ClearReplay \/ Keys \/ SeekByBar
    BY <2>1 DEF RequestFails, SocketCloses, OpenFile, ClearReplay, Keys, SeekByBar, UserSends
  <2>2. CASE PusherIsMade \/ Push
    BY <2>2 DEF PusherIsMade, Push
  <2>3. CASE Answer \/ ReceiveAnswer \/ RequestRefused \/ SocketOpens \/ FlowMoves \/ ReceivePush \/ WorkerMoves
             \/ PageHears \/ UNCHANGED vars
    BY <2>3 DEF Answer, ReceiveAnswer, RequestRefused, SocketOpens, FlowMoves, ReceivePush, WorkerMoves, PageHears,
                OnWorkerCleared, OnWorkerDelta, OnWorkerOpened, OnWorkerProgress, HeardUnchanged, vars, pageVars
  <2> QED BY <2>1, <2>2, <2>3 DEF Next, User
<1>4. budget'.mounts = budget.mounts
  BY <1>1, <1>2, <1>3
<1> QED BY <1>4 DEF Mounted

\* config.json is read once.
LEMMA ConfigStays ==
  ASSUME [Next]_vars
  PROVE  config' = config
<1>1. Mount \/ Answer \/ ReceiveAnswer \/ RequestRefused \/ RequestFails \/ PusherIsMade \/ SocketOpens \/ SocketCloses
        \/ FlowMoves \/ Push \/ ReceivePush => config' = config
  BY DEF Mount, Answer, ReceiveAnswer, RequestRefused, RequestFails, PusherIsMade, SocketOpens, SocketCloses,
         FlowMoves, Push, ReceivePush, pageVars
<1>2. User \/ WorkerMoves \/ PageHears \/ UNCHANGED vars => config' = config
  BY DEF User, OpenFile, ClearReplay, Keys, SeekByBar, UserSends, WorkerMoves, PageHears, OnWorkerCleared,
         OnWorkerDelta, OnWorkerOpened, OnWorkerProgress, HeardUnchanged, vars, pageVars
<1> QED BY <1>1, <1>2 DEF Next

\* What a live page becomes when it takes dl.
Takes(dl) ==
    /\ IsDelta(dl) /\ flow' = OnDelta(flow, dl) /\ Makes(flow, dl, flow')
    /\ Shows(flow') \subseteq Shows(flow) \cup Tells(dl)
TakesAnswer(i) == requests[i].answered /\ flow = EmptyFlow /\ Takes(requests[i].delta)
TakesPush == pushes # <<>> /\ Takes(Head(pushes))

\* A live page, if no answer doubled what it shows, is as it was, is emptied, or takes an
\* answer when it is empty or the next delta.
LEMMA LiveFlow ==
  ASSUME PageInv, [Next]_vars, ~replay'.done, trouble' \cap {"unaligned", "mixed"} = {}
  PROVE  \/ (Mount \/ OnWorkerCleared) /\ flow' = EmptyFlow
         \/ /\ ~replay.done /\ trouble \cap {"unaligned", "mixed"} = {}
            /\ \/ flow' = flow /\ ~ReceiveAnswer /\ ~ReceivePush
               \/ \E i \in DOMAIN requests :
                      ReceiveAnswer /\ TakesAnswer(i) /\ trouble' = trouble \cup OnAnswer(flow, requests[i].delta)
               \/ ReceivePush /\ TakesPush
<1>0. FeedInv /\ AnswersInv /\ FlowInv /\ ReplayInv
  BY DEF PageInv
<1>1. CASE Mount \/ OnWorkerCleared
  BY <1>1 DEF Mount, OnWorkerCleared, Asks
<1>2. CASE ReceiveAnswer
  <2>1. PICK i \in DOMAIN requests : /\ requests[i].answered /\ flow' = OnDelta(flow, requests[i].delta)
                                     /\ requests' = RemoveAt(requests, i)
                                     /\ trouble' = trouble \cup OnAnswer(flow, requests[i].delta)
    BY <1>2 DEF ReceiveAnswer
  <2> DEFINE a == requests[i].delta
  <2>2. flow = EmptyFlow /\ trouble \cap {"unaligned", "mixed"} = {} /\ replay' = replay
    BY <1>2, <2>1 DEF OnAnswer, ReceiveAnswer
  <2>3. IsDelta(a) /\ TellsOnce(a)
    BY <1>0, <2>1, <2>2 DEF AnswersInv, CaughtUp
  <2> HIDE DEF a
  <2>4. Tidy(EmptyFlow, Things) /\ Tells(a) \cap Shows(EmptyFlow) = {} /\ Fits(a, Things)
    BY <2>3, EmptyIsTidy, DeltaFits
  <2>5. /\ Shows(OnDelta(EmptyFlow, a)) \subseteq (Shows(EmptyFlow) \cup Tells(a)) \ TakesBack(a)
        /\ Makes(EmptyFlow, a, OnDelta(EmptyFlow, a))
    BY <2>3, <2>4, OnDeltaTidy
  <2>6. flow' = OnDelta(EmptyFlow, a)
    BY <2>1, <2>2 DEF a
  <2>7. Takes(a)
    BY <2>2, <2>3, <2>5, <2>6 DEF Takes
  <2> QED BY <1>2, <2>1, <2>2, <2>7 DEF a, TakesAnswer
<1>3. CASE ReceivePush
  <2>1. IsDelta(Head(pushes)) /\ TellsOnce(Head(pushes)) /\ Tells(Head(pushes)) \subseteq Pending
    BY <1>0, <1>3, FeedHeard
  <2>2. replay' = replay /\ trouble \subseteq trouble' /\ pushes # <<>>
    BY <1>3 DEF ReceivePush
  <2>3. flow' = OnDelta(flow, Head(pushes))
    BY <1>3, <2>2 DEF ReceivePush
  <2>4. PICK U : Tidy(flow, U) /\ Shows(flow) \cap Pending = {}
    BY <1>0, <2>2 DEF FlowInv, Shown
  <2> DEFINE e == Head(pushes)
  <2> HIDE DEF e
  <2>5. Tells(e) \cap Shows(flow) = {} /\ Fits(e, Things)
    BY <2>1, <2>4, DeltaFits DEF e
  <2>6. /\ Shows(OnDelta(flow, e)) \subseteq (Shows(flow) \cup Tells(e)) \ TakesBack(e)
        /\ Makes(flow, e, OnDelta(flow, e))
    BY <2>1, <2>4, <2>5, OnDeltaTidy DEF e
  <2>7. Takes(e)
    BY <2>1, <2>3, <2>6 DEF Takes, e
  <2> QED BY <1>3, <2>2, <2>7 DEF TakesPush, e
<1>4. CASE OnWorkerDelta \/ OnWorkerOpened
  BY <1>0, <1>4, PageFollows DEF PageHears
<1>5. CASE ~ReceiveAnswer /\ ~ReceivePush /\ UNCHANGED flow /\ trouble \subseteq trouble' /\ ~replay.done
  BY <1>5
<1>6. CASE ~ReceiveAnswer /\ ~ReceivePush /\ OnWorkerProgress
  <2>1. ~replay.done
    BY <1>0, <1>6, PageFollows DEF PageHears
  <2>2. flow' = flow /\ trouble' = trouble
    BY <1>6 DEF OnWorkerProgress
  <2> QED BY <1>5, <1>6, <2>1, <2>2
<1>7. Answer \/ RequestRefused \/ RequestFails \/ PusherIsMade \/ SocketOpens \/ SocketCloses \/ FlowMoves \/ Push
        => UNCHANGED <<flow, replay>> /\ trouble \subseteq trouble'
  BY DEF Answer, RequestRefused, RequestFails, PusherIsMade, SocketOpens, SocketCloses, FlowMoves, Push, pageVars
<1>8. User \/ WorkerMoves \/ UNCHANGED vars => UNCHANGED <<flow, replay>> /\ trouble \subseteq trouble'
  BY DEF User, OpenFile, ClearReplay, Keys, SeekByBar, UserSends, WorkerMoves, vars, pageVars
<1> QED BY <1>1, <1>2, <1>3, <1>4, <1>5, <1>6, <1>7, <1>8 DEF Next, PageHears

\* A delta that cuts nothing leaves every connection.
LEMMA CutsNothing ==
  ASSUME NEW U, NEW f, Tidy(f, U), NEW dl, IsDelta(dl), AddsOnly(dl)
  PROVE  ~CutsTooMuch(f, dl)
<1> DEFINE A == f.connections
           B == dl.connected
           S == U \cup Links
           q == A \o B
           K == {v \in ToSet(q) : \A c \in ToSet(dl.disconnected) : Survives(v, c)}
<1>1. A \in Seq(S) /\ B \in Seq(S)
  <2> DEFINE V == Links
  <2>1. A \in Seq(U) /\ B \in Seq(V) /\ S = U \cup V
    BY DEF Tidy, IsDelta
  <2> HIDE DEF A, B, V, S
  <2> QED BY <2>1
<1>2. ToSet(dl.disconnected) = {}
  <2>1. dl.disconnected = NoDelta.disconnected
    BY DEF AddsOnly, NoDelta
  <2> QED BY <2>1, NoDeltaIsDelta
<1>3. OnDelta(f, dl).connections = Selected(q, K)
  BY DEF OnDelta, Disconnect
<1> HIDE DEF A, B, S, K
<1>4. q \in Seq(S) /\ ToSet(q) = ToSet(A) \cup ToSet(B)
  BY <1>1, ConcatSet
<1>5. K = ToSet(q)
  BY <1>2 DEF K
<1> HIDE DEF q
<1>6. ToSet(Selected(q, K)) = ToSet(q)
  <2>1. ToSet(Selected(q, K)) = ToSet(q) \cap K
    BY <1>4, SelectedProperties
  <2> QED BY <1>5, <2>1
<1> QED BY <1>3, <1>4, <1>6 DEF CutsTooMuch, A, B

---------------------------------------------------------------------------
(* Where a page has things.                                                *)

\* Nodes are with their groups, stats with their nodes, and those of the flow alone.
FlowIds == {s.id : s \in FlowStats}
InPlace(f) ==
    /\ \A x \in Seats(f.groups) : x[2] \in Nodes /\ x = <<GroupOf[x[2]], x[2]>>
    /\ \A x \in Hung(f.groups) : <<x[1], x[2]>> \in Seats(f.groups) /\ [id |-> x[3], node |-> x[2]] \in Stats
    /\ IdsOf(f.stats) \subseteq FlowIds
PlaceInv == ~replay.done /\ trouble \cap {"unaligned", "mixed"} = {} => InPlace(flow)

\* A stat is one of a node it names, or one of the flow, and no id is one of both.
LEMMA StatKinds ==
  /\ \A s \in Stats : s = [id |-> s.id, node |-> s.node] /\ s.node \in Nodes /\ s.node # NoNode
  /\ \A s \in FlowStats : s.node = NoNode /\ s.id \in FlowIds
  /\ \A s \in Stats : s.id \notin FlowIds
<1>1. ASSUME NEW s \in Stats
      PROVE  s = [id |-> s.id, node |-> s.node] /\ s.node \in Nodes /\ s.node # NoNode
  <2>1. PICK n \in Nodes : \E i \in ToSet(StatsOf[n]) : s = [id |-> i, node |-> n]
    BY DEF Stats
  <2>2. n # 0
    BY IdsAssumption DEF UserThread
  <2> QED BY <2>1, <2>2 DEF NoNode
<1>2. ASSUME NEW s \in FlowStats
      PROVE  s.node = NoNode /\ s.id \in FlowIds
  BY DEF FlowStats, FlowIds
<1>3. ASSUME NEW s \in Stats, s.id \in FlowIds
      PROVE  FALSE
  <2>1. PICK r \in FlowStats : s.id = r.id
    BY <1>3 DEF FlowIds
  <2>2. PICK i \in UNION {ToSet(p.flowStats) : p \in Programs} : r = [id |-> i, node |-> NoNode]
    BY <2>1 DEF FlowStats
  <2>3. PICK p \in Programs : i \in ToSet(p.flowStats)
    BY <2>2
  <2>4. s.id \notin ToSet(p.flowStats)
    BY ProgramsAssumption DEF IsProgram
  <2> QED BY <2>1, <2>2, <2>3, <2>4
<1> QED BY <1>1, <1>2, <1>3

\* Ids of nodes and of stats, by where they are.
LEMMA ById ==
  ASSUME NEW g
  PROVE  /\ \A n : n \in NodeIdsOf(g) <=> \E x \in Seats(g) : x[2] = n
         /\ \A i : i \in StatIdsOf(g) <=> \E x \in Hung(g) : x[3] = i
         /\ \A x \in Hung(g) : <<x[1], x[2]>> \in Seats(g)
<1>1. ASSUME NEW n PROVE n \in NodeIdsOf(g) <=> \E x \in Seats(g) : x[2] = n
  <2>1. ASSUME n \in NodeIdsOf(g) PROVE \E x \in Seats(g) : x[2] = n
    <3>1. PICK m \in Members(g) : n = m[2].id
      BY <2>1 DEF NodeIdsOf
    <3>2. <<m[1], m[2].id>> \in Seats(g) /\ <<m[1], m[2].id>>[2] = m[2].id
      BY DEF Seats
    <3> QED BY <3>1, <3>2
  <2>2. ASSUME NEW x \in Seats(g), x[2] = n PROVE n \in NodeIdsOf(g)
    <3>1. PICK m \in Members(g) : x = <<m[1], m[2].id>>
      BY DEF Seats
    <3> QED BY <2>2, <3>1 DEF NodeIdsOf
  <2> QED BY <2>1, <2>2
<1>2. ASSUME NEW i PROVE i \in StatIdsOf(g) <=> \E x \in Hung(g) : x[3] = i
  <2>1. ASSUME i \in StatIdsOf(g) PROVE \E x \in Hung(g) : x[3] = i
    <3>1. PICK m \in Members(g) : i \in IdsOf(m[2].stats)
      BY <2>1 DEF StatIdsOf
    <3>2. <<m[1], m[2].id, i>> \in Hung(g)
      BY <3>1, HungThere
    <3> QED BY <3>2
  <2>2. ASSUME NEW x \in Hung(g), x[3] = i PROVE i \in StatIdsOf(g)
    <3>1. PICK m \in Members(g) : x[3] \in IdsOf(m[2].stats)
      BY HungThere
    <3> QED BY <2>2, <3>1 DEF StatIdsOf
  <2> QED BY <2>1, <2>2
<1>3. ASSUME NEW x \in Hung(g) PROVE <<x[1], x[2]>> \in Seats(g)
  <2>1. PICK m \in Members(g) : x[1] = m[1] /\ x[2] = m[2].id
    BY HungThere
  <2> QED BY <2>1 DEF Seats
<1> QED BY <1>1, <1>2, <1>3

\* Stats are those that hang at nodes.
LEMMA HangsAre ==
  ASSUME NEW q, NEW S, NEW x
  PROVE  x \in Hangs(q, S) <=> \E z \in S : \E s \in ToSet(q) : s.node = z[2] /\ x = <<z[1], z[2], s.id>>
BY DEF Hangs

\* Nothing is out of place in an empty page, and a delta puts nothing out of place.
LEMMA StaysInPlace ==
  /\ InPlace(EmptyFlow)
  /\ \A f, dl, e : InPlace(f) /\ IsDelta(dl) /\ Makes(f, dl, e) => InPlace(e)
<1>1. InPlace(EmptyFlow)
  <2>1. Members(<<>>) = {} /\ IdsOf(<<>>) = {}
    BY DEF Members, IdsOf
  <2> QED BY <2>1 DEF InPlace, EmptyFlow, Seats, Hung
<1>2. ASSUME NEW f, NEW dl, NEW e, InPlace(f), IsDelta(dl), Makes(f, dl, e)
      PROVE  InPlace(e)
  <2>0. /\ \A n \in ToSet(dl.startedNodes) : n.id \in Nodes /\ n.group = GroupOf[n.id]
        /\ \A s \in ToSet(dl.newStats) : s \in Stats \/ s \in FlowStats
    <3> DEFINE V == NodeRecs
               W == AllStats
    <3>1. dl.startedNodes \in Seq(V) /\ dl.newStats \in Seq(W)
      BY <1>2 DEF IsDelta
    <3> HIDE DEF V, W
    <3>2. ToSet(dl.startedNodes) \subseteq V /\ ToSet(dl.newStats) \subseteq W
      BY <3>1 DEF ToSet
    <3> QED BY <3>2 DEF V, W, NodeRecs, NodeRec, AllStats
  <2>1. ASSUME NEW x \in Seats(e.groups) PROVE x[2] \in Nodes /\ x = <<GroupOf[x[2]], x[2]>>
    <3>1. x \in Seats(f.groups) \/ x \in Joined(IdsOf(f.groups), dl)
      BY <1>2 DEF Makes, Spared
    <3>2. CASE x \in Joined(IdsOf(f.groups), dl)
      <4>1. PICK n \in ToSet(dl.startedNodes) : x = <<n.group, n.id>>
        BY <3>2 DEF Joined
      <4> QED BY <2>0, <4>1
    <3> QED BY <1>2, <3>1, <3>2 DEF InPlace
  <2>2. ASSUME NEW x \in Hung(e.groups)
        PROVE  <<x[1], x[2]>> \in Seats(e.groups) /\ [id |-> x[3], node |-> x[2]] \in Stats
    <3>1. <<x[1], x[2]>> \in Seats(e.groups)
      BY ById
    <3>2. x[2] \in Nodes
      BY <2>1, <3>1
    <3>3. x \in Hung(f.groups) \/ x \in Hangs(dl.newStats, Seats(e.groups))
      BY <1>2 DEF Makes, Spared
    <3>4. CASE x \in Hangs(dl.newStats, Seats(e.groups))
      <4>1. PICK z \in Seats(e.groups) : \E s \in ToSet(dl.newStats) : s.node = z[2] /\ x = <<z[1], z[2], s.id>>
        BY <3>4, HangsAre
      <4>2. PICK s \in ToSet(dl.newStats) : s.node = z[2] /\ x = <<z[1], z[2], s.id>>
        BY <4>1
      <4>3. s.node \in Nodes /\ s.id = x[3] /\ s.node = x[2]
        BY <3>2, <4>2
      <4>4. s \in Stats
        <5>1. NoNode \notin Nodes
          BY IdsAssumption DEF NoNode, UserThread
        <5> QED BY <2>0, <4>3, <5>1, StatKinds
      <4>5. s = [id |-> s.id, node |-> s.node]
        BY <4>4, StatKinds
      <4> QED BY <3>1, <4>3, <4>4, <4>5
    <3>5. CASE x \in Hung(f.groups)
      BY <1>2, <3>1, <3>5 DEF InPlace
    <3> QED BY <3>3, <3>4, <3>5
  <2>3. ASSUME NEW i \in IdsOf(e.stats) PROVE i \in FlowIds
    <3>1. i \in IdsOf(f.stats) \/ \E s \in ToSet(dl.newStats) : s.node = NoNode /\ s.id = i
      BY <1>2 DEF Makes
    <3>2. ASSUME NEW s \in ToSet(dl.newStats), s.node = NoNode, s.id = i PROVE i \in FlowIds
      BY <2>0, <3>2, StatKinds
    <3> QED BY <1>2, <3>1, <3>2 DEF InPlace
  <2> QED BY <2>1, <2>2, <2>3 DEF InPlace
<1> QED BY <1>1, <1>2

\* A live page goes on having things in place.
LEMMA PlaceKeeps ==
  ASSUME PageInv, PlaceInv, [Next]_vars
  PROVE  PlaceInv'
<1> SUFFICES ASSUME ~replay'.done, trouble' \cap {"unaligned", "mixed"} = {}
             PROVE  InPlace(flow')
  BY DEF PlaceInv, InPlace
<1>1. CASE flow' = EmptyFlow
  BY <1>1, StaysInPlace
<1>2. CASE ~replay.done /\ trouble \cap {"unaligned", "mixed"} = {} /\ flow' = flow
  BY <1>2 DEF PlaceInv
<1>3. ASSUME ~replay.done, trouble \cap {"unaligned", "mixed"} = {}, NEW dl, Takes(dl)
      PROVE  InPlace(flow')
  <2>1. InPlace(flow) /\ IsDelta(dl) /\ Makes(flow, dl, flow')
    BY <1>3 DEF PlaceInv, Takes
  <2> DEFINE f == flow
             e == flow'
  <2>2. InPlace(f) /\ IsDelta(dl) /\ Makes(f, dl, e)
    BY <2>1
  <2> HIDE DEF f, e
  <2>3. InPlace(e)
    BY <2>2, StaysInPlace
  <2> QED BY <2>3 DEF e
<1> QED BY <1>1, <1>2, <1>3, LiveFlow DEF TakesAnswer, TakesPush

---------------------------------------------------------------------------
(* What a delta leaves on a page.                                          *)

\* A thing, by its kind, among what is shown, told and taken away.
LEMMA ByKind ==
  ASSUME NEW f, NEW dl, NEW i
  PROVE  /\ <<"link", i>> \in Shows(f) <=> i \in ToSet(f.connections)
         /\ <<"group", i>> \in Shows(f) <=> i \in IdsOf(f.groups)
         /\ <<"node", i>> \in Shows(f) <=> \E x \in Seats(f.groups) : x[2] = i
         /\ <<"stat", i>> \in Shows(f) <=> i \in IdsOf(f.stats) \/ \E x \in Hung(f.groups) : x[3] = i
         /\ <<"link", i>> \in Tells(dl) <=> i \in ToSet(dl.connected)
         /\ <<"group", i>> \in Tells(dl) <=> i \in ToSet(dl.startedGroups)
         /\ <<"node", i>> \in Tells(dl) <=> \E n \in ToSet(dl.startedNodes) : n.id = i
         /\ <<"stat", i>> \in Tells(dl) <=> \E s \in ToSet(dl.newStats) : s.id = i
         /\ i \in ToSet(dl.disconnected) => <<"link", i>> \in Ended(dl)
         /\ i \in ToSet(dl.doneGroups) => <<"group", i>> \in Ended(dl)
         /\ i \in ToSet(dl.doneNodes) => <<"node", i>> \in Ended(dl)
         /\ i \in Nodes /\ GroupOf[i] \in ToSet(dl.doneGroups) => <<"node", i>> \in Ended(dl)
<1>1. /\ i \in NodeIdsOf(f.groups) <=> \E x \in Seats(f.groups) : x[2] = i
      /\ i \in StatIdsOf(f.groups) <=> \E x \in Hung(f.groups) : x[3] = i
  BY ById
<1>2. /\ i \in IdsOf(dl.startedNodes) <=> \E n \in ToSet(dl.startedNodes) : n.id = i
      /\ i \in IdsOf(dl.newStats) <=> \E s \in ToSet(dl.newStats) : s.id = i
  BY IdsOfSet
<1>3. /\ <<"link", i>> \in Shows(f) <=> i \in ToSet(f.connections)
      /\ <<"group", i>> \in Shows(f) <=> i \in IdsOf(f.groups)
      /\ <<"node", i>> \in Shows(f) <=> i \in NodeIdsOf(f.groups)
      /\ <<"stat", i>> \in Shows(f) <=> i \in StatIdsOf(f.groups) \/ i \in IdsOf(f.stats)
  <2> DEFINE A == ToSet(f.connections)
             B == IdsOf(f.groups)
             C == NodeIdsOf(f.groups)
             D == StatIdsOf(f.groups)
             E == IdsOf(f.stats)
  <2>1. Shows(f) = ({"link"} \X A) \cup ({"group"} \X B) \cup ({"node"} \X C) \cup ({"stat"} \X (D \cup E))
    BY DEF Shows
  <2> HIDE DEF A, B, C, D, E
  <2>2. /\ <<"link", i>> \in Shows(f) <=> i \in A
        /\ <<"group", i>> \in Shows(f) <=> i \in B
        /\ <<"node", i>> \in Shows(f) <=> i \in C
        /\ <<"stat", i>> \in Shows(f) <=> i \in D \/ i \in E
    BY <2>1
  <2> QED BY <2>2 DEF A, B, C, D, E
<1>4. /\ <<"link", i>> \in Tells(dl) <=> i \in ToSet(dl.connected)
      /\ <<"group", i>> \in Tells(dl) <=> i \in ToSet(dl.startedGroups)
      /\ <<"node", i>> \in Tells(dl) <=> i \in IdsOf(dl.startedNodes)
      /\ <<"stat", i>> \in Tells(dl) <=> i \in IdsOf(dl.newStats)
  <2> DEFINE A == ToSet(dl.connected)
             B == ToSet(dl.startedGroups)
             C == IdsOf(dl.startedNodes)
             D == IdsOf(dl.newStats)
  <2>1. Tells(dl) = ({"link"} \X A) \cup ({"group"} \X B) \cup ({"node"} \X C) \cup ({"stat"} \X D)
    BY DEF Tells
  <2> HIDE DEF A, B, C, D
  <2>2. /\ <<"link", i>> \in Tells(dl) <=> i \in A
        /\ <<"group", i>> \in Tells(dl) <=> i \in B
        /\ <<"node", i>> \in Tells(dl) <=> i \in C
        /\ <<"stat", i>> \in Tells(dl) <=> i \in D
    BY <2>1
  <2> QED BY <2>2 DEF A, B, C, D
<1>5. /\ i \in ToSet(dl.disconnected) => <<"link", i>> \in Ended(dl)
      /\ i \in ToSet(dl.doneGroups) => <<"group", i>> \in Ended(dl)
      /\ i \in ToSet(dl.doneNodes) => <<"node", i>> \in Ended(dl)
      /\ i \in Nodes /\ GroupOf[i] \in ToSet(dl.doneGroups) => <<"node", i>> \in Ended(dl)
  <2> DEFINE A == ToSet(dl.disconnected)
             B == ToSet(dl.doneGroups)
             C == ToSet(dl.doneNodes)
             D == {n \in Nodes : GroupOf[n] \in B}
  <2>1. Ended(dl) = (({"link"} \X A) \cup ({"group"} \X B) \cup ({"node"} \X C)) \cup ({"node"} \X D)
    BY DEF Ended, TakesBack
  <2>2. i \in Nodes /\ GroupOf[i] \in B => i \in D
    OBVIOUS
  <2> HIDE DEF A, B, C, D
  <2>3. /\ i \in A => <<"link", i>> \in Ended(dl)
        /\ i \in B => <<"group", i>> \in Ended(dl)
        /\ i \in C => <<"node", i>> \in Ended(dl)
        /\ i \in D => <<"node", i>> \in Ended(dl)
    BY <2>1
  <2> QED BY <2>2, <2>3 DEF A, B, C
<1> QED BY <1>1, <1>2, <1>3, <1>4, <1>5

\* Why a thing that was shown, or told, need not be shown: it is taken away, or its node is.
Leaves(y, dl) == \/ y \in Ended(dl)
                 \/ \E s \in Stats : y = <<"stat", s.id>> /\ <<"node", s.node>> \in Ended(dl)

\* A seat that is not taken away stays.
LEMMA SeatStays ==
  ASSUME NEW f, NEW dl, NEW e, Makes(f, dl, e), NEW n \in Nodes,
         <<GroupOf[n], n>> \in Seats(f.groups) \cup Joined(IdsOf(f.groups), dl)
  PROVE  <<"node", n>> \in Ended(dl) \/ <<GroupOf[n], n>> \in Seats(e.groups)
<1>1. CASE GroupOf[n] \in ToSet(dl.doneGroups) \/ n \in ToSet(dl.doneNodes)
  BY <1>1, ByKind
<1>2. CASE GroupOf[n] \notin ToSet(dl.doneGroups) /\ n \notin ToSet(dl.doneNodes)
  <2> DEFINE x == <<GroupOf[n], n>>
  <2>1. x[1] = GroupOf[n] /\ x[2] = n
    OBVIOUS
  <2> HIDE DEF x
  <2>2. x \in Seats(e.groups)
    BY <1>2, <2>1 DEF Makes, Spared, x
  <2> QED BY <2>2 DEF x
<1> QED BY <1>1, <1>2

\* A delta that is not split from the one its things need, and cuts what it names only,
\* leaves everything else on the page.
LEMMA OnDeltaShows ==
  ASSUME NEW f, NEW dl, NEW e, e = OnDelta(f, dl), Makes(f, dl, e), InPlace(f), IsDelta(dl),
         ~Split(f, dl), ~CutsTooMuch(f, dl), NEW y \in Shows(f) \cup Tells(dl),
         NEW kind, NEW i, y = <<kind, i>>, kind \in {"link", "group", "node", "stat"}
  PROVE  y \in Shows(e) \/ Leaves(y, dl)
<1>0. /\ \A n \in ToSet(dl.startedNodes) : n.id \in Nodes /\ n.group = GroupOf[n.id]
      /\ \A s \in ToSet(dl.newStats) : s \in Stats \/ s \in FlowStats
  <2> DEFINE V == NodeRecs
             W == AllStats
  <2>1. dl.startedNodes \in Seq(V) /\ dl.newStats \in Seq(W)
    BY DEF IsDelta
  <2> HIDE DEF V, W
  <2>2. ToSet(dl.startedNodes) \subseteq V /\ ToSet(dl.newStats) \subseteq W
    BY <2>1 DEF ToSet
  <2> QED BY <2>2 DEF V, W, NodeRecs, NodeRec, AllStats
<1>1. /\ \A n \in ToSet(dl.startedNodes) : n.group \in IdsOf(f.groups) \cup ToSet(dl.startedGroups)
      /\ \A s \in ToSet(dl.newStats) : s.node # NoNode =>
             (\E x \in Seats(f.groups) : x[2] = s.node) \/ \E n \in ToSet(dl.startedNodes) : n.id = s.node
  <2>1. GroupsShown(f) = IdsOf(f.groups) /\ NodesShown(f) \subseteq NodeIdsOf(f.groups)
    BY ListedIsShown
  <2>2. \A n \in NodesShown(f) : \E x \in Seats(f.groups) : x[2] = n
    BY <2>1, ById
  <2> QED BY <2>1, <2>2 DEF Split
<1>2. ASSUME NEW n, (\E x \in Seats(f.groups) : x[2] = n) \/ \E r \in ToSet(dl.startedNodes) : r.id = n
      PROVE  n \in Nodes /\ (<<"node", n>> \in Ended(dl) \/ <<GroupOf[n], n>> \in Seats(e.groups))
  <2>1. n \in Nodes /\ <<GroupOf[n], n>> \in Seats(f.groups) \cup Joined(IdsOf(f.groups), dl)
    <3>1. ASSUME NEW x \in Seats(f.groups), x[2] = n
          PROVE  n \in Nodes /\ <<GroupOf[n], n>> \in Seats(f.groups)
      BY <3>1 DEF InPlace
    <3>2. ASSUME NEW r \in ToSet(dl.startedNodes), r.id = n
          PROVE  n \in Nodes /\ <<GroupOf[n], n>> \in Joined(IdsOf(f.groups), dl)
      <4>1. n \in Nodes /\ r.group = GroupOf[n] /\ r.group \in IdsOf(f.groups) \cup ToSet(dl.startedGroups)
        BY <1>0, <1>1, <3>2
      <4>2. <<r.group, r.id>> \in Joined(IdsOf(f.groups), dl)
        BY <4>1 DEF Joined
      <4> QED BY <3>2, <4>1, <4>2
    <3> QED BY <1>2, <3>1, <3>2
  <2> QED BY <2>1, SeatStays
<1>3. CASE kind = "link"
  <2>1. i \in ToSet(f.connections) \cup ToSet(dl.connected)
    BY <1>3, ByKind
  <2>2. i \in ToSet(dl.disconnected) \/ i \in ToSet(e.connections)
    BY <2>1 DEF CutsTooMuch
  <2> QED BY <1>3, <2>2, ByKind DEF Leaves
<1>4. CASE kind = "group"
  <2>1. i \in IdsOf(f.groups) \cup ToSet(dl.startedGroups)
    BY <1>4, ByKind
  <2>2. i \in ToSet(dl.doneGroups) \/ i \in IdsOf(e.groups)
    BY <2>1 DEF Makes
  <2> QED BY <1>4, <2>2, ByKind DEF Leaves
<1>5. CASE kind = "node"
  <2>1. (\E x \in Seats(f.groups) : x[2] = i) \/ \E r \in ToSet(dl.startedNodes) : r.id = i
    BY <1>5, ByKind
  <2>2. <<"node", i>> \in Ended(dl) \/ <<GroupOf[i], i>> \in Seats(e.groups)
    BY <1>2, <2>1
  <2>3. <<GroupOf[i], i>>[2] = i
    OBVIOUS
  <2>4. <<"node", i>> \in Ended(dl) \/ \E x \in Seats(e.groups) : x[2] = i
    BY <2>2, <2>3
  <2> QED BY <1>5, <2>4, ByKind DEF Leaves
<1>6. CASE kind = "stat"
  <2>1. \/ i \in IdsOf(f.stats)
        \/ \E x \in Hung(f.groups) : x[3] = i
        \/ \E s \in ToSet(dl.newStats) : s.id = i
    BY <1>6, ByKind
  <2>2. CASE i \in IdsOf(f.stats)
    <3>1. i \in IdsOf(e.stats)
      BY <2>2 DEF Makes
    <3> QED BY <1>6, <3>1, ByKind
  <2>3. ASSUME NEW x \in Hung(f.groups), x[3] = i
        PROVE  y \in Shows(e) \/ Leaves(y, dl)
    <3> DEFINE n == x[2]
    <3>1. <<x[1], n>> \in Seats(f.groups) /\ [id |-> i, node |-> n] \in Stats
      BY <2>3 DEF InPlace
    <3>2. n \in Nodes /\ x[1] = GroupOf[n]
      <4> DEFINE z == <<x[1], n>>
      <4>1. z[2] = n /\ z[1] = x[1] /\ z \in Seats(f.groups)
        BY <3>1
      <4> HIDE DEF z
      <4>2. z[2] \in Nodes /\ z = <<GroupOf[z[2]], z[2]>>
        BY <4>1 DEF InPlace
      <4> QED BY <4>1, <4>2
    <3>3. CASE x[1] \in ToSet(dl.doneGroups) \/ n \in ToSet(dl.doneNodes)
      <4>1. <<"node", n>> \in Ended(dl)
        BY <3>2, <3>3, ByKind
      <4> DEFINE s == [id |-> i, node |-> n]
      <4>2. s.id = i /\ s.node = n /\ s \in Stats
        BY <3>1
      <4> HIDE DEF s, n
      <4> QED BY <1>6, <4>1, <4>2 DEF Leaves
    <3>4. CASE x[1] \notin ToSet(dl.doneGroups) /\ n \notin ToSet(dl.doneNodes)
      <4>1. x \in Hung(e.groups)
        BY <3>4 DEF Makes, Spared
      <4> QED BY <1>6, <2>3, <4>1, ByKind
    <3> QED BY <3>3, <3>4
  <2>4. ASSUME NEW s \in ToSet(dl.newStats), s.id = i
        PROVE  y \in Shows(e) \/ Leaves(y, dl)
    <3>1. CASE s.node = NoNode
      <4>1. i \in IdsOf(e.stats)
        BY <2>4, <3>1 DEF Makes
      <4> QED BY <1>6, <4>1, ByKind
    <3>2. CASE s.node # NoNode
      <4> DEFINE n == s.node
                 z == <<GroupOf[n], n>>
      <4>1. n \in Nodes /\ (<<"node", n>> \in Ended(dl) \/ z \in Seats(e.groups))
        BY <1>1, <1>2, <3>2
      <4>2. s \in Stats
        BY <1>0, <3>2, StatKinds
      <4>3. CASE <<"node", n>> \in Ended(dl)
        BY <1>6, <2>4, <4>2, <4>3 DEF Leaves
      <4>4. CASE z \in Seats(e.groups)
        <5>1. z[2] = n
          OBVIOUS
        <5> HIDE DEF z
        <5>2. <<z[1], z[2], s.id>> \in Hangs(dl.newStats, Seats(e.groups))
          BY <4>4, <5>1, HangsAre
        <5>3. <<z[1], z[2], s.id>> \in Hung(e.groups) /\ <<z[1], z[2], s.id>>[3] = i
          BY <2>4, <5>2 DEF Makes
        <5>4. \E x \in Hung(e.groups) : x[3] = i
          BY <5>3
        <5> QED BY <1>6, <5>4, ByKind
      <4> QED BY <4>1, <4>3, <4>4
    <3> QED BY <3>1, <3>2
  <2> QED BY <2>1, <2>2, <2>3, <2>4
<1> QED BY <1>3, <1>4, <1>5, <1>6

---------------------------------------------------------------------------
(* What is wanted is shown, or on its way.                                 *)

\* What is told is of four kinds.
LEMMA ToldKinds ==
  ASSUME NEW dl, NEW y \in Tells(dl)
  PROVE  y[1] \in {"link", "group", "node", "stat"}
<1> DEFINE A == ToSet(dl.connected)
           B == ToSet(dl.startedGroups)
           C == IdsOf(dl.startedNodes)
           D == IdsOf(dl.newStats)
<1>1. y \in ({"link"} \X A) \cup ({"group"} \X B) \cup ({"node"} \X C) \cup ({"stat"} \X D)
  BY DEF Tells
<1> HIDE DEF A, B, C, D
<1> QED BY <1>1

\* A live page that takes a delta goes on showing what is wanted, and shows what it tells of it.
LEMMA TakesWanted ==
  ASSUME NEW dl, Takes(dl), InPlace(flow), ~Split(flow, dl), ~CutsTooMuch(flow, dl),
         \A z \in Ended(dl) : IsGone(z), NEW y \in Wanted, y \in Shows(flow) \cup Tells(dl)
  PROVE  y \in Shows(flow')
<1>1. y \in Tells(cd) /\ y \notin StatsOfGone
  BY DEF Wanted
<1>2. y = <<y[1], y[2]>> /\ y[1] \in {"link", "group", "node", "stat"}
  BY <1>1, NamedTwice, ToldKinds
<1> DEFINE e == flow'
<1>3. e = OnDelta(flow, dl) /\ Makes(flow, dl, e) /\ IsDelta(dl)
  BY DEF Takes
<1> HIDE DEF e
<1>4. y \in Shows(e) \/ Leaves(y, dl)
  BY <1>2, <1>3, OnDeltaShows
<1>5. ~Leaves(y, dl)
  <2>1. y \notin Ended(dl)
    BY <1>1 DEF IsGone
  <2>2. ASSUME NEW s \in Stats, y = <<"stat", s.id>>, <<"node", s.node>> \in Ended(dl)
        PROVE  FALSE
    <3>1. IsGone(<<"node", s.node>>)
      BY <2>2
    <3> QED BY <1>1, <2>2, <3>1 DEF StatsOfGone
  <2> QED BY <2>1, <2>2 DEF Leaves
<1> QED BY <1>4, <1>5 DEF e

\* Where nothing of the monitorer changes and nothing is pushed, as much is wanted and on its way.
LEMMA WantedStill ==
  ASSUME UNCHANGED monitorerVars
  PROVE  Wanted' = Wanted /\ (pushes' = pushes => Way' = Way)
BY DEF monitorerVars, Wanted, Way, StatsOfGone, IsGone

\* Untroubled, but where the page hears something, what is wanted was, or is on its way.
LEMMA WantedGoes ==
  ASSUME TypeInv, LinkInv(script), FeedInv, Mounted, [Next]_vars, ~ReceivePush, trouble' = {}
  PROVE  Wanted' \subseteq Wanted \cup Way' /\ Way \subseteq Way'
<1>1. CASE FlowMoves \/ Push
  BY <1>1, WantedMoves
<1>2. CASE SocketCloses
  <2>1. pushes = <<>> /\ pushes' = <<>> /\ UNCHANGED monitorerVars
    BY <1>2 DEF SocketCloses, Missed
  <2> QED BY <2>1, WantedStill
<1>3. Mount \/ Answer \/ ReceiveAnswer \/ RequestRefused \/ RequestFails \/ PusherIsMade \/ SocketOpens
        => UNCHANGED <<monitorerVars, pushes>>
  BY DEF Mount, Answer, ReceiveAnswer, RequestRefused, RequestFails, PusherIsMade, SocketOpens
<1>4. User \/ WorkerMoves \/ PageHears \/ UNCHANGED vars => UNCHANGED <<monitorerVars, pushes>>
  BY DEF User, OpenFile, ClearReplay, Keys, SeekByBar, UserSends, WorkerMoves, PageHears, OnWorkerCleared,
         OnWorkerDelta, OnWorkerOpened, OnWorkerProgress, HeardUnchanged, vars, pageVars
<1>5. UNCHANGED <<monitorerVars, pushes>> => Wanted' = Wanted /\ Way' = Way
  BY WantedStill
<1> QED BY <1>1, <1>2, <1>3, <1>4, <1>5 DEF Next

\* Answers go on telling what is wanted.
LEMMA AnswersTell ==
  ASSUME TypeInv, LinkInv(script), PageInv, UnmountedInv, CoverInv, [Next]_vars, trouble' = {},
         NEW j \in DOMAIN requests', requests'[j].answered
  PROVE  Wanted' \subseteq Tells(requests'[j].delta) \cup Way'
<1>0. FeedInv /\ AnswersInv
  BY DEF PageInv
<1>1. trouble = {}
  BY <1>0, AnswersGo
<1>2. CASE \E k \in DOMAIN requests : requests'[j] = requests[k]
  <2>1. PICK k \in DOMAIN requests : requests'[j] = requests[k]
    BY <1>2
  <2>2. Wanted \subseteq Tells(requests[k].delta) \cup Way
    BY <1>1, <2>1 DEF CoverInv
  <2>3. Mounted
    <3>1. requests # <<>>
      BY <2>1
    <3> QED BY <3>1 DEF UnmountedInv
  <2>4. ~ReceivePush
    <3>1. Awaited
      BY <2>1 DEF Awaited
    <3>2. ReceivePush => "overtaken" \in trouble'
      BY <3>1 DEF ReceivePush, OnPush, Overtakes
    <3> QED BY <3>2
  <2>5. Wanted' \subseteq Wanted \cup Way' /\ Way \subseteq Way'
    BY <1>0, <2>3, <2>4, WantedGoes
  <2> QED BY <2>1, <2>2, <2>5
<1>3. CASE UNCHANGED <<monitorerVars, pushes>> /\ \E a \in CatchUps : requests'[j].delta = a
  <2>1. PICK a \in CatchUps : requests'[j].delta = a
    BY <1>3
  <2>2. Tells(a) = Tells(cd) /\ Wanted' = Wanted
    BY <1>3, CatchUpIsADelta, WantedStill
  <2> QED BY <2>1, <2>2 DEF Wanted
<1> QED BY <1>0, <1>2, <1>3, AnswersGo

\* A live page that hears a delta, with no answer awaited, goes on showing what is wanted.
LEMMA PushShows ==
  ASSUME FeedInv, EndInv, PlaceInv, ReceivePush, ~replay.done, trouble = {}, trouble' = {}, TakesPush,
         Wanted \subseteq Shows(flow) \cup Way
  PROVE  Wanted' \subseteq Shows(flow') \cup Way'
<1> DEFINE q == pushes
           h == Head(pushes)
<1>1. /\ UNCHANGED monitorerVars /\ pushes' = Tail(q) /\ q # <<>> /\ q \in Seq(ToSet(q))
      /\ ~Split(flow, h) /\ ~CutsTooMuch(flow, h)
  BY DEF ReceivePush, OnPush, FeedInv, OneByOne
<1>2. InPlace(flow) /\ Takes(h)
  BY DEF PlaceInv, TakesPush
<1>3. Wanted' = Wanted /\ stater' = stater /\ d' = d
  BY <1>1, WantedStill DEF monitorerVars
<1>4. \A z \in Ended(h) : IsGone(z)
  <2> DEFINE V == ToSet(q)
  <2>1. q \in Seq(V) /\ q # <<>> /\ h = Head(q)
    BY <1>1
  <2> HIDE DEF V, q, h
  <2>2. 1 \in DOMAIN q /\ h = q[1]
    BY <2>1
  <2> QED BY <2>2 DEF EndInv, q
<1>5. AllOf(q) \subseteq Tells(h) \cup AllOf(Tail(q))
  <2> DEFINE V == ToSet(q)
  <2>1. q \in Seq(V) /\ q # <<>> /\ h = Head(q)
    BY <1>1
  <2> HIDE DEF V, q, h
  <2>2. h = q[1] /\ \A m \in DOMAIN q : m # 1 => m - 1 \in DOMAIN Tail(q) /\ Tail(q)[m - 1] = q[m]
    BY <2>1
  <2>3. ASSUME NEW z \in AllOf(q) PROVE z \in Tells(h) \cup AllOf(Tail(q))
    <3>1. PICK m \in DOMAIN q : z \in Tells(q[m])
      BY <2>3 DEF AllOf
    <3>2. CASE m = 1
      BY <2>2, <3>1, <3>2
    <3>3. CASE m # 1
      <4>1. m - 1 \in DOMAIN Tail(q) /\ z \in Tells(Tail(q)[m - 1])
        BY <2>2, <3>1, <3>3
      <4> QED BY <4>1 DEF AllOf
    <3> QED BY <3>2, <3>3
  <2> QED BY <2>3
<1> HIDE DEF h, q
<1>6. Way = AllOf(q) \cup Tells(stater.delta) \cup Tells(d) /\ Way' = AllOf(Tail(q)) \cup Tells(stater.delta) \cup Tells(d)
  BY <1>1, <1>3 DEF Way, q
<1>7. ASSUME NEW y \in Wanted PROVE y \in Shows(flow') \cup Way'
  <2>1. y \in Shows(flow) \cup Tells(h) \/ y \in Way'
    BY <1>5, <1>6, <1>7
  <2>2. y \in Shows(flow) \cup Tells(h) => y \in Shows(flow')
    BY <1>1, <1>2, <1>4, <1>7, TakesWanted
  <2> QED BY <2>1, <2>2
<1> QED BY <1>3, <1>7

\* An empty page that takes an answer shows what is wanted.
LEMMA AnswerShows ==
  ASSUME EndInv, PageInv, CoverInv, ReceiveAnswer, ~replay.done, trouble = {}, trouble' = {},
         NEW i \in DOMAIN requests, TakesAnswer(i), trouble' = trouble \cup OnAnswer(flow, requests[i].delta)
  PROVE  Wanted' \subseteq Shows(flow') \cup Way'
<1> DEFINE a == requests[i].delta
<1>1. UNCHANGED <<monitorerVars, pushes>> /\ ~Split(flow, a) /\ flow = EmptyFlow
  BY DEF ReceiveAnswer, OnAnswer, TakesAnswer
<1>2. Wanted' = Wanted /\ Way' = Way
  BY <1>1, WantedStill
<1>3. Takes(a) /\ AddsOnly(a) /\ IsDelta(a) /\ Wanted \subseteq Tells(a) \cup Way
  BY DEF TakesAnswer, EndInv, CoverInv, Takes
<1> HIDE DEF a
<1>4. InPlace(flow) /\ Tidy(flow, {})
  BY <1>1, StaysInPlace, EmptyIsTidy
<1>5. ~CutsTooMuch(flow, a) /\ Ended(a) = {}
  BY <1>3, <1>4, CutsNothing, AddsOnlyEndsNothing
<1>6. ASSUME NEW y \in Wanted PROVE y \in Shows(flow') \cup Way'
  <2>1. y \in Tells(a) \/ y \in Way'
    BY <1>2, <1>3, <1>6
  <2>2. y \in Tells(a) => y \in Shows(flow')
    BY <1>1, <1>3, <1>4, <1>5, <1>6, TakesWanted
  <2> QED BY <2>1, <2>2
<1> QED BY <1>2, <1>6

\* A live page that awaits nothing was one, did not hear that it failed, and took no other answer.
LEMMA AwaitsNothing ==
  ASSUME PageInv, UnmountedInv, [Next]_vars, Mounted', ~replay'.done, config'.api, requests' = <<>>, trouble' = {}
  PROVE  /\ Mounted /\ ~replay.done /\ config.api /\ trouble = {}
         /\ ~Mount /\ ~OnWorkerCleared
         /\ ~ReceiveAnswer => requests = <<>>
<1>1. ~Mount /\ ~OnWorkerCleared
  <2>1. ~Asks
    <3>1. CASE Asks
      <4> DEFINE r == [answered |-> FALSE, delta |-> NoDelta]
                 V == ToSet(requests)
                 S == V \cup {r}
                 q == requests
      <4>1. q \in Seq(V) /\ Append(q, r) = <<>> /\ V \subseteq S /\ r \in S
        BY <3>1 DEF Asks, PageInv, AnswersInv
      <4> HIDE DEF r, V, S, q
      <4>2. q \in Seq(S)
        BY <4>1
      <4>3. Append(q, r) # <<>>
        BY <4>1, <4>2
      <4> QED BY <4>1, <4>3
    <3> QED BY <3>1
  <2> QED BY <2>1 DEF Mount, OnWorkerCleared
<1>2. Mounted /\ config.api
  BY <1>1, MountedStays, ConfigStays
<1>3. ~RequestFails /\ ~RequestRefused
  BY <1>2 DEF RequestFails, RequestRefused
<1>4. ~Answer
  <2>1. CASE Answer
    <3>1. PICK i \in DOMAIN requests : \E a \in CatchUps :
            requests' = [requests EXCEPT ![i] = [answered |-> TRUE, delta |-> a]]
      BY <2>1 DEF Answer
    <3>2. DOMAIN requests' = DOMAIN requests
      BY <3>1
    <3>3. DOMAIN <<>> = {}
      OBVIOUS
    <3> QED BY <3>1, <3>2, <3>3
  <2> QED BY <2>1
<1>5. CASE OnWorkerDelta \/ OnWorkerOpened \/ OnWorkerProgress
  <2>1. ReplayInv
    BY DEF PageInv
  <2>2. /\ ReplayInv' /\ (OnWorkerDelta \/ OnWorkerOpened => replay.done)
        /\ (replay.done => replay'.done)
    BY <1>5, <2>1, PageFollows DEF PageHears
  <2>3. OnWorkerProgress /\ ~replay.done
    BY <1>5, <2>2
  <2>4. ~ReceiveAnswer => UNCHANGED <<requests, trouble>>
    BY <2>3 DEF OnWorkerProgress
  <2>5. trouble = {}
    BY <2>3 DEF OnWorkerProgress
  <2> QED BY <1>1, <1>2, <2>3, <2>4, <2>5
<1>6. CASE ReceiveAnswer
  <2>1. ReceiveAnswer => UNCHANGED replay /\ trouble \subseteq trouble'
    BY DEF ReceiveAnswer
  <2> QED BY <1>1, <1>2, <1>6, <2>1
<1>7. PusherIsMade \/ SocketOpens \/ SocketCloses \/ FlowMoves \/ Push \/ ReceivePush
        => UNCHANGED <<replay, requests>> /\ trouble \subseteq trouble' /\ (~ReceivePush => flow' = flow)
  BY DEF PusherIsMade, SocketOpens, SocketCloses, FlowMoves, Push, ReceivePush, pageVars
<1>8. User \/ WorkerMoves \/ UNCHANGED vars => UNCHANGED <<replay, requests, flow>> /\ trouble \subseteq trouble'
  BY DEF User, OpenFile, ClearReplay, Keys, SeekByBar, UserSends, WorkerMoves, vars, pageVars
<1> QED BY <1>1, <1>2, <1>3, <1>4, <1>5, <1>6, <1>7, <1>8 DEF Next, PageHears

\* Whatever happens, an untroubled page shows what is wanted or is to be told it.
LEMMA CoverKeeps ==
  ASSUME TypeInv, LinkInv(script), PageInv, UnmountedInv, EndInv, PlaceInv, CoverInv, [Next]_vars
  PROVE  CoverInv'
<1>0. FeedInv
  BY DEF PageInv
<1>1. ASSUME trouble' = {}, NEW j \in DOMAIN requests', requests'[j].answered
      PROVE  Wanted' \subseteq Tells(requests'[j].delta) \cup Way'
  BY <1>1, AnswersTell
<1>2. ASSUME trouble' = {}, Mounted', ~replay'.done, config'.api, requests' = <<>>
      PROVE  Wanted' \subseteq Shows(flow') \cup Way'
  <2>1. /\ Mounted /\ ~replay.done /\ config.api /\ trouble = {}
        /\ ~Mount /\ ~OnWorkerCleared
        /\ ~ReceiveAnswer => requests = <<>>
    BY <1>2, AwaitsNothing
  <2>2. \/ flow' = flow /\ ~ReceiveAnswer /\ ~ReceivePush
        \/ \E i \in DOMAIN requests :
               ReceiveAnswer /\ TakesAnswer(i) /\ trouble' = trouble \cup OnAnswer(flow, requests[i].delta)
        \/ ReceivePush /\ TakesPush
    BY <1>2, <2>1, LiveFlow
  <2>3. ReceivePush => ~ReceiveAnswer
    <3>1. ASSUME ReceivePush, ReceiveAnswer PROVE FALSE
      <4> DEFINE q == pushes
      <4>1. q # <<>> /\ Tail(q) = q /\ q \in Seq(ToSet(q))
        BY <1>0, <3>1 DEF ReceivePush, ReceiveAnswer, FeedInv, OneByOne
      <4> HIDE DEF q
      <4>2. Len(Tail(q)) = Len(q) - 1 /\ Len(q) \in Nat
        <5> DEFINE S == ToSet(q)
        <5> HIDE DEF S
        <5>1. q \in Seq(S) /\ q # <<>>
          BY <4>1 DEF S
        <5> QED BY <5>1
      <4> QED BY <4>1, <4>2
    <3> QED BY <3>1
  <2>4. CASE \E i \in DOMAIN requests :
               ReceiveAnswer /\ TakesAnswer(i) /\ trouble' = trouble \cup OnAnswer(flow, requests[i].delta)
    BY <1>2, <2>1, <2>4, AnswerShows
  <2>5. ASSUME ~ReceiveAnswer PROVE Wanted \subseteq Shows(flow) \cup Way
    BY <2>1, <2>5 DEF CoverInv
  <2>6. CASE ReceivePush /\ TakesPush
    BY <1>0, <1>2, <2>1, <2>3, <2>5, <2>6, PushShows
  <2>7. CASE flow' = flow /\ ~ReceiveAnswer /\ ~ReceivePush
    <3>1. Wanted' \subseteq Wanted \cup Way' /\ Way \subseteq Way'
      BY <1>0, <1>2, <2>1, <2>7, WantedGoes
    <3> QED BY <2>5, <2>7, <3>1
  <2> QED BY <2>2, <2>4, <2>6, <2>7
<1> QED BY <1>1, <1>2 DEF CoverInv

\* In the beginning the catch-up and the pending delta tell the same.
LEMMA InitCover == Init => CoverInv /\ PlaceInv
<1> SUFFICES ASSUME Init PROVE CoverInv /\ PlaceInv
  OBVIOUS
<1>1. d = cd
  BY DEF Init, MonitorFlow
<1>2. Wanted \subseteq Way
  BY <1>1 DEF Wanted, Way
<1>3. requests = <<>> /\ DOMAIN requests = {} /\ flow = EmptyFlow
  BY DEF Init
<1>4. CoverInv
  BY <1>2, <1>3 DEF CoverInv
<1>5. PlaceInv
  BY <1>3, StaysInPlace DEF PlaceInv
<1> QED BY <1>4, <1>5

---------------------------------------------------------------------------
(* The stats a page keeps.                                                 *)

\* The stats that have left the catch-up with their node, or are about to.
FledOf(n) == \/ IsGone(<<"node", n>>)
             \/ ~Left(script, Step("DropStats", n)) /\ Left(script, Step("DropNode", n))
Fled == {<<"stat", s.id>> : s \in {x \in Stats : FledOf(x.node)}}
IsKept(y) == y[1] = "stat" => y \in Tells(cd) \cup Fled
Kept(S) == \A y \in S : IsKept(y)

\* A stat that is told, on its way or shown is one of the catch-up, or fled.
KeptInv ==
    /\ Kept(Tells(d)) /\ Kept(Tells(stater.delta)) /\ Kept(AllOf(pushes))
    /\ \A i \in DOMAIN requests : requests[i].answered => Kept(Tells(requests[i].delta))
    /\ ~replay.done /\ trouble \cap {"unaligned", "mixed"} = {} => Kept(Shows(flow))

\* A node whose stats have left the catch-up leaves it for good.
LEMMA FledStays ==
  ASSUME TypeInv, LinkInv(script), GoneInv, [MonitorerNext]_monitorerVars, NEW n \in Nodes, FledOf(n)
  PROVE  FledOf(n)'
<1> DEFINE D == Step("DropStats", n)
           L1 == Step("DropNode", n)
           L2 == Step("NodeDoneInDelta", n)
<1>1. CASE IsGone(<<"node", n>>)
  BY <1>1, GoneStays DEF FledOf
<1>2. CASE script' = script /\ ~IsGone(<<"node", n>>)
  <2>1. ~Left(script', D) /\ Left(script', L1)
    BY <1>2 DEF FledOf
  <2> QED BY <2>1 DEF FledOf
<1>3. ASSUME NEW t \in Threads, Handle(t), ~Left(script, D), Left(script, L1)
      PROVE  FledOf(n)'
  <2> DEFINE st == Head(script[t])
             sc == script
             sc2 == script'
  <2>1. Ran(sc, sc2, t) /\ Scripted(sc)
    BY <1>3, HandleRuns DEF TypeInv, ScriptInv
  <2>2. Turns(sc, sc2, st, Step("NodeInCatchUp", n), Step("NodeInDelta", n), L1, L2)
    BY <1>3, NodeTurns
  <2> HIDE DEF sc, sc2, D
  <2>3. ~Left(sc2, D)
    BY <1>3, <2>1, RanLeaves DEF sc
  <2>4. Left(sc, L1)
    BY <1>3 DEF sc
  <2> HIDE DEF L1, L2, st
  <2>5. CASE st # L1
    <3>1. Left(sc2, L1)
      BY <2>2, <2>4, <2>5 DEF Turns
    <3> QED BY <2>3, <3>1 DEF sc2, FledOf, D, L1
  <2>6. CASE st = L1
    <3>1. Left(sc2, L2) /\ ~Left(sc2, L1)
      BY <2>2, <2>4, <2>6 DEF Turns
    <3>2. <<"node", n>> \in Going(sc2, OutOfDelta) \ Going(sc2, OutOfCatchUp)
      <4>1. OutOfDelta.node = "NodeDoneInDelta" /\ OutOfCatchUp.node = "DropNode"
        BY DEF OutOfDelta, OutOfCatchUp
      <4> QED BY <3>1, <4>1, AsNode DEF L1, L2
    <3>3. GoneInv'
      BY GoneKeeps
    <3>4. IsGone(<<"node", n>>)'
      BY <3>2, <3>3 DEF GoneInv, Leaving, sc2
    <3> QED BY <3>4 DEF FledOf
  <2> QED BY <2>5, <2>6
<1>4. CASE ~IsGone(<<"node", n>>) /\ \E t \in Threads : Handle(t)
  BY <1>3, <1>4 DEF FledOf
<1>5. Sample \/ SwapDelta \/ Deliver => script' = script
  BY StaterIdles
<1>6. UNCHANGED monitorerVars => script' = script
  BY DEF monitorerVars
<1> QED BY <1>1, <1>2, <1>4, <1>5, <1>6 DEF MonitorerNext

\* A stat leaves the catch-up with its node only.
LEMMA StatFlees ==
  ASSUME TypeInv, NEW t \in Threads, Handle(t), NEW s \in ToSet(cd.newStats), s \notin ToSet(cd'.newStats)
  PROVE  <<"stat", s.id>> \in Fled'
<1> DEFINE st == Head(script[t])
           sc == script
           sc2 == script'
<1>1. Ran(sc, sc2, t) /\ st = Step(st.do, Subject(t)) /\ StepIn(t, st) /\ ScriptInv(sc)
  BY HandleRuns DEF TypeInv
<1>2. ToSet(cd'.newStats) = (ToSet(cd.newStats) \cup {r \in {Subject(t)} : st.do = "StatInCatchUp"})
                                \ {r \in AllStats : st.do = "DropStats" /\ r.id \in ToSet(StatsOf[Subject(t)])}
  BY Effects DEF EffectOnCatchUp
<1>3. st.do = "DropStats" /\ s.id \in ToSet(StatsOf[Subject(t)])
  BY <1>2
<1>4. PICK n \in Nodes : n = Subject(t)
  <2>1. st.of = Subject(t)
    BY DEF Subject
  <2> QED BY <1>1, <1>3, <2>1 DEF StepIn, LinkDos, StatDos, StartDos, EndDos, GroupStartDos, GroupEndDos
<1> DEFINE D == Step("DropStats", n)
           M1 == Step("RemoveValuers", n)
           M2 == Step("DropNode", n)
           r == [id |-> s.id, node |-> n]
<1>5. r \in Stats /\ r.id = s.id /\ r.node = n
  <2>1. s.id \in ToSet(StatsOf[n])
    BY <1>3, <1>4
  <2> QED BY <2>1 DEF Stats
<1>6. st = D /\ Head(sc[t]) = D /\ D # M1 /\ D # M2 /\ M1 # M2
  BY <1>1, <1>3, <1>4 DEF Step
<1>7. Scripted(sc) /\ Then(sc, D, M1) /\ Then(sc, M1, M2)
  BY <1>1 DEF ScriptInv, NodesInTurn
<1>8. Once(sc, D)
  <2>1. D.do \notin LinkDos
    BY DEF Step, LinkDos
  <2> QED BY <1>1, <2>1 DEF ScriptInv, Unique
<1> HIDE DEF sc, sc2, D, M1, M2, st, r
<1>9. Left(sc, D) /\ ~Left(sc2, D) /\ \A a : a # D /\ Left(sc, a) => Left(sc2, a)
  BY <1>1, <1>6, <1>7, <1>8, RanLeaves
<1>10. Left(sc, M1)
  BY <1>7, <1>9, InTurn
<1>11. Left(sc, M2)
  BY <1>7, <1>10, InTurn
<1>12. Left(sc2, M2)
  BY <1>6, <1>9, <1>11
<1>13. FledOf(n)'
  BY <1>9, <1>12 DEF FledOf, D, M2, sc2
<1>14. <<"stat", r.id>> \in Fled'
  BY <1>5, <1>13 DEF Fled
<1> QED BY <1>5, <1>14

\* What tells a stat has it among the new ones.
LEMMA StatTold ==
  ASSUME NEW dl, NEW y, y[1] = "stat"
  PROVE  y \in Tells(dl) <=> \E s \in ToSet(dl.newStats) : y = <<"stat", s.id>>
<1> DEFINE A == ToSet(dl.connected)
           B == ToSet(dl.startedGroups)
           C == IdsOf(dl.startedNodes)
           D == IdsOf(dl.newStats)
<1>1. Tells(dl) = ({"link"} \X A) \cup ({"group"} \X B) \cup ({"node"} \X C) \cup ({"stat"} \X D)
  BY DEF Tells
<1>2. \A i : i \in D <=> \E s \in ToSet(dl.newStats) : s.id = i
  BY IdsOfSet
<1> HIDE DEF A, B, C, D
<1>3. ASSUME y \in Tells(dl) PROVE \E s \in ToSet(dl.newStats) : y = <<"stat", s.id>>
  <2>1. y \in {"stat"} \X D
    BY <1>1, <1>3
  <2>2. PICK i \in D : y = <<"stat", i>>
    BY <2>1
  <2> QED BY <1>2, <2>2
<1>4. ASSUME NEW s \in ToSet(dl.newStats), y = <<"stat", s.id>> PROVE y \in Tells(dl)
  <2>1. s.id \in D
    BY <1>2
  <2> QED BY <1>1, <1>4, <2>1
<1> QED BY <1>3, <1>4

\* A stat of the catch-up, or that has fled, stays one.
LEMMA KeptOn ==
  ASSUME TypeInv, LinkInv(script), GoneInv, [MonitorerNext]_monitorerVars
  PROVE  \A y : IsKept(y) => IsKept(y)'
<1> DEFINE U == Tells(cd) \cup Fled
           V == Tells(cd') \cup Fled'
<1>1. ASSUME NEW y \in Fled PROVE y \in Fled'
  <2>1. PICK s \in Stats : FledOf(s.node) /\ y = <<"stat", s.id>>
    BY DEF Fled
  <2>2. s.node \in Nodes
    BY StatKinds
  <2>3. FledOf(s.node)'
    BY <2>1, <2>2, FledStays
  <2> QED BY <2>1, <2>3 DEF Fled
<1>2. ASSUME NEW t \in Threads, Handle(t), NEW y \in Tells(cd), y[1] = "stat" PROVE y \in V
  <2>1. PICK s \in ToSet(cd.newStats) : y = <<"stat", s.id>>
    BY <1>2, StatTold
  <2>2. CASE s \in ToSet(cd'.newStats)
    <3> DEFINE e == cd'
    <3>1. s \in ToSet(e.newStats)
      BY <2>2
    <3> HIDE DEF e
    <3>2. y \in Tells(e)
      BY <1>2, <2>1, <3>1, StatTold
    <3> QED BY <3>2 DEF e
  <2>3. CASE s \notin ToSet(cd'.newStats)
    BY <1>2, <2>1, <2>3, StatFlees
  <2> QED BY <2>2, <2>3
<1>3. Sample \/ SwapDelta \/ Deliver \/ UNCHANGED monitorerVars => Tells(cd') = Tells(cd)
  BY StaterIdles DEF monitorerVars
<1>4. ASSUME NEW y \in U, y[1] = "stat" PROVE y \in V
  BY <1>1, <1>2, <1>3, <1>4 DEF MonitorerNext
<1> QED BY <1>4 DEF IsKept

\* A stat comes to the pending delta when the catch-up has it.
LEMMA StatsToldAreKept ==
  ASSUME MonitorerInv, NEW t \in Threads, Handle(t), Kept(Tells(d))
  PROVE  Kept(Tells(d'))
<1> DEFINE st == Head(script[t])
<1>1. TypeInv /\ \A s \in Stats : StatStory(s)
  BY DEF MonitorerInv, Stories
<1>2. /\ ToSet(d'.newStats) = ToSet(d.newStats) \cup {s \in {Subject(t)} : st.do = "StatInDelta"}
      /\ st = Step(st.do, Subject(t)) /\ StepIn(t, st)
  BY <1>1, HandleRuns, Effects DEF EffectOnDelta
<1> SUFFICES ASSUME NEW y \in Tells(d'), y[1] = "stat" PROVE y \in Tells(cd) \cup Fled
  BY DEF Kept, IsKept
<1> DEFINE e == d'
<1>3. PICK s \in ToSet(e.newStats) : y = <<"stat", s.id>>
  <2>1. y \in Tells(e)
    OBVIOUS
  <2> HIDE DEF e
  <2> QED BY <2>1, StatTold
<1>4. CASE s \in ToSet(d.newStats)
  <2>1. y \in Tells(d)
    BY <1>3, <1>4, StatTold
  <2> QED BY <2>1 DEF Kept, IsKept
<1>5. CASE s \notin ToSet(d.newStats)
  <2>1. s = Subject(t) /\ st = Step("StatInDelta", s)
    BY <1>2, <1>3, <1>5
  <2>2. s \in Stats
    <3>1. st.of = s /\ st.do = "StatInDelta"
      BY <2>1 DEF Step
    <3> HIDE DEF st
    <3> QED BY <1>2, <3>1 DEF StepIn, LinkDos, StatDos, StartDos, EndDos, GroupStartDos, GroupEndDos
  <2>3. /\ Left(script, Step("StatInDelta", s)) /\ ~Left(script, Step("StatInCatchUp", s))
    <3>1. Turns(script, script', st, Step("StatInCatchUp", s), Step("StatInDelta", s),
                Step("DropStats", s.node), Step("NodeDoneInDelta", s.node))
      BY <1>1, <2>2, StatTurns
    <3> QED BY <2>1, <3>1 DEF Turns
  <2>4. s \in ToSet(cd.newStats)
    BY <1>1, <2>2, <2>3 DEF StatStory, Story
  <2>5. y \in Tells(cd)
    BY <1>3, <2>4, StatTold
  <2> QED BY <2>5
<1> QED BY <1>4, <1>5

\* The monitorer's steps lose none.
LEMMA KeptByMonitorer ==
  ASSUME MonitorerInv, LinkInv(script), GoneInv, KeptInv, [MonitorerNext]_monitorerVars
  PROVE  /\ \A y : IsKept(y) => IsKept(y)'
         /\ Kept(Tells(d))' /\ Kept(Tells(stater.delta))'
<1>0. TypeInv
  BY DEF MonitorerInv
<1>1. \A y : IsKept(y) => IsKept(y)'
  BY <1>0, KeptOn
<1>2. Kept(Tells(d)) /\ Kept(Tells(stater.delta))
  BY DEF KeptInv
<1>3. (\A y \in Tells(d') : IsKept(y)) /\ (\A y \in Tells(stater'.delta) : IsKept(y))
  <2>1. CASE \E t \in Threads : Handle(t)
    <3>1. PICK t \in Threads : Handle(t)
      BY <2>1
    <3>2. stater' = stater
      BY <1>0, <3>1, HandleRuns
    <3>3. Kept(Tells(d'))
      BY <1>2, <3>1, StatsToldAreKept
    <3> QED BY <1>2, <3>2, <3>3 DEF Kept
  <2>2. CASE UNCHANGED <<d, stater>>
    BY <1>2, <2>2 DEF Kept
  <2>3. stater \in [pc : {"idle", "sampled", "swapped"}, sampled : {stater.sampled}, delta : {stater.delta}]
    BY <1>0 DEF TypeInv
  <2>4. CASE Sample
    <3>1. d' = d /\ stater'.delta = stater.delta
      BY <2>3, <2>4 DEF Sample
    <3> QED BY <1>2, <3>1 DEF Kept
  <2>5. CASE SwapDelta
    <3>1. d' = NoDelta /\ stater'.delta = d
      BY <2>3, <2>5 DEF SwapDelta
    <3> QED BY <1>2, <3>1, NothingTold DEF Kept
  <2>6. CASE Deliver
    <3>1. d' = d /\ stater'.delta = NoDelta
      BY <2>6 DEF Deliver, Idle
    <3> QED BY <1>2, <3>1, NothingTold DEF Kept
  <2> QED BY <2>1, <2>2, <2>4, <2>5, <2>6 DEF MonitorerNext, monitorerVars
<1>4. (\A y \in Tells(d') : IsKept(y)') /\ (\A y \in Tells(stater'.delta) : IsKept(y)')
  BY <1>1, <1>3
<1> QED BY <1>1, <1>4 DEF Kept

\* Nothing that is told of stats is lost on its way, or when it is shown.
LEMMA KeptKeeps ==
  ASSUME MonitorerInv, LinkInv(script), GoneInv, PageInv, KeptInv, [Next]_vars
  PROVE  KeptInv'
<1>0. TypeInv /\ FeedInv /\ AnswersInv
  BY DEF MonitorerInv, PageInv
<1>1. [MonitorerNext]_monitorerVars
  BY MonitorerStep
<1>2. /\ \A y : IsKept(y) => IsKept(y)'
      /\ Kept(Tells(d))' /\ Kept(Tells(stater.delta))'
  BY <1>1, KeptByMonitorer
<1>3. ASSUME NEW m \in DOMAIN pushes', NEW y \in Tells(pushes'[m])
      PROVE  IsKept(y)'
  <2>1. CASE \E k \in DOMAIN pushes : pushes'[m] = pushes[k]
    <3>1. y \in AllOf(pushes)
      BY <1>3, <2>1 DEF AllOf
    <3> QED BY <1>2, <3>1 DEF KeptInv, Kept
  <2>2. CASE Deliver /\ pushes'[m] = Handed
    <3>1. IsDelta(stater.delta)
      BY <1>0 DEF TypeInv
    <3>2. Tells(Handed) = Tells(stater.delta)
      BY <3>1, WithValues, TellsTheSame DEF Handed
    <3> QED BY <1>2, <1>3, <2>2, <3>2 DEF KeptInv, Kept
  <2> QED BY <1>0, <2>1, <2>2, PushesGo
<1>4. ASSUME NEW i \in DOMAIN requests', requests'[i].answered, NEW y \in Tells(requests'[i].delta)
      PROVE  IsKept(y)'
  <2>1. CASE \E k \in DOMAIN requests : requests'[i] = requests[k]
    BY <1>2, <1>4, <2>1 DEF KeptInv, Kept
  <2>2. CASE \E a \in CatchUps : requests'[i].delta = a
    <3>1. PICK a \in CatchUps : requests'[i].delta = a
      BY <2>2
    <3>2. Tells(a) = Tells(cd)
      BY <1>0, <3>1, CatchUpIsADelta
    <3>3. IsKept(y)
      BY <1>4, <3>1, <3>2 DEF IsKept
    <3> QED BY <1>2, <3>3
  <2> QED BY <1>0, <1>4, <2>1, <2>2, AnswersGo
<1>5. ASSUME ~replay'.done, trouble' \cap {"unaligned", "mixed"} = {}, NEW y \in Shows(flow')
      PROVE  IsKept(y)'
  <2>1. Shows(EmptyFlow) = {}
    BY EmptyIsTidy
  <2>2. CASE flow' = EmptyFlow
    BY <1>5, <2>1, <2>2
  <2>3. CASE ~replay.done /\ trouble \cap {"unaligned", "mixed"} = {} /\ flow' # EmptyFlow
    <3>1. Kept(Shows(flow))
      BY <2>3 DEF KeptInv
    <3>2. CASE flow' = flow
      BY <1>2, <1>5, <3>1, <3>2 DEF Kept
    <3>3. ASSUME NEW i \in DOMAIN requests, TakesAnswer(i) PROVE IsKept(y)
      <4>1. y \in Shows(flow) \cup Tells(requests[i].delta)
        BY <1>5, <3>3 DEF TakesAnswer, Takes
      <4>2. Kept(Tells(requests[i].delta))
        BY <3>3 DEF TakesAnswer, KeptInv
      <4> QED BY <3>1, <4>1, <4>2 DEF Kept
    <3>4. ASSUME TakesPush PROVE IsKept(y)
      <4>1. y \in Shows(flow) \cup Tells(Head(pushes)) /\ pushes # <<>>
        BY <1>5, <3>4 DEF TakesPush, Takes
      <4>2. Tells(Head(pushes)) \subseteq AllOf(pushes)
        <5> DEFINE V == ToSet(pushes)
                   q == pushes
        <5>1. q \in Seq(V) /\ q # <<>>
          BY <1>0, <4>1 DEF FeedInv, OneByOne
        <5> HIDE DEF V, q
        <5>2. 1 \in DOMAIN q /\ Head(q) = q[1]
          BY <5>1
        <5> QED BY <5>2 DEF AllOf, q
      <4> QED BY <3>1, <4>1, <4>2 DEF Kept, KeptInv
    <3> QED BY <1>2, <1>5, <2>3, <3>2, <3>3, <3>4, LiveFlow
  <2> QED BY <1>5, <2>2, <2>3, LiveFlow
<1>6. Kept(AllOf(pushes))'
  BY <1>3 DEF Kept, AllOf
<1> QED BY <1>2, <1>4, <1>5, <1>6 DEF KeptInv, Kept

\* At first the stats of the flow are on their way, and the catch-up has them.
LEMMA InitKept == Init => KeptInv
<1> SUFFICES ASSUME Init PROVE KeptInv
  OBVIOUS
<1>1. d = cd /\ stater.delta = NoDelta
  BY DEF Init, MonitorFlow, Idle
<1>2. requests = <<>> /\ pushes = <<>> /\ DOMAIN <<>> = {} /\ flow = EmptyFlow
  BY DEF Init
<1>3. AllOf(pushes) = {}
  BY <1>2 DEF AllOf
<1> QED BY <1>1, <1>2, <1>3, NothingTold, EmptyIsTidy DEF KeptInv, Kept, IsKept

\* The nodes listed are the members of the groups.
LEMMA PlacesAreMembers ==
  ASSUME NEW f
  PROVE  /\ \A p \in NodePlaces(f) : \E m \in Members(f.groups) : m[2] = NodeAt(f, p)
         /\ \A m \in Members(f.groups) : \E p \in NodePlaces(f) : m[2] = NodeAt(f, p)
<1> DEFINE g == f.groups
<1>1. ASSUME NEW p \in NodePlaces(f) PROVE \E m \in Members(g) : m[2] = NodeAt(f, p)
  <2>1. PICK i \in DOMAIN g : p \in {<<i, j>> : j \in DOMAIN g[i].nodes}
    BY DEF NodePlaces
  <2>2. PICK j \in DOMAIN g[i].nodes : p = <<i, j>>
    BY <2>1
  <2>3. NodeAt(f, p) = g[i].nodes[j]
    BY <2>2 DEF NodeAt
  <2> DEFINE x == g[i].nodes[j]
  <2>4. x \in ToSet(g[i].nodes)
    BY DEF ToSet
  <2> HIDE DEF g, x
  <2>5. <<g[i].id, x>> \in Members(g) /\ <<g[i].id, x>>[2] = x
    BY <2>4, MembersThere
  <2> QED BY <2>3, <2>5 DEF x, g
<1>2. ASSUME NEW m \in Members(g) PROVE \E p \in NodePlaces(f) : m[2] = NodeAt(f, p)
  <2>1. PICK i \in DOMAIN g : m \in {<<g[i].id, x>> : x \in ToSet(g[i].nodes)}
    BY DEF Members
  <2>2. PICK x \in ToSet(g[i].nodes) : m = <<g[i].id, x>>
    BY <2>1
  <2>3. PICK j \in DOMAIN g[i].nodes : x = g[i].nodes[j]
    BY DEF ToSet
  <2>4. <<i, j>> \in NodePlaces(f)
    BY DEF NodePlaces
  <2>5. NodeAt(f, <<i, j>>) = x
    BY <2>3 DEF NodeAt
  <2> QED BY <2>2, <2>4, <2>5
<1> QED BY <1>1, <1>2

\* A page lists just what it shows.
LEMMA ListsWhatItShows ==
  ASSUME NEW f
  PROVE  /\ NodesShown(f) = NodeIdsOf(f.groups)
         /\ {s.id : s \in StatsShown(f)} = StatIdsOf(f.groups) \cup IdsOf(f.stats)
<1> DEFINE g == f.groups
<1>0. /\ \A p \in NodePlaces(f) : \E m \in Members(g) : m[2] = NodeAt(f, p)
      /\ \A m \in Members(g) : \E p \in NodePlaces(f) : m[2] = NodeAt(f, p)
  BY PlacesAreMembers
<1>1. NodesShown(f) = NodeIdsOf(f.groups)
  BY <1>0 DEF NodesShown, NodeIdsOf
<1>2. ASSUME NEW s \in StatsOfNodes(f) PROVE s.id \in StatIdsOf(g)
  <2>1. PICK q \in StatPlaces(f) : s = StatAt(f, q)
    BY DEF StatsOfNodes
  <2>2. PICK p \in NodePlaces(f) : q \in {<<p[1], p[2], k>> : k \in DOMAIN NodeAt(f, p).stats}
    BY DEF StatPlaces
  <2>3. PICK k \in DOMAIN NodeAt(f, p).stats : q = <<p[1], p[2], k>>
    BY <2>2
  <2>4. PICK m \in Members(g) : m[2] = NodeAt(f, p)
    BY <1>0
  <2>5. s = m[2].stats[k]
    BY <2>1, <2>3, <2>4 DEF StatAt, NodeAt
  <2>6. s.id \in IdsOf(m[2].stats)
    BY <2>3, <2>4, <2>5 DEF IdsOf
  <2> QED BY <2>6 DEF StatIdsOf
<1>3. ASSUME NEW i \in StatIdsOf(g) PROVE \E s \in StatsOfNodes(f) : s.id = i
  <2>1. PICK m \in Members(g) : i \in IdsOf(m[2].stats)
    BY DEF StatIdsOf
  <2>2. PICK k \in DOMAIN m[2].stats : i = m[2].stats[k].id
    BY <2>1 DEF IdsOf
  <2>3. PICK p \in NodePlaces(f) : m[2] = NodeAt(f, p)
    BY <1>0
  <2> DEFINE q == <<p[1], p[2], k>>
  <2>4. q \in StatPlaces(f)
    BY <2>2, <2>3 DEF StatPlaces
  <2>5. StatAt(f, q) = m[2].stats[k]
    BY <2>3 DEF StatAt, NodeAt
  <2> HIDE DEF q
  <2>6. StatAt(f, q) \in StatsOfNodes(f)
    BY <2>4 DEF StatsOfNodes
  <2> QED BY <2>2, <2>5, <2>6
<1>4. \A i : i \in IdsOf(f.stats) <=> \E s \in ToSet(f.stats) : s.id = i
  BY IdsOfSet
<1> DEFINE A == StatsOfNodes(f)
           B == ToSet(f.stats)
           C == StatIdsOf(g)
           D == IdsOf(f.stats)
<1>5. StatsShown(f) = A \cup B
  BY DEF StatsShown
<1>6. /\ \A s \in A : s.id \in C
      /\ \A i \in C : \E s \in A : s.id = i
      /\ \A i : i \in D <=> \E s \in B : s.id = i
  BY <1>2, <1>3, <1>4
<1> HIDE DEF A, B, C, D
<1>7. {s.id : s \in StatsShown(f)} = C \cup D
  BY <1>5, <1>6
<1> QED BY <1>1, <1>7 DEF C, D

\* Between handlers, the stats that fled are those of nodes that are gone.
LEMMA FledAreGone ==
  ASSUME ScriptInv(script), BetweenHandlers
  PROVE  Fled \subseteq StatsOfGone
<1>1. ASSUME NEW n \in Nodes, FledOf(n) PROVE IsGone(<<"node", n>>)
  <2> DEFINE D == Step("DropStats", n)
             M1 == Step("RemoveValuers", n)
             M2 == Step("DropNode", n)
  <2>1. Then(script, D, M1) /\ Then(script, M1, M2)
    BY DEF ScriptInv, NodesInTurn
  <2>2. M1.do \in SecondHalves /\ M2.do \in SecondHalves
    BY DEF Step, SecondHalves
  <2> HIDE DEF D, M1, M2
  <2>3. Left(script, M2) => Left(script, M1)
    BY <2>1, <2>2, NoHalves
  <2>4. Left(script, M1) => Left(script, D)
    BY <2>1, <2>2, NoHalves
  <2> QED BY <1>1, <2>3, <2>4 DEF FledOf, D, M2
<1> QED BY <1>1, StatKinds DEF Fled, StatsOfGone

\* What an untroubled live page shows when nothing is under way.
LEMMA LiveShows ==
  ASSUME TypeInv, PageInv, ShownInv, CoverInv, KeptInv, LiveQuiet, config.api, trouble = {}
  PROVE  /\ Tells(cd) \ StatsOfGone \subseteq Shows(flow)
         /\ Within(Shows(flow), Tells(cd))
         /\ \A y \in Shows(flow) : y[1] = "stat" => y \in Tells(cd) \cup StatsOfGone
<1>1. /\ Mounted /\ ~replay.done /\ requests = <<>> /\ pushes = <<>> /\ BetweenHandlers /\ d = NoDelta
      /\ stater.delta = NoDelta
  BY DEF LiveQuiet, TypeInv
<1>2. Way = {}
  BY <1>1, NoneYet, NothingTold DEF Way
<1>3. Wanted \subseteq Shows(flow)
  BY <1>1, <1>2 DEF CoverInv
<1>4. ScriptInv(script) /\ HeldInv
  BY DEF TypeInv, PageInv, FeedInv
<1>5. Tells(cd) \cap Coming(script, InDelta) = {}
  BY <1>1, <1>4, InTurnComing DEF HeldInv
<1>6. Within(Shows(flow), StillThere)
  BY <1>1 DEF ShownInv
<1>7. Kept(Shows(flow))
  BY <1>1 DEF KeptInv
<1> QED BY <1>1, <1>3, <1>4, <1>5, <1>6, <1>7, NothingElseStands, FledAreGone DEF Wanted, Kept, IsKept

\* It lists the groups, nodes and connections of the catch-up.
LEMMA LiveLists ==
  ASSUME TypeInv, PageInv, ShownInv, CoverInv, KeptInv, LiveQuiet, config.api, trouble = {}
  PROVE  /\ GroupsShown(flow) = ToSet(cd.startedGroups)
         /\ NodesShown(flow) = {n.id : n \in ToSet(cd.startedNodes)}
         /\ ToSet(flow.connections) = ToSet(cd.connected)
<1>1. Tells(cd) \ StatsOfGone \subseteq Shows(flow) /\ Within(Shows(flow), Tells(cd))
  BY LiveShows
<1>2. ASSUME NEW y \in StatsOfGone PROVE y[1] = "stat"
  <2>1. PICK s \in Stats : y = <<"stat", s.id>>
    BY DEF StatsOfGone
  <2> QED BY <2>1
<1>3. /\ GroupsShown(flow) \subseteq ToSet(cd.startedGroups)
      /\ NodesShown(flow) \subseteq {n.id : n \in ToSet(cd.startedNodes)}
      /\ ToSet(flow.connections) \subseteq ToSet(cd.connected)
  BY <1>1, ShownIsTold
<1>4. ASSUME NEW i, NEW k \in {"group", "node", "link"}, <<k, i>> \in Tells(cd)
      PROVE  <<k, i>> \in Shows(flow)
  <2> DEFINE y == <<k, i>>
  <2>1. y[1] # "stat" /\ y \in Tells(cd)
    BY <1>4
  <2> HIDE DEF y
  <2>2. y \in Shows(flow)
    BY <1>1, <1>2, <2>1
  <2> QED BY <2>2 DEF y
<1>5. ASSUME NEW g \in ToSet(cd.startedGroups) PROVE g \in GroupsShown(flow)
  <2>1. <<"group", g>> \in Tells(cd)
    BY ByKind
  <2>2. <<"group", g>> \in Shows(flow)
    BY <1>4, <2>1
  <2>3. g \in IdsOf(flow.groups)
    BY <2>2, ByKind
  <2> QED BY <2>3, ListedIsShown
<1>6. ASSUME NEW n \in ToSet(cd.startedNodes) PROVE n.id \in NodesShown(flow)
  <2>1. <<"node", n.id>> \in Tells(cd)
    BY ByKind
  <2>2. <<"node", n.id>> \in Shows(flow)
    BY <1>4, <2>1
  <2> DEFINE i == n.id
             h == flow.groups
  <2> HIDE DEF i
  <2>3. \E x \in Seats(h) : x[2] = i
    BY <2>2, ByKind DEF i
  <2>4. i \in NodeIdsOf(h)
    <3> HIDE DEF h
    <3> QED BY <2>3, ById
  <2> QED BY <2>4, ListsWhatItShows DEF i
<1>7. ASSUME NEW c \in ToSet(cd.connected) PROVE c \in ToSet(flow.connections)
  BY <1>4, ByKind
<1> QED BY <1>3, <1>5, <1>6, <1>7

\* And the stats of those, and of the flow.
LEMMA LiveStats ==
  ASSUME TypeInv, PageInv, ShownInv, CoverInv, PlaceInv, KeptInv, LiveQuiet, config.api, trouble = {}
  PROVE  {s.id : s \in StatsShown(flow)} =
             {s.id : s \in {x \in ToSet(cd.newStats) : x.node \in {NoNode} \cup NodesShown(flow)}}
<1> DEFINE g == flow.groups
           N == NodesShown(flow)
           W == {x \in ToSet(cd.newStats) : x.node \in {NoNode} \cup N}
           C == StatIdsOf(g)
           D == IdsOf(flow.stats)
<1>1. /\ Tells(cd) \ StatsOfGone \subseteq Shows(flow)
      /\ \A y \in Shows(flow) : y[1] = "stat" => y \in Tells(cd) \cup StatsOfGone
  BY LiveShows
<1>2. N = {n.id : n \in ToSet(cd.startedNodes)}
  BY LiveLists
<1>3. {s.id : s \in StatsShown(flow)} = C \cup D /\ N = NodeIdsOf(g)
  BY ListsWhatItShows
<1>4. InPlace(flow)
  BY DEF LiveQuiet, PlaceInv
<1>5. ToSet(cd.newStats) \subseteq Stats \cup FlowStats
  <2>1. cd.newStats \in Seq(AllStats)
    BY DEF TypeInv, IsDelta
  <2>2. \A S : \A q \in Seq(S) : ToSet(q) \subseteq S BY DEF ToSet
  <2> QED BY <2>1, <2>2 DEF AllStats
\* A stat of a node that is shown is not one of a node that is gone.
<1>6. ASSUME NEW s \in Stats, s.node \in N PROVE <<"stat", s.id>> \notin StatsOfGone
  <2> SUFFICES ASSUME <<"stat", s.id>> \in StatsOfGone PROVE FALSE
    OBVIOUS
  <2>1. PICK r \in Stats : IsGone(<<"node", r.node>>) /\ s.id = r.id
    BY DEF StatsOfGone
  <2>2. r = s
    BY <2>1, StatIds
  <2>3. <<"node", s.node>> \in Tells(cd)
    <3>1. PICK n \in ToSet(cd.startedNodes) : n.id = s.node
      BY <1>2, <1>6
    <3> QED BY <3>1, ByKind
  <2> QED BY <2>1, <2>2, <2>3 DEF IsGone
<1>7. ASSUME NEW i \in FlowIds PROVE <<"stat", i>> \notin StatsOfGone
  BY StatKinds DEF StatsOfGone
<1>8. \A i : i \in C \cup D <=> <<"stat", i>> \in Shows(flow)
  <2> SUFFICES ASSUME NEW i PROVE i \in C \cup D <=> <<"stat", i>> \in Shows(flow)
    OBVIOUS
  <2>1. <<"stat", i>> \in Shows(flow) <=> i \in D \/ \E x \in Hung(g) : x[3] = i
    BY ByKind
  <2> HIDE DEF g
  <2>2. i \in StatIdsOf(g) <=> \E x \in Hung(g) : x[3] = i
    BY ById
  <2> QED BY <2>1, <2>2
<1>9. ASSUME NEW s \in W PROVE s.id \in C \cup D
  <2>1. <<"stat", s.id>> \in Tells(cd)
    BY ByKind
  <2>2. <<"stat", s.id>> \notin StatsOfGone
    BY <1>5, <1>6, <1>7, StatKinds
  <2>3. <<"stat", s.id>> \in Shows(flow)
    BY <1>1, <2>1, <2>2
  <2> QED BY <1>8, <2>3
<1>10. ASSUME NEW i \in C \cup D, <<"stat", i>> \notin StatsOfGone
      PROVE  \E s \in ToSet(cd.newStats) : s.id = i
  <2> DEFINE y == <<"stat", i>>
  <2>1. y \in Shows(flow) /\ y[1] = "stat"
    BY <1>8, <1>10
  <2>2. y \notin StatsOfGone
    BY <1>10
  <2> HIDE DEF y
  <2>3. y \in Tells(cd)
    BY <1>1, <2>1, <2>2
  <2> QED BY <2>3, ByKind DEF y
<1>11. ASSUME NEW i \in C PROVE \E s \in W : s.id = i
  <2>1. PICK x \in Hung(g) : x[3] = i
    BY ById
  <2>2. <<x[1], x[2]>> \in Seats(g) /\ [id |-> i, node |-> x[2]] \in Stats
    BY <1>4, <2>1 DEF InPlace
  <2> DEFINE r == [id |-> i, node |-> x[2]]
  <2>3. r \in Stats /\ r.id = i /\ r.node = x[2]
    BY <2>2
  <2>4. x[2] \in N
    <3>1. <<x[1], x[2]>>[2] = x[2]
      OBVIOUS
    <3> QED BY <1>3, <2>2, <3>1, ById
  <2> HIDE DEF r
  <2>5. PICK s \in ToSet(cd.newStats) : s.id = i
    BY <1>6, <1>10, <2>3, <2>4
  <2>6. s = r
    BY <1>5, <2>3, <2>5, StatIds, StatKinds
  <2> QED BY <2>3, <2>4, <2>5, <2>6
<1>12. ASSUME NEW i \in D PROVE \E s \in W : s.id = i
  <2>1. i \in FlowIds
    BY <1>4 DEF InPlace
  <2>2. PICK s \in ToSet(cd.newStats) : s.id = i
    BY <1>7, <1>10, <2>1
  <2>3. s.node = NoNode
    BY <1>5, <2>1, <2>2, StatKinds
  <2> QED BY <2>2, <2>3
<1> HIDE DEF C, D, W
<1>13. C \cup D = {s.id : s \in W}
  BY <1>9, <1>11, <1>12
<1> QED BY <1>3, <1>13 DEF W

\* What makes a live page exact, kept together.
ExactInv == GoneInv /\ EndInv /\ CoverInv /\ PlaceInv /\ KeptInv

\* It holds at first.
LEMMA InitExact == Init => ExactInv
<1> SUFFICES ASSUME Init PROVE ExactInv
  OBVIOUS
<1>1. PICK p \in Programs : MonitorFlow(p)
  BY DEF Init
<1>2. GoneInv
  BY <1>1, InitGone
<1> QED BY <1>2, InitEnd, InitCover, InitKept DEF ExactInv

\* And goes on holding.
LEMMA ExactKeeps ==
  ASSUME MonitorerInv, LinkInv(script), PageInv, GhostInv, ExactInv, [Next]_vars
  PROVE  ExactInv'
<1>1. /\ TypeInv /\ FeedInv /\ AnswersInv /\ UnmountedInv
      /\ GoneInv /\ EndInv /\ CoverInv /\ PlaceInv /\ KeptInv
  BY DEF MonitorerInv, PageInv, GhostInv, ExactInv
<1>2. GoneInv'
  BY <1>1, MonitorerStep, GoneKeeps
<1>3. EndInv'
  BY <1>1, EndKeeps
<1>4. PlaceInv'
  BY <1>1, PlaceKeeps
<1>5. CoverInv'
  BY <1>1, CoverKeeps
<1>6. KeptInv'
  BY <1>1, KeptKeeps
<1> QED BY <1>2, <1>3, <1>4, <1>5, <1>6 DEF ExactInv

\* MirrorIsExact: when nothing is under way, a live page that none of the recorded troubles
\* befell lists the groups, the nodes and the connections that the flow has, the stats of
\* the flow and of those nodes, and each of them once: it lost nothing on the way from the
\* event handlers through the pending delta, the stater, the socket and the requests to
\* its store, and kept nothing that is gone.
THEOREM MirrorIsExactHolds ==
  ASSUME \A p \in Programs : LinkedInTurn(p)
  PROVE  Spec => []MirrorIsExact
<1>1. Init => PageInv /\ GhostInv /\ ExactInv
  BY InitPage, InitGhosts, InitExact
<1>2. (MonitorerInv /\ LinksInv) /\ (PageInv /\ GhostInv /\ ExactInv) /\ [Next]_vars
        => (PageInv /\ GhostInv /\ ExactInv)'
  BY NextPage, GhostsKeep, ExactKeeps DEF MonitorerInv, LinksInv
<1>3. (MonitorerInv /\ LinksInv) /\ (PageInv /\ GhostInv /\ ExactInv) => MirrorIsExact
  <2> SUFFICES ASSUME TypeInv, PageInv, ShownInv, CoverInv, PlaceInv, KeptInv,
                      LiveQuiet, config.api, trouble = {}
               PROVE  /\ GroupsShown(flow) = ToSet(cd.startedGroups)
                      /\ NodesShown(flow) = {n.id : n \in ToSet(cd.startedNodes)}
                      /\ ToSet(flow.connections) = ToSet(cd.connected)
                      /\ {s.id : s \in StatsShown(flow)} =
                            {s.id : s \in {x \in ToSet(cd.newStats) : x.node \in {NoNode} \cup NodesShown(flow)}}
                      /\ ListsOnce(flow)
    BY DEF MirrorIsExact, MonitorerInv, GhostInv, ExactInv
  <2>1. PICK U : Tidy(flow, U)
    BY DEF LiveQuiet, PageInv, FlowInv, Shown
  <2>2. ListsOnce(flow)
    BY <2>1, TidyListsOnce
  <2> QED BY <2>2, LiveLists, LiveStats
<1>4. Spec => [](MonitorerInv /\ LinksInv)
  BY LinksHold, PageIsAMonitorer, PTL
<1> QED BY <1>1, <1>2, <1>3, <1>4, PTL DEF Spec
=============================================================================
