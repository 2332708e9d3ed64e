--------------------------- MODULE NodesViewsProofs ---------------------------
(***************************************************************************)
(* Proofs about NodesViews.tla, for any flows, texts and numbers of        *)
(* colours: what the controls of the filters show, what the diagram does,  *)
(* and the units of the labels.  The tables are sorted, which only TLC     *)
(* evaluates.                                                              *)
(***************************************************************************)
EXTENDS NodesViews, SequenceLemmas

Stores == Flows \cup {[groups |-> <<>>, connections |-> <<>>, host |-> <<>>]}
Texts  == Searches \cup {""}
Names  == UNION {Options(l, f) : l \in Lists, f \in Stores}
Picks  == [Lists -> SUBSET Names]

(* What the filters, their controls and the history are made of.              *)
FiltersType ==
  /\ store \in Stores
  /\ route \in Routes
  /\ filters \in [lists : Picks, search : Texts, mode : {"and", "or"}, visible : BOOLEAN]
  /\ controls \in [on : BOOLEAN, text : Texts, picks : Picks]
  /\ unseen \in [mode : BOOLEAN, text : Texts, picks : Picks]

IInv == FiltersType /\ ControlsTellTheFilters

-----------------------------------------------------------------------------

(* Every option of a store is one of the names.                               *)
LEMMA OptionsAreNames ==
  ASSUME NEW l \in Lists, NEW f \in Stores
  PROVE  Options(l, f) \subseteq Names
BY DEF Names

(* Before anything is filtered, nothing is shown.                             *)
LEMMA InitIInv == Init => IInv
<1> SUFFICES ASSUME Init PROVE IInv
  OBVIOUS
<1>1. FiltersType
  BY DEF Init, FiltersType, Stores, Texts, Picks, NoFilters, NoControls, NothingUnseen
<1>2. ControlsTellTheFilters
  BY DEF Init, ControlsTellTheFilters, NoFilters, NoControls, NothingUnseen
<1> QED BY <1>1, <1>2 DEF IInv

(* A page that is opened finds the filters, and shows what it can of them.    *)
LEMMA NavigateIInv == IInv /\ Navigate => IInv'
<1> SUFFICES ASSUME IInv, NEW r \in Routes, route' = r,
                    UNCHANGED <<store, filters>>,
                    IF OnNodes(r) = OnNodes(route) THEN UNCHANGED <<controls, unseen>>
                    ELSE IF OnNodes(r)
                    THEN /\ controls' = ControlsAtMount(store, filters)
                         /\ unseen' = Unseen(store, filters)
                    ELSE controls' = NoControls /\ unseen' = NothingUnseen
             PROVE  IInv'
  BY DEF Navigate
<1>1. CASE OnNodes(r) = OnNodes(route)
  BY <1>1 DEF IInv, FiltersType, ControlsTellTheFilters
<1>2. CASE OnNodes(r) # OnNodes(route) /\ OnNodes(r)
  <2>1. /\ controls' = [on |-> FALSE, text |-> "",
                        picks |-> [l \in Lists |-> filters.lists[l] \cap Options(l, store)]]
        /\ unseen' = [mode |-> filters.mode = "or", text |-> filters.search,
                      picks |-> [l \in Lists |-> filters.lists[l] \ Options(l, store)]]
    BY <1>2 DEF ControlsAtMount, Unseen
  <2>2. FiltersType'
    BY <2>1 DEF IInv, FiltersType, Picks, Texts
  <2>3. ControlsTellTheFilters'
    BY <2>1 DEF IInv, FiltersType, Picks, ControlsTellTheFilters
  <2> QED BY <2>2, <2>3 DEF IInv
<1>3. CASE ~OnNodes(r)
  <2>1. ASSUME UNCHANGED <<controls, unseen>> PROVE FiltersType'
    BY <2>1 DEF IInv, FiltersType
  <2>2. ASSUME controls' = NoControls, unseen' = NothingUnseen PROVE FiltersType'
    BY <2>2 DEF IInv, FiltersType, Picks, Texts, NoControls, NothingUnseen
  <2>3. FiltersType'
    BY <1>3, <2>1, <2>2
  <2> QED BY <1>3, <2>3 DEF IInv, ControlsTellTheFilters
<1> QED BY <1>1, <1>2, <1>3

(* A click on the switch: the mode follows what it shows then.                *)
LEMMA ModeIInv == IInv /\ OnFiltersModeUpdate => IInv'
<1> SUFFICES ASSUME IInv, OnFiltersModeUpdate PROVE IInv'
  OBVIOUS
<1>1. /\ controls' = [controls EXCEPT !.on = ~@]
      /\ filters' = [filters EXCEPT !.mode = IF controls.on THEN "and" ELSE "or"]
      /\ unseen' = [unseen EXCEPT !.mode = FALSE]
      /\ UNCHANGED <<store, route>>
  BY DEF OnFiltersModeUpdate, Filter
<1>2. FiltersType'
  BY <1>1 DEF IInv, FiltersType
<1>3. ControlsTellTheFilters'
  BY <1>1 DEF IInv, FiltersType, ControlsTellTheFilters, OnNodes
<1> QED BY <1>2, <1>3 DEF IInv

(* A text that is typed is the one that is searched for.                      *)
LEMMA SearchIInv == IInv /\ OnFiltersSearchUpdate => IInv'
<1> SUFFICES ASSUME IInv, NEW text \in Searches,
                    controls' = [controls EXCEPT !.text = text],
                    filters' = [filters EXCEPT !.search = text],
                    unseen' = [unseen EXCEPT !.text = ""],
                    UNCHANGED <<store, route>>
             PROVE  IInv'
  BY DEF OnFiltersSearchUpdate, Filter
<1>1. FiltersType'
  BY DEF IInv, FiltersType, Texts
<1>2. ControlsTellTheFilters'
  BY DEF IInv, FiltersType, ControlsTellTheFilters, OnNodes
<1> QED BY <1>1, <1>2 DEF IInv

(* What is picked is what is filtered for, and nothing else.                  *)
LEMMA PickIInv ==
  ASSUME IInv, NEW list \in Lists, NEW picked \in SUBSET Names, Pick(list, picked)
  PROVE  IInv'
<1>1. /\ controls' = [controls EXCEPT !.picks[list] = picked]
      /\ filters' = [filters EXCEPT !.lists[list] = picked]
      /\ unseen' = [unseen EXCEPT !.picks[list] = {}]
      /\ UNCHANGED <<store, route>>
  BY DEF Pick, Filter
<1>2. /\ controls'.picks = [controls.picks EXCEPT ![list] = picked]
      /\ filters'.lists = [filters.lists EXCEPT ![list] = picked]
      /\ unseen'.picks = [unseen.picks EXCEPT ![list] = {}]
      /\ controls'.on = controls.on /\ controls'.text = controls.text
      /\ filters'.mode = filters.mode /\ filters'.search = filters.search
      /\ unseen'.mode = unseen.mode /\ unseen'.text = unseen.text
  BY <1>1 DEF IInv, FiltersType
<1>3. FiltersType'
  BY <1>1 DEF IInv, FiltersType, Picks
<1>4. ControlsTellTheFilters'
  BY <1>1, <1>2 DEF IInv, FiltersType, Picks, ControlsTellTheFilters, OnNodes
<1> QED BY <1>3, <1>4 DEF IInv

(* A select adds an option there is, or takes one away.                       *)
LEMMA UpdatedIInv ==
  ASSUME IInv, NEW list \in Lists, OnFiltersUpdated(list)
  PROVE  IInv'
<1>1. controls.picks[list] \subseteq Names
  BY DEF IInv, FiltersType, Picks
<1>2. CASE \E o \in Options(list, store) \ controls.picks[list] :
              Pick(list, controls.picks[list] \cup {o})
  <2>1. PICK o \in Options(list, store) : Pick(list, controls.picks[list] \cup {o})
    BY <1>2
  <2>2. o \in Names
    BY <2>1, OptionsAreNames DEF IInv, FiltersType
  <2> QED BY <1>1, <2>1, <2>2, PickIInv
<1>3. CASE \E o \in controls.picks[list] : Pick(list, controls.picks[list] \ {o})
  BY <1>1, <1>3, PickIInv
<1> QED BY <1>2, <1>3 DEF OnFiltersUpdated

LEMMA NextIInv == IInv /\ [Next]_vars => IInv'
<1> SUFFICES ASSUME IInv, [Next]_vars PROVE IInv'
  OBVIOUS
<1>1. CASE FlowChanges
  BY <1>1 DEF FlowChanges, IInv, FiltersType, Stores, ControlsTellTheFilters, OnNodes
<1>2. CASE Navigate
  BY <1>2, NavigateIInv
<1>3. CASE OrderColumn
  BY <1>3 DEF OrderColumn, IInv, FiltersType, ControlsTellTheFilters, OnNodes
<1>4. CASE OnFiltersModeUpdate
  BY <1>4, ModeIInv
<1>5. CASE OnFiltersSearchUpdate
  BY <1>5, SearchIInv
<1>6. CASE \E list \in Lists : OnFiltersUpdated(list)
  BY <1>6, UpdatedIInv
<1>7. CASE ToggleFiltersVisibility
  BY <1>7 DEF ToggleFiltersVisibility, IInv, FiltersType, ControlsTellTheFilters, OnNodes
<1>8. CASE UNCHANGED vars
  BY <1>8 DEF vars, IInv, FiltersType, ControlsTellTheFilters, OnNodes
<1> QED BY <1>1, <1>2, <1>3, <1>4, <1>5, <1>6, <1>7, <1>8 DEF Next

(* Whatever flows come and go and however the user moves between the pages,   *)
(* the switch, the input and the selects of Filters.vue never show a filter   *)
(* that is not in force, and what they do not show was there, and could not   *)
(* be shown, when the page was opened.                                        *)
THEOREM ControlsTellTheFiltersHolds == Spec => []ControlsTellTheFilters
<1>1. IInv => ControlsTellTheFilters
  BY DEF IInv
<1> QED BY <1>1, InitIInv, NextIInv, PTL DEF Spec

-----------------------------------------------------------------------------
(* The diagram: its colours as it is evaluated.                               *)

GroupIds   == Nat \ {None}
Colourings == [Colours -> [current : Nat, last : Nat]]

(* A group has one colour at most.                                            *)
OneEach(cs) ==
  \A c, d \in Colours : cs[c].current = cs[d].current /\ cs[c].current # None => c = d

(* A node has the colour its group has, or there is none for it.              *)
Holds(cs, m) == m.colour \in Colours /\ cs[m.colour].current = m.group
Settled(cs, m) ==
  \/ Holds(cs, m)
  \/ m.colour = DefaultColour /\ \A c \in Colours : cs[c].current \notin {None, m.group}

(* What painting some nodes makes of the colours cs: what is taken stays so,  *)
(* and what is taken anew is by a node that is drawn.                         *)
PaintInv(cs, acc) ==
  /\ OneEach(acc.colours)
  /\ \A m \in ToSet(acc.nodes) : m.group \in GroupIds /\ Settled(acc.colours, m)
  /\ \A c \in Colours : cs[c].current # None => acc.colours[c].current = cs[c].current
  /\ \A c \in Colours : acc.colours[c].current # None =>
        \/ cs[c].current # None
        \/ \E m \in ToSet(acc.nodes) : m.colour = c

(* A group without a colour gets one that is free, or the default one when    *)
(* there is none; a group with a colour keeps it.                             *)
LEMMA Chosen ==
  ASSUME NEW cs \in Colourings, NEW g \in GroupIds
  PROVE  \/ /\ ColourFor(cs, g) \in Colours
            /\ cs[ColourFor(cs, g)].current \in {None, g}
            /\ \/ cs[ColourFor(cs, g)].current = g
               \/ \A c \in Colours : cs[c].current # g
         \/ ColourFor(cs, g) = DefaultColour /\ \A c \in Colours : cs[c].current \notin {None, g}
<1> DEFINE usable == {c \in Colours : cs[c].current \in {None, g}}
           own    == {c \in usable : cs[c].current = g}
           had    == {c \in usable : cs[c].last = g}
<1>1. own \in SUBSET Nat /\ had \in SUBSET Nat /\ usable \in SUBSET Nat
  BY ColoursAssumption DEF Colours
<1>2. ColourFor(cs, g) = IF own # {} THEN Min(own) ELSE IF had # {} THEN Min(had)
                         ELSE IF usable # {} THEN Min(usable) ELSE DefaultColour
  BY DEF ColourFor
<1>3. /\ own # {} => Min(own) \in own
      /\ had # {} => Min(had) \in had
      /\ usable # {} => Min(usable) \in usable
  <2> HIDE DEF own, had, usable
  <2> QED BY <1>1, Least
<1>4. own = {} => \A c \in Colours : cs[c].current # g
  OBVIOUS
<1>5. CASE own # {}
  BY <1>2, <1>3, <1>5
<1>6. CASE own = {} /\ had # {}
  BY <1>2, <1>3, <1>4, <1>6
<1>7. CASE own = {} /\ had = {} /\ usable # {}
  BY <1>2, <1>3, <1>4, <1>7
<1>8. CASE own = {} /\ had = {} /\ usable = {}
  BY <1>2, <1>8
<1> QED BY <1>5, <1>6, <1>7, <1>8

(* What is drawn of a node.                                                   *)
NodeData(x, c, fl) ==
  [id |-> x.node.id, group |-> x.group.id, colour |-> c,
   stats |-> {s.name : s \in {y \in ToSet(x.node.stats) : HasStat(fl, y, FALSE)}}]
Data(xs, fl) == {NodeData(x, c, fl) : x \in xs, c \in Colours \cup {DefaultColour}}

(* Painting a node keeps what holds of those before it.                       *)
LEMMA PaintKeeps ==
  ASSUME NEW cs, NEW xs, NEW fl, NEW acc \in [colours : Colourings, nodes : Seq(Data(xs, fl))],
         PaintInv(cs, acc), NEW x \in xs, x.group.id \in GroupIds
  PROVE  /\ Paint(acc, x, fl) \in [colours : Colourings, nodes : Seq(Data(xs, fl))]
         /\ PaintInv(cs, Paint(acc, x, fl))
<1> DEFINE g == x.group.id
           c == ColourFor(acc.colours, g)
           e == NodeData(x, c, fl)
           cs1 == acc.colours
           cs2 == IF c = DefaultColour THEN cs1 ELSE [cs1 EXCEPT ![c] = [current |-> g, last |-> g]]
<1>1. Paint(acc, x, fl) = [colours |-> cs2, nodes |-> Append(acc.nodes, e)]
  BY DEF Paint, NodeData
<1>2. cs1 \in Colourings /\ g \in GroupIds /\ g \in Nat /\ g # None
  BY DEF GroupIds
<1>3. DefaultColour \notin Colours
  BY ColoursAssumption DEF Colours, DefaultColour
<1>4. \/ /\ c \in Colours /\ c # DefaultColour
         /\ cs1[c].current \in {None, g}
         /\ cs1[c].current = g \/ \A d \in Colours : cs1[d].current # g
         /\ cs2 = [cs1 EXCEPT ![c] = [current |-> g, last |-> g]]
      \/ c = DefaultColour /\ (\A d \in Colours : cs1[d].current \notin {None, g}) /\ cs2 = cs1
  <2> HIDE DEF g, cs1
  <2>1. \/ /\ c \in Colours /\ cs1[c].current \in {None, g}
           /\ cs1[c].current = g \/ \A d \in Colours : cs1[d].current # g
        \/ c = DefaultColour /\ \A d \in Colours : cs1[d].current \notin {None, g}
    BY <1>2, Chosen DEF cs1
  <2> HIDE DEF c
  <2> QED BY <1>3, <2>1
<1>5. e \in Data(xs, fl) /\ e.group = g /\ e.colour = c
  <2>1. e.group = g /\ e.colour = c
    BY DEF NodeData
  <2> HIDE DEF c
  <2>2. c \in Colours \cup {DefaultColour}
    BY <1>4
  <2> QED BY <2>1, <2>2 DEF Data
<1>6. acc.nodes \in Seq(Data(xs, fl)) /\ ToSet(Append(acc.nodes, e)) = ToSet(acc.nodes) \cup {e}
  BY AppendSet
<1>7. Append(acc.nodes, e) \in Seq(Data(xs, fl))
  <2> HIDE DEF e
  <2> QED BY <1>5, <1>6
<1> HIDE DEF e, c, cs1
<1>8. cs2 \in Colourings
  BY <1>2, <1>4 DEF Colourings
<1>9. /\ \A d \in Colours : cs1[d].current # None => cs2[d].current = cs1[d].current
      /\ \A d \in Colours : cs2[d].current # cs1[d].current =>
            d = c /\ cs2[d].current = g /\ cs1[d].current = None
  BY <1>2, <1>4 DEF Colourings
<1>10. OneEach(cs1) /\ PaintInv(cs, acc)
  BY DEF PaintInv, cs1
<1>11. OneEach(cs2)
  BY <1>2, <1>4, <1>10 DEF OneEach, Colourings
<1>12. Settled(cs2, e)
  BY <1>2, <1>4, <1>5 DEF Settled, Holds, Colourings
<1>13. ASSUME NEW m \in ToSet(acc.nodes) PROVE m.group \in GroupIds /\ Settled(cs2, m)
  <2>1. m.group \in GroupIds /\ Settled(cs1, m)
    BY <1>10, <1>13 DEF PaintInv, cs1
  <2>2. CASE Holds(cs1, m)
    BY <1>9, <2>1, <2>2 DEF Settled, Holds, GroupIds
  <2>3. CASE m.colour = DefaultColour /\ \A d \in Colours : cs1[d].current \notin {None, m.group}
    <3> HIDE DEF cs2
    <3>1. \A d \in Colours : cs2[d].current = cs1[d].current
      BY <1>9, <2>3
    <3> QED BY <2>1, <2>3, <3>1 DEF Settled
  <2> QED BY <2>1, <2>2, <2>3 DEF Settled
<1>14. \A d \in Colours : cs[d].current # None => cs2[d].current = cs[d].current
  BY <1>9, <1>10 DEF PaintInv, cs1
<1>15. \A d \in Colours : cs2[d].current # None =>
          cs[d].current # None \/ \E m \in ToSet(acc.nodes) \cup {e} : m.colour = d
  <2>1. \A d \in Colours : cs1[d].current # None =>
          cs[d].current # None \/ \E m \in ToSet(acc.nodes) : m.colour = d
    BY <1>10 DEF PaintInv, cs1
  <2> QED BY <1>5, <1>9, <2>1
<1> DEFINE r == [colours |-> cs2, nodes |-> Append(acc.nodes, e)]
<1>16. r \in [colours : Colourings, nodes : Seq(Data(xs, fl))] /\ r.colours = cs2 /\ r.nodes = Append(acc.nodes, e)
  <2> HIDE DEF cs2
  <2> QED BY <1>7, <1>8
<1>17. PaintInv(cs, r)
  <2> HIDE DEF r, cs2
  <2>1. \A m \in ToSet(r.nodes) : m.group \in GroupIds /\ Settled(r.colours, m)
    BY <1>2, <1>5, <1>6, <1>12, <1>13, <1>16
  <2> QED BY <1>6, <1>11, <1>14, <1>15, <1>16, <2>1 DEF PaintInv
<1> QED BY <1>1, <1>16, <1>17

(* And so does painting one after the other, from the colours before.         *)
LEMMA PaintedInv ==
  ASSUME NEW cs \in Colourings, OneEach(cs), NEW xs, \A x \in xs : x.group.id \in GroupIds,
         NEW p \in Seq(xs), NEW fl
  PROVE  /\ Painted(cs, p, fl) \in [colours : Colourings, nodes : Seq(Data(xs, fl))]
         /\ PaintInv(cs, Painted(cs, p, fl))
<1> DEFINE n == Len(p)
           W == {acc \in [colours : Colourings, nodes : Seq(Data(xs, fl))] : PaintInv(cs, acc)}
           base == [colours |-> cs, nodes |-> <<>>]
           step == [i \in 1 .. n |-> [v \in W |-> Paint(v, p[i], fl)]]
           Body(h, i) == IF i = 0 THEN base ELSE Paint(h[i - 1], p[i], fl)
           painted == CHOOSE h : h = [i \in 0 .. n |-> Body(h, i)]
<1>1. n \in Nat /\ \A i \in 1 .. n : p[i] \in xs
  OBVIOUS
<1>2. base \in W
  <2>1. base \in [colours : Colourings, nodes : Seq(Data(xs, fl))] /\ base.colours = cs /\ base.nodes = <<>>
    OBVIOUS
  <2>2. ToSet(base.nodes) = {}
    BY <2>1 DEF ToSet
  <2> HIDE DEF base
  <2>3. PaintInv(cs, base)
    BY <2>1, <2>2 DEF PaintInv
  <2> QED BY <2>1, <2>3
<1>3. \A i \in 1 .. n, v \in W : Paint(v, p[i], fl) \in W
  <2> SUFFICES ASSUME NEW i \in 1 .. n, NEW v \in W PROVE Paint(v, p[i], fl) \in W
    OBVIOUS
  <2>1. p[i] \in xs /\ p[i].group.id \in GroupIds
    BY <1>1
  <2> HIDE DEF n
  <2> QED BY <2>1, PaintKeeps
<1>4. step \in [1 .. n -> [W -> W]] /\ \A i \in 1 .. n, v \in W : step[i][v] = Paint(v, p[i], fl)
  <2> HIDE DEF W, n
  <2> QED BY <1>3
<1>5. PICK h \in [0 .. n -> W] : h[0] = base /\ \A i \in 1 .. n : h[i] = step[i][h[i - 1]]
  <2> HIDE DEF step, n, W, base
  <2>1. \E h : Builds(h, W, base, n, step)
    BY <1>1, <1>2, <1>4, Recursion
  <2> QED BY <2>1 DEF Builds
<1> HIDE DEF step, W, base
<1>6. h = [i \in 0 .. n |-> Body(h, i)]
  <2> HIDE DEF n
  <2>1. \A i \in 1 .. n : h[i - 1] \in W
    BY <1>1
  <2>2. \A i \in 1 .. n : h[i] = Paint(h[i - 1], p[i], fl)
    BY <1>4, <1>5, <2>1
  <2>3. \A i \in 0 .. n : i = 0 \/ i \in 1 .. n
    BY <1>1
  <2>4. \A i \in 0 .. n : h[i] = Body(h, i)
    BY <1>5, <2>2, <2>3
  <2> QED BY <2>4
<1>7. painted = [i \in 0 .. n |-> Body(painted, i)]
  <2> HIDE DEF n, Body
  <2> QED BY <1>6
<1>8. Painted(cs, p, fl) = painted[n]
  BY DEF Painted, base
<1>9. \A i \in 0 .. n : painted[i] = Body(painted, i)
  <2> HIDE DEF painted, Body, n
  <2> QED BY <1>7
<1> HIDE DEF painted
<1>10. n \in {i \in Nat : i <= n => painted[i] \in W}
  <2> DEFINE T == {i \in Nat : i <= n => painted[i] \in W}
  <2> HIDE DEF n
  <2>1. 0 \in T
    BY <1>1, <1>2, <1>9
  <2>2. \A i \in Nat : i \in T => i + 1 \in T
    <3> SUFFICES ASSUME NEW i \in Nat, i \in T, i + 1 <= n PROVE painted[i + 1] \in W
      OBVIOUS
    <3>1. painted[i] \in W /\ i + 1 \in 1 .. n /\ i + 1 \in 0 .. n /\ (i + 1) - 1 = i
      BY <1>1
    <3>2. painted[i + 1] = Paint(painted[i], p[i + 1], fl)
      BY <1>9, <3>1
    <3> QED BY <1>3, <3>1, <3>2
  <2> HIDE DEF T
  <2>3. n \in T
    BY <1>1, <2>1, <2>2, Induction
  <2> QED BY <2>3 DEF T
<1> QED BY <1>1, <1>8, <1>10 DEF W

-----------------------------------------------------------------------------
(* The diagram: what is drawn.                                                *)

(* The nodes of a store with their groups.                                    *)
Xs(f) == UNION {{[group |-> g, node |-> n] : n \in ToSet(g.nodes)} : g \in ToSet(f.groups)}

(* What passes the filters is in the store.                                   *)
LEMMA PassingTyped ==
  ASSUME NEW f \in Stores, NEW fl
  PROVE  /\ NodesOf(f) \in Seq(Xs(f))
         /\ Passing(f, fl) \in Seq(Xs(f))
         /\ \A x \in Xs(f) : x.group.id \in GroupIds
<1>1. /\ f.groups \in Seq(ToSet(f.groups))
      /\ \A g \in ToSet(f.groups) : g.id \in GroupIds /\ g.nodes \in Seq(ToSet(g.nodes))
  <2>1. CASE f \in Flows
    BY <2>1, FlowsAssumption DEF GroupIds, None
  <2>2. CASE f = [groups |-> <<>>, connections |-> <<>>, host |-> <<>>]
    BY <2>2 DEF ToSet
  <2> QED BY <2>1, <2>2 DEF Stores
<1> DEFINE Of(i) == [j \in DOMAIN f.groups[i].nodes |->
                       [group |-> f.groups[i], node |-> f.groups[i].nodes[j]]]
           seqs == [i \in DOMAIN f.groups |-> Of(i)]
<1>2. ASSUME NEW i \in DOMAIN f.groups PROVE Of(i) \in Seq(Xs(f))
  <2>1. f.groups[i] \in ToSet(f.groups)
    BY DEF ToSet
  <2> DEFINE q == f.groups[i].nodes
  <2>2. q \in Seq(ToSet(q))
    BY <1>1, <2>1
  <2>3. DOMAIN q = 1 .. Len(q) /\ Len(q) \in Nat
    BY <2>2
  <2>4. \A j \in DOMAIN q : [group |-> f.groups[i], node |-> q[j]] \in Xs(f)
    <3>1. \A j \in DOMAIN q : q[j] \in ToSet(q)
      BY DEF ToSet
    <3> QED BY <2>1, <3>1 DEF Xs
  <2>5. Of(i) \in [1 .. Len(q) -> Xs(f)]
    BY <2>3, <2>4
  <2> HIDE DEF Of
  <2> QED BY <2>3, <2>5
<1>3. seqs \in Seq(Seq(Xs(f)))
  <2>1. DOMAIN f.groups = 1 .. Len(f.groups) /\ Len(f.groups) \in Nat
    BY <1>1
  <2> HIDE DEF Of
  <2> QED BY <1>2, <2>1
<1>4. NodesOf(f) = FlattenSeq(seqs)
  BY DEF NodesOf
<1>5. NodesOf(f) \in Seq(Xs(f))
  <2> DEFINE X == Xs(f)
             Y == Seq(X)
  <2>1. <<>> \in Y /\ (\A a, b \in Y : a \o b \in Y) /\ Y \in SUBSET Seq(X)
    OBVIOUS
  <2>2. seqs \in Seq(Y)
    BY <1>3
  <2> HIDE DEF seqs, X, Y
  <2>3. FlattenSeq(seqs) \in Y
    BY <2>1, <2>2, FlattenProperties
  <2> QED BY <1>4, <2>3 DEF Y, X
<1>6. Passing(f, fl) \in Seq(Xs(f))
  <2> DEFINE S == {x \in ToSet(NodesOf(f)) : HasNode(fl, x.group, x.node)}
  <2>1. Passing(f, fl) = Selected(NodesOf(f), S)
    BY DEF Passing
  <2> HIDE DEF S
  <2>2. Selected(NodesOf(f), S) \in Seq(Xs(f) \cap S)
    BY <1>5, SelectedProperties
  <2> QED BY <2>1, <2>2
<1>7. ASSUME NEW x \in Xs(f) PROVE x.group.id \in GroupIds
  BY <1>1 DEF Xs
<1> QED BY <1>5, <1>6, <1>7

(* What is drawn agrees with the colours that are held.                       *)
Shown(cs, nodes) ==
  /\ cs \in Colourings /\ OneEach(cs)
  /\ \A m \in nodes : m.group \in GroupIds /\ (m.colour = DefaultColour \/ Holds(cs, m))
  /\ \A m, n \in nodes : m.group = n.group => m.colour = n.colour
  /\ \A c \in Colours : cs[c].current # None => \E m \in nodes : m.colour = c

(* An evaluation agrees with the colours it leaves, and keeps those it found. *)
LEMMA EvaluateShows ==
  ASSUME NEW cs \in Colourings, OneEach(cs), NEW f \in Stores, NEW fl,
         NEW now, now = Evaluate(cs, f, fl)
  PROVE  /\ Shown(now.colours, ToSet(now.nodes))
         /\ \A l \in ToSet(now.links) : /\ l[1] \in {n.id : n \in ToSet(now.nodes)}
                                        /\ l[2] \in {n.id : n \in ToSet(now.nodes)}
         /\ \A n \in ToSet(now.nodes), c \in Colours : cs[c].current = n.group => n.colour = c
         /\ \A n \in ToSet(now.nodes) : n.colour = DefaultColour =>
               \A c \in Colours : cs[c].current # None \/ \E m \in ToSet(now.nodes) : m.colour = c
<1> DEFINE p == Painted(cs, Passing(f, fl), fl)
           ns == ToSet(p.nodes)
           ids == {p.nodes[i].id : i \in DOMAIN p.nodes}
           groups == {p.nodes[i].group : i \in DOMAIN p.nodes}
           S == {c \in ToSet(f.connections) : c[1] \in ids /\ c[2] \in ids}
<1>1. p \in [colours : Colourings, nodes : Seq(Data(Xs(f), fl))] /\ PaintInv(cs, p)
  BY PassingTyped, PaintedInv
<1>2. /\ now.colours = GiveBack(p.colours, groups)
      /\ now.nodes = p.nodes
      /\ now.links = Selected(f.connections, S)
  BY DEF Evaluate
<1> DEFINE after == p.colours
<1>3. after \in Colourings /\ PaintInv(cs, p)
  BY <1>1
<1>4. groups = {m.group : m \in ns} /\ ids = {m.id : m \in ns}
  BY DEF ToSet
<1> HIDE DEF p, ids, groups
<1>5. now.colours = [c \in Colours |-> IF after[c].current \notin groups
                                       THEN [after[c] EXCEPT !.current = None] ELSE after[c]]
  BY <1>2 DEF GiveBack
<1>6. /\ OneEach(after)
      /\ \A m \in ns : m.group \in GroupIds /\ Settled(after, m)
      /\ \A c \in Colours : cs[c].current # None => after[c].current = cs[c].current
      /\ \A c \in Colours : after[c].current # None => cs[c].current # None \/ \E m \in ns : m.colour = c
  BY <1>3 DEF PaintInv
<1> HIDE DEF after, ns
<1>7. now.colours \in Colourings
  BY <1>3, <1>5 DEF Colourings, None
<1>8. \A c \in Colours : now.colours[c].current =
                            IF after[c].current \in groups THEN after[c].current ELSE None
  BY <1>3, <1>5 DEF Colourings
<1>9. OneEach(now.colours)
  BY <1>6, <1>8 DEF OneEach
<1>10. \A m \in ns : m.group \in GroupIds /\ (m.colour = DefaultColour \/ Holds(now.colours, m))
  BY <1>4, <1>6, <1>8 DEF Settled, Holds
<1>11. ASSUME NEW m \in ns, NEW n \in ns, m.group = n.group PROVE m.colour = n.colour
  <2>1. Settled(after, m) /\ Settled(after, n) /\ m.group \in GroupIds
    BY <1>6
  <2> QED BY <1>6, <1>11, <2>1 DEF Settled, Holds, OneEach, GroupIds
<1>12. ASSUME NEW c \in Colours, NEW n \in ns, after[c].current = n.group PROVE n.colour = c
  <2>1. Settled(after, n) /\ n.group \in GroupIds
    BY <1>6
  <2> QED BY <1>6, <1>12, <2>1 DEF Settled, Holds, OneEach, GroupIds
<1>13. ASSUME NEW c \in Colours, now.colours[c].current # None PROVE \E m \in ns : m.colour = c
  <2>1. after[c].current \in groups
    BY <1>8, <1>13
  <2>2. PICK m \in ns : m.group = after[c].current
    BY <1>4, <2>1
  <2> QED BY <1>12, <2>2
<1>14. ASSUME NEW n \in ns, NEW c \in Colours, cs[c].current = n.group PROVE n.colour = c
  BY <1>6, <1>12, <1>14 DEF GroupIds
<1>15. ASSUME NEW n \in ns, n.colour = DefaultColour, NEW c \in Colours
       PROVE  cs[c].current # None \/ \E m \in ns : m.colour = c
  <2>1. ~Holds(after, n)
    BY <1>15, ColoursAssumption DEF Holds, DefaultColour, Colours
  <2>2. after[c].current # None
    BY <1>6, <2>1 DEF Settled
  <2> QED BY <1>6, <2>2
<1>16. ToSet(now.links) \subseteq S
  <2>1. f.connections \in Seq(ToSet(f.connections))
    <3>1. CASE f \in Flows
      BY <3>1, FlowsAssumption
    <3>2. CASE f = [groups |-> <<>>, connections |-> <<>>, host |-> <<>>]
      BY <3>2 DEF ToSet
    <3> QED BY <3>1, <3>2 DEF Stores
  <2>2. now.links = Selected(f.connections, S)
    BY <1>2
  <2> HIDE DEF S
  <2>3. ToSet(Selected(f.connections, S)) = ToSet(f.connections) \cap S
    BY <2>1, SelectedProperties
  <2> QED BY <2>2, <2>3
<1>17. \A l \in ToSet(now.links) : l[1] \in {n.id : n \in ns} /\ l[2] \in {n.id : n \in ns}
  BY <1>4, <1>16
<1>18. ns = ToSet(now.nodes)
  BY <1>2 DEF ns
<1>19. Shown(now.colours, ns)
  BY <1>7, <1>9, <1>10, <1>11, <1>13 DEF Shown
<1> QED BY <1>14, <1>15, <1>17, <1>18, <1>19

(* The diagram is what was evaluated, and so is the library's model.          *)
DiagramInv ==
  /\ store \in Stores
  /\ Shown(colours, DrawnNodes)
  /\ ModelFollowsData

(* A diagram that is mounted starts with every colour free.                   *)
LEMMA FreshShown == Shown(FreshColours, {})
BY DEF Shown, FreshColours, Colourings, OneEach, None

(* Whatever makes the diagram be evaluated keeps this, and the colours.       *)
LEMMA DrawsKeeps ==
  ASSUME DiagramInv, NEW r, NEW f \in Stores, NEW fl, Draws(r, f, fl), route' = r
  PROVE  /\ Shown(colours, DrawnNodes)' /\ ModelFollowsData'
         /\ ColourIsKept /\ NoColourWasLeft
<1> DEFINE stays == route = "diagram"
           cs == IF stays THEN colours ELSE FreshColours
           now == Evaluate(cs, f, fl)
<1>1. CASE r = "diagram"
  <2>1. cs \in Colourings /\ OneEach(cs)
    BY FreshShown DEF DiagramInv, Shown
  <2>2. /\ colours' = now.colours
        /\ drawn' = [nodes |-> now.nodes, links |-> now.links]
        /\ model' = Refresh(IF stays THEN model ELSE NoModel, IF stays THEN drawn ELSE NothingDrawn, now)
    BY <1>1 DEF Draws
  <2> HIDE DEF cs
  <2>3. PICK x : x = now
    OBVIOUS
  <2>4. /\ Shown(x.colours, ToSet(x.nodes))
        /\ \A l \in ToSet(x.links) : /\ l[1] \in {n.id : n \in ToSet(x.nodes)}
                                     /\ l[2] \in {n.id : n \in ToSet(x.nodes)}
        /\ \A n \in ToSet(x.nodes), c \in Colours : cs[c].current = n.group => n.colour = c
        /\ \A n \in ToSet(x.nodes) : n.colour = DefaultColour =>
              \A c \in Colours : cs[c].current # None \/ \E m \in ToSet(x.nodes) : m.colour = c
    BY <2>1, <2>3, EvaluateShows
  <2>5. drawn'.nodes = x.nodes /\ drawn'.links = x.links /\ colours' = x.colours
    BY <2>2, <2>3
  <2>6. model' = [nodes |-> {n.id : n \in ToSet(x.nodes)}, links |-> ToSet(x.links)]
    <3> DEFINE m0 == IF stays THEN model ELSE NoModel
               d0 == IF stays THEN drawn ELSE NothingDrawn
    <3>1. m0.nodes = {d0.nodes[i].id : i \in DOMAIN d0.nodes} /\ m0.links = ToSet(d0.links)
      BY DEF DiagramInv, ModelFollowsData, DrawnNodes, ToSet, NoModel, NothingDrawn
    <3>2. model' = Refresh(m0, d0, x)
      BY <2>2, <2>3
    <3>3. {x.nodes[i].id : i \in DOMAIN x.nodes} = {n.id : n \in ToSet(x.nodes)}
      BY DEF ToSet
    <3> HIDE DEF m0, d0
    <3> QED BY <3>1, <3>2, <3>3 DEF Refresh
  <2> HIDE DEF now
  <2>7. DrawnNodes' = ToSet(x.nodes)
    BY <2>5 DEF DrawnNodes
  <2>8. Shown(colours, DrawnNodes)'
    BY <2>4, <2>5, <2>7
  <2>9. ModelFollowsData'
    BY <2>4, <2>5, <2>6, <2>7 DEF ModelFollowsData
  <2>10. ColourIsKept
    <3> SUFFICES ASSUME route = "diagram", NEW m \in DrawnNodes, NEW n \in ToSet(drawn'.nodes),
                        m.group = n.group, m.colour # DefaultColour
                 PROVE  n.colour = m.colour
      BY DEF ColourIsKept
    <3>1. Holds(colours, m)
      BY DEF DiagramInv, Shown
    <3> QED BY <2>4, <2>5, <3>1 DEF Holds, cs
  <2>11. NoColourWasLeft
    <3> SUFFICES ASSUME NEW n \in ToSet(x.nodes), n.colour = DefaultColour, NEW c \in Colours
                 PROVE  \E m \in DrawnNodes \cup ToSet(x.nodes) : m.colour = c
      BY <2>5 DEF NoColourWasLeft
    <3>1. cs[c].current # None \/ \E m \in ToSet(x.nodes) : m.colour = c
      BY <2>4
    <3>2. FreshColours[c].current = None
      BY DEF FreshColours
    <3>3. cs[c].current # None => colours[c].current # None
      BY <3>2 DEF cs
    <3>4. colours[c].current # None => \E m \in DrawnNodes : m.colour = c
      BY DEF DiagramInv, Shown
    <3> QED BY <3>1, <3>3, <3>4
  <2> QED BY <2>8, <2>9, <2>10, <2>11
<1>2. CASE r # "diagram"
  <2>1. colours' = FreshColours /\ drawn' = NothingDrawn /\ model' = NoModel
    BY <1>2 DEF Draws
  <2>2. DrawnNodes' = {} /\ ToSet(drawn'.nodes) = {} /\ ToSet(drawn'.links) = {}
    BY <2>1 DEF DrawnNodes, NothingDrawn, ToSet
  <2>3. Shown(colours, DrawnNodes)'
    BY <2>1, <2>2, FreshShown
  <2>4. ModelFollowsData'
    BY <2>1, <2>2 DEF ModelFollowsData, NoModel
  <2> QED BY <1>2, <2>2, <2>3, <2>4 DEF ColourIsKept, NoColourWasLeft
<1> QED BY <1>1, <1>2

(* A step that leaves the diagram alone.                                      *)
LEMMA UndrawnKeeps ==
  ASSUME DiagramInv, UNCHANGED <<store, colours, drawn, model>>
  PROVE  DiagramInv' /\ ColourIsKept /\ NoColourWasLeft
<1>1. DiagramInv'
  BY DEF DiagramInv, DrawnNodes, ModelFollowsData
<1>2. ColourIsKept
  BY DEF DiagramInv, Shown, ColourIsKept, DrawnNodes
<1> QED BY <1>1, <1>2 DEF NoColourWasLeft

(* The invariant of the diagram, and what a step does to colours.             *)
LEMMA NextDiagram == DiagramInv /\ [Next]_vars => DiagramInv' /\ ColourIsKept /\ NoColourWasLeft
<1> SUFFICES ASSUME DiagramInv, [Next]_vars PROVE DiagramInv' /\ ColourIsKept /\ NoColourWasLeft
  OBVIOUS
<1>1. CASE FlowChanges
  <2>1. PICK f \in Flows : store' = f /\ route' = route /\ Draws(route, f, filters)
    BY <1>1 DEF FlowChanges
  <2>2. f \in Stores
    BY DEF Stores
  <2> QED BY <2>1, <2>2, DrawsKeeps DEF DiagramInv
<1>2. CASE Navigate
  <2>1. PICK r \in Routes : store' = store /\ route' = r /\ Draws(r, store, filters)
    BY <1>2 DEF Navigate
  <2>2. store \in Stores
    BY DEF DiagramInv
  <2> QED BY <2>1, <2>2, DrawsKeeps DEF DiagramInv
<1>3. ASSUME NEW fl, NEW wasRead, Filter(fl, wasRead)
      PROVE  DiagramInv' /\ ColourIsKept /\ NoColourWasLeft
  <2>1. CASE wasRead
    <3>1. store' = store /\ route' = route /\ Draws(route, store, fl)
      BY <1>3, <2>1 DEF Filter
    <3>2. store \in Stores
      BY DEF DiagramInv
    <3> QED BY <3>1, <3>2, DrawsKeeps DEF DiagramInv
  <2>2. CASE ~wasRead
    BY <1>3, <2>2, UndrawnKeeps DEF Filter
  <2> QED BY <2>1, <2>2
<1>4. CASE OnFiltersModeUpdate
  BY <1>3, <1>4 DEF OnFiltersModeUpdate
<1>5. CASE OnFiltersSearchUpdate
  BY <1>3, <1>5 DEF OnFiltersSearchUpdate
<1>6. CASE \E list \in Lists : OnFiltersUpdated(list)
  BY <1>3, <1>6 DEF OnFiltersUpdated, Pick
<1>7. CASE OrderColumn
  BY <1>7, UndrawnKeeps DEF OrderColumn
<1>8. CASE ToggleFiltersVisibility
  BY <1>8, UndrawnKeeps DEF ToggleFiltersVisibility
<1>9. CASE UNCHANGED vars
  BY <1>9, UndrawnKeeps DEF vars
<1> QED BY <1>1, <1>2, <1>4, <1>5, <1>6, <1>7, <1>8, <1>9 DEF Next

(* An empty diagram to begin with.                                            *)
LEMMA InitDiagram == Init => DiagramInv
<1> SUFFICES ASSUME Init PROVE DiagramInv
  OBVIOUS
<1>1. store \in Stores /\ colours = FreshColours /\ drawn = NothingDrawn /\ model = NoModel
  BY DEF Init, Stores
<1>2. DrawnNodes = {} /\ ToSet(drawn.links) = {}
  BY <1>1 DEF DrawnNodes, NothingDrawn, ToSet
<1> QED BY <1>1, <1>2, FreshShown DEF DiagramInv, ModelFollowsData, NoModel

(* Whatever the store holds and is filtered for, however many groups there    *)
(* are for the colours of Diagram.vue, two groups drawn together have         *)
(* different colours or the default one, and the library's model has the      *)
(* nodes and links of the data, each link with both its ends.                 *)
THEOREM DiagramIsReadableHolds == Spec => []DiagramIsReadable
<1>1. DiagramInv => DiagramIsReadable
  BY DEF DiagramInv, DiagramIsReadable, ColoursTellGroupsApart, Shown, Holds
<1>2. DiagramInv /\ [Next]_vars => DiagramInv'
  BY NextDiagram
<1> QED BY <1>1, <1>2, InitDiagram, PTL DEF Spec

(* From one evaluation to the next a group that is drawn keeps its colour,    *)
(* and one is drawn without only when each was held by a group drawn then or  *)
(* just before.                                                               *)
THEOREM ColoursAreLastingHolds == Spec => ColoursAreLasting
<1>1. DiagramInv /\ [Next]_vars => DiagramInv' /\ [ColourIsKept /\ NoColourWasLeft]_vars
  BY NextDiagram
<1> QED BY <1>1, InitDiagram, PTL DEF Spec, ColoursAreLasting

-----------------------------------------------------------------------------
(* Units.                                                                     *)

Bases == {1000, 1024}
Tops  == {3, 4}

(* Each unit is worth so many of the one before.                              *)
LEMMA ScaledSteps ==
  ASSUME NEW v \in Nat, NEW base \in Bases
  PROVE  /\ Scaled(v, base)[0] = v
         /\ \A e \in 0 .. 4 : Scaled(v, base)[e] \in Nat
         /\ \A e \in 1 .. 4 : Scaled(v, base)[e] = Scaled(v, base)[e - 1] \div base
<1> DEFINE Body(g, e) == IF e = 0 THEN v ELSE g[e - 1] \div base
           s == CHOOSE g : g = [e \in 0 .. 4 |-> Body(g, e)]
           d1 == v \div base
           d2 == d1 \div base
           d3 == d2 \div base
           d4 == d3 \div base
           w == [e \in 0 .. 4 |-> IF e = 0 THEN v ELSE IF e = 1 THEN d1 ELSE IF e = 2 THEN d2
                                  ELSE IF e = 3 THEN d3 ELSE d4]
<1>1. w = [e \in 0 .. 4 |-> Body(w, e)]
  <2> HIDE DEF d1, d2, d3, d4
  <2>1. /\ w[0] = v /\ w[1] = d1 /\ w[2] = d2 /\ w[3] = d3 /\ w[4] = d4
    OBVIOUS
  <2>2. /\ d1 = v \div base /\ d2 = d1 \div base /\ d3 = d2 \div base /\ d4 = d3 \div base
    BY DEF d1, d2, d3, d4
  <2>3. \A e \in 0 .. 4 : e \in {0, 1, 2, 3, 4}
    OBVIOUS
  <2>4. \A e \in 0 .. 4 : w[e] = Body(w, e)
    <3> HIDE DEF w
    <3> QED BY <2>1, <2>2, <2>3
  <2> QED BY <2>4
<1>2. s = [e \in 0 .. 4 |-> Body(s, e)]
  <2> HIDE DEF w, Body
  <2> QED BY <1>1
<1>3. Scaled(v, base) = s
  BY DEF Scaled
<1> HIDE DEF s
<1>4. \A e \in 0 .. 4 : s[e] = Body(s, e)
  <2> HIDE DEF Body
  <2> QED BY <1>2
<1>5. s[0] = v /\ \A e \in 1 .. 4 : s[e] = s[e - 1] \div base
  BY <1>4
<1>6. \A n \in Nat : n \div base \in Nat
  BY DEF Bases
<1>7. s[0] \in Nat /\ s[1] \in Nat /\ s[2] \in Nat /\ s[3] \in Nat /\ s[4] \in Nat
  <2>1. /\ s[1] = s[0] \div base /\ s[2] = s[1] \div base /\ s[3] = s[2] \div base
        /\ s[4] = s[3] \div base /\ s[0] \in Nat
    BY <1>5
  <2> QED BY <1>6, <2>1
<1> QED BY <1>3, <1>5, <1>7

(* The exponent of a number is that of the greatest unit there is one of; one   *)
(* of the next, if there is any, is too much.                                  *)
LEMMA ExponentIs ==
  ASSUME NEW v \in Nat \ {0}, NEW base \in Bases, NEW top \in Tops
  PROVE  /\ Exponent(v, base, top) \in 0 .. top
         /\ Exponent(v, base, top) # top => Scaled(v, base)[Exponent(v, base, top)] < base
         /\ \A e \in 0 .. Exponent(v, base, top) : Scaled(v, base)[e] >= 1
<1> DEFINE s == Scaled(v, base)
           E == {e \in 0 .. top : s[e] >= 1}
           x == Exponent(v, base, top)
<1>1. /\ s[0] = v
      /\ \A e \in 0 .. 4 : s[e] \in Nat
      /\ \A e \in 1 .. 4 : s[e] = s[e - 1] \div base
  BY ScaledSteps
<1>2. x = Max(E)
  BY DEF Exponent
<1> HIDE DEF s, x
<1>3. 0 \in E /\ E \subseteq 0 .. top /\ top \in {3, 4}
  BY <1>1 DEF Tops
<1>4. \E m \in E : \A e \in E : m >= e
  <2> HIDE DEF E
  <2>1. E \subseteq {0, 1, 2, 3, 4}
    BY <1>3
  <2>2. CASE 4 \in E
    BY <2>1, <2>2
  <2>3. CASE 4 \notin E /\ 3 \in E
    BY <2>1, <2>3
  <2>4. CASE 4 \notin E /\ 3 \notin E /\ 2 \in E
    BY <2>1, <2>4
  <2>5. CASE 4 \notin E /\ 3 \notin E /\ 2 \notin E /\ 1 \in E
    BY <2>1, <2>5
  <2>6. CASE 4 \notin E /\ 3 \notin E /\ 2 \notin E /\ 1 \notin E
    BY <1>3, <2>1, <2>6
  <2> QED BY <2>2, <2>3, <2>4, <2>5, <2>6
<1>5. x \in E /\ \A e \in E : x >= e
  <2> HIDE DEF E
  <2> QED BY <1>2, <1>4 DEF Max
<1>6. x \in 0 .. top
  BY <1>5
<1>7. x # top => s[x] < base
  <2> SUFFICES ASSUME x # top PROVE s[x] < base
    OBVIOUS
  <2>1. x + 1 \in 1 .. 4 /\ x + 1 \in 0 .. top /\ (x + 1) - 1 = x
    BY <1>3, <1>6
  <2>2. ~(s[x + 1] >= 1) /\ s[x + 1] = s[x] \div base /\ s[x] \in Nat /\ s[x + 1] \in Nat
    BY <1>1, <1>5, <2>1
  <2>3. \A n \in Nat : n \div base = 0 => n < base
    BY DEF Bases
  <2> QED BY <2>2, <2>3
<1>8. \A e \in 0 .. 3 : s[e + 1] >= 1 => s[e] >= 1
  <2> TAKE e \in 0 .. 3
  <2>1. e + 1 \in 1 .. 4 /\ (e + 1) - 1 = e
    OBVIOUS
  <2>2. s[e + 1] = s[e] \div base /\ s[e] \in Nat
    BY <1>1, <2>1
  <2>3. 0 \div base = 0
    BY DEF Bases
  <2> QED BY <2>2, <2>3
<1>9. \A e \in 0 .. x : s[e] >= 1
  <2>1. x \in {0, 1, 2, 3, 4} /\ s[x] >= 1
    BY <1>3, <1>5, <1>6
  <2>2. /\ s[1] >= 1 => s[0] >= 1
        /\ s[2] >= 1 => s[1] >= 1
        /\ s[3] >= 1 => s[2] >= 1
        /\ s[4] >= 1 => s[3] >= 1
    BY <1>8
  <2>3. s[0] \in Nat /\ s[1] \in Nat /\ s[2] \in Nat /\ s[3] \in Nat /\ s[4] \in Nat
    BY <1>1
  <2> HIDE DEF E
  <2> QED BY <2>1, <2>2, <2>3
<1> QED BY <1>6, <1>7, <1>9 DEF s, x

(* The two ways of scaling.                                                   *)
Decimal(values) == FormatNumbers(3, values, FALSE)
Binary(values)  == FormatNumbers(4, values, TRUE)

(* What a label of one number says, and a label of two.                       *)
OneShown(v, label) ==
  IF v < 1 THEN label.unit = NoUnit
  ELSE /\ label.unit \in 0 .. 3
       /\ label.values[1] >= 1 /\ (label.values[1] < 1000 \/ label.unit = 3)

TwoShown(label) ==
  /\ label.unit \in 0 .. 4
  /\ Min(ToSet(label.values)) >= 1
  /\ Min(ToSet(label.values)) < 1024 \/ label.unit = 4

(* One number is shown in the greatest unit there is one of.                  *)
LEMMA FormatOne ==
  ASSUME NEW v \in Nat
  PROVE  OneShown(v, Decimal(<<v>>))
<1> DEFINE values == <<v>>
           x == Exponent(v, 1000, 3)
           E == {Exponent(values[i], 1000, 3) : i \in DOMAIN values}
<1> SUFFICES ASSUME NEW label, label = Decimal(values) PROVE OneShown(v, label)
  OBVIOUS
<1>1. DOMAIN values = {1} /\ values[1] = v
  OBVIOUS
<1>2. E = {x}
  <2> HIDE DEF x, values
  <2>1. Exponent(values[1], 1000, 3) = x
    BY <1>1 DEF x
  <2> QED BY <1>1, <2>1
<1>3. x \in Int
  <2>1. CASE v < 1
    BY <2>1 DEF Exponent, NoUnit
  <2>2. CASE v >= 1
    BY <2>2, ExponentIs DEF Bases, Tops
  <2> QED BY <2>1, <2>2
<1>4. Min(E) = x
  <2> HIDE DEF x
  <2> QED BY <1>2, <1>3 DEF Min
<1>5. /\ label.unit = x
      /\ x # NoUnit => label.values[1] = Scaled(v, 1000)[x]
  <2> DEFINE vs == [i \in DOMAIN values |->
                      IF Min(E) = NoUnit THEN Undefined ELSE Scaled(values[i], 1000)[Min(E)]]
  <2>1. label = [unit |-> Min(E), values |-> vs]
    BY DEF FormatNumbers, Decimal
  <2> HIDE DEF x, values, E
  <2>2. x # NoUnit => vs[1] = Scaled(v, 1000)[x]
    BY <1>1, <1>4
  <2> HIDE DEF vs
  <2> QED BY <1>4, <2>1, <2>2
<1>6. CASE v < 1
  BY <1>5, <1>6 DEF Exponent, OneShown
<1>7. CASE v >= 1
  <2>1. v \in Nat \ {0} /\ 1000 \in Bases /\ 3 \in Tops
    BY <1>7 DEF Bases, Tops
  <2>2. /\ x \in 0 .. 3
        /\ x # 3 => Scaled(v, 1000)[x] < 1000
        /\ \A e \in 0 .. x : Scaled(v, 1000)[e] >= 1
    BY <2>1, ExponentIs
  <2> HIDE DEF x, values
  <2>3. x # NoUnit /\ x \in 0 .. x
    BY <2>2 DEF NoUnit
  <2>4. label.unit \in 0 .. 3 /\ label.values[1] >= 1 /\ (label.values[1] < 1000 \/ label.unit = 3)
    BY <1>5, <2>2, <2>3
  <2> QED BY <1>7, <2>4 DEF OneShown, NoUnit
<1> QED BY <1>6, <1>7

(* Two are shown in the unit of the smallest, which may be the last there is.   *)
LEMMA FormatTwo ==
  ASSUME NEW v \in Nat \ {0}, NEW w \in Nat \ {0}
  PROVE  TwoShown(Binary(<<v, w>>))
<1> DEFINE values == <<v, w>>
           x == Exponent(v, 1024, 4)
           y == Exponent(w, 1024, 4)
           sv == Scaled(v, 1024)
           sw == Scaled(w, 1024)
           E == {Exponent(values[i], 1024, 4) : i \in DOMAIN values}
           m == Min(E)
<1> SUFFICES ASSUME NEW label, label = Binary(values) PROVE TwoShown(label)
  OBVIOUS
<1>1. DOMAIN values = {1, 2} /\ values[1] = v /\ values[2] = w
  OBVIOUS
<1>2. /\ x \in 0 .. 4
      /\ x # 4 => sv[x] < 1024
      /\ \A e \in 0 .. x : sv[e] >= 1
  BY ExponentIs DEF Bases, Tops
<1>3. /\ y \in 0 .. 4
      /\ y # 4 => sw[y] < 1024
      /\ \A e \in 0 .. y : sw[e] >= 1
  BY ExponentIs DEF Bases, Tops
<1>4. \A e \in 0 .. 4 : sv[e] \in Nat /\ sw[e] \in Nat
  BY ScaledSteps DEF Bases
<1>5. E = {x, y}
  <2> HIDE DEF values
  <2>1. E = {Exponent(values[1], 1024, 4), Exponent(values[2], 1024, 4)}
    BY <1>1
  <2> QED BY <1>1, <2>1
<1> DEFINE vs == [i \in DOMAIN values |->
                    IF m = NoUnit THEN Undefined ELSE Scaled(values[i], 1024)[m]]
<1>6. label = [unit |-> m, values |-> vs]
  BY DEF FormatNumbers, Binary
<1> HIDE DEF x, y, sv, sw, E, vs
<1>7. m \in {x, y} /\ m <= x /\ m <= y
  BY <1>2, <1>3, <1>5 DEF Min
<1> HIDE DEF m
<1>8. m \in 0 .. 4 /\ m \in 0 .. x /\ m \in 0 .. y /\ m # NoUnit
  BY <1>2, <1>3, <1>7 DEF NoUnit
<1>9. ToSet(label.values) = {sv[m], sw[m]}
  <2>1. DOMAIN vs = {1, 2} /\ vs[1] = Scaled(v, 1024)[m] /\ vs[2] = Scaled(w, 1024)[m]
    <3> HIDE DEF values
    <3> QED BY <1>1, <1>8 DEF vs
  <2>2. label.values = vs
    BY <1>6
  <2> QED BY <2>1, <2>2 DEF ToSet, sv, sw
<1>10. label.unit = m
  BY <1>6
<1> HIDE DEF values
<1> DEFINE least == Min({sv[m], sw[m]})
<1>11. least \in {sv[m], sw[m]} /\ least <= sv[m] /\ least <= sw[m]
  BY <1>4, <1>8 DEF Min
<1>12. least >= 1
  BY <1>2, <1>3, <1>8, <1>11
<1>13. m # 4 => least < 1024
  <2> SUFFICES ASSUME m # 4 PROVE least < 1024
    OBVIOUS
  <2>1. CASE m = x
    BY <1>2, <1>4, <1>8, <1>11, <2>1
  <2>2. CASE m = y
    BY <1>3, <1>4, <1>8, <1>11, <2>2
  <2> QED BY <1>7, <2>1, <2>2
<1> QED BY <1>8, <1>9, <1>10, <1>12, <1>13 DEF TwoShown

(* What the tables mounted are, and of what.                                  *)
TablesInv == store \in Stores /\ DOMAIN ordered = TablesOn(route, store)

LEMMA TablesStay == TablesInv /\ [Next]_vars => TablesInv'
<1> SUFFICES ASSUME TablesInv, [Next]_vars PROVE TablesInv'
  OBVIOUS
<1>1. CASE FlowChanges
  BY <1>1 DEF FlowChanges, TablesInv, Stores, Remount
<1>2. CASE Navigate
  BY <1>2 DEF Navigate, TablesInv, Remount
<1>3. CASE OrderColumn
  BY <1>3 DEF OrderColumn, TablesInv
<1>4. ASSUME UNCHANGED <<store, route, ordered>> PROVE TablesInv'
  BY <1>4 DEF TablesInv
<1>5. CASE OnFiltersModeUpdate
  BY <1>4, <1>5 DEF OnFiltersModeUpdate, Filter
<1>6. CASE OnFiltersSearchUpdate
  BY <1>4, <1>6 DEF OnFiltersSearchUpdate, Filter
<1>7. CASE \E list \in Lists : OnFiltersUpdated(list)
  BY <1>4, <1>7 DEF OnFiltersUpdated, Pick, Filter
<1>8. CASE ToggleFiltersVisibility
  BY <1>4, <1>8 DEF ToggleFiltersVisibility
<1>9. CASE UNCHANGED vars
  BY <1>4, <1>9 DEF vars
<1> QED BY <1>1, <1>2, <1>3, <1>5, <1>6, <1>7, <1>8, <1>9 DEF Next

(* The labels of what a store holds.                                          *)
LEMMA UnitsOfStores == TablesInv => UnitsFollowValues
<1> SUFFICES ASSUME TablesInv PROVE UnitsFollowValues
  OBVIOUS
<1>1. ASSUME NEW x \in ToSet(NodesOf(store)), NEW s \in ToSet(x.node.stats),
             s.unit \in {"Bps", "bps", "ns"}, s.value # Undefined
      PROVE  OneShown(s.value, FormatStat(s.value, s.unit))
  <2>1. x \in Xs(store)
    <3>1. NodesOf(store) \in Seq(Xs(store))
      BY PassingTyped DEF TablesInv
    <3> QED BY <3>1 DEF ToSet
  <2>2. PICK g \in ToSet(store.groups) : x \in {[group |-> g, node |-> n] : n \in ToSet(g.nodes)}
    BY <2>1 DEF Xs
  <2>2a. PICK n \in ToSet(g.nodes) : x = [group |-> g, node |-> n]
    BY <2>2
  <2>3. store \in Flows
    <3>1. store.groups # <<>>
      BY DEF ToSet
    <3> QED BY <3>1 DEF TablesInv, Stores
  <2>4. s.value \in Nat
    BY <1>1, <2>2a, <2>3, FlowsAssumption
  <2>5. CASE s.unit = "Bps"
    <3>1. FormatStat(s.value, s.unit) = Decimal(<<s.value * 8>>)
      BY <1>1, <2>5 DEF FormatStat, Decimal
    <3>2. s.value * 8 \in Nat /\ (s.value * 8 < 1 <=> s.value < 1)
      BY <2>4
    <3>3. OneShown(s.value * 8, Decimal(<<s.value * 8>>))
      BY <3>2, FormatOne
    <3> QED BY <3>1, <3>2, <3>3 DEF OneShown
  <2>6. CASE s.unit \in {"bps", "ns"}
    <3>1. FormatStat(s.value, s.unit) = Decimal(<<s.value>>)
      BY <1>1, <2>6 DEF FormatStat, Decimal
    <3> QED BY <2>4, <3>1, FormatOne
  <2> QED BY <1>1, <2>5, <2>6
<1>2. ASSUME "host" \in DOMAIN ordered, NEW r \in ToSet(HostTable(store.host[1]).rows)
      PROVE  TwoShown(r[MemoryColumn].label)
  <2> DEFINE host == store.host[1]
  <2>1. store \in Flows /\ store.host # <<>>
    BY <1>2 DEF TablesInv, TablesOn, Stores
  <2>2. {host.resident, host.virtual, host.used, host.memory} \subseteq Nat \ {0}
    BY <2>1, FlowsAssumption
  <2> DEFINE Memory(part, whole) == Binary(<<part, whole>>)
             Cells(type, cpu, part, whole, share) ==
               [id \in {TypeColumn, CpuColumn, MemoryColumn} |->
                 CASE id = TypeColumn -> [label |-> type, value |-> type]
                   [] id = CpuColumn  -> [label |-> cpu, value |-> cpu]
                   [] OTHER -> [label |-> Memory(part, whole), value |-> share]]
  <2>3. \/ r = Cells(1, host.process, host.resident, host.virtual, host.resident * host.memory)
        \/ r = Cells(2, host.total, host.used, host.memory, host.used * host.virtual)
    <3>1. HostTable(host).rows = <<Cells(1, host.process, host.resident, host.virtual, host.resident * host.memory),
                                   Cells(2, host.total, host.used, host.memory, host.used * host.virtual)>>
      BY DEF HostTable, Binary
    <3> HIDE DEF Cells
    <3> QED BY <1>2, <3>1 DEF ToSet
  <2>4. ASSUME NEW type, NEW cpu, NEW part, NEW whole, NEW share
        PROVE  Cells(type, cpu, part, whole, share)[MemoryColumn].label = Memory(part, whole)
    <3> HIDE DEF Memory
    <3> QED BY DEF TypeColumn, CpuColumn, MemoryColumn
  <2> HIDE DEF host, Cells
  <2>5. \/ r[MemoryColumn].label = Memory(host.resident, host.virtual)
        \/ r[MemoryColumn].label = Memory(host.used, host.memory)
    <3> HIDE DEF Memory
    <3> QED BY <2>3, <2>4
  <2>6. TwoShown(Memory(host.resident, host.virtual)) /\ TwoShown(Memory(host.used, host.memory))
    BY <2>2, FormatTwo
  <2> HIDE DEF Memory
  <2> QED BY <2>5, <2>6
<1> QED BY <1>1, <1>2 DEF UnitsFollowValues, OneShown, TwoShown

(* Whatever a flow measures and however large, a number is shown in the       *)
(* greatest unit there is one of, two numbers in that of the smallest, and a   *)
(* number under one without a unit (helper.ts, formatNumbers).                *)
THEOREM UnitsFollowValuesHolds == Spec => []UnitsFollowValues
<1>1. Init => TablesInv
  BY DEF Init, TablesInv, Stores, TablesOn
<1> QED BY <1>1, TablesStay, UnitsOfStores, PTL DEF Spec
=============================================================================
