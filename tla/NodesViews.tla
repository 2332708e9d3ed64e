------------------------------ MODULE NodesViews ------------------------------
(***************************************************************************)
(* What the monitor's web page shows: the home page, the nodes as a table  *)
(* or as a diagram, and the filters beside them (server/web/src/views and  *)
(* src/components).                                                        *)
(*                                                                         *)
(* The store outlives the pages: filters stay in force when the page that  *)
(* sets them is left, while its controls, the order of a table and the     *)
(* colours of a diagram start again when they are mounted.  A computed     *)
(* value is evaluated again after each change of what it reads, and only   *)
(* then: the diagram hands out colours as it is evaluated.                 *)
(*                                                                         *)
(* A group is a record [id, name, tags, nodes], a node [id, name, tags,    *)
(* stats], a stat [name, unit, value]; names and tags are numbers.         *)
(***************************************************************************)
EXTENDS TableView, Selection

CONSTANTS Flows,        \* what the store may hold: records [groups, connections, host]
          Searches,     \* texts one may search for; "" is none
          Found,        \* [Searches -> SUBSET names] that contain them
          NbColours,    \* length of fillColors
          MaxSteps      \* bound: steps of the user and of the flow

ASSUME ColoursAssumption == NbColours \in Nat

\* Lists are lists, ids count from 1 (flow.go), a value is a natural number when there
\* is one, and a process and its host use some memory (when psutil/stat.go can read it).
ASSUME FlowsAssumption == \A f \in Flows :
    /\ f.groups \in Seq(ToSet(f.groups))
    /\ f.connections \in Seq(ToSet(f.connections))
    /\ \A g \in ToSet(f.groups) :
          /\ g.id \in Nat \ {0} /\ g.nodes \in Seq(ToSet(g.nodes))
          /\ \A n \in ToSet(g.nodes) : /\ n.stats \in Seq(ToSet(n.stats))
                                      /\ \A s \in ToSet(n.stats) : s.value \in Nat \cup {Undefined}
    /\ f.host # <<>> =>
          {f.host[1].resident, f.host[1].virtual, f.host[1].used, f.host[1].memory} \subseteq Nat \ {0}

Colours == 1 .. NbColours
DefaultColour == 0
None == 0

GroupColumn == 1
NodeColumn  == 2
StatColumn(name) == 100 + name

Lists == {"groups", "nodes", "stats", "tags"}
Routes == {"home", "table", "diagram"}

VARIABLES
    store,      \* store.flow
    filters,    \* store.nodes.filters
    route,      \* the page shown
    controls,   \* [on, text, picks] of the switch, the input and the selects
    ordered,    \* [tables mounted -> their ordered columns]
    colours,    \* fillColors of the diagram mounted: [current, last]
    drawn,      \* the diagram's data: [nodes, links]
    model,      \* keys of the library's model: [nodes, links]
    steps,
    unseen      \* history: filters in force that the controls did not show when mounted
vars == <<store, filters, route, controls, ordered, colours, drawn, model, steps, unseen>>

---------------------------------------------------------------------------
(* Filters (types/store.ts).                                               *)

NoFilters == [lists |-> [l \in Lists |-> {}], search |-> "", mode |-> "and", visible |-> FALSE]

\* The answers of the filters that are in use.
Answers(fl, g, n) ==
    (IF fl.lists["groups"] # {} THEN {g.name \in fl.lists["groups"]} ELSE {}) \cup
    (IF fl.lists["nodes"] # {} THEN {n.name \in fl.lists["nodes"]} ELSE {}) \cup
    (IF fl.search # "" THEN {g.name \in Found[fl.search] \/ n.name \in Found[fl.search]} ELSE {}) \cup
    (IF fl.lists["tags"] # {} THEN {fl.lists["tags"] \cap (g.tags \cup n.tags) # {}} ELSE {})

HasNode(fl, g, n) ==
    /\ fl.mode = "and" => FALSE \notin Answers(fl, g, n)
    /\ fl.mode = "or" /\ Answers(fl, g, n) # {} => TRUE \in Answers(fl, g, n)

\* With one filter only, its answer counts in either mode.
HasStat(fl, s, emptyValue) ==
    IF fl.lists["stats"] = {} THEN emptyValue ELSE s.name \in fl.lists["stats"]

\* The nodes that pass, with their group, in the order of the store.
NodesOf(f) == FlattenSeq([i \in DOMAIN f.groups |->
    [j \in DOMAIN f.groups[i].nodes |-> [group |-> f.groups[i], node |-> f.groups[i].nodes[j]]]])
Passing(f, fl) == Selected(NodesOf(f), {x \in ToSet(NodesOf(f)) : HasNode(fl, x.group, x.node)})

---------------------------------------------------------------------------
(* The table of nodes (views/nodes/Table.vue).                             *)

StatsPassing(fl, n) == SelectSeq(n.stats, LAMBDA s : HasStat(fl, s, TRUE))

Row(fl, x) ==
    LET stats == StatsPassing(fl, x.node)
        names == {stats[i].name : i \in DOMAIN stats}
        Cell(name) == LET s == Last(SelectSeq(stats, LAMBDA y : y.name = name))
                      IN  [label |-> FormatStat(s.value, s.unit), value |-> s.value]
    IN  [id \in {GroupColumn, NodeColumn} \cup {StatColumn(name) : name \in names} |->
            IF id = GroupColumn THEN [label |-> x.group.name, value |-> x.group.name]
            ELSE IF id = NodeColumn THEN [label |-> x.node.name, value |-> x.node.name]
            ELSE Cell(id - 100)]

\* The names of stats in the order they are met, then by how many cells they fill.
StatNames(fl, passing) ==
    LET met   == FlattenSeq([i \in DOMAIN passing |->
                     [j \in DOMAIN StatsPassing(fl, passing[i].node) |-> StatsPassing(fl, passing[i].node)[j].name]])
        Count(name) == Len(SelectSeq(met, LAMBDA m : m = name))
        First(name) == SelectInSeq(met, LAMBDA m : m = name)
    IN  SortSeq(SetToSeq(ToSet(met)), LAMBDA a, b :
            Count(a) > Count(b) \/ (Count(a) = Count(b) /\ First(a) < First(b)))

NodesTable(f, fl) ==
    LET passing == Passing(f, fl)
        names   == StatNames(fl, passing)
    IN  [columns |->
            << [id |-> GroupColumn, order |-> "asc", sticky |-> TRUE, mergeable |-> TRUE],
               [id |-> NodeColumn, order |-> "asc", sticky |-> TRUE, mergeable |-> FALSE] >> \o
            [i \in DOMAIN names |-> [id |-> StatColumn(names[i]), order |-> "none",
                                     sticky |-> FALSE, mergeable |-> FALSE]],
         rows |-> [i \in DOMAIN passing |-> Row(fl, passing[i])]]

---------------------------------------------------------------------------
(* The tables of the home page (views/home/Page.vue).                      *)

TypeColumn == 1
CpuColumn  == 2
MemoryColumn == 3
Plain(id, order) == [id |-> id, order |-> order, sticky |-> FALSE, mergeable |-> FALSE]

\* host is [process, total, resident, virtual, used, memory, cpus]; one row for the
\* process, one for the host.  A cell of memory shows two numbers in one unit, and the
\* order is that of their quotients, over the denominator the two rows have in common.
HostTable(host) ==
    LET HostRow(type, cpu, part, whole, share) ==
            [id \in {TypeColumn, CpuColumn, MemoryColumn} |->
                CASE id = TypeColumn -> [label |-> type, value |-> type]
                  [] id = CpuColumn  -> [label |-> cpu, value |-> cpu]
                  [] OTHER -> [label |-> FormatNumbers(4, <<part, whole>>, TRUE), value |-> share]]
    IN  [columns |-> <<Plain(TypeColumn, "asc"), Plain(CpuColumn, "none"), Plain(MemoryColumn, "none")>>,
         rows |-> <<HostRow(1, host.process, host.resident, host.virtual, host.resident * host.memory),
                    HostRow(2, host.total, host.used, host.memory, host.used * host.virtual)>>]

CpusTable(host) ==
    [columns |-> <<Plain(TypeColumn, "asc"), Plain(CpuColumn, "none")>>,
     rows |-> [i \in DOMAIN host.cpus |->
        TypeColumn :> [label |-> i, value |-> i] @@
        CpuColumn :> [label |-> host.cpus[i], value |-> host.cpus[i]]]]

\* The tables on a page.  The one of nodes needs a group, those of the host its usage.
TablesOn(r, f) ==
    (IF r = "table" /\ f.groups # <<>> THEN {"nodes"} ELSE {}) \cup
    (IF r = "home" /\ f.host # <<>> THEN {"host", "cpus"} ELSE {})

TableOf(name, f, fl) ==
    CASE name = "nodes" -> NodesTable(f, fl)
      [] name = "host"  -> HostTable(f.host[1])
      [] name = "cpus"  -> CpusTable(f.host[1])

\* A table that is mounted starts with the order its columns ask for; one that stays
\* keeps its own.
Remount(before, r, f, fl) ==
    [name \in TablesOn(r, f) |->
        IF name \in DOMAIN before THEN before[name] ELSE OrderAtMount(TableOf(name, f, fl).columns)]

---------------------------------------------------------------------------
(* The diagram (views/nodes/Diagram.vue and components/Diagram.vue).       *)

FreshColours == [c \in Colours |-> [current |-> None, last |-> None]]

\* Mutants: a colour in use is given again; the first free one is.
ColourForAnyone(cs, g) ==
    IF {c \in Colours : cs[c].last = g} # {} THEN Min({c \in Colours : cs[c].last = g}) ELSE 1
ColourForFirstFree(cs, g) ==
    LET usable == {c \in Colours : cs[c].current \in {None, g}}
    IN  IF usable # {} THEN Min(usable) ELSE DefaultColour

\* The colour of a group: its own, else the one it had last, else the first free one.
ColourFor(cs, g) ==
    LET usable == {c \in Colours : cs[c].current \in {None, g}}
        own    == {c \in usable : cs[c].current = g}
        had    == {c \in usable : cs[c].last = g}
    IN  IF own # {} THEN Min(own) ELSE IF had # {} THEN Min(had)
        ELSE IF usable # {} THEN Min(usable) ELSE DefaultColour

\* One node: its group takes the colour; a stat shows when it is filtered for.
Paint(acc, x, fl) ==
    LET c == ColourFor(acc.colours, x.group.id)
    IN  [colours |-> IF c = DefaultColour THEN acc.colours
                     ELSE [acc.colours EXCEPT ![c] = [current |-> x.group.id, last |-> x.group.id]],
         nodes |-> Append(acc.nodes, [id |-> x.node.id, group |-> x.group.id, colour |-> c,
                     stats |-> {s.name : s \in {y \in ToSet(x.node.stats) : HasStat(fl, y, FALSE)}}])]

\* The nodes one after the other.
Painted(cs, passing, fl) ==
    LET painted[i \in 0 .. Len(passing)] ==
            IF i = 0 THEN [colours |-> cs, nodes |-> <<>>] ELSE Paint(painted[i - 1], passing[i], fl)
    IN  painted[Len(passing)]

\* Colours of groups that are not drawn are given back, after all are handed out.
GiveBack(cs, groups) ==
    [c \in Colours |-> IF cs[c].current \notin groups THEN [cs[c] EXCEPT !.current = None] ELSE cs[c]]

\* The computed data of the diagram.
Evaluate(cs, f, fl) ==
    LET painted == Painted(cs, Passing(f, fl), fl)
        ids     == {painted.nodes[i].id : i \in DOMAIN painted.nodes}
        groups  == {painted.nodes[i].group : i \in DOMAIN painted.nodes}
    IN  [colours |-> GiveBack(painted.colours, groups),
         nodes |-> painted.nodes,
         links |-> Selected(f.connections, {c \in ToSet(f.connections) : c[1] \in ids /\ c[2] \in ids})]

NothingDrawn == [nodes |-> <<>>, links |-> <<>>]
NoModel == [nodes |-> {}, links |-> {}]

\* refresh: what was drawn leaves the model by its keys, what is drawn enters it.
Refresh(m, before, now) ==
    [nodes |-> (m.nodes \ {before.nodes[i].id : i \in DOMAIN before.nodes})
                  \cup {now.nodes[i].id : i \in DOMAIN now.nodes},
     links |-> (m.links \ ToSet(before.links)) \cup ToSet(now.links)]

\* The diagram after a change of what it reads: on its page it is evaluated again,
\* from nothing when the page was another one; elsewhere there is none.
Draws(r, f, fl) ==
    LET stays == route = "diagram"
        now   == Evaluate(IF stays THEN colours ELSE FreshColours, f, fl)
    IN  IF r = "diagram"
        THEN /\ colours' = now.colours
             /\ drawn' = [nodes |-> now.nodes, links |-> now.links]
             /\ model' = Refresh(IF stays THEN model ELSE NoModel,
                                 IF stays THEN drawn ELSE NothingDrawn, now)
        ELSE colours' = FreshColours /\ drawn' = NothingDrawn /\ model' = NoModel

---------------------------------------------------------------------------
(* The controls of the filters (views/nodes/Filters.vue).                  *)

\* The options a select offers: the names there are.
Options(list, f) ==
    LET ns == ToSet(NodesOf(f))
    IN  CASE list = "groups" -> {g.name : g \in ToSet(f.groups)}
          [] list = "nodes"  -> {x.node.name : x \in ns}
          [] list = "stats"  -> UNION {{s.name : s \in ToSet(x.node.stats)} : x \in ns}
          [] list = "tags"   -> UNION ({g.tags : g \in ToSet(f.groups)} \cup {x.node.tags : x \in ns})

\* A select starts with the options that are selected then; the input, which is
\* given no value, with none; the switch with the first of its two items.
ControlsAtMount(f, fl) ==
    [on |-> FALSE, text |-> "", picks |-> [l \in Lists |-> fl.lists[l] \cap Options(l, f)]]

\* The filters page is kept between the table and the diagram.
OnNodes(r) == r # "home"
NoControls == [on |-> FALSE, text |-> "", picks |-> [l \in Lists |-> {}]]

Unseen(f, fl) == [mode |-> fl.mode = "or", text |-> fl.search,
                  picks |-> [l \in Lists |-> fl.lists[l] \ Options(l, f)]]
NothingUnseen == [mode |-> FALSE, text |-> "", picks |-> [l \in Lists |-> {}]]

---------------------------------------------------------------------------
(* Steps.                                                                  *)

Moves == steps < MaxSteps /\ steps' = steps + 1

\* A delta, a catch-up, or a line of a replay: the store holds something else, or
\* the same with new values.
FlowChanges == \E f \in Flows :
    /\ Moves /\ store' = f
    /\ ordered' = Remount(ordered, route, f, filters)
    /\ Draws(route, f, filters)
    /\ UNCHANGED <<filters, route, controls, unseen>>

Navigate == \E r \in Routes \ {route} :
    /\ Moves /\ route' = r
    /\ ordered' = Remount(ordered, r, store, filters)
    /\ Draws(r, store, filters)
    /\ IF OnNodes(r) = OnNodes(route) THEN UNCHANGED <<controls, unseen>>
       ELSE IF OnNodes(r)
       THEN controls' = ControlsAtMount(store, filters) /\ unseen' = Unseen(store, filters)
       ELSE controls' = NoControls /\ unseen' = NothingUnseen
    /\ UNCHANGED <<store, filters>>

\* What an evaluation of the diagram reads: the mode when some filter is in use, the
\* filtered stats when a node that passes has any (types/store.ts:58-80).
ReadsStats(f, fl) == \E x \in ToSet(Passing(f, fl)) : x.node.stats # <<>>
ReadsMode(f, fl) ==
    \/ \E x \in ToSet(NodesOf(f)) : Answers(fl, x.group, x.node) # {}
    \/ fl.lists["stats"] # {} /\ ReadsStats(f, fl)

\* A filter is set from the control it has; the diagram is evaluated again if it read
\* what is set.  A text that is what it was is no change, a list always is another one.
Filter(fl, wasRead) ==
    /\ OnNodes(route) /\ Moves
    /\ filters' = fl
    /\ IF wasRead THEN Draws(route, store, fl) ELSE UNCHANGED <<colours, drawn, model>>
    /\ UNCHANGED <<store, route, ordered>>

OnFiltersModeUpdate ==
    /\ controls' = [controls EXCEPT !.on = ~@]
    /\ LET mode == IF controls.on THEN "and" ELSE "or"
       IN  Filter([filters EXCEPT !.mode = mode], mode # filters.mode /\ ReadsMode(store, filters))
    /\ unseen' = [unseen EXCEPT !.mode = FALSE]

OnFiltersSearchUpdate == \E text \in Searches :
    /\ text # controls.text
    /\ controls' = [controls EXCEPT !.text = text]
    /\ Filter([filters EXCEPT !.search = text], text # filters.search)
    /\ unseen' = [unseen EXCEPT !.text = ""]

\* Mutant: what is picked is added to what was.
PickMore(list, picked) ==
    /\ controls' = [controls EXCEPT !.picks[list] = picked]
    /\ Filter([filters EXCEPT !.lists[list] = @ \cup picked], list = "stats" => ReadsStats(store, filters))
    /\ unseen' = [unseen EXCEPT !.picks[list] = {}]

\* A select tells all that is picked, options that are gone as well.
Pick(list, picked) ==
    /\ controls' = [controls EXCEPT !.picks[list] = picked]
    /\ Filter([filters EXCEPT !.lists[list] = picked], list = "stats" => ReadsStats(store, filters))
    /\ unseen' = [unseen EXCEPT !.picks[list] = {}]

OnFiltersUpdated(list) ==
    \/ \E o \in Options(list, store) \ controls.picks[list] : Pick(list, controls.picks[list] \cup {o})
    \/ \E o \in controls.picks[list] : Pick(list, controls.picks[list] \ {o})

ToggleFiltersVisibility ==
    /\ OnNodes(route) /\ Moves
    /\ filters' = [filters EXCEPT !.visible = ~@]
    /\ UNCHANGED <<store, route, controls, ordered, colours, drawn, model, unseen>>

\* A click on the title of a column.
OrderColumn == \E name \in DOMAIN ordered :
    \E c \in ToSet(TableOf(name, store, filters).columns) :
        /\ Moves
        /\ ordered' = [ordered EXCEPT ![name] = OnOrderColumn(@, c.id)]
        /\ UNCHANGED <<store, filters, route, controls, colours, drawn, model, unseen>>

Init == /\ store = [groups |-> <<>>, connections |-> <<>>, host |-> <<>>]
        /\ filters = NoFilters
        /\ route \in Routes
        /\ controls = NoControls
        /\ ordered = <<>>
        /\ colours = FreshColours
        /\ drawn = NothingDrawn
        /\ model = NoModel
        /\ steps = 0
        /\ unseen = NothingUnseen

Next == \/ FlowChanges \/ Navigate \/ OrderColumn
        \/ OnFiltersModeUpdate \/ OnFiltersSearchUpdate
        \/ (\E list \in Lists : OnFiltersUpdated(list))
        \/ ToggleFiltersVisibility

Spec == Init /\ [][Next]_vars

---------------------------------------------------------------------------
(* What the controls say.                                                  *)

\* The controls never show a filter that is not in force, and what is in force
\* without being shown is what the page found when it was opened: a mode, a text, or
\* names that were gone then (Switch.vue:17, TextInput.vue:12, MultiSelect.vue:13
\* start without them).
ControlsTellTheFilters ==
    OnNodes(route) =>
        /\ controls.on => filters.mode = "or"
        /\ filters.mode = "or" => controls.on \/ unseen.mode
        /\ filters.search \in {controls.text, unseen.text}
        /\ controls.text # "" => filters.search = controls.text
        /\ \A l \in Lists : /\ controls.picks[l] \subseteq filters.lists[l]
                            /\ filters.lists[l] \ controls.picks[l] \subseteq unseen.picks[l]

---------------------------------------------------------------------------
(* What the tables show.                                                   *)

Sum(cells) == FoldLeft(LAMBDA n, c : n + c.rowspan, 0, cells)

\* In every column of every table the cells follow one another, cover each row once,
\* and a merged cell says what each of its rows says, however the rows are ordered.
RowsAreTiled ==
    \A name \in DOMAIN ordered :
        LET table == TableOf(name, store, filters)
            rows  == SortRows(table.rows, ordered[name])
            parts == Tables(table, ordered[name])
        IN  \A p \in DOMAIN parts : \A c \in DOMAIN parts[p] :
                LET cells == parts[p][c].cells IN
                /\ Sum(cells) = Len(rows)
                /\ \A k \in DOMAIN cells :
                      /\ cells[k].first = 1 + Sum(SubSeq(cells, 1, k - 1))
                      /\ \A i \in cells[k].first .. cells[k].first + cells[k].rowspan - 1 :
                            LabelOf(rows[i], parts[p][c].id) = cells[k].label

\* A table ordered by group first, either way, has one cell for each name of a group.
OneCellPerGroup ==
    "nodes" \in DOMAIN ordered /\ ordered["nodes"] # <<>> =>
        (Head(ordered["nodes"]).id = GroupColumn =>
            LET cells == Tables(NodesTable(store, filters), ordered["nodes"])[1][1].cells
            IN  \A i, j \in DOMAIN cells : cells[i].label = cells[j].label => i = j)

\* Both, of every table there is.
TablesShowTheirRows == RowsAreTiled /\ OneCellPerGroup

\* A scaled number keeps a whole part and stays under the next unit; a number under 1
\* - a rate when nothing passes - gets no unit at all (helper.ts:37).
UnitsFollowValues ==
    /\ \A x \in ToSet(NodesOf(store)) : \A s \in ToSet(x.node.stats) :
          LET label == FormatStat(s.value, s.unit)
          IN  s.unit \in {"Bps", "bps", "ns"} /\ s.value # Undefined =>
                 IF s.value < 1 THEN label.unit = NoUnit
                 ELSE /\ label.unit \in 0 .. 3
                      /\ label.values[1] >= 1 /\ (label.values[1] < 1000 \/ label.unit = 3)
    /\ \A name \in DOMAIN ordered : name = "host" =>
          \A r \in ToSet(HostTable(store.host[1]).rows) :
             LET label == r[MemoryColumn].label
             IN  /\ label.unit \in 0 .. 4
                 /\ Min(ToSet(label.values)) >= 1
                 /\ Min(ToSet(label.values)) < 1024 \/ label.unit = 4

---------------------------------------------------------------------------
(* What the diagram shows.                                                 *)

DrawnNodes == ToSet(drawn.nodes)

\* Two groups drawn together never have the same colour, but for the one that means
\* that there was none left; the nodes of a group have one colour.
ColoursTellGroupsApart ==
    \A m, n \in DrawnNodes :
        /\ m.group = n.group => m.colour = n.colour
        /\ m.colour = n.colour /\ m.colour # DefaultColour => m.group = n.group

\* The model of the library holds what is drawn and nothing else, and every link of
\* it has both of its nodes.
ModelFollowsData ==
    /\ model.nodes = {n.id : n \in DrawnNodes}
    /\ model.links = ToSet(drawn.links)
    /\ \A l \in model.links : l[1] \in model.nodes /\ l[2] \in model.nodes

\* Both: what the canvas shows can be read.
DiagramIsReadable == ColoursTellGroupsApart /\ ModelFollowsData

\* As long as a group is drawn it keeps its colour, whatever else comes and goes.
ColourIsKept ==
    route = "diagram" /\ route' = "diagram" =>
        \A m \in DrawnNodes, n \in ToSet(drawn'.nodes) :
            m.group = n.group /\ m.colour # DefaultColour => n.colour = m.colour

\* A group is newly drawn without a colour of its own only when each colour was held by a
\* group drawn now or just before: colours are given back too late for the groups
\* that come as others go.
NoColourWasLeft ==
    drawn' # drawn =>
        \A n \in ToSet(drawn'.nodes) : n.colour = DefaultColour =>
            Colours \subseteq {m.colour : m \in DrawnNodes \cup ToSet(drawn'.nodes)}

\* Both, from one evaluation of the diagram to the next.
ColoursAreLasting == [][ColourIsKept /\ NoColourWasLeft]_vars
=============================================================================
