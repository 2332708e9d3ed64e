----------------------------- MODULE ReplayWorker -----------------------------
(***************************************************************************)
(* The web worker that reads a recording and walks through its lines       *)
(* (server/web/public/worker/replay.js).  It answers the page's messages   *)
(* one at a time, and reads files in between: what a file holds arrives    *)
(* with the load event, after messages that came later.                    *)
(*                                                                         *)
(* A recording is a sequence of lines [at, parses, delta], its first line  *)
(* (the flow's name) left out.  Lines are numbered from 1, so that NoIdx   *)
(* stands for the null index.  Logs and the progress between two halves of *)
(* a load are left out.                                                    *)
(***************************************************************************)
EXTENDS FlowMirror, Selection

CONSTANT Recordings   \* the files a user may open

\* Each is a list of lines, that parse or do not.
ASSUME RecordingsAssumption == \A file \in Recordings :
    file \in Seq(ToSet(file)) /\ \A line \in ToSet(file) : line.parses \in BOOLEAN

NoIdx == 0

VARIABLES
    worker,     \* what replay.js keeps in this.state
    toWorker,   \* messages of the page, not handled yet
    loading,    \* files being read
    toPage      \* messages of the worker, not handled yet
workerVars == <<worker, toWorker, loading, toPage>>

---------------------------------------------------------------------------
(* The state, and its resets.                                              *)

\* resetStateCurrent: what was last sent to the page.
NoCurrent == [groups |-> {}, nodes |-> {}, stats |-> {}, idx |-> NoIdx]

\* resetState.  The maps of the code go from ids to what the lines say of them.
NoRecording == [groups |-> {}, nodes |-> <<>>, stats |-> <<>>, values |-> <<>>,
                current |-> NoCurrent]

\* clear does nothing while no line has been shown.
Cleared(w) == IF w.current.idx = NoIdx THEN w ELSE NoRecording
\* Mutant: the page is not told.
NoClearedMessage(w) == <<>>
ClearedMessage(w) == IF w.current.idx = NoIdx THEN <<>> ELSE <<[name |-> "cleared"]>>

---------------------------------------------------------------------------
(* Reading a line.                                                         *)

\* Unlike the page, the worker drops the very connection that is named.
Cut(connections, c) ==
    Selected(connections, {v \in ToSet(connections) : v[1] # c[1] \/ v[2] # c[2]})

\* A map with the records of a list, by id, the later over the earlier.
Learn(map, list, Value(_)) ==
    FoldLeft(LAMBDA m, r : (r.id :> Value(r)) @@ m, map, list)

\* What is known of nodes, stats and connections after a line.
NodesAfter(w, dl) == Learn(w.nodes, dl.startedNodes, LAMBDA n : n.group)
StatsAfter(w, dl) == Learn(w.stats, dl.newStats, LAMBDA s : s.node)
LinksAfter(w, dl) ==
    LET before == IF w.values = <<>> THEN <<>> ELSE Last(w.values).connections
    IN  FoldLeft(Cut, before \o dl.connected, dl.disconnected)

\* onFileLoad, for one line: a line that does not parse is skipped.
ReadLine(w, line) ==
    LET dl == line.delta
    IN  IF ~line.parses THEN w ELSE
        [w EXCEPT
            !.groups = @ \cup ToSet(dl.startedGroups),
            !.nodes  = NodesAfter(w, dl),
            !.stats  = StatsAfter(w, dl),
            !.values = Append(@, [at |-> line.at, connections |-> LinksAfter(w, dl), stats |-> dl.values])]

\* The lines of a file, one after the other.
ReadFile(w, file) ==
    LET read[i \in 0 .. Len(file)] == IF i = 0 THEN w ELSE ReadLine(read[i - 1], file[i])
    IN  read[Len(file)]

AtsOf(file) == LET read == Selected(file, {line \in ToSet(file) : line.parses})
               IN  [i \in DOMAIN read |-> read[i].at]

---------------------------------------------------------------------------
(* The delta that leads to a line.                                         *)

InRange(w, idx) == idx \in DOMAIN w.values
Ascending(S) == SetToSortSeq(S, <)

\* The elements of a list that are not known yet, once each.
Fresh(list, known) ==
    FoldLeft(LAMBDA acc, x : IF x \in known \cup ToSet(acc) THEN acc ELSE Append(acc, x),
             <<>>, list)

\* buildDelta, for an index in range: a group or a node shows on a line when one
\* of its stats has a value there.
BuildDelta(w, idx) ==
    LET now    == w.values[idx]
        before == IF w.current.idx = NoIdx THEN <<>> ELSE w.values[w.current.idx].connections
        stats  == Selected(Ascending(DOMAIN now.stats), DOMAIN w.stats)
        ofNode == Selected(stats, {s \in ToSet(stats) : w.stats[s] \in DOMAIN w.nodes})
        nodes  == [i \in DOMAIN ofNode |-> w.stats[ofNode[i]]]
        placed == Selected(nodes, {n \in ToSet(nodes) : w.nodes[n] \in w.groups})
        groups == [i \in DOMAIN placed |-> w.nodes[placed[i]]]
        newStats   == Fresh(stats, w.current.stats)
        newNodes   == Fresh(nodes, w.current.nodes)
        doneGroups == w.current.groups \ ToSet(groups)
        doneNodes  == w.current.nodes \ ToSet(nodes)
    IN  [delta |->
            [connected     |-> Selected(now.connections, ToSet(now.connections) \ ToSet(before)),
             disconnected  |-> Selected(before, ToSet(before) \ ToSet(now.connections)),
             startedGroups |-> Fresh(groups, w.current.groups),
             startedNodes  |-> [i \in DOMAIN newNodes |-> [id |-> newNodes[i], group |-> w.nodes[newNodes[i]]]],
             doneGroups    |-> Ascending(doneGroups),
             doneNodes     |-> Ascending(doneNodes),
             newStats      |-> [i \in DOMAIN newStats |-> [id |-> newStats[i], node |-> w.stats[newStats[i]]]],
             values        |-> now.stats],
         worker |->
            [w EXCEPT !.current =
                [groups |-> ToSet(groups),
                 nodes  |-> ToSet(nodes),
                 stats  |-> {s \in @.stats \cup ToSet(stats) : w.stats[s] \notin doneNodes},
                 idx    |-> idx]]]

NextIdx(w)     == w.current.idx + 1
PreviousIdx(w) == IF w.current.idx = NoIdx THEN 1 ELSE w.current.idx - 1

DeltaMessage(w, idx, clear) == [name |-> "delta", clear |-> clear, idx |-> idx,
                                delta |-> BuildDelta(w, idx).delta]

---------------------------------------------------------------------------
(* onmessage, and the file reader's load event.                            *)

Receives(name) == /\ toWorker # <<>> /\ Head(toWorker).name = name
                  /\ toWorker' = Tail(toWorker)

\* Mutant: the index moves before it is looked at.
GoToAnyway(w, idx, clear) ==
    IF InRange(w, idx)
    THEN /\ worker' = BuildDelta(w, idx).worker
         /\ toPage' = Append(toPage, DeltaMessage(w, idx, clear))
    ELSE /\ worker' = [w EXCEPT !.current.idx = idx]
         /\ UNCHANGED toPage

\* Goes to a line of w when there is one, and says so to the page.
GoTo(w, idx, clear) ==
    IF InRange(w, idx)
    THEN /\ worker' = BuildDelta(w, idx).worker
         /\ toPage' = Append(toPage, DeltaMessage(w, idx, clear))
    ELSE /\ worker' = w
         /\ UNCHANGED toPage

WorkerClear == /\ Receives("clear")
               /\ worker' = Cleared(worker)
               /\ toPage' = toPage \o ClearedMessage(worker)
               /\ UNCHANGED loading

\* open clears first, then asks for the text of the file.
WorkerOpen == /\ Receives("open")
              /\ worker' = Cleared(worker)
              /\ toPage' = Append(toPage \o ClearedMessage(worker), [name |-> "progress", elapsed |-> 0])
              /\ loading' = loading \cup {Head(toWorker).file}

WorkerNext     == Receives("next") /\ GoTo(worker, NextIdx(worker), FALSE) /\ UNCHANGED loading
WorkerPrevious == Receives("previous") /\ GoTo(worker, PreviousIdx(worker), FALSE) /\ UNCHANGED loading

\* Mutant: what was sent is not forgotten, though the page is emptied.
WorkerSeekOnTop == /\ Receives("seek")
                   /\ GoTo(worker, Head(toWorker).idx, TRUE)
                   /\ UNCHANGED loading

\* seek forgets what it had sent before it looks at the index.
WorkerSeek == /\ Receives("seek")
              /\ GoTo([worker EXCEPT !.current = NoCurrent], Head(toWorker).idx, TRUE)
              /\ UNCHANGED loading

\* The load event: every line is read on top of what was read before, then the
\* next line is shown, if there is one.
WorkerLoad(file) ==
    /\ file \in loading
    /\ loading' = loading \ {file}
    /\ LET w    == ReadFile(worker, file)
           next == NextIdx(w)
           built == IF InRange(w, next) THEN BuildDelta(w, next)
                    ELSE [delta |-> NoDelta, worker |-> w]
       IN  /\ worker' = built.worker
           /\ toPage' = toPage \o
                << [name |-> "progress", elapsed |-> 50], [name |-> "progress", elapsed |-> 100],
                   [name |-> "opened", ats |-> AtsOf(file), delta |-> built.delta,
                    idx |-> built.worker.current.idx] >>
    /\ UNCHANGED toWorker

WorkerInit == worker = NoRecording /\ toWorker = <<>> /\ loading = {} /\ toPage = <<>>
WorkerHandles == WorkerClear \/ WorkerOpen \/ WorkerNext \/ WorkerPrevious \/ WorkerSeek
WorkerStep == WorkerHandles \/ \E file \in Recordings : WorkerLoad(file)
=============================================================================
