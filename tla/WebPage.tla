------------------------------- MODULE WebPage -------------------------------
(***************************************************************************)
(* A page of the monitor, live and in replay: the services of              *)
(* server/web/src/services and the header that drives them, next to the    *)
(* monitorer whose deltas reach it (through the HTTP catch-up, and through *)
(* a websocket) and the worker that replays recordings.                    *)
(*                                                                         *)
(* Every asynchronous call is cut where the code awaits: a catch-up is     *)
(* asked, answered by the server and received in three steps, and anything *)
(* may happen in between.  Titles, names and logs are left out.            *)
(***************************************************************************)
EXTENDS Monitorer, ReplayWorker

\* Programs, of Monitorer, have a budget too: a record [mounts, drops, fails,
\* opens, clicks] that bounds what the user, the network and the server do, and a
\* configuration [api, push]: which of the two addresses config.json gives.
\* App.vue is mounted once, if the page is opened.
ASSUME BudgetAssumption == \A p \in Programs :
    p.budget \in [mounts : {0, 1}, drops : Nat, fails : Nat, opens : Nat, clicks : Nat]

NoReplayIdx == -1        \* replay.currentIdx is undefined; 0 is null, n the n-th line
NoProgress  == -1

VARIABLES
    flow,       \* store.flow
    replay,     \* store.replay: [ats, idx, progress, done]
    requests,   \* catch-ups under way: a sequence of [answered, delta]
    config,     \* [api, push]: whether config.json has the address
    socket,     \* of PushService: "waiting" for config.json, "none", "closed" or "open"
    pushes,     \* deltas sent to the page, not received yet
    budget,     \* what the user, the network and the server may still do
    trouble     \* history: what happened that may leave the live page wrong
pageVars == <<flow, replay, requests, config, socket, pushes, budget, trouble>>
vars == <<monitorerVars, workerVars, pageVars>>

NoReplay == [ats |-> <<>>, idx |-> NoReplayIdx, progress |-> NoProgress, done |-> FALSE]

Spend(what) == /\ budget[what] > 0
               /\ budget' = [budget EXCEPT ![what] = @ - 1]

---------------------------------------------------------------------------
(* History: the ways a live page may come to differ from the flow.         *)

\* A delta that names nodes or stats whose group or node the page has not
\* heard of: they are dropped for good.
Split(f, dl) ==
    LET groups == GroupsShown(f) \cup ToSet(dl.startedGroups)
        nodes  == NodesShown(f) \cup {n.id : n \in ToSet(dl.startedNodes)}
    IN  \/ \E n \in ToSet(dl.startedNodes) : n.group \notin groups
        \/ \E s \in ToSet(dl.newStats) : s.node # NoNode /\ s.node \notin nodes

\* A disconnection that takes connections it does not name.
CutsTooMuch(f, dl) ==
    \E c \in ToSet(f.connections) \cup ToSet(dl.connected) :
        /\ c \notin ToSet(dl.disconnected)
        /\ c \notin ToSet(OnDelta(f, dl).connections)

\* An answer that was made before a delta is received after it, which it undoes.
Awaited == \E i \in DOMAIN requests : requests[i].answered
Overtakes == IF Awaited THEN {"overtaken"} ELSE {}

OnPush(f, dl) == (IF Split(f, dl) THEN {"split"} ELSE {})
                   \cup (IF CutsTooMuch(f, dl) THEN {"cut"} ELSE {})
                   \cup Overtakes

OnAnswer(f, dl) == (IF Split(f, dl) THEN {"split"} ELSE {})
                     \cup (IF f # EmptyFlow THEN {"mixed"} ELSE {})
                     \cup (IF replay.idx # NoReplayIdx THEN {"intruder"} ELSE {})

\* The page is there, and so may miss what is told.
Mounted == budget.mounts = 0
Missed == IF Mounted THEN {"lost"} ELSE {}

\* The server answers with what it is about to push, or has pushed, as well.
Unaligned == \/ [d EXCEPT !.values = <<>>] # NoDelta
             \/ [stater.delta EXCEPT !.values = <<>>] # NoDelta
             \/ pushes # <<>>
             \/ ~BetweenHandlers

---------------------------------------------------------------------------
(* Catching up.                                                            *)

\* What an emptied flow leaves of the trouble: nothing, unless an earlier answer is
\* still to come; deltas on their way, after one that was lost, are told out of turn.
Remains == IF requests # <<>> THEN trouble
           ELSE trouble \cap ({"merged"} \cup (IF pushes # <<>> THEN {"lost"} ELSE {}))

\* FlowService.catchUp without a delta: the flow is emptied, then asked for.
Asks == /\ flow' = EmptyFlow
        /\ requests' = Append(requests, [answered |-> FALSE, delta |-> NoDelta])
        /\ trouble' = Remains

\* App.vue, when it is mounted.
Mount == /\ Spend("mounts") /\ Asks
         /\ UNCHANGED <<monitorerVars, workerVars, replay, config, socket, pushes>>

\* ServeAPICatchUp.
Answer == \E i \in DOMAIN requests, a \in CatchUps :
    /\ config.api /\ ~requests[i].answered
    /\ requests' = [requests EXCEPT ![i] = [answered |-> TRUE, delta |-> a]]
    /\ trouble' = trouble \cup (IF Unaligned THEN {"unaligned"} ELSE {})
    /\ UNCHANGED <<monitorerVars, workerVars, flow, replay, config, socket, pushes, budget>>

\* catchUp goes on where it awaited, whatever the page has become.
ReceiveAnswer == \E i \in DOMAIN requests :
    /\ requests[i].answered
    /\ flow' = OnDelta(flow, requests[i].delta)
    /\ requests' = RemoveAt(requests, i)
    /\ trouble' = trouble \cup OnAnswer(flow, requests[i].delta)
    /\ UNCHANGED <<monitorerVars, workerVars, replay, config, socket, pushes, budget>>

\* ApiService.do: without an address it is refused, and catchUp ends there.
RequestRefused == \E i \in DOMAIN requests :
    /\ ~config.api
    /\ requests' = RemoveAt(requests, i)
    /\ UNCHANGED <<monitorerVars, workerVars, flow, replay, config, socket, pushes, budget, trouble>>

\* HttpClient.do: no answer, or a status that is not of the 200s.
RequestFails == \E i \in DOMAIN requests :
    /\ Spend("fails")
    /\ requests' = RemoveAt(requests, i)
    /\ trouble' = trouble \cup {"failed"}
    /\ UNCHANGED <<monitorerVars, workerVars, flow, replay, config, socket, pushes>>

---------------------------------------------------------------------------
(* The websocket.                                                          *)

\* PushService.pusher, made before the page is mounted, awaits config.json: without
\* an address, or when config.json cannot be had, there will be no pusher.
PusherIsMade ==
    /\ Mounted /\ socket = "waiting"
    /\ \/ socket' = (IF config.push THEN "closed" ELSE "none") /\ UNCHANGED budget
       \/ Spend("fails") /\ socket' = "none"
    /\ UNCHANGED <<monitorerVars, workerVars, flow, replay, requests, config, pushes, trouble>>

SocketOpens == /\ socket = "closed" /\ socket' = "open"
               /\ UNCHANGED <<monitorerVars, workerVars, flow, replay, requests, config, pushes, budget, trouble>>

\* onClose: the socket is opened again two seconds later, and nothing else is done.
SocketCloses == /\ socket = "open" /\ Spend("drops")
                /\ socket' = "closed" /\ pushes' = <<>>
                /\ trouble' = trouble \cup (IF pushes # <<>> THEN Missed ELSE {})
                /\ UNCHANGED <<monitorerVars, workerVars, flow, replay, requests, config>>

\* What the flow's goroutines and the stater do on their own.
FlowMoves == /\ ((\E t \in Threads : Handle(t)) \/ Sample \/ SwapDelta)
             /\ UNCHANGED <<workerVars, pageVars>>

\* Plugin.onDelta: every client is written to, until one of them fails.
Push == /\ Deliver
        /\ IF HandsOver /\ socket = "open"
           THEN \/ pushes' = Append(pushes, Handed) /\ UNCHANGED <<budget, trouble>>
                \/ Spend("fails") /\ trouble' = trouble \cup Missed /\ UNCHANGED pushes
           ELSE /\ trouble' = trouble \cup
                     (IF HandsOver THEN Missed
                      ELSE IF Handed.startedNodes # <<>> THEN {"untold"} ELSE {})
                /\ UNCHANGED <<pushes, budget>>
        /\ UNCHANGED <<workerVars, flow, replay, requests, config, socket>>

\* PushService.onEvent: what arrives during a replay is dropped.
ReceivePush == /\ pushes # <<>>
               /\ pushes' = Tail(pushes)
               /\ IF replay.done
                  THEN flow' = flow /\ trouble' = trouble \cup Overtakes
                  ELSE /\ flow' = OnDelta(flow, Head(pushes))
                       /\ trouble' = trouble \cup OnPush(flow, Head(pushes))
               /\ UNCHANGED <<monitorerVars, workerVars, replay, requests, config, socket, budget>>

---------------------------------------------------------------------------
(* The header, and the keys of ReplayService.                              *)

Send(msg) == toWorker' = Append(toWorker, msg)
UserSends(msg, what) ==
    /\ Spend(what) /\ Send(msg)
    /\ UNCHANGED <<monitorerVars, worker, loading, toPage, flow, replay, requests, config, socket, pushes>>

\* The file input is there until a replay is open, also while a file loads.
OpenFile == \E file \in Recordings :
    /\ Mounted /\ ~replay.done /\ file \notin loading
    /\ UserSends([name |-> "open", file |-> file], "opens")
    /\ trouble' = trouble \cup
         (IF loading # {} \/ toWorker # <<>> \/ toPage # <<>> \/ worker.values # <<>> THEN {"merged"} ELSE {})

ClearReplay == /\ replay.done
               /\ UserSends([name |-> "clear"], "clicks")
               /\ UNCHANGED trouble

Keys == /\ replay.done
        /\ UserSends([name |-> "next"], "clicks") \/ UserSends([name |-> "previous"], "clicks")
        /\ UNCHANGED trouble

\* The progress bar: the value nearest to the mouse, then the first line that has
\* it.  Lines written within a second share theirs.
Hovered(ats, at) == Min({i \in DOMAIN ats : ats[i] = at})
SeekByBar == \E at \in ToSet(replay.ats) :
    /\ replay.idx # NoReplayIdx /\ replay.done
    /\ UserSends([name |-> "seek", idx |-> Hovered(replay.ats, at)], "clicks")
    /\ UNCHANGED trouble

---------------------------------------------------------------------------
(* What the worker says.                                                   *)

Hears(name) == /\ toPage # <<>> /\ Head(toPage).name = name
               /\ toPage' = Tail(toPage)
HeardUnchanged == <<monitorerVars, worker, toWorker, loading, config, socket, pushes, budget>>

OnWorkerCleared == /\ Hears("cleared")
                   /\ replay' = NoReplay
                   /\ Asks
                   /\ UNCHANGED HeardUnchanged

OnWorkerDelta == /\ Hears("delta")
                 /\ LET m == Head(toPage)
                    IN  /\ flow' = OnDelta(IF m.clear THEN EmptyFlow ELSE flow, m.delta)
                        /\ replay' = [replay EXCEPT !.idx = m.idx]
                 /\ UNCHANGED <<HeardUnchanged, requests, trouble>>

\* catchUp with the delta of the first line.
OnWorkerOpened == /\ Hears("opened")
                  /\ flow' = OnDelta(EmptyFlow, Head(toPage).delta)
                  /\ replay' = [replay EXCEPT !.ats = Head(toPage).ats, !.idx = Head(toPage).idx]
                  /\ UNCHANGED <<HeardUnchanged, requests, trouble>>

\* The whole of a file is read when progress says 100, before it is shown.
OnWorkerProgress == /\ Hears("progress")
                    /\ replay' = [replay EXCEPT !.progress = Head(toPage).elapsed,
                                                !.done = @ \/ Head(toPage).elapsed = 100]
                    /\ UNCHANGED <<HeardUnchanged, flow, requests, trouble>>

PageHears == OnWorkerCleared \/ OnWorkerDelta \/ OnWorkerOpened \/ OnWorkerProgress
User == OpenFile \/ ClearReplay \/ Keys \/ SeekByBar
WorkerMoves == WorkerStep /\ UNCHANGED <<monitorerVars, pageVars>>

Init == /\ \E p \in Programs : MonitorFlow(p) /\ budget = p.budget /\ config = p.config
        /\ WorkerInit
        /\ flow = EmptyFlow /\ replay = NoReplay /\ requests = <<>>
        /\ socket = "waiting" /\ pushes = <<>>
        /\ trouble = {}

Next == \/ Mount \/ Answer \/ ReceiveAnswer \/ RequestRefused \/ RequestFails
        \/ PusherIsMade \/ SocketOpens \/ SocketCloses \/ FlowMoves \/ Push \/ ReceivePush
        \/ User \/ WorkerMoves \/ PageHears

\* The browser runs the tasks of the worker and of the page: the message that
\* came first is taken in the end, and a file is read in the end.  Nothing is
\* assumed of the user, the network or the flow.
TakesFirst(queue) == queue # <<>> /\ queue' = Tail(queue)
ReadsAFile == \E file \in loading : loading' = loading \ {file}
Fairness == WF_toWorker(TakesFirst(toWorker)) /\ WF_toPage(TakesFirst(toPage)) /\ WF_loading(ReadsAFile)

Spec == Init /\ [][Next]_vars /\ Fairness

---------------------------------------------------------------------------
(* A replay.                                                               *)

WorkerQuiet == toWorker = <<>> /\ toPage = <<>> /\ loading = {}
Replaying == replay.done /\ replay.idx >= 1 /\ "merged" \notin trouble

\* The nodes of a line: those the recording starts and that have a value on it.
NodesOfLine(i) == {n \in DOMAIN worker.nodes :
    /\ worker.nodes[n] \in worker.groups
    /\ \E s \in DOMAIN worker.values[i].stats : s \in DOMAIN worker.stats /\ worker.stats[s] = n}

\* However the user came to a line - step by step, back, or from the bar - the
\* page shows that line, once: its groups, its nodes, its values.  Connections may
\* be missing (the page cuts too much) but none is shown that the line does not have.
\* A catch-up asked before the replay may still be added to it (ReplayService.ts:105).
ReplayShowsItsLine ==
    WorkerQuiet /\ Replaying /\ "intruder" \notin trouble =>
        LET i == replay.idx
            line == worker.values[i]
        IN  /\ NodesShown(flow) = NodesOfLine(i)
            /\ GroupsShown(flow) = {worker.nodes[n] : n \in NodesOfLine(i)}
            /\ ToSet(flow.connections) \subseteq ToSet(line.connections)
            /\ \A s \in StatsShown(flow) :
                   s.id \in DOMAIN line.stats => s.value = line.stats[s.id]
            /\ \A s \in DOMAIN line.stats \cap DOMAIN worker.stats :
                   worker.stats[s] \in NodesOfLine(i) \cup {NoNode} =>
                       s \in {x.id : x \in StatsShown(flow)}
            /\ ListsOnce(flow)

\* The page and the worker count the same lines and stand on the same one, once
\* neither has anything to tell the other.
PageAndWorkerAgree ==
    WorkerQuiet /\ "merged" \notin trouble =>
        IF replay.done
        THEN /\ replay.idx = worker.current.idx
             /\ replay.ats = [i \in DOMAIN worker.values |-> worker.values[i].at]
        ELSE worker = NoRecording /\ replay.idx = NoReplayIdx

\* A replay that shows a line can be left: the message to clear is not lost,
\* whatever was asked before it.
ClearEndsReplay ==
    (Replaying /\ \E i \in DOMAIN toWorker : toWorker[i].name = "clear") ~> ~replay.done

---------------------------------------------------------------------------
(* A live page.                                                            *)

LiveQuiet == /\ Mounted /\ ~replay.done /\ WorkerQuiet
             /\ requests = <<>> /\ pushes = <<>> /\ BetweenHandlers
             /\ stater.pc # "swapped" /\ d = NoDelta

\* Without any of the troubles recorded, a live page shows what the flow has.
MirrorIsExact ==
    LiveQuiet /\ config.api /\ trouble = {} =>
        /\ GroupsShown(flow) = ToSet(cd.startedGroups)
        /\ NodesShown(flow) = {n.id : n \in ToSet(cd.startedNodes)}
        /\ ToSet(flow.connections) = ToSet(cd.connected)
        /\ {s.id : s \in StatsShown(flow)} =
              {s.id : s \in {x \in ToSet(cd.newStats) : x.node \in {NoNode} \cup NodesShown(flow)}}
        /\ ListsOnce(flow)

\* A live page lists something twice only when an answer told it what a delta
\* told it too: it was made while a delta was pending or on its way, or it came on
\* top of what the page had by then.
DuplicatesHaveACause ==
    ~replay.done /\ ~ListsOnce(flow) => trouble \cap {"unaligned", "mixed"} # {}

\* A live page goes on showing what the flow no longer has only when it missed
\* a delta, or took an answer and deltas in the wrong order: deltas cut at
\* unlucky places and refused requests make it show too little, never too much.
GhostsHaveACause ==
    LiveQuiet /\ trouble \cap {"unaligned", "mixed", "overtaken", "lost"} = {} =>
        /\ GroupsShown(flow) \subseteq ToSet(cd.startedGroups)
        /\ NodesShown(flow) \subseteq {n.id : n \in ToSet(cd.startedNodes)}
        /\ ToSet(flow.connections) \subseteq ToSet(cd.connected)
=============================================================================
