# go-astiflow in TLA+

astiflow runs media pipelines: a *flow* owns *groups*, a group owns *nodes*, nodes are connected
and dispatch packets and frames to their children, each on a goroutine of its own. This directory
models that code in TLA+, checks it with TLC and proves part of it with TLAPS. Paths below are
relative to `src/` unless they name a module.

## The system

| component | state | operations | how it interacts | what makes it correct |
|---|---|---|---|---|
| task (`pkg/astiflow/task.go`, `status.go`) | status, context, closer, sub-tasks | start, stop, close, the goroutine that waits, closes and finishes | embedded in every flow, group and node; its events drive theirs | statuses in order, callbacks once, done only when idle, every cancellation ends |
| flow (`flow.go`) | list of groups, options | NewFlow, Start, Stop, Close, handlers of group events | starts and stops its groups; stops with its last group if told to | a stop or a close ends everything; nothing outlives it |
| group (`group.go`) | list of nodes | NewGroup, Start, Stop, Close, handlers of node events | starts its nodes, stops those that want it, disconnects and forgets done nodes, stops when empty | as the flow; it starts only in a live flow |
| node (`node.go`) | children, parents, done handlers | NewNode, connect, disconnect, start, stop | watches parents and children and stops with the last of them | the two ends of an edge agree; no edge to a released node; stops only for its reasons |
| pools, descriptors, handlers (`pkg/libs/astiav/*_pool.go`, `codec_parameters.go`, `*_descriptor.go`, `*_handler.go`) | reference counts, free lists, what each node last received | get/put, acquire/release, onPacket, onFrame | filled by the parents' goroutines, emptied by the handler's loop and whoever acquires | counts are the holders; nothing in use is pooled or overwritten |
| dispatchers, interceptors | children that handle packets/frames | dispatch, add, remove | called on the parent's goroutine, hand over to the child's | |
| rate emulators (`rate_emulator.go`, `packet_rate_emulator.go`, `frame_rate_emulator.go`, `time_reference.go`) | a buffer, a time reference, a pause | push, tick, flush, pause, resume, controlPacketRate | filled by the parent's goroutine, emptied by its own, holds demuxers back | each item is in one place until the stop turns it away; nothing early or repeated; equal timestamps keep their order; the stop ends it |
| frame filterer | the filter graph, queues per input | onFrame, refresh, pull | several parents' goroutines push | frames leave in order |
| demuxer, decoder, encoder, muxer | FFmpeg contexts, streams, restamping | open, probe, read, loop; onPacket, onFrame, flush | first and last nodes of a pipeline | resources are freed once and not used after |
| log interceptor | items by key | add, tick, purge | any goroutine logs, one ticks | every message is written once or counted |
| monitorer (`pkg/plugins/monitor/monitorer`) | what is there (`cd`), what changed in the period (`d`), the stats sampled | handlers of flow events, onStats, CatchUp | hears the events on the goroutines that emit them; the stater calls it once a period; hands deltas to the server and to the replay file | the two deltas tell one story; what is shown is sampled |
| server, replay file (`server/*.go`, `replay`) | websocket clients, a file | catch-up request, push, one line per delta | from the monitorer to browsers and files | |
| page: services, header (`server/web/src/services`, `components/Header.vue`, `ProgressBar.vue`) | the flow as the page knows it, the state of a replay, requests under way | catchUp, onDelta, open, clear, next, previous, seek | requests and a websocket to the server, messages to and from the worker | the page shows the flow, or the line of the replay, once |
| replay worker (`server/web/public/worker/replay.js`) | what a recording says, the line shown | open, clear, next, previous, seek, the load of a file | messages from and to the page | any way to a line leads to the same page; a replay can be left |
| page: views (`server/web/src/views`, `components`, `helper.ts`, `types/store.ts`) | filters, controls, orders, colours, the diagram's model | setting filters, ordering, moving between pages | read the store, set its filters | controls say what is in force; tables and diagram say what the store holds |

Hard behaviours: status changes race with callbacks that run outside the lock; handlers run on the
goroutine that emits; several tasks end at once and each touches the others' lists; a check and the
act it allows are two critical sections; Close runs from any goroutine at any time. In the monitor, a catch-up
and a stream of deltas are aligned by nothing; answers, pushes and the worker's messages come in any order, and
views outlive, or do not outlive, what they were computed from. `PROJECT.json`
lists each at its line under `hazards`.

## Modules

- **Lifecycle** is what a task promises, in three variables: its status, whether it has work, whether
  its parent has been released. It is the abstract specification of the next two.
- **Task** is `task.go` step by step: callers and the task's goroutine (`Waiter`) each have a `pc`. A
  step is a critical section of `t.m`, or what runs between two (an event, a callback, a wait).
  `ImplementsLifecycle` maps it to Lifecycle, with its liveness.
- **TaskProofs** proves Task's safety for any number of callers and sub-tasks.
- **MCTask** instantiates Task for TLC.
- **Flow** composes the tasks of a whole flow. A goroutine's remaining work is a stack of operations
  (`todo`): handlers and callbacks push the calls they make, which is how the code nests (a node's
  `done` calls the group's handler, which disconnects, removes, stops the group, which stops other
  nodes, all on one goroutine). Every operation is one action; goroutines interleave between any two.
  `EachImplementsLifecycle` maps every task of the tree to Lifecycle.
- **Selection** is the one operator that picks the elements of a set out of a sequence; Flow, Monitorer and NodesViews use it for
  what the code filters from its lists, because it can be reasoned about (SelectSeq of the libraries cannot).
- **FlowProofs** proves the types and the lifecycle of every task of the tree and, on top of it, when resources are
  freed, why nodes stop, that the ends of an edge agree and that a released node is connected to nothing.
- **MCFlow** has the topologies and the users' programs.
- **RateEmulator** is `rate_emulator.go` with the handler's goroutine, the ticker (a `pc`), the user that
  pauses and resumes, demuxers that are held back, and a clock that ticks in whole units. A step is a critical
  section of `e.m` or of the pause's mutex, or a wait. It is the same code for packets and for frames.
- **RateEmulatorProofs** proves its safety for any packets, timestamps and bounds.
- **MCRateEmulator** gives the packets their timestamps.
- **PacketHandler** is `packet_handler.go` with its two pools and two maps of descriptors: the goroutines of the
  parents (HandlePacket), of users (OnConnect), the handler's loop, and whoever releases what the node acquired
  (`Keeper`). HandlePacket and the loop's jobs hold the closer (`lock`); the locks inside (the counter's, the
  map's, the pool's) are the steps. Storing a descriptor is one: the map's lock is held around the release of the old
  one and the acquisition of the new one, whose parameters the copy or the job holds besides. Only a release from a
  ticker could matter between the two, and `packet_handler_ticker` shows what that leads to without it.
- **PacketHandlerProofs** proves its counts and what its packets and descriptors keep.
- **MCPacketHandler** says who hands over which packet.
- **FlowMirror** is what a page keeps of a flow and `onDelta`, pass after pass. A pass is a function of the list it
  goes through, which says what becomes of each element, where the code searches the list once per id of the delta.
- **Monitorer** is `monitorer.go`. The flow is seen through the events it emits: a script gives each goroutine
  (the user's, one per node, one per group) the steps of its handlers. A step is a critical section of `mc`, `md` or
  the stater's lock; a period's sampling, swap and delivery are three steps. `IsProgram` says which scripts a flow has.
- **ReplayWorker** is `replay.js`: one action per message, one for the end of a load.
- **WebPage** composes Monitorer and ReplayWorker (both EXTEND FlowMirror) with the server's two ways to the page,
  the page's services and its header. Every call is cut where the code awaits. `trouble` names, as history, each
  thing that happened and may leave the page wrong; the properties say that nothing else does.
- **MonitorProofs** proves what the monitorer promises for any flow, that WebPage takes no step from it, and that
  the page and the worker of a replay agree.
- **LivePageProofs** proves, on top of it, what it takes for a live page to list something twice, or to go
  on showing what is gone, and that without any trouble it shows what the flow has.
- **MCWebPage** has the flows' programs and the recordings.
- **TableView** is the table component and the formats of numbers, as operators.
- **NodesViews** is the pages over the store: filters, their controls, tables, the diagram and its colours.
- **NodesViewsProofs** proves what the controls show, what the diagram does and the units of the labels, for any flows.
- **MCNodesViews** has the flows the store may hold.
- **SequenceLemmas** holds what the proofs need to know of sequences: which elements a selection, a concatenation and
  a flattening leave, how often one occurs, and which lists name everything once.

### How state and actions correspond to the code

| module | state | code |
|---|---|---|
| Task | `status`, `ctx`, `closer` | `t.s`, `t.ctx`, `t.c` |
| Task | `work` | the sub-tasks of `t.t` that are not done |
| Task | `events` (history) | what `t.e` emitted |
| Flow | `status`, `ctx`, `closer` by task | each `t.s`, `t.ctx`, `t.c` (`"none"`: not created yet) |
| Flow | `attached` | the sub-tasks each `t.t.Wait()` waits for |
| Flow | `working` | nodes whose Noder's goroutine runs |
| Flow | `members`, `children`, `parents` | `f.gs`/`g.ns`, `n.children`, `n.parents` |
| Flow | `watchers` | the done handlers `addNode` adds, in order |
| PacketHandler | `cps`, `content` | `h.cpp`: what is allocated, free and referenced; what codec parameters say |
| PacketHandler | `buffers`, `payload` | `h.pp`, and what its packets hold |
| PacketHandler | `initial`, `previous` | the two maps of descriptors, with what each said when stored (history) |
| PacketHandler | `queue`, `running`, `acquired`, `kept` | `h.ch`, the job that runs, its `ignoreReleasePacket`, the acquired jobs |
| RateEmulator | `preStart`, `items`, `nextAt`, `reference` | `e.preStartItems`, `e.items`, `e.nextAt`, `e.timeReference` |
| RateEmulator | `reload`, `seen` | `e.reloadChan`, and the channel the ticker or its watcher read from it |
| RateEmulator | `pause`, `pausedAt`, `offset` | `e.p.ctx`, `e.p.at`, `e.p.timestampOffset` |
| RateEmulator | `control` | the goroutines of demuxers in `controlPacketRate`; `ParentEnds` is the end of the context a demuxer gives it |
| RateEmulator | `given`, `dispatched` (history) | what was pushed and what was dispatched |
| RateEmulator | `refused`, `forgotten` (history) | what `push` refused after the stop, and what a `start` after the stop pushed in vain |
| Monitorer | `cd`, `d` | `m.cd`, `m.d` |
| Monitorer | `valuers`, `stater` | what `m.ds` samples, and where its goroutine is in onStats |
| Monitorer | `script` | what is left of the handlers on each goroutine |
| Monitorer | `told` (history) | what the deltas handed over add up to; in `untold`, the nodes `empty()` lost |
| ReplayWorker | `worker` | `this.state`: groups, nodes and stats by id, the lines, what was last sent |
| ReplayWorker | `toWorker`, `toPage`, `loading` | the two queues of messages, the files being read |
| WebPage | `flow`, `replay` | `store.flow`, `store.replay` (an undefined index is -1, null 0, the n-th line n) |
| WebPage | `requests`, `socket`, `pushes` | the promises of `apiService.catchUp()`, the websocket and what is on it |
| WebPage | `trouble` (history) | see below |
| NodesViews | `filters`, `controls` | `store.nodes.filters`; the switch, the input and the selects |
| NodesViews | `ordered` | `orderedColumns` of every table mounted |
| NodesViews | `colours`, `drawn`, `model` | `fillColors`, the computed data of the diagram, the keys of the library's model |
| NodesViews | `unseen` (history) | filters in force that the controls did not show when they were mounted |

The closer, the event manager and the worker come from astikit, which is not in the repository; what
they do is taken from how this code uses them (Close runs the functions from the last added to the
first with its lock held and once; Emit calls a copy of the handlers in the order they were added).

Not steps: calls that only return an error, statistics. In PacketHandler a packet is handed over once, the start and
stop of the channel are left out, and FFmpeg's copies succeed or fail at will. In Task, sub-tasks come from the start callback only; a
group that `Start`s late gives its flow a sub-task later, which is in Flow. In Flow, `awaitCtx`
merges the wait for the context and the status check after it, ids are positions in `Order`, and
events that no handler of the package acts upon, plugins, contexts given by the user (they are in
Task) and the wording of logs are left out. In RateEmulator the packets and codec parameters behind an item, the
node's closer apart from its context, and a pause before the start (which panics in the code) are left out; a
sleep's goroutine that outlives it is not a step.
In the monitor, names, metadata, times of deltas, logs, titles and the progress between two halves of a load are left
out; a stat's value is the number of its period; one page is modelled, and a failing write stands for the clients
before it; a delta reaches the page whole or not at all. In NodesViews names and tags are numbers ordered as the
strings they stand for, a number in a label is truncated to its whole part and shares of a host's memory are compared over
their common denominator, and rendering is left to Vue: a computed value is evaluated again after each change of what it
reads (`ReadsMode`, `ReadsStats`).

### What may go wrong on a live page

`trouble` collects the causes, each of which the code allows; `MirrorIsExact` says that without any of them the page
shows what the flow has, `DuplicatesHaveACause` and `GhostsHaveACause` which of them can lead to what.

| name | what happened | code |
|---|---|---|
| `unaligned` | a catch-up was answered while something was between handlers, in the delta or on the way | monitorer.go:402, server/plugin.go:163 |
| `overtaken` | a push was received, applied or not, after the answer was given and before it was | FlowService.ts:22 |
| `mixed` | an answer was applied on top of something | FlowService.ts:32 |
| `intruder` | an answer was applied during a replay | ReplayService.ts:105 |
| `split` | a delta named nodes or stats whose group or node the page had not heard of | FlowService.ts:66, :99 |
| `cut` | a disconnection took connections it does not name | FlowService.ts:79 |
| `untold` | a node was alone in its delta | monitorer.go:32 |
| `lost` | a push met no open socket, or a failing one; what was on its way then comes out of turn | WebSocketClient.ts:39, push.go:76 |
| `failed` | a catch-up was refused or had no answer | HttpClient.ts:16 |
| `merged` | a file was opened while another was on its way, or what was read could not be cleared | replay.js:28 |

## Runs

Bounds: `MaxWork` sub-tasks in Task; in Flow the sets of groups, nodes and users and the program
of each user; in RateEmulator the end of the clock (`MaxTime`), the last time something is pushed or started
(`LastInput`), and the length of all pauses (`MaxOffset`), chosen so that whatever is pushed is due before the
clock ends; in PacketHandler the packets and the allocations of each pool (`MaxAllocated`, never reached by
the passing run); in Monitorer the periods (`MaxPeriods` 3, some of which a program has behind it) and the program
of each goroutine; in WebPage the budgets of a program: how often a page is opened, the socket drops, a call fails, a
file is opened and the user clicks; in NodesViews `MaxSteps` (6) of the user and the flow together. Nothing else is
bounded.

| run | shows |
|---|---|
| `task` | two callers start, stop and close one task in every order, while its context or its parent's is cancelled and up to two sub-tasks end: all properties of Task |
| `flow_stop_ends` | a chain with a node that waits for its child and one that waits for its parent, stopped at any time: `StopEnds` |
| `flow_ending` | two groups, three nodes joined in one that waits for both parents; nodes end by themselves, the flow stops itself with its last group and is stopped: `NothingOutlivesItsParent`, `FreedWhenIdle`, `ReleasedIsDisconnected`, `NodeStopsForAReason`, `EachImplementsLifecycle` |
| `flow_growth` | a group and a node added to a running flow, one edge connected by two users, the new group's nodes disconnected: `TypeOK`, `LinksAgree` |
| `flow_close` | a started flow is closed while it may be stopped, with a node that ignores its group: `ClosedFlowEnds` |
| `rate_emulator` | two packets, of equal or different timestamps and in either order, pushed before, during or after the start and the stop, with a pause and a demuxer held back until its time, the stop or the end of its own context: all properties of RateEmulator |
| `web_page` | a page opened at any time beside a group whose nodes run, are linked and end, in two periods; a network that fails once; a group that starts and ends beside a replay while a call fails, for a page that asks and one that cannot; a recording walked through in five clicks, two recordings, a cut one and an empty one, beside an idle flow, a live one or no server: all properties of Monitorer and WebPage |
| `web_views` | six changes of the store, clicks and moves between pages, over six flows of up to three groups, two of the same name, with two colours: all properties of NodesViews |
| `packet_handler` | two parents, three packets, one of which changes its parent's codec parameters, one connection, packets acquired and released in a later call of onPacket, a close: all properties of PacketHandler |

Two callers are enough for the races on one task: every critical section involves the task and at most
one other goroutine's status change. Three nodes in two groups are the least in which a node has two
parents, a chain has a middle, and a group ends before another. In RateEmulator one packet sleeps while the
other is pushed before it, behind it or at its time. In PacketHandler the second packet of a parent replaces the
descriptor of the first while the other parent's is queued or running. In Monitorer one period is swapped and
delivered around the two halves of any handler, and another follows to tell what the first missed. Five clicks walk a
recording of three lines to its end and back, or reach a line from the bar and leave it both ways. In NodesViews three
groups want two colours; six steps open a page, set two filters, leave it, change the flow and come back.

Deadlock is not checked: a flow that is done, or that nobody stops, is a legal end, and so is a page whose
programs and budgets are spent. Liveness properties stand for it.

Runs that end in a violation (`findings` in `PROJECT.json`) show where a comment, a test or an option
says something the code does not do:

| run | what the code does |
|---|---|
| `flow_empty_group` | the last member is done while its parent still starts: the stop is refused, ignored and not retried |
| `packet_handler_ticker` | a packet released by another goroutine before its descriptor is stored pools codec parameters twice: two packets share them |
| `rate_emulator_reload` | a push between a tick's unlock and its wait is missed: the ticker waits on a nil channel while the packet's time passes |

The same refused stop leaves a node running that has to stop with its parents (node.go:192) or a flow that has to stop
with its last group (flow.go:105), and StartGroup lets a group start in a flow that was stopped after its status was
read (group.go:210): Flow has these behaviours; they are hazards without a run of their own. Neither has a user who takes down a connection while another makes it:
the second's `addParent` then comes after the first's `removeParent`, and the edge stays at one end.

### Fairness

Goroutines are scheduled: each one that has something to run eventually runs it (weak fairness by
goroutine; the code holds no lock for long enough to need strong fairness). A Noder returns once its context
is cancelled, which every Noder of the repository does. Nobody is obliged to start, to stop, to close,
or to cancel. In RateEmulator the ticker, the watcher of the reload channel, the demuxers and the clock are
fair; pushes, the stop, pauses, resumes and the end of a demuxer's context are not. In WebPage the event loops of a browser take the first message of
the page's and of the worker's queue in the end, and a file is read in the end; nothing is assumed of the user, the
network, the server or the flow. NodesViews has no fairness, nor any liveness property.

## Proofs

`TaskProofs` proves for every set of callers and every `MaxWork`: type correctness, `OneStarterOneStopper`,
`DoneIsFinal`, `StatusInOrder`, `EventsOnce` and that every step of Task is a step of Lifecycle or a
stutter (`Spec => Life!LSafety`). The only assumption is `TaskAssumption`.

None of these is inductive. `IInv` ties the status to where the goroutines are: while somebody is
inside start the status is `starting` or `running` and the Waiter is unborn; while somebody is inside stop it is
`stopping`; the Waiter's place bounds what the status and the closer may be. From it, a step of `start` can
never find the status moved by somebody else (the unchecked `running` of task.go:94), and a second stopper finds
`stopping`. `EInv` adds which events can have been emitted at each place. TLC checked `IInv` before it was proved.

`NodesViewsProofs` proves `ControlsTellTheFilters` for any flows the store may hold, any texts, any number of colours
and any number of steps, from no assumption. It is inductive with the types (`FiltersType`): every way a filter
changes goes through its control, and the history `unseen` keeps what a control that was mounted anew could not show.

It proves `DiagramIsReadable` and `ColoursAreLasting` as well, from `ColoursAssumption` (a length) and
`FlowsAssumption` (lists are lists, ids count from 1). Neither is inductive: `DiagramInv` adds that a group holds
one colour at most and that a colour held is that of a node drawn (`Shown`). `PaintInv` is the same in the middle of an
evaluation, beside what was held before it: painting only adds to what is held, so a node drawn without a colour finds
none free until the end.

`UnitsFollowValues` is proved from `FlowsAssumption`, which says besides that the values of stats are naturals and that a
host's memory was read. It follows from the stores the pages may hold (`TablesInv`), step or no step: the work is in
the divisions. `Scaled` divides by the base as long as a unit is left; `ScaledSteps` gives what it returns after each of
the four, and from it `ExponentIs` the greatest unit of which there is one, whatever the value.

`PacketHandlerProofs` proves for any parents, users, packets and allocations: type correctness, `CountsAgree`, and,
when packets are not released by a ticker (`Keeper # "ticker"`), `PoolHoldsTheRest`, `PacketsKeepWhatTheyCameWith` and
`DescriptorsKeepWhatTheySaid`. `HandlerAssumption` says that the goroutines are finitely many and that `None` is not a
value. The hypothesis on the keeper is what the code needs: with a ticker the run `packet_handler_ticker` shows two
packets sharing codec parameters. `CountInv` makes a count the number of those who hold the parameters: the maps'
entries, the goroutines between two steps of an acquire or a release, the jobs queued, running and kept. `UseInv` says that what anyone holds was allocated, is in no pool and says what
it said when it was taken; both are needed at once, since only a count above zero keeps a descriptor out of the pool
and only a holder that is unique in its step keeps the count right.

`FlowProofs` proves, for any tree of groups and nodes, any connections, options and programs of the users: type
correctness, `NothingOutlivesItsParent` and `EachImplementsLifecycle`. The last two assume `OnlyFlowStarts`: no user
calls Group.Start, for group.go:210 reads the flow's status and then starts the group with nothing held, so that a group
may start in a flow that has ended. Neither is inductive: nothing in the statuses says that a goroutine that stands
before `setDone` has waited. `LifeInv` speaks of the stacks. `Mark(s, d, name, t)` says that the operation `name` of `t`
stands above `d` others, a position that pushes and returns above it do not change. `Starts` says that what a start has left follows
in order, that a task is starting exactly while one goroutine has to set it running, that its own goroutine is born once,
and that a task is started inside the start of its parent; `Ends` that the end of a task is at the bottom of its own goroutine's
stack and nowhere else; `Phases` how far that goroutine is for each status. TLC checked `LifeInv` on the instances of MCFlow.

Its second part proves three properties of what a flow leaves behind, each under `OnlyFlowStarts` and the
condition it is stated for, and `LinksAgree`. All four speak of the calls that stand on the stacks (`Has(s, d, c)`): `Makes` says once
which calls an operation may push, `AfterStep` that a step leaves on any stack what was there but for the operation
executed, plus what that one makes, so that an invariant about calls is shown for the call that is made and for the
state that changes under the others.

- `FreedWhenIdle`, when no user calls Close (`NobodyCloses`). `FreeInv`: whoever has a `close` or a `closed` of a task to
  execute does so with that task, its parent or the flow stopping and nothing running under it (`Spent`), unless
  it is the task's own `close`, still below its wait; what is started was created, so that its closer is there to be open.
- `NodeStopsForAReason`, when the users leave the connections alone after the start (`LinksLeftAlone`: the reasons are
  stated of `Edges`). `StopInv`: a `stop` of a node is pushed by who has seen the reason, earlier; the reasons last
  (`ReasonLasts`), and the watches that fire are those of nodes with the option. A node whose remaining parents are done
  has seen all of its parents done, because only nodes that are done take connections down.
- `ReleasedIsDisconnected`, when the users connect nothing after the start and disconnect both ends
  (`OnlyDisconnects`). `PartInv`: a child knows its parent (`Mutual`), since the half that forgets a parent comes after
  the one that forgets the child (`Coupled`); each connection of a done node is still to be taken down by the goroutine
  that ended it, whose stack is empty when the node is released (`Parting`).

- `LinksAgree`, for groups started by anyone and connections made and taken down while the flow runs, when the users
  do both ends at once, as Connect and Disconnect do, and the goroutine that takes a connection down is the only one to
  touch it (`WholeLinks`; the users of `flow_growth`, of whom both connect one pair and one disconnects another group, are
  such). This one does not need `OnlyFlowStarts`. `LinksInv`: between two nodes that are not done, what the ends disagree on
  is at the head of the stack of a goroutine that stands between them, which of the two has it told by the call there
  (`Agreeing`), and whoever takes the edge down is alone there (`Owner`, from `Allowed`: what a user's goroutine
  does to connections its program may do, and what a task's does is about a node that is done). That a goroutine between the
  ends is at the head of its stack and nowhere else is `Opened`: the two halves follow each other on every stack, and
  the event that ends a watch is all that comes between. Watches are counted by their occurrences (`Single`, `Absent`),
  of which `SequenceLemmas` says what appending, joining and selecting leave. At first a node is watched once by
  each neighbour because ids are unique (`FlowAssumption`: `Order` is injective).

TLC checked the first three invariants on the instances of `flow_ending` and `flow_stop_ends`, and `LinksInv` on that of
`flow_growth`, before they were proved.

`RateEmulatorProofs` proves, from `RateAssumption` alone, all safety properties of RateEmulator: `BufferAgrees`,
`InOnePlace`, `DispatchedInOrder`, `NotBeforeItsTime` and `FlushedAtTheEnd`, and type correctness. `RateInv` adds the
stages the handler's goroutine and the ticker go through together (`Stages`), that what waits for the start, what is
buffered and what was dispatched are apart (`Apart`), that the buffer and the dispatched items are in order each and
after one another (`InTurn`), that what is dispatched was due (`Timed`), and what the ticker has read of the buffer when it
decides to wait (`Deciding`). TLC checked it on MCRateEmulator. `InOnePlace` is `Apart` with a second invariant, `Kept`:
whatever was pushed is somewhere, unless it was refused after the stop or forgotten by a start that came after it. An
item forgotten so is never dispatched, and the packet it holds is only freed with the closer: `forgotten` records the
loss, which the code leaves possible, and the theorem bounds it.

`MonitorProofs` proves, for any groups, nodes, stats and programs: the types of the monitorer (`MonitorerTypeCorrect`),
that WebPage only adds to it (`PageIsAMonitorer`: `Spec => MonitorerSpec`), and `StatsShownAreSampled` and
`CatchUpAgrees` of WebPage's `Spec`, hence beside any page, network and user. A thing that comes and goes takes four
steps: it enters the catch-up delta, then the pending one, and leaves them in that order. `Stories` says, for each thing
and for which of its four steps are left in the scripts, whether the catch-up delta shows it and what `told`, the delta
on its way and the pending one add up to; `SampledFirst` puts the valuer of a stat before its showing; `LinksInv` is the
story of links. The promises speak of moments when no handler is halfway, and say nothing of the moments between, so
that they are not inductive. TLC checked the invariant on the programs of MCWebPage, with the quantifiers of
`Once` bounded.

- `IdsAssumption`: a goroutine of a group or a node is not the user's, and no two nodes share a stat (ids are counted by
  atomics, flow.go). `ProgramsAssumption`: each goroutine runs whole handlers, of the kinds it may run, a thing is
  made, started and ended once (`EventsOnce` of Task), a node has its stats when it starts, a group that is done has
  waited for its nodes that started (they are sub tasks of its task), and the flow's own stats are nobody else's. Both are stated in Monitorer, and TLC evaluates them on MCWebPage.
- The links' part of `CatchUpAgrees` has a hypothesis, `LinkedInTurn`: a pair of nodes is linked once at most, and before
  the goroutine that cuts it gets there. It is no assumption of the model, for the code does not promise it: a delta is
  applied with its additions before its removals, so a pair cut and linked again within one period ends up cut on the
  page and linked in the catch-up. `ThingsAreTold` is what holds without it: groups, nodes and stats.

`PageAndWorkerAgree` is proved there too, of `Spec`, from `RecordingsAssumption` alone (files are lists of lines, each of
which parses or does not). `AgreeInv`: some history of what the page knows, from now and message after message of
`toPage`, ends where the worker stands (`Agree`); whatever the history says of lines while the worker has a recording
is of that recording, so that a line sought with the bar is one the worker has; and a file is opened or read only while
the page, now and after each message on its way, knows of no replay. That a file leaves as many values as
the page is told lines (`FileRead`) is an induction over its lines.

`LivePageProofs` is about live pages. `DuplicatesHaveACause` is proved of `Spec` under `LinkedInTurn` (which MCWebPage states of its programs, and without
which the same link is announced twice by right). What comes, a link, a group, a node or a stat, is announced once: it is
held by the script until then, then by the pending delta, then by the stater (`HeldInv`); what it is held by and
the deltas on their way to the page are together what is `Pending`, which only shrinks, and each delta names a thing once
(`OneByOne`). An answer given with nothing pending but what no handler has begun names nothing that is pending
(`AnswersInv`), a page without the two causes shows nothing that is pending (`FlowInv`), and `OnDelta` keeps a store that
lists everything once (`Tidy`) when the delta tells each thing once and nothing that the store shows
(`OnDeltaTidy`, pass by pass). A line of a recording is shown only in a replay (`ReplayInv`, `Follows`), where
the property claims nothing.

`GhostsHaveACause` is proved of `Spec` under the same hypothesis, and from `BudgetAssumption`: App.vue is mounted once,
so that before it is nothing is on its way to the page. What can be withdrawn (`Removables`: links, groups, nodes)
stands once it was announced (`StandsNow`): the catch-up has it; or it was withdrawn from the catch-up and not yet from
the pending delta; or the pending delta withdraws it, or the one the stater holds. `Settles` says what a handler's step does to
that, of each thing, from the order of its four steps (`Turns`); no step of a handler lets anything stand no more, only the
delivery does, and then the delta withdraws it (`WithdrawByStater`). Each delta on its way names nothing but what stands
or will be withdrawn by it or by one behind it (`PushesInv`, unless one was lost), and answers and the page neither
(`AnsweredInv`, `ShownInv`). At rest nothing is on its way and no handler halfway, so that what stands is what the
catch-up has. The proof found that a second answer under way is no cause of its own: it comes on top of the first, which is
`mixed`, or the first was empty. The model named it once, and does no more.

`MirrorIsExact` is proved of `Spec` from the same hypothesis and assumption. Its upper bound is that of ghosts and duplicates; the lower
one, that the page misses nothing, and the bound of stats, are `ExactInv`:

- what a delta withdraws, with the nodes of the groups it ends, is gone for good: the catch-up has it not and will not
  have it (`GoneInv`). For the nodes of an ended group this takes that the group waited for them, the last clause of
  `ProgramsAssumption` to be added: without it a page drops a node with its group that the catch-up goes on having. The
  catch-up, and so an answer, withdraws nothing (`EndInv`);
- in the store, nodes are with their groups and stats with their nodes (`PlaceInv`), so that what a delta withdraws
  takes nothing else with it than the stats of its nodes;
- while nothing went wrong, whatever the catch-up has that no handler is still to announce, but for the stats of nodes that
  are gone, a page with no request under way shows, or it is in the pending delta, in the stater's or in one on its way,
  and the same goes for what an answer tells (`CoverInv`). That a delta is neither `split` nor `cut` is needed here, and
  here only: `OnDelta` then shows all it is told (`OnDeltaShows`);
- a stat that is told, on its way or shown is one of the catch-up, or left it with its node (`KeptInv`): stats are
  withdrawn by no delta, the page drops them with their nodes.

The libraries define what they fold by recursion over positions, and their induction theorems take an operator as a
parameter, which the installed provers cannot instantiate. `SequenceLemmas` states the induction of sets instead (a set of
naturals that holds zero and every successor holds them all) and proves from it that a recursive function over
positions exists and what `Selected` and `FlattenSeq` return. SelectSeq stays out of reach: it takes an operator, so
no lemma can be stated of it. Selection replaces it where a proof depends on it.

Only model-checked:

- liveness, and all of fairness: `CancelledEnds`, `StopEnds`, `ClosedFlowEnds`, the fairness half of
  `ImplementsLifecycle`, whatever is temporal in RateEmulator and WebPage. The prover has no rule for ENABLED;
- what a page shows of a replay, `ReplayShowsItsLine`: the lines of a file add up by induction over them;
- `TablesShowTheirRows` of NodesViews, which sorts through the libraries' definitions.

## Plan

1. Task, flow, group, node: done.
2. Rate emulators: done.
3. Pools, descriptors and handlers of packets: done. Frames differ only in having descriptors that are values.
4. Monitor: done (Monitorer, FlowMirror, WebPage). The start and stop of the server are left.
5. Replay: done (ReplayWorker, WebPage), and the views of the page (TableView, NodesViews).
6. **Filterer**: the two queuers of `frame_filterer.go` against the order of timestamps; the refresh of the graph.
7. **Demuxer** (loop and restamping: timestamps grow across the jump), decoder and encoder (a resource is freed once
   and not used after), muxer (nothing is written before the header), log interceptor (a repeated message is written
   or counted). Dispatchers: a cycle of nodes, each inside its closer.
8. Proofs: Task, PacketHandler, RateEmulator, Monitorer, Flow, the agreement of page and worker, and what a live page
   shows (`DuplicatesHaveACause`, `GhostsHaveACause`, `MirrorIsExact`) are done. Next: `ReplayShowsItsLine`, as far as
   it is no induction over the lines.

Not to be modelled: FFmpeg's codecs and containers, HTTP and rendering, psutil, examples.
