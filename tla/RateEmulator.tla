---------------------------- MODULE RateEmulator ----------------------------
(***************************************************************************)
(* The rate emulator (pkg/libs/astiav/rate_emulator.go, and the items and    *)
(* starts of packet_rate_emulator.go and frame_rate_emulator.go): a buffer  *)
(* sorted by timestamp, filled by the goroutine of the node's handler and   *)
(* emptied by the emulator's own, the ticker, which dispatches an item once *)
(* the clock has reached its time.                                          *)
(*                                                                          *)
(* A step is a critical section of e.m, of the pause's mutex, or a wait.     *)
(* Times and timestamps are whole units of one clock (the code has both in  *)
(* nanoseconds once rescaled).  The ticker's wait for a push goes through   *)
(* the reload channel, which push closes and forgets under e.m, and which   *)
(* the ticker, or the goroutine it spawns to watch it, reads without e.m.   *)
(***************************************************************************)
EXTENDS Integers, Sequences, FiniteSets, SequencesExt

CONSTANTS
  Items,          \* the packets, or frames, the handler receives
  Controllers,    \* goroutines of demuxers that control the rate of one packet each
  Stamps,         \* the timestamps each may come with
  NoTime,         \* no time.Time, no time reference
  Reference,      \* the time of timestamp 0, or NoTime when no reference is given
  BufferDuration,
  FlushOnStop,
  LastInput,       \* bound: no packet and no start comes later
  MaxTime,        \* bound: the end of the clock
  MaxOffset       \* bound: how long the user pauses, in all

ASSUME RateAssumption ==
  /\ Items \cap Controllers = {}
  /\ Stamps \in [Items \cup Controllers -> SUBSET Int]
  /\ NoTime \notin Int /\ Reference \in Int \cup {NoTime}
  /\ BufferDuration \in Nat /\ LastInput \in Nat /\ MaxTime \in Nat /\ MaxOffset \in Nat
  /\ FlushOnStop \in BOOLEAN

VARIABLES
  now,
  ctx,         \* the node's context, that start stores
  started,     \* e.startContext # nil
  reference,   \* e.timeReference
  preStart, items, nextAt,  \* e.preStartItems, e.items, e.nextAt
  reload,      \* e.reloadChan: "nil" or "open"
  ticker,      \* where the ticker is
  at,          \* the next at it read
  seen,        \* what was read as the reload channel of this tick
  flushing,    \* the ticker is past the stop
  popped,      \* the items it popped and did not dispatch: at most one
  pause, pausedAt, offset,  \* e.p
  ts,          \* the timestamps they come with
  control,     \* where each controller is, and until when it sleeps
  given,       \* history: the items pushed, in order
  dispatched,  \* history: the items dispatched, and when
  refused,     \* history: the items pushed after the stop, that the handler keeps
  forgotten    \* history: the items that waited for a start that came after the stop

buffer == <<reference, preStart, items, nextAt>>
wait == <<reload, at, seen, flushing>>
pausing == <<pause, pausedAt, offset>>
history == <<ts, given, dispatched, refused, forgotten>>
vars == <<now, ctx, started, buffer, wait, ticker, popped, pausing, control, history>>

Times == Int \cup {NoTime}
TickerLabels == {"unborn", "tick", "decide", "select", "blocked", "sleep", "pop", "wait",
                 "paused", "dispatch", "end", "stop", "flush", "done"}

At(pc) == [pc |-> pc, until |-> NoTime, heard |-> FALSE]  \* a controller that does not sleep

TypeOK ==
  /\ now \in 0 .. MaxTime
  /\ ctx \in {"live", "cancelled"} /\ started \in BOOLEAN
  /\ reference \in Times /\ nextAt \in Times /\ at \in Times
  /\ preStart \in Seq(Items) /\ items \in Seq(Items) /\ popped \in Seq(Items)
  /\ reload \in {"nil", "open"} /\ seen \in {"unread", "nil", "open", "closed"}
  /\ ticker \in TickerLabels /\ flushing \in BOOLEAN
  /\ pause \in {"none", "live", "cancelled"} /\ pausedAt \in Times /\ offset \in 0 .. MaxOffset
  /\ control \in [Controllers -> [pc : {"idle", "sleep", "paused", "done"}, until : Times,
                                  heard : BOOLEAN]]
  /\ given \in Seq(Items) /\ ts \in [Items \cup Controllers -> Int]
  /\ dispatched \in Seq([item : Items, at : Nat])
  /\ refused \subseteq Items /\ forgotten \subseteq Items

Init ==
  /\ now = 0
  /\ ctx = "live" /\ started = FALSE
  /\ reference = Reference
  /\ preStart = <<>> /\ items = <<>> /\ nextAt = NoTime
  /\ reload = "nil" /\ seen = "unread" /\ at = NoTime
  /\ ticker = "unborn" /\ flushing = FALSE /\ popped = <<>>
  /\ pause = "none" /\ pausedAt = NoTime /\ offset = 0
  /\ control = [c \in Controllers |-> At("idle")]
  /\ given = <<>> /\ dispatched = <<>> /\ refused = {} /\ forgotten = {}
  /\ ts \in [Items \cup Controllers -> UNION Range(Stamps)] /\ \A i \in DOMAIN ts : ts[i] \in Stamps[i]

(* The first timestamp asked for gives the reference when there is none.       *)
ReferenceWith(stamp) == IF reference = NoTime THEN now - stamp ELSE reference
Shifted(i) == ts[i] + offset
Due(i) == ReferenceWith(Shifted(i)) + Shifted(i)

(* Mutant: an item goes before those of the same timestamp.                   *)
InsertFirst(s, i) ==
  LET later == {j \in DOMAIN s : ts[i] <= ts[s[j]]}
  IN IF later = {} THEN Append(s, i) ELSE InsertAt(s, Min(later), i)

(* Mutant: an item takes the place of the one it goes before.                  *)
InsertOver(s, i) ==
  LET later == {j \in DOMAIN s : ts[i] < ts[s[j]]}
  IN IF later = {} THEN Append(s, i) ELSE [s EXCEPT ![Min(later)] = i]

Insert(s, i) ==
  LET later == {j \in DOMAIN s : ts[i] < ts[s[j]]}
  IN IF later = {} THEN Append(s, i) ELSE InsertAt(s, Min(later), i)

(* Each of some items in turn.                                                *)
InsertAll(s, new) ==
  LET filled[k \in 0 .. Len(new)] == IF k = 0 THEN s ELSE Insert(filled[k - 1], new[k])
  IN filled[Len(new)]

(* A closed reload channel wakes whoever had read it.                         *)
CloseReload ==
  /\ reload' = "nil"
  /\ seen' = IF reload = "open" /\ seen = "open" THEN "closed" ELSE seen
  /\ UNCHANGED <<at, flushing>>

SetNextAt ==
  IF items' = <<>>
    THEN nextAt' = NoTime /\ UNCHANGED reference
    ELSE nextAt' = Due(Head(items')) /\ reference' = ReferenceWith(Shifted(Head(items')))

Go(from, to) == ticker = from /\ ticker' = to

-----------------------------------------------------------------------------
(* The handler's goroutine *)

(* Mutant: an item is accepted after the stop.                                *)
PushAlways(i) ==
  /\ i \notin ToSet(given) /\ now <= LastInput
  /\ given' = Append(given, i)
  /\ \/ /\ ~started
        /\ preStart' = Append(preStart, i)
        /\ UNCHANGED <<reference, items, nextAt, wait>>
     \/ /\ started
        /\ items' = Insert(items, i)
        /\ SetNextAt
        /\ IF nextAt' = nextAt THEN UNCHANGED wait ELSE CloseReload
        /\ UNCHANGED preStart
  /\ UNCHANGED <<now, ctx, started, ticker, popped, pausing, control, ts, dispatched,
                 refused, forgotten>>

(* Before start the item waits for it; after the stop it is refused, and the   *)
(* handler keeps and releases it.  Otherwise it is inserted, and the ticker is  *)
(* reloaded if the next time changed.                                         *)
Push(i) ==
  /\ i \notin ToSet(given) /\ now <= LastInput
  /\ given' = Append(given, i)
  /\ \/ /\ ~started
        /\ preStart' = Append(preStart, i)
        /\ UNCHANGED <<reference, items, nextAt, wait, refused>>
     \/ /\ started /\ ctx = "cancelled"
        /\ refused' = refused \cup {i}
        /\ UNCHANGED <<buffer, wait>>
     \/ /\ started /\ ctx = "live"
        /\ items' = Insert(items, i)
        /\ SetNextAt
        /\ IF nextAt' = nextAt THEN UNCHANGED wait ELSE CloseReload
        /\ UNCHANGED <<preStart, refused>>
  /\ UNCHANGED <<now, ctx, started, ticker, popped, pausing, control, ts, dispatched, forgotten>>

-----------------------------------------------------------------------------
(* The ticker *)

(* The items that waited for the start are pushed in order; if the node was     *)
(* stopped before it started each is refused like any other, but its handler    *)
(* has long handed it over, and the emulator forgets it.                      *)
Start ==
  /\ Go("unborn", "tick") /\ now <= LastInput
  /\ started' = TRUE
  /\ preStart' = <<>>
  /\ IF ctx = "cancelled" \/ preStart = <<>>
       THEN forgotten' = ToSet(preStart) /\ UNCHANGED <<items, reference, nextAt>>
       ELSE /\ items' = InsertAll(items, preStart)
            /\ reference' = ReferenceWith(Shifted(Head(preStart)))
            /\ nextAt' = reference' + Shifted(Head(items'))
            /\ UNCHANGED forgotten
  /\ UNCHANGED <<now, ctx, wait, popped, pausing, control, ts, given, dispatched, refused>>

Tick ==
  /\ Go("tick", "decide")
  /\ at' = nextAt
  /\ reload' = "open" /\ seen' = "unread"
  /\ UNCHANGED <<now, ctx, started, buffer, flushing, popped, pausing, control, history>>

Decide ==
  /\ ticker = "decide"
  /\ ticker' = IF at = NoTime THEN "select" ELSE IF at <= now THEN "pop" ELSE "sleep"
  /\ UNCHANGED <<now, ctx, started, buffer, wait, popped, pausing, control, history>>

(* The select reads e.reloadChan, and so does the goroutine that watches it     *)
(* during a sleep; a push may have closed and forgotten it since the tick.    *)
ReadReload ==
  /\ seen' = reload
  /\ UNCHANGED <<now, ctx, started, buffer, reload, at, flushing, popped, pausing, control, history>>

Select == Go("select", "blocked") /\ ReadReload
WatchReload == Go("sleep", "sleep") /\ seen = "unread" /\ ReadReload

(* What the ticker does next, when nothing but that changes.                   *)
Turn == UNCHANGED <<now, ctx, started, buffer, wait, popped, pausing, control, history>>

Blocked ==
  /\ \/ Go("blocked", "stop") /\ ctx = "cancelled"
     \/ Go("blocked", "end") /\ seen = "closed"
  /\ Turn

(* Mutant: a reload is taken for the end of the sleep.                        *)
SleepPops ==
  /\ \/ Go("sleep", "stop") /\ ctx = "cancelled"
     \/ Go("sleep", "pop") /\ ctx = "live" /\ (now >= at \/ seen = "closed")
  /\ Turn

(* The sleep ends with the node, with a reload or on time.                    *)
Sleep ==
  /\ \/ Go("sleep", "stop") /\ ctx = "cancelled"
     \/ Go("sleep", "end") /\ ctx = "live" /\ seen = "closed"
     \/ Go("sleep", "pop") /\ ctx = "live" /\ now >= at
  /\ Turn

(* The deferred end of a tick.                                                *)
EndTick ==
  /\ Go("end", "tick")
  /\ CloseReload
  /\ UNCHANGED <<now, ctx, started, buffer, popped, pausing, control, history>>

Stop ==
  /\ ticker = "stop"
  /\ ticker' = IF FlushOnStop THEN "flush" ELSE "done"
  /\ flushing' = TRUE
  /\ reload' = "nil"
  /\ UNCHANGED <<now, ctx, started, at, seen, buffer, popped, pausing, control, history>>

(* Each item left is popped at its time, until there is none.                 *)
Flush ==
  /\ \/ Go("flush", "done") /\ nextAt = NoTime
     \/ Go("flush", "pop") /\ nextAt # NoTime /\ nextAt <= now
  /\ Turn

(* Mutant: the next time is not computed again.                               *)
PopLeavesNext ==
  /\ Go("pop", "wait")
  /\ popped' = <<Head(items)>> /\ items' = Tail(items)
  /\ UNCHANGED <<now, ctx, started, reference, nextAt, preStart, wait, pausing, control, history>>

(* The head of the buffer is taken, and the next time computed, before the     *)
(* pause is waited for.  (The buffer is never empty here: BufferAgrees.)      *)
Pop ==
  /\ Go("pop", "wait") /\ items # <<>>
  /\ popped' = <<Head(items)>> /\ items' = Tail(items)
  /\ SetNextAt
  /\ UNCHANGED <<now, ctx, started, preStart, wait, pausing, control, history>>

PauseWait ==
  /\ Go("wait", IF pause = "live" THEN "paused" ELSE "dispatch")
  /\ Turn

Dispatch ==
  /\ Go("dispatch", IF flushing THEN "flush" ELSE "end")
  /\ dispatched' = Append(dispatched, [item |-> Head(popped), at |-> now])
  /\ popped' = <<>>
  /\ UNCHANGED <<now, ctx, started, buffer, wait, pausing, control, ts, given, refused, forgotten>>

TickerStep ==
  \/ Start \/ Tick \/ Decide \/ Select \/ Blocked \/ Sleep \/ EndTick \/ Stop
  \/ Flush \/ Pop \/ PauseWait \/ Dispatch

-----------------------------------------------------------------------------
(* Pause and resume; the pause's context ends with the node's *)

(* The end of a pause's context frees everybody that waits for it.             *)
Unpause ==
  /\ ticker' = IF ticker = "paused" THEN "dispatch" ELSE ticker
  /\ control' = [c \in Controllers |->
                   IF control[c].pc = "paused" THEN At("done") ELSE control[c]]

Pause ==
  /\ started /\ pause = "none"
  /\ pause' = IF ctx = "live" THEN "live" ELSE "cancelled"
  /\ pausedAt' = now
  /\ UNCHANGED <<now, ctx, started, buffer, wait, ticker, popped, offset, control, history>>

Resume ==
  /\ pause # "none" /\ offset + (now - pausedAt) <= MaxOffset
  /\ pause' = "none"
  /\ offset' = offset + (now - pausedAt)
  /\ pausedAt' = NoTime
  /\ Unpause
  /\ UNCHANGED <<now, ctx, started, buffer, wait, popped, history>>

(* Mutant: the pause's context is not one of the node's.                      *)
CancelOnlyNode ==
  /\ ctx = "live" /\ ctx' = "cancelled"
  /\ UNCHANGED <<now, started, buffer, wait, ticker, popped, pausing, control, history>>

Cancel ==
  /\ ctx = "live" /\ ctx' = "cancelled"
  /\ pause' = IF pause = "live" THEN "cancelled" ELSE pause
  /\ Unpause
  /\ UNCHANGED <<now, started, buffer, wait, popped, pausedAt, offset, history>>

-----------------------------------------------------------------------------
(* controlPacketRate, on a demuxer's goroutine *)

(* It sleeps until its packet is due, less the buffer; only a start context    *)
(* that was there at the beginning ends the sleep early.                      *)
Control(c) ==
  /\ control[c].pc = "idle" /\ now <= LastInput
  /\ reference' = ReferenceWith(Shifted(c))
  /\ control' = [control EXCEPT ![c] = [pc |-> "sleep", until |-> Due(c) - BufferDuration,
                                        heard |-> started]]
  /\ UNCHANGED <<now, ctx, started, preStart, items, nextAt, wait, ticker, popped, pausing, history>>

ControlWakes(c) ==
  /\ control[c].pc = "sleep"
  /\ \/ now >= control[c].until
     \/ control[c].heard /\ ctx = "cancelled"
  /\ control' = [control EXCEPT ![c] = At(IF pause = "live" THEN "paused" ELSE "done")]
  /\ UNCHANGED <<now, ctx, started, buffer, wait, ticker, popped, pausing, history>>

(* The demuxer's own context, if it gave one, ends its sleep and its pause.     *)
ParentEnds(c) ==
  /\ control[c].pc \in {"sleep", "paused"}
  /\ control' = [control EXCEPT ![c] = At("done")]
  /\ UNCHANGED <<now, ctx, started, buffer, wait, ticker, popped, pausing, history>>

-----------------------------------------------------------------------------

Clock ==
  /\ now < MaxTime /\ now' = now + 1
  /\ UNCHANGED <<ctx, started, buffer, wait, ticker, popped, pausing, control, history>>

Next ==
  \/ \E i \in Items : Push(i)
  \/ TickerStep \/ WatchReload
  \/ Pause \/ Resume \/ Cancel
  \/ \E c \in Controllers : Control(c) \/ ControlWakes(c) \/ ParentEnds(c)
  \/ Clock

(* Goroutines are scheduled and time passes; nothing obliges anybody to push,  *)
(* to stop, to pause or to resume, nor a demuxer to end.                      *)
Fairness ==
  /\ WF_vars(TickerStep) /\ WF_vars(WatchReload) /\ WF_vars(Clock)
  /\ \A c \in Controllers : WF_vars(ControlWakes(c))

Spec == Init /\ [][Next]_vars /\ Fairness

-----------------------------------------------------------------------------
(* Properties *)

Before(i, j) == \E k, l \in DOMAIN given : given[k] = i /\ given[l] = j /\ k < l
Went(i) == \E k \in DOMAIN dispatched : dispatched[k].item = i

(* The buffer is sorted, items of one timestamp in the order they were pushed  *)
(* (packets of one stream keep their order), and the ticker has a next time    *)
(* exactly when there is something to dispatch, never before the head's.      *)
BufferAgrees ==
  /\ \A k, l \in DOMAIN items : k < l =>
       \/ ts[items[k]] < ts[items[l]]
       \/ ts[items[k]] = ts[items[l]] /\ Before(items[k], items[l])
  /\ items = <<>> <=> nextAt = NoTime
  /\ items # <<>> => nextAt >= reference + ts[Head(items)]

(* Each item that was pushed is in exactly one place: it waits for the start,   *)
(* is buffered, popped or dispatched, once, so that the packet behind it is    *)
(* dispatched and released at most once, and cannot slip out between two       *)
(* places.  The exceptions are those of the code (rate_emulator.go:72-75,196):  *)
(* what is refused after the stop, and what waited for a start that came after *)
(* the stop.  Nothing is turned away while the node lives.                    *)
InOnePlace ==
  LET places == preStart \o items \o popped \o [k \in DOMAIN dispatched |-> dispatched[k].item]
      lost == refused \cup forgotten
  IN /\ \A k, l \in DOMAIN places : places[k] = places[l] => k = l
     /\ ToSet(places) = ToSet(given) \ lost
     /\ lost \subseteq ToSet(given) /\ refused \cap forgotten = {}
     /\ lost # {} => ctx = "cancelled"

(* Items of one timestamp are dispatched in the order they were pushed, those   *)
(* that waited for the start included: packets that depend on one another      *)
(* reach the handler in order.                                               *)
DispatchedInOrder ==
  \A k, l \in DOMAIN dispatched :
    k < l /\ ts[dispatched[k].item] = ts[dispatched[l].item]
      => Before(dispatched[k].item, dispatched[l].item)

(* Nothing is dispatched before its time, whatever woke the ticker and whatever *)
(* was pushed between its reading of the next time and its pop.               *)
NotBeforeItsTime ==
  \A k \in DOMAIN dispatched :
    dispatched[k].at >= reference + ts[dispatched[k].item]

(* The goroutine that start runs on returns once the node is stopped, even if   *)
(* it is paused or missed a reload, and has emptied the buffer if it was told   *)
(* to flush.                                                                 *)
StopEnds == started /\ ctx = "cancelled" ~> ticker = "done"

FlushedAtTheEnd == ticker = "done" /\ FlushOnStop => items = <<>> /\ popped = <<>>

(* rate_emulator.go:229, "Reload": a push wakes the ticker, so that what is      *)
(* buffered is dispatched unless the node stops or the user pauses.           *)
PushedIsDispatched ==
  \A i \in Items : i \in ToSet(items) ~> Went(i) \/ ctx = "cancelled" \/ pause # "none"

=============================================================================
