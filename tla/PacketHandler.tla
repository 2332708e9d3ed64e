---------------------------- MODULE PacketHandler ----------------------------
(***************************************************************************)
(* The packet handler (pkg/libs/astiav/packet_handler.go) and what it keeps *)
(* packets in: the pool of packets (packet_pool.go), the pool of codec      *)
(* parameters that counts references (codec_parameters.go) and the two      *)
(* maps of descriptors by parent (packet_descriptor.go).                    *)
(*                                                                          *)
(* Every parent has a goroutine that hands packets over, users connect      *)
(* parents, and the handler's loop passes what was handed over to the node.  *)
(* The node may acquire a packet and release it later: in a later call of     *)
(* onPacket, as packet_handler_test.go does, or on a goroutine of its own,    *)
(* as the ticker of a rate emulator does.  Handing over and the loop         *)
(* exclude one another through the closer; the rest does not.                *)
(*                                                                          *)
(* Codec parameters and packets are numbered as they are allocated.  What a  *)
(* packet or its codec parameters say is a stream's name.                    *)
(***************************************************************************)
EXTENDS Integers, Sequences, FiniteSets, SequencesExt

CONSTANTS
  Noders,     \* the parents
  Users,      \* goroutines that connect one parent each
  Packets,
  NoderOf, StreamOf,  \* who hands a packet over, and the stream it is of
  InitialOf,  \* the stream a parent announces when it is connected
  None,
  Keeper,     \* who releases what the node acquires: "none", "handler" or "ticker"
  MaxAllocated  \* bound: allocations of each pool

Streams == Range(StreamOf) \cup Range(InitialOf)
Numbers == 1 .. MaxAllocated
Threads == Noders \cup Users

ASSUME HandlerAssumption ==
  /\ IsFiniteSet(Threads) /\ Noders \cap Users = {}
  /\ NoderOf \in [Packets -> Noders] /\ StreamOf \in [Packets -> Streams]
  /\ InitialOf \in [Noders -> Streams]
  /\ None \notin Streams /\ None \notin Packets /\ None \notin Numbers
  /\ None \notin Noders /\ None # "loop" /\ "loop" \notin Noders
  /\ None \notin [cp : Numbers, stream : Streams]
  /\ Keeper \in {"none", "handler", "ticker"}
  /\ MaxAllocated \in Nat

VARIABLES
  closed,    \* the node's closer
  lock,      \* who is inside h.c.Do
  cps,       \* h.cpp: what was allocated, what is free, and the references of each
  content,   \* what codec parameters say
  buffers,   \* h.pp: packets allocated and free
  payload,   \* what packets hold
  initial, previous,  \* initialIncomingPacketDescriptors, previousIncomingPacketDescriptors
  queue,     \* h.ch
  pc, arg, hold,  \* by thread: where it is, what it hands over or connects, its codec parameters
  loop, running, acquired,  \* the handler's loop, its job, ignoreReleasePacket
  kept,      \* jobs the node has acquired and not released
  given      \* packets handed over so far

pools == <<cps, content, buffers, payload>>
descriptors == <<initial, previous>>
threads == <<pc, arg, hold>>
looping == <<loop, running, acquired>>
vars == <<closed, lock, pools, descriptors, queue, threads, looping, kept, given>>

Job == [p : Packets, cp : Numbers, buffer : Numbers]
Descriptor == [cp : Numbers, stream : Streams]
Pool == [free : Seq(Numbers), allocated : 0 .. MaxAllocated]

TypeOK ==
  /\ closed \in BOOLEAN /\ lock \in Noders \cup {"loop", None}
  /\ cps \in [free : Seq(Numbers), allocated : 0 .. MaxAllocated, refs : [Numbers -> Nat]]
  /\ content \in [Numbers -> Streams \cup {None}]
  /\ buffers \in Pool /\ payload \in [Numbers -> Packets \cup {None}]
  /\ initial \in [Noders -> Descriptor \cup {None}]
  /\ previous \in [Noders -> Descriptor \cup {None}]
  /\ queue \in Seq(Job) /\ running \in Seq(Job) /\ kept \subseteq Job
  /\ pc \in [Threads -> {"idle", "get", "acquire", "copy", "ref", "store", "release", "callback", "done"}]
  /\ arg \in [Threads -> Packets \cup Noders \cup {None}]
  /\ hold \in [Threads -> Numbers \cup {None}]
  /\ loop \in {"wait", "onPacket", "store", "leave"} /\ acquired \in BOOLEAN
  /\ given \subseteq Packets

Init ==
  /\ closed = FALSE /\ lock = None
  /\ cps = [free |-> <<>>, allocated |-> 0, refs |-> [i \in Numbers |-> 0]]
  /\ content = [i \in Numbers |-> None]
  /\ buffers = [free |-> <<>>, allocated |-> 0] /\ payload = [i \in Numbers |-> None]
  /\ initial = [n \in Noders |-> None] /\ previous = [n \in Noders |-> None]
  /\ queue = <<>> /\ running = <<>> /\ kept = {} /\ acquired = FALSE
  /\ pc = [t \in Threads |-> "idle"] /\ arg = [t \in Threads |-> None]
  /\ hold = [t \in Threads |-> None]
  /\ loop = "wait" /\ given = {}

-----------------------------------------------------------------------------
(* The pools *)

(* The first free element, or one allocated for the occasion.                 *)
CanGet(pool) == pool.free # <<>> \/ pool.allocated < MaxAllocated
First(pool) == IF pool.free = <<>> THEN pool.allocated + 1 ELSE Head(pool.free)

(* Mutant: what was free stays in the pool.                                   *)
WithoutNew(pool) ==
  IF pool.free = <<>> THEN [pool EXCEPT !.allocated = @ + 1] ELSE pool

WithoutFirst(pool) ==
  IF pool.free = <<>> THEN [pool EXCEPT !.allocated = @ + 1]
  ELSE [pool EXCEPT !.free = Tail(@)]

Acquired(s, cp) == [s EXCEPT !.refs[cp] = @ + 1]

(* Mutant: every release pools.                                               *)
ReleasedAtOnce(s, cp) == [s EXCEPT !.refs[cp] = @ - 1, !.free = Append(@, cp)]

(* The last release pools, and so does every one after it.                    *)
Released(s, cp) ==
  [s EXCEPT !.refs[cp] = @ - 1,
            !.free = IF s.refs[cp] <= 1 THEN Append(@, cp) ELSE @]

(* Mutants: the descriptor before is not released; the new one not acquired.   *)
StoredOver(s, d, cp) == Acquired(s, cp)
StoredOnly(s, d, cp) == IF d = None THEN s ELSE Released(s, d.cp)

(* A descriptor takes the place of d in a map: d is released before the new    *)
(* one is acquired, with the map's lock held around both, so that nobody finds *)
(* neither there.  They are two sections of the counter's lock; between them   *)
(* the new parameters have another holder, the copy under way or the job.     *)
Stored(s, d, cp) == Acquired(IF d = None THEN s ELSE Released(s, d.cp), cp)

Put(i) == buffers' = [buffers EXCEPT !.free = Append(@, i)] /\ payload' = [payload EXCEPT ![i] = None]

(* releasePacketFunc: the job's descriptor and its packet.                    *)
FreeJob(j) == cps' = Released(cps, j.cp) /\ Put(j.buffer) /\ UNCHANGED content

-----------------------------------------------------------------------------
(* A copy of a descriptor, for HandlePacket by a parent or OnConnect by a user *)

Wanted(t) == IF t \in Noders THEN StreamOf[arg[t]] ELSE InitialOf[arg[t]]

(* A parent's goroutine leaves HandlePacket, a user's OnConnect.               *)
Return(t) ==
  /\ pc' = [pc EXCEPT ![t] = IF t \in Noders THEN "idle" ELSE "done"]
  /\ hold' = [hold EXCEPT ![t] = None] /\ arg' = [arg EXCEPT ![t] = None]
  /\ lock' = IF t \in Noders THEN None ELSE lock

Get(t) ==
  /\ CanGet(cps)
  /\ hold' = [hold EXCEPT ![t] = First(cps)]
  /\ cps' = WithoutFirst(cps)
  /\ pc' = [pc EXCEPT ![t] = "acquire"]

Acquire(t) ==
  /\ pc[t] = "acquire" /\ pc' = [pc EXCEPT ![t] = "copy"]
  /\ cps' = Acquired(cps, hold[t])
  /\ UNCHANGED <<closed, lock, content, buffers, payload, descriptors, queue, arg, hold,
                 looping, kept, given>>

Copy(t) ==
  /\ pc[t] = "copy"
  /\ \/ /\ content' = [content EXCEPT ![hold[t]] = Wanted(t)]
        /\ pc' = [pc EXCEPT ![t] = IF t \in Noders THEN "ref" ELSE "store"]
        /\ UNCHANGED <<cps, lock, arg, hold>>
     \/ Return(t) /\ cps' = Released(cps, hold[t]) /\ UNCHANGED content
  /\ UNCHANGED <<closed, buffers, payload, descriptors, queue, looping, kept, given>>

-----------------------------------------------------------------------------
(* HandlePacket, on the goroutine of a parent *)

(* A closed closer does nothing.                                              *)
Handle(p) ==
  LET n == NoderOf[p]
  IN /\ p \notin given /\ pc[n] = "idle" /\ lock = None
     /\ given' = given \cup {p}
     /\ \/ closed /\ UNCHANGED <<lock, threads, cps>>
        \/ ~closed /\ lock' = n /\ arg' = [arg EXCEPT ![n] = p] /\ Get(n)
     /\ UNCHANGED <<closed, content, buffers, payload, descriptors, queue, looping, kept>>

(* The packet itself is copied and the job queued.  A packet that cannot be     *)
(* copied does not go back to its pool.                                       *)
AddJob(n) ==
  /\ pc[n] = "ref" /\ CanGet(buffers)
  /\ buffers' = WithoutFirst(buffers)
  /\ \/ /\ payload' = [payload EXCEPT ![First(buffers)] = arg[n]]
        /\ queue' = Append(queue, [p |-> arg[n], cp |-> hold[n], buffer |-> First(buffers)])
        /\ UNCHANGED cps
     \/ cps' = Released(cps, hold[n]) /\ UNCHANGED <<payload, queue>>
  /\ Return(n)
  /\ UNCHANGED <<closed, content, descriptors, looping, kept, given>>

-----------------------------------------------------------------------------
(* OnConnect, on the goroutine of a user: nothing excludes it from the rest *)

Connect(u, n) ==
  /\ pc[u] = "idle" /\ initial[n] = None
  /\ arg' = [arg EXCEPT ![u] = n] /\ pc' = [pc EXCEPT ![u] = "get"]
  /\ UNCHANGED <<closed, lock, pools, descriptors, queue, hold, looping, kept, given>>

GetCopy(u) ==
  /\ pc[u] = "get" /\ Get(u)
  /\ UNCHANGED <<closed, lock, content, buffers, payload, descriptors, queue, arg, looping, kept, given>>

StoreInitial(u) ==
  /\ pc[u] = "store" /\ pc' = [pc EXCEPT ![u] = "release"]
  /\ cps' = Stored(cps, initial[arg[u]], hold[u])
  /\ initial' = [initial EXCEPT ![arg[u]] = [cp |-> hold[u], stream |-> InitialOf[arg[u]]]]
  /\ UNCHANGED <<closed, lock, content, buffers, payload, previous, queue, arg, hold, looping,
                 kept, given>>

ReleaseCopy(u) ==
  /\ pc[u] = "release" /\ pc' = [pc EXCEPT ![u] = "callback"]
  /\ cps' = Released(cps, hold[u])
  /\ UNCHANGED <<closed, lock, content, buffers, payload, descriptors, queue, arg, hold, looping,
                 kept, given>>

(* Mutant: a refused connection releases the copy once more.                  *)
CallbackReleases(u) ==
  /\ pc[u] = "callback" /\ Return(u)
  /\ \/ UNCHANGED <<cps, initial>>
     \/ /\ cps' = Released(IF initial[arg[u]] = None THEN cps ELSE Released(cps, initial[arg[u]].cp), hold[u])
        /\ initial' = [initial EXCEPT ![arg[u]] = None]
  /\ UNCHANGED <<closed, content, buffers, payload, previous, queue, looping, kept, given>>

(* The node accepts the parent, or the descriptor is removed.                 *)
Callback(u) ==
  /\ pc[u] = "callback" /\ Return(u)
  /\ \/ UNCHANGED <<cps, initial>>
     \/ /\ cps' = IF initial[arg[u]] = None THEN cps ELSE Released(cps, initial[arg[u]].cp)
        /\ initial' = [initial EXCEPT ![arg[u]] = None]
  /\ UNCHANGED <<closed, content, buffers, payload, previous, queue, looping, kept, given>>

-----------------------------------------------------------------------------
(* The handler's loop *)

Take ==
  /\ loop = "wait" /\ lock = None /\ queue # <<>>
  /\ queue' = Tail(queue)
  /\ \/ closed /\ UNCHANGED <<lock, looping>>
     \/ /\ ~closed /\ lock' = "loop" /\ loop' = "onPacket"
        /\ running' = <<Head(queue)>> /\ acquired' = FALSE
  /\ UNCHANGED <<closed, pools, descriptors, threads, kept, given>>

(* The node does its work, and may acquire the packet.                        *)
OnPacket ==
  /\ loop = "onPacket" /\ loop' = "store"
  /\ \/ UNCHANGED <<acquired, kept>>
     \/ Keeper # "none" /\ acquired' = TRUE /\ kept' = kept \cup ToSet(running)
  /\ UNCHANGED <<closed, lock, pools, descriptors, queue, threads, running, given>>

StorePrevious ==
  LET j == Head(running)
      n == NoderOf[j.p]
  IN /\ loop = "store" /\ loop' = "leave"
     /\ cps' = Stored(cps, previous[n], j.cp)
     /\ previous' = [previous EXCEPT ![n] = [cp |-> j.cp, stream |-> StreamOf[j.p]]]
     /\ UNCHANGED <<closed, lock, content, buffers, payload, initial, queue, threads, running,
                    acquired, kept, given>>

(* Mutant: an acquired packet is released too.                                *)
LeaveReleases ==
  /\ loop = "leave" /\ loop' = "wait" /\ lock' = None /\ running' = <<>> /\ acquired' = FALSE
  /\ FreeJob(Head(running))
  /\ UNCHANGED <<closed, descriptors, queue, threads, kept, given>>

Leave ==
  /\ loop = "leave" /\ loop' = "wait" /\ lock' = None /\ running' = <<>> /\ acquired' = FALSE
  /\ IF acquired THEN UNCHANGED pools ELSE FreeJob(Head(running))
  /\ UNCHANGED <<closed, descriptors, queue, threads, kept, given>>

(* The node releases what it acquired, in a later call of onPacket or on a       *)
(* goroutine of its own.                                                      *)
ReleaseKept(j) ==
  /\ Keeper = "handler" => loop = "onPacket"
  /\ kept' = kept \ {j} /\ FreeJob(j)
  /\ UNCHANGED <<closed, lock, descriptors, queue, threads, looping, given>>

-----------------------------------------------------------------------------

Close ==
  /\ ~closed /\ lock = None /\ closed' = TRUE
  /\ UNCHANGED <<lock, pools, descriptors, queue, threads, looping, kept, given>>

Next ==
  \/ \E p \in Packets : Handle(p)
  \/ \E t \in Threads : Acquire(t) \/ Copy(t)
  \/ \E n \in Noders : AddJob(n)
  \/ \E u \in Users : (\E n \in Noders : Connect(u, n)) \/ GetCopy(u)
  \/ \E u \in Users : StoreInitial(u) \/ ReleaseCopy(u) \/ Callback(u)
  \/ Take \/ OnPacket \/ StorePrevious \/ Leave
  \/ \E j \in kept : ReleaseKept(j)
  \/ Close

Spec == Init /\ [][Next]_vars

-----------------------------------------------------------------------------
(* Properties *)

(* The jobs whose packet and descriptor are in use.                           *)
Jobs == ToSet(queue) \cup kept \cup (IF acquired THEN {} ELSE ToSet(running))

Holders(cp) ==
  Cardinality({n \in Noders : initial[n] # None /\ initial[n].cp = cp})
  + Cardinality({n \in Noders : previous[n] # None /\ previous[n].cp = cp})
  + Cardinality({j \in Jobs : j.cp = cp})
  + Cardinality({t \in Threads : hold[t] = cp /\ pc[t] \in {"copy", "ref", "store", "release"}})

(* Codec parameters are referenced as often as a packet, a parent's first or    *)
(* last descriptor or a copy in progress uses them: neither leaked nor pooled  *)
(* while in use.                                                             *)
CountsAgree == ~closed => \A cp \in 1 .. cps.allocated : cps.refs[cp] = Holders(cp)

(* The pool of codec parameters holds what nobody references, once each.       *)
PoolHoldsTheRest ==
  ~closed => \A cp \in 1 .. cps.allocated :
    Cardinality({i \in DOMAIN cps.free : cps.free[i] = cp}) =
      IF cps.refs[cp] = 0 /\ \A t \in Threads : ~(hold[t] = cp /\ pc[t] = "acquire") THEN 1 ELSE 0

(* Until it is released, a packet the node was given keeps its data and the     *)
(* codec parameters it came with, whatever else arrives meanwhile             *)
(* (packet_handler_test.go:97, "packet and descriptor are copied and closed    *)
(* properly, acquiring packet works properly").                              *)
PacketsKeepWhatTheyCameWith ==
  ~closed => \A j \in Jobs : content[j.cp] = StreamOf[j.p] /\ payload[j.buffer] = j.p

(* A parent's first and last descriptors say what they said when stored: a      *)
(* decoder is made and flushed with them long after.                          *)
DescriptorsKeepWhatTheySaid ==
  ~closed => \A n \in Noders :
    /\ initial[n] # None => content[initial[n].cp] = initial[n].stream
    /\ previous[n] # None => content[previous[n].cp] = previous[n].stream

=============================================================================
