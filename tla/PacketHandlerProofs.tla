------------------------- MODULE PacketHandlerProofs -------------------------
(***************************************************************************)
(* Proofs about PacketHandler.tla, for any parents, users, packets and     *)
(* sizes of the pools: the counts of references whoever releases what the   *)
(* node acquires, the pools and what is in use when it releases in its own   *)
(* calls or never.                                                          *)
(***************************************************************************)
EXTENDS PacketHandler, FiniteSetTheorems, TLAPS

NoderLabels == {"idle", "acquire", "copy", "ref"}
UserLabels == {"idle", "get", "acquire", "copy", "store", "release", "callback", "done"}
Holding == {"acquire", "copy", "ref", "store", "release"}
Counting == Holding \ {"acquire"}

Running == ToSet(running)
Queued == ToSet(queue)

(* What each thread hands over or connects, where it is.                      *)
Places ==
  /\ \A n \in Noders : pc[n] \in NoderLabels /\ (pc[n] # "idle" => arg[n] \in given)
  /\ \A u \in Users : pc[u] \in UserLabels /\ (pc[u] \notin {"idle", "done"} => arg[u] \in Noders)
  /\ \A t \in Threads : pc[t] \in Holding => hold[t] \in Numbers

(* The closer's lock is held by the parent that hands over, or by the loop.   *)
Excluded ==
  /\ \A n \in Noders : pc[n] # "idle" => lock = n /\ NoderOf[arg[n]] = n
  /\ loop # "wait" <=> lock = "loop"
  /\ loop = "wait" => running = <<>> /\ ~acquired
  /\ loop # "wait" => Len(running) = 1
  /\ loop = "onPacket" => ~acquired

(* A packet is handed over once, and is in one place until it is released.    *)
Once ==
  /\ \A i, k \in DOMAIN queue : queue[i].p = queue[k].p => i = k
  /\ \A j \in Queued, k \in kept \cup Running : j.p # k.p
  /\ ~acquired => \A j \in kept, k \in Running : j.p # k.p
  /\ \A j \in Queued \cup kept \cup Running :
       j.p \in given /\ \A n \in Noders : pc[n] # "idle" => arg[n] # j.p

FirstOf(cp) == {n \in Noders : initial[n] # None /\ initial[n].cp = cp}
LastOf(cp) == {n \in Noders : previous[n] # None /\ previous[n].cp = cp}
JobsOf(cp) == {j \in Jobs : j.cp = cp}
CopiesOf(cp) == {t \in Threads : hold[t] = cp /\ pc[t] \in Counting}

(* What is not allocated is not referenced either.  A job the loop drops once  *)
(* the closer is closed keeps its reference.                                  *)
Counted ==
  \A cp \in Numbers :
    /\ cps.refs[cp] >= Holders(cp)
    /\ ~closed => cps.refs[cp] = Holders(cp)

CountInv == TypeOK /\ Places /\ Excluded /\ Once /\ IsFiniteSet(Jobs) /\ Counted

Fetched == {t \in Threads : pc[t] = "acquire"}

(* Nothing is free twice; what is free is neither referenced nor in the hands  *)
(* of a thread that got it and did not acquire it yet (inHand).               *)
FreeAgrees(s, inHand) ==
  /\ IsInjective(s.free)
  /\ \A cp \in ToSet(s.free) : cp <= s.allocated
  /\ \A cp \in Numbers : cp > s.allocated => s.refs[cp] = 0
  /\ \A cp \in Numbers : cp <= s.allocated =>
       (cp \in ToSet(s.free) <=> s.refs[cp] = 0 /\ cp \notin inHand)
  /\ \A cp \in inHand : s.refs[cp] = 0 /\ cp <= s.allocated

InHand == {hold[t] : t \in Fetched}

(* What was got from the pool is its thread's alone until it is filled.        *)
Pooled ==
  /\ FreeAgrees(cps, InHand)
  /\ \A t, r \in Fetched : hold[r] = hold[t] => r = t
  /\ \A t \in Threads : pc[t] = "copy" => cps.refs[hold[t]] = 1

(* The node keeps what it acquired for as long as onPacket works on it.       *)
Kept ==
  /\ loop # "wait" /\ acquired => Running \subseteq kept
  /\ Keeper = "none" => kept = {}

(* Codec parameters say what their users came for.                            *)
JobsFilled == \A j \in Jobs : content[j.cp] = StreamOf[j.p]
CopiesFilled ==
  /\ \A n \in Noders : pc[n] = "ref" => content[hold[n]] = StreamOf[arg[n]]
  /\ \A u \in Users : pc[u] = "store" => content[hold[u]] = InitialOf[arg[u]]
DescriptorsFilled ==
  \A n \in Noders :
    /\ initial[n] # None => content[initial[n].cp] = initial[n].stream
    /\ previous[n] # None => content[previous[n].cp] = previous[n].stream
Filled == JobsFilled /\ CopiesFilled /\ DescriptorsFilled

(* The packets' pool: a buffer is free, in one job, or lost.                   *)
Buffered ==
  /\ IsInjective(buffers.free)
  /\ \A i \in DOMAIN buffers.free : buffers.free[i] <= buffers.allocated
  /\ \A j \in Jobs :
       /\ payload[j.buffer] = j.p /\ j.buffer <= buffers.allocated
       /\ j.buffer \notin ToSet(buffers.free)
       /\ \A k \in Jobs : k.buffer = j.buffer => k = j

UseInv == CountInv /\ Pooled /\ Kept /\ Filled /\ Buffered

-----------------------------------------------------------------------------
(* Lemmas about sequences *)

LEMMA AppendSet ==
  ASSUME NEW S, NEW s \in Seq(S), NEW e
  PROVE  /\ ToSet(Append(s, e)) = ToSet(s) \cup {e}
         /\ IsInjective(s) /\ e \notin ToSet(s) => IsInjective(Append(s, e))
<1>1. /\ DOMAIN Append(s, e) = 1 .. Len(s) + 1 /\ DOMAIN s = 1 .. Len(s) /\ Len(s) \in Nat
      /\ \A i \in 1 .. Len(s) : Append(s, e)[i] = s[i]
      /\ Append(s, e)[Len(s) + 1] = e
  OBVIOUS
<1>2. ToSet(Append(s, e)) = ToSet(s) \cup {e}
  BY <1>1 DEF ToSet
<1>3. IsInjective(s) /\ e \notin ToSet(s) => IsInjective(Append(s, e))
  BY <1>1 DEF ToSet, IsInjective
<1> QED BY <1>2, <1>3

LEMMA TailSet ==
  ASSUME NEW S, NEW s \in Seq(S), s # <<>>
  PROVE  /\ Head(s) \in ToSet(s) /\ ToSet(s) = ToSet(Tail(s)) \cup {Head(s)}
         /\ IsInjective(s) => IsInjective(Tail(s)) /\ Head(s) \notin ToSet(Tail(s))
<1>1. /\ Len(s) \in Nat \ {0} /\ DOMAIN s = 1 .. Len(s) /\ Head(s) = s[1]
      /\ DOMAIN Tail(s) = 1 .. Len(s) - 1
      /\ \A i \in 1 .. Len(s) - 1 : Tail(s)[i] = s[i + 1]
  OBVIOUS
<1>2. \A i \in DOMAIN s : i = 1 \/ (i - 1 \in DOMAIN Tail(s) /\ Tail(s)[i - 1] = s[i])
  BY <1>1
<1>3. \A i \in DOMAIN Tail(s) : i \in Nat /\ i + 1 \in DOMAIN s /\ i + 1 # 1 /\ Tail(s)[i] = s[i + 1]
  BY <1>1
<1>4. 1 \in DOMAIN s
  BY <1>1
<1>5. Head(s) \in ToSet(s) /\ ToSet(s) = ToSet(Tail(s)) \cup {Head(s)}
  <2>1. Head(s) \in ToSet(s)
    BY <1>1, <1>4 DEF ToSet
  <2>2. \A i \in DOMAIN s : s[i] \in ToSet(Tail(s)) \cup {Head(s)}
    BY <1>1, <1>2 DEF ToSet
  <2>3. \A i \in DOMAIN Tail(s) : Tail(s)[i] \in ToSet(s)
    BY <1>3 DEF ToSet
  <2> QED BY <2>1, <2>2, <2>3 DEF ToSet
<1>6. IsInjective(s) => Head(s) \notin ToSet(Tail(s))
  BY <1>1, <1>3, <1>4 DEF ToSet, IsInjective
<1>7. IsInjective(s) => IsInjective(Tail(s))
  <2> SUFFICES ASSUME IsInjective(s), NEW a \in DOMAIN Tail(s), NEW b \in DOMAIN Tail(s), Tail(s)[a] = Tail(s)[b]
               PROVE  a = b
    BY DEF IsInjective
  <2>1. s[a + 1] = s[b + 1] /\ a + 1 \in DOMAIN s /\ b + 1 \in DOMAIN s /\ a \in Nat /\ b \in Nat
    BY <1>3
  <2>2. a + 1 = b + 1
    BY <2>1 DEF IsInjective
  <2> QED BY <2>1, <2>2
<1> QED BY <1>5, <1>6, <1>7

-----------------------------------------------------------------------------
(* Lemmas about the pools *)

CodecPool == [free : Seq(Numbers), allocated : 0 .. MaxAllocated, refs : [Numbers -> Nat]]

(* A pool that can give something gives a number it may use.                  *)
LEMMA FirstIsANumber ==
  ASSUME NEW free \in Seq(Numbers), NEW allocated \in 0 .. MaxAllocated, NEW pool,
         pool.free = free, pool.allocated = allocated, CanGet(pool)
  PROVE  First(pool) \in Numbers
<1> USE HandlerAssumption DEF First, CanGet, Numbers
<1>1. CASE free = <<>>
  BY <1>1
<1>2. CASE free # <<>>
  BY <1>2
<1> QED BY <1>1, <1>2

LEMMA WithoutFirstFields ==
  ASSUME NEW s \in CodecPool, CanGet(s)
  PROVE  /\ WithoutFirst(s) \in CodecPool
         /\ WithoutFirst(s).refs = s.refs
         /\ WithoutFirst(s).free = IF s.free = <<>> THEN s.free ELSE Tail(s.free)
         /\ WithoutFirst(s).allocated = IF s.free = <<>> THEN s.allocated + 1 ELSE s.allocated
<1> USE HandlerAssumption DEF CodecPool, CanGet, WithoutFirst
<1>1. CASE s.free = <<>>
  BY <1>1
<1>2. CASE s.free # <<>>
  <2>1. Tail(s.free) \in Seq(Numbers)
    BY <1>2
  <2> QED BY <1>2, <2>1
<1> QED BY <1>1, <1>2

LEMMA WithoutFirstBuffer ==
  ASSUME NEW s \in Pool, CanGet(s)
  PROVE  /\ WithoutFirst(s) \in Pool
         /\ WithoutFirst(s).free = IF s.free = <<>> THEN s.free ELSE Tail(s.free)
         /\ WithoutFirst(s).allocated = IF s.free = <<>> THEN s.allocated + 1 ELSE s.allocated
<1> USE HandlerAssumption DEF Pool, CanGet, WithoutFirst
<1>1. CASE s.free = <<>>
  BY <1>1
<1>2. CASE s.free # <<>>
  <2>1. Tail(s.free) \in Seq(Numbers)
    BY <1>2
  <2> QED BY <1>2, <2>1
<1> QED BY <1>1, <1>2

LEMMA AcquiredFields ==
  ASSUME NEW s \in CodecPool, NEW c \in Numbers
  PROVE  /\ Acquired(s, c) \in CodecPool
         /\ Acquired(s, c).refs = [s.refs EXCEPT ![c] = @ + 1]
         /\ Acquired(s, c).free = s.free
         /\ Acquired(s, c).allocated = s.allocated
<1>1. s.refs \in [Numbers -> Nat] /\ [s.refs EXCEPT ![c] = @ + 1] \in [Numbers -> Nat]
  BY DEF CodecPool
<1>2. Acquired(s, c) = [s EXCEPT !.refs = [s.refs EXCEPT ![c] = @ + 1]]
  BY DEF Acquired
<1> QED BY <1>1, <1>2 DEF CodecPool

LEMMA ReleasedFields ==
  ASSUME NEW s \in CodecPool, NEW c \in Numbers, s.refs[c] >= 1
  PROVE  /\ Released(s, c) \in CodecPool
         /\ Released(s, c).refs = [s.refs EXCEPT ![c] = @ - 1]
         /\ Released(s, c).free = IF s.refs[c] = 1 THEN Append(s.free, c) ELSE s.free
         /\ Released(s, c).allocated = s.allocated
<1>1. Append(s.free, c) \in Seq(Numbers)
  BY DEF CodecPool
<1>2. s.refs[c] \in Nat /\ s.refs \in [Numbers -> Nat]
  BY DEF CodecPool
<1>3. [s.refs EXCEPT ![c] = @ - 1] \in [Numbers -> Nat]
  BY <1>2
<1>4. Released(s, c) = [s EXCEPT !.refs = [s.refs EXCEPT ![c] = @ - 1],
                                 !.free = IF s.refs[c] = 1 THEN Append(s.free, c) ELSE s.free]
  <2>1. CASE s.refs[c] = 1
    BY <2>1 DEF Released
  <2>2. CASE s.refs[c] # 1
    <3>1. ~(s.refs[c] <= 1)
      BY <1>2, <2>2
    <3> QED BY <2>2, <3>1 DEF Released
  <2> QED BY <2>1, <2>2
<1> QED BY <1>1, <1>2, <1>3, <1>4 DEF CodecPool

LEMMA StoredFields ==
  ASSUME NEW s \in CodecPool, NEW c \in Numbers, NEW d \in Descriptor \cup {None},
         d # None => s.refs[d.cp] >= 1
  PROVE  /\ Stored(s, d, c) \in CodecPool
         /\ Stored(s, d, c).allocated = s.allocated
         /\ \A x \in Numbers :
              Stored(s, d, c).refs[x] =
                s.refs[x] - (IF d # None /\ d.cp = x THEN 1 ELSE 0) + (IF x = c THEN 1 ELSE 0)
         /\ Stored(s, d, c).free = IF d # None /\ s.refs[d.cp] = 1 THEN Append(s.free, d.cp) ELSE s.free
<1> DEFINE r == Released(s, d.cp)
<1>a. s.refs \in [Numbers -> Nat]
  BY DEF CodecPool
<1>1. CASE d = None
  <2>1. Stored(s, d, c) = Acquired(s, c)
    BY <1>1 DEF Stored
  <2>2. /\ Acquired(s, c) \in CodecPool /\ Acquired(s, c).refs = [s.refs EXCEPT ![c] = @ + 1]
        /\ Acquired(s, c).free = s.free /\ Acquired(s, c).allocated = s.allocated
    BY AcquiredFields
  <2> QED BY <1>1, <1>a, <2>1, <2>2
<1>2. CASE d # None
  <2>1. d.cp \in Numbers
    BY <1>2 DEF Descriptor
  <2>2. /\ r \in CodecPool /\ r.refs = [s.refs EXCEPT ![d.cp] = @ - 1]
        /\ r.free = IF s.refs[d.cp] = 1 THEN Append(s.free, d.cp) ELSE s.free
        /\ r.allocated = s.allocated
    BY <1>2, <2>1, ReleasedFields
  <2>3. Stored(s, d, c) = Acquired(r, c)
    BY <1>2 DEF Stored
  <2>4. /\ Acquired(r, c) \in CodecPool /\ Acquired(r, c).refs = [r.refs EXCEPT ![c] = @ + 1]
        /\ Acquired(r, c).free = r.free /\ Acquired(r, c).allocated = r.allocated
    BY <2>2, AcquiredFields
  <2>5. r.refs \in [Numbers -> Nat]
    BY <2>2 DEF CodecPool
  <2> HIDE DEF r
  <2> QED BY <1>2, <1>a, <2>1, <2>2, <2>3, <2>4, <2>5
<1> QED BY <1>1, <1>2

(* A family that gains or loses one member counts one more or one less.        *)
LEMMA OneMore ==
  ASSUME NEW S, IsFiniteSet(S), NEW x, x \notin S
  PROVE  /\ IsFiniteSet(S \cup {x})
         /\ Cardinality(S \cup {x}) = Cardinality(S) + 1
BY FS_AddElement

LEMMA OneLess ==
  ASSUME NEW S, IsFiniteSet(S), NEW x \in S
  PROVE  /\ IsFiniteSet(S \ {x})
         /\ Cardinality(S \ {x}) = Cardinality(S) - 1
BY FS_RemoveElement

LEMMA Families ==
  ASSUME CountInv, NEW cp \in Numbers
  PROVE  /\ \A S \in {FirstOf(cp), LastOf(cp), JobsOf(cp), CopiesOf(cp)} :
              /\ IsFiniteSet(S) /\ Cardinality(S) \in Nat
              /\ Cardinality(S) = 0 <=> S = {}
         /\ Holders(cp) = Cardinality(FirstOf(cp)) + Cardinality(LastOf(cp))
                          + Cardinality(JobsOf(cp)) + Cardinality(CopiesOf(cp))
<1>1. IsFiniteSet(Threads) /\ IsFiniteSet(Jobs)
  BY HandlerAssumption DEF CountInv
<1>2. FirstOf(cp) \subseteq Threads /\ LastOf(cp) \subseteq Threads /\ CopiesOf(cp) \subseteq Threads
  BY DEF FirstOf, LastOf, CopiesOf, Threads
<1>3. JobsOf(cp) \subseteq Jobs
  BY DEF JobsOf
<1>4. \A S \in {FirstOf(cp), LastOf(cp), JobsOf(cp), CopiesOf(cp)} : IsFiniteSet(S)
  BY <1>1, <1>2, <1>3, FS_Subset
<1>5. \A S \in {FirstOf(cp), LastOf(cp), JobsOf(cp), CopiesOf(cp)} :
         Cardinality(S) \in Nat /\ (Cardinality(S) = 0 <=> S = {})
  BY <1>4, FS_CardinalityType, FS_EmptySet
<1>6. Holders(cp) = Cardinality(FirstOf(cp)) + Cardinality(LastOf(cp))
                          + Cardinality(JobsOf(cp)) + Cardinality(CopiesOf(cp))
  BY DEF Holders, FirstOf, LastOf, JobsOf, CopiesOf, Counting, Holding
<1> QED BY <1>4, <1>5, <1>6

(* Whoever uses codec parameters has a reference to them.                      *)
LEMMA Referenced ==
  ASSUME CountInv
  PROVE  /\ \A t \in Threads : pc[t] \in Counting => hold[t] \in Numbers /\ cps.refs[hold[t]] >= 1
         /\ \A n \in Noders :
              /\ initial[n] \in Descriptor \cup {None} /\ previous[n] \in Descriptor \cup {None}
              /\ initial[n] # None => initial[n].cp \in Numbers /\ cps.refs[initial[n].cp] >= 1
              /\ previous[n] # None => previous[n].cp \in Numbers /\ cps.refs[previous[n].cp] >= 1
         /\ \A j \in Jobs : j \in Job /\ cps.refs[j.cp] >= 1
<1>1. \A cp \in Numbers :
         /\ cps.refs[cp] \in Nat
         /\ FirstOf(cp) \cup LastOf(cp) \cup JobsOf(cp) \cup CopiesOf(cp) # {} => cps.refs[cp] >= 1
  <2> TAKE cp \in Numbers
  <2>1. cps.refs[cp] \in Nat /\ cps.refs[cp] >= Holders(cp)
    BY DEF CountInv, TypeOK, Counted
  <2>2. /\ \A S \in {FirstOf(cp), LastOf(cp), JobsOf(cp), CopiesOf(cp)} :
              Cardinality(S) \in Nat /\ (Cardinality(S) = 0 <=> S = {})
        /\ Holders(cp) = Cardinality(FirstOf(cp)) + Cardinality(LastOf(cp))
                          + Cardinality(JobsOf(cp)) + Cardinality(CopiesOf(cp))
    BY Families
  <2> QED BY <2>1, <2>2
<1>2. \A t \in Threads : pc[t] \in Counting => hold[t] \in Numbers /\ t \in CopiesOf(hold[t])
  BY DEF CountInv, Places, Counting, CopiesOf
<1>3. \A n \in Noders :
         /\ initial[n] \in Descriptor \cup {None} /\ previous[n] \in Descriptor \cup {None}
         /\ initial[n] # None => initial[n].cp \in Numbers /\ n \in FirstOf(initial[n].cp)
         /\ previous[n] # None => previous[n].cp \in Numbers /\ n \in LastOf(previous[n].cp)
  BY DEF CountInv, TypeOK, Descriptor, FirstOf, LastOf
<1>4. \A j \in Jobs : j \in Job /\ j.cp \in Numbers /\ j \in JobsOf(j.cp)
  <2>1. Jobs \subseteq Job
    BY DEF CountInv, TypeOK, Jobs, ToSet
  <2> QED BY <2>1 DEF JobsOf, Job
<1> QED BY <1>1, <1>2, <1>3, <1>4

-----------------------------------------------------------------------------
(* Who is where *)

Control == Places /\ Excluded /\ Once

(* Where the threads are, after a step of one of them.                         *)
LEMMA OnceByThreads ==
  ASSUME CountInv, UNCHANGED <<queue, kept, running, acquired, given>>,
         \A n \in Noders : pc'[n] # "idle" => pc[n] # "idle" /\ arg'[n] = arg[n]
  PROVE  Once'
BY DEF CountInv, Once, Queued, Running, ToSet

LEMMA ControlByThread ==
  ASSUME CountInv, NEW t \in Threads, UNCHANGED <<queue, kept, running, acquired, given, lock, loop>>,
         \A r \in Threads \ {t} : pc'[r] = pc[r] /\ arg'[r] = arg[r] /\ hold'[r] = hold[r],
         t \in Noders => pc'[t] # "idle" /\ pc[t] # "idle" /\ arg'[t] = arg[t] /\ pc'[t] \in NoderLabels,
         t \in Users => pc'[t] \in UserLabels /\ (pc'[t] \notin {"idle", "done"} => arg'[t] \in Noders),
         pc'[t] \in Holding => hold'[t] \in Numbers
  PROVE  Control'
<1>1. Places'
  BY DEF CountInv, Places, Threads
<1>2. Excluded'
  BY HandlerAssumption DEF CountInv, Excluded, Threads
<1>3. Once'
  BY OnceByThreads, HandlerAssumption DEF Threads
<1> QED BY <1>1, <1>2, <1>3 DEF Control

LEMMA HandleControl == ASSUME CountInv, NEW p \in Packets, Handle(p) PROVE Control'
<1> DEFINE n == NoderOf[p]
<1>0. /\ n \in Noders /\ p \notin given /\ pc[n] = "idle" /\ lock = None
      /\ given' = given \cup {p} /\ UNCHANGED <<queue, kept, loop, running, acquired>>
      /\ n \in Threads
  BY HandlerAssumption DEF Handle, looping, Threads
<1>1. \A m \in Noders : pc[m] = "idle"
  BY <1>0, HandlerAssumption DEF CountInv, Excluded
<1>2. CASE UNCHANGED <<lock, pc, arg, hold>>
  <2>1. Places'
    BY <1>0, <1>2 DEF CountInv, Places
  <2>2. Excluded'
    BY <1>0, <1>2 DEF CountInv, Excluded
  <2>3. Once'
    BY <1>0, <1>1, <1>2 DEF CountInv, Once, Queued, Running, ToSet
  <2> QED BY <2>1, <2>2, <2>3 DEF Control
<1>3. CASE /\ lock' = n /\ CanGet(cps) /\ arg' = [arg EXCEPT ![n] = p]
           /\ hold' = [hold EXCEPT ![n] = First(cps)] /\ pc' = [pc EXCEPT ![n] = "acquire"]
  <2>1. First(cps) \in Numbers
    BY <1>3, FirstIsANumber DEF CountInv, TypeOK
  <2>2. /\ \A r \in Threads : pc'[r] = IF r = n THEN "acquire" ELSE pc[r]
        /\ \A r \in Threads : arg'[r] = IF r = n THEN p ELSE arg[r]
        /\ \A r \in Threads : hold'[r] = IF r = n THEN First(cps) ELSE hold[r]
    BY <1>3 DEF CountInv, TypeOK
  <2>3. n \notin Users
    BY <1>0, HandlerAssumption
  <2>4. Places'
    BY <1>0, <2>1, <2>2, <2>3 DEF CountInv, Places, Threads, NoderLabels
  <2>5. Excluded'
    BY <1>0, <1>1, <1>3, <2>2, HandlerAssumption DEF CountInv, Excluded, Threads
  <2>6. Once'
    <3>1. \A j \in Queued \cup kept \cup Running : j.p # p
      BY <1>0 DEF CountInv, Once
    <3>2. \A m \in Noders : pc'[m] # "idle" => arg'[m] = p
      BY <1>1, <2>2 DEF Threads
    <3> QED BY <1>0, <3>1, <3>2 DEF CountInv, Once, Queued, Running, ToSet
  <2> QED BY <2>4, <2>5, <2>6 DEF Control
<1> QED BY <1>2, <1>3 DEF Handle, Get, threads

LEMMA CopyControl == ASSUME CountInv, NEW t \in Threads, Copy(t) PROVE Control'
<1>0. pc[t] = "copy" /\ UNCHANGED <<queue, kept, loop, running, acquired, given>>
  BY DEF Copy, looping
<1>1. CASE UNCHANGED <<lock, arg, hold>> /\ pc' = [pc EXCEPT ![t] = IF t \in Noders THEN "ref" ELSE "store"]
  <2>1. \A r \in Threads : pc'[r] = IF r = t THEN (IF t \in Noders THEN "ref" ELSE "store") ELSE pc[r]
    BY <1>1 DEF CountInv, TypeOK
  <2> QED BY <1>0, <1>1, <2>1, ControlByThread, HandlerAssumption
          DEF CountInv, Places, Holding, NoderLabels, UserLabels, Threads
<1>2. CASE Return(t)
  <2>1. /\ \A r \in Threads : pc'[r] = IF r = t THEN (IF t \in Noders THEN "idle" ELSE "done") ELSE pc[r]
        /\ \A r \in Threads : arg'[r] = IF r = t THEN None ELSE arg[r]
        /\ \A r \in Threads : hold'[r] = IF r = t THEN None ELSE hold[r]
    BY <1>2 DEF CountInv, TypeOK, Return
  <2>2. Places'
    BY <1>0, <2>1, HandlerAssumption DEF CountInv, Places, Holding, NoderLabels, UserLabels, Threads
  <2>3. Excluded'
    <3>1. CASE t \in Noders
      <4>1. lock = t /\ lock' = None
        BY <1>0, <1>2, <3>1 DEF CountInv, Excluded, Return
      <4>2. \A m \in Noders : pc'[m] = "idle"
        BY <2>1, <3>1, <4>1 DEF CountInv, Excluded, Threads
      <4> QED BY <1>0, <4>1, <4>2, <3>1, HandlerAssumption DEF CountInv, Excluded
    <3>2. CASE t \notin Noders
      BY <1>0, <1>2, <2>1, <3>2 DEF CountInv, Excluded, Return, Threads
    <3> QED BY <3>1, <3>2
  <2>4. Once'
    BY <1>0, <2>1, OnceByThreads DEF Threads
  <2> QED BY <2>2, <2>3, <2>4 DEF Control
<1> QED BY <1>1, <1>2 DEF Copy

LEMMA AddJobControl == ASSUME CountInv, NEW n \in Noders, AddJob(n) PROVE Control'
<1> DEFINE j == [p |-> arg[n], cp |-> hold[n], buffer |-> First(buffers)]
<1>0. /\ pc[n] = "ref" /\ UNCHANGED <<kept, loop, running, acquired, given>>
      /\ n \in Threads /\ Return(n)
  BY DEF AddJob, looping, Threads
<1>1. /\ \A r \in Threads : pc'[r] = IF r = n THEN "idle" ELSE pc[r]
      /\ \A r \in Threads : arg'[r] = IF r = n THEN None ELSE arg[r]
      /\ \A r \in Threads : hold'[r] = IF r = n THEN None ELSE hold[r]
  BY <1>0 DEF CountInv, TypeOK, Return
<1>2. lock = n /\ lock' = None
  BY <1>0 DEF CountInv, Excluded, Return
<1>3. \A m \in Noders : pc'[m] = "idle"
  BY <1>1, <1>2 DEF CountInv, Excluded, Threads
<1>4. Places'
  BY <1>0, <1>1, HandlerAssumption DEF CountInv, Places, Holding, NoderLabels, UserLabels, Threads
<1>5. Excluded'
  BY <1>0, <1>2, <1>3, HandlerAssumption DEF CountInv, Excluded
<1>6. Once'
  <2>1. CASE UNCHANGED queue
    BY <1>0, <1>1, <2>1, OnceByThreads DEF Threads
  <2>2. CASE queue' = Append(queue, j)
    <3>1. /\ queue \in Seq(Job)
          /\ \A k \in Queued \cup kept \cup Running : k.p # arg[n]
          /\ arg[n] \in given
      BY <1>0 DEF CountInv, TypeOK, Once, Places
    <3>2. /\ DOMAIN queue' = 1 .. Len(queue) + 1
          /\ \A i \in 1 .. Len(queue) : queue'[i] = queue[i]
          /\ queue'[Len(queue) + 1] = j
      BY <2>2, <3>1
    <3>3. DOMAIN queue = 1 .. Len(queue) /\ Len(queue) \in Nat
      BY <3>1
    <3>4. Queued' = Queued \cup {j}
      BY <3>2, <3>3 DEF Queued, ToSet
    <3>5. \A i \in DOMAIN queue : queue[i].p # arg[n]
      BY <3>1 DEF Queued, ToSet
    <3>6. Running' = Running
      BY <1>0 DEF Running
    <3>7. \A i, k \in DOMAIN queue' : queue'[i].p = queue'[k].p => i = k
      BY <3>2, <3>3, <3>5 DEF CountInv, Once
    <3> QED BY <1>0, <1>3, <3>1, <3>4, <3>6, <3>7 DEF CountInv, Once
  <2> QED BY <2>1, <2>2 DEF AddJob
<1> QED BY <1>4, <1>5, <1>6 DEF Control

(* The loop's steps leave the threads alone.                                   *)
LEMMA TakeControl == ASSUME CountInv, Take PROVE Control'
<1>0. /\ loop = "wait" /\ lock = None /\ queue # <<>> /\ queue' = Tail(queue) /\ queue \in Seq(Job)
      /\ UNCHANGED <<pc, arg, hold, kept, given>>
  BY DEF Take, threads, CountInv, TypeOK
<1>1. Places'
  BY <1>0 DEF CountInv, Places
<1>2. /\ Len(queue) \in Nat \ {0} /\ DOMAIN queue = 1 .. Len(queue) /\ Head(queue) = queue[1]
      /\ DOMAIN queue' = 1 .. Len(queue) - 1
      /\ \A i \in 1 .. Len(queue) - 1 : queue'[i] = queue[i + 1]
  BY <1>0
<1>3. /\ Queued' \subseteq Queued /\ Head(queue) \in Queued
      /\ \A j \in Queued' : j.p # Head(queue).p
  <2>1. \A i \in DOMAIN queue' : i + 1 \in DOMAIN queue /\ queue'[i] = queue[i + 1] /\ i + 1 # 1
    BY <1>2
  <2> QED BY <1>2, <2>1 DEF Queued, ToSet, CountInv, Once
<1>4. \A i, k \in DOMAIN queue' : queue'[i].p = queue'[k].p => i = k
  <2>1. \A i \in DOMAIN queue' : i \in Nat /\ i + 1 \in DOMAIN queue /\ queue'[i] = queue[i + 1]
    BY <1>2
  <2>2. \A i, k \in DOMAIN queue : queue[i].p = queue[k].p => i = k
    BY DEF CountInv, Once
  <2> QED BY <2>1, <2>2
<1>5. running = <<>> /\ ~acquired /\ Running = {}
  BY <1>0 DEF CountInv, Excluded, Running, ToSet
<1>6. CASE UNCHANGED <<lock, loop, running, acquired>>
  <2>1. Excluded'
    BY <1>0, <1>6 DEF CountInv, Excluded
  <2>2. Once'
    <3>1. Running' = Running
      BY <1>6 DEF Running
    <3> QED BY <1>0, <1>3, <1>4, <1>5, <1>6, <3>1 DEF CountInv, Once
  <2> QED BY <1>1, <2>1, <2>2 DEF Control
<1>7. CASE lock' = "loop" /\ loop' = "onPacket" /\ running' = <<Head(queue)>> /\ acquired' = FALSE
  <2>1. Excluded'
    BY <1>0, <1>7, HandlerAssumption DEF CountInv, Excluded
  <2>2. Running' = {Head(queue)}
    BY <1>7 DEF Running, ToSet
  <2>3. Once'
    BY <1>0, <1>3, <1>4, <1>5, <1>7, <2>2 DEF CountInv, Once
  <2> QED BY <1>1, <2>1, <2>3 DEF Control
<1> QED BY <1>6, <1>7 DEF Take, looping

LEMMA OnPacketControl == ASSUME CountInv, OnPacket PROVE Control'
<1>0. /\ loop = "onPacket" /\ loop' = "store" /\ ~acquired
      /\ UNCHANGED <<lock, queue, pc, arg, hold, running, given>>
      /\ Running' = Running /\ Queued' = Queued
  BY DEF OnPacket, threads, CountInv, Excluded, Running, Queued
<1>1. Places'
  BY <1>0 DEF CountInv, Places
<1>2. Excluded'
  BY <1>0 DEF CountInv, Excluded
<1>3. Once'
  <2>1. CASE UNCHANGED <<acquired, kept>>
    BY <1>0, <2>1 DEF CountInv, Once
  <2>2. CASE acquired' = TRUE /\ kept' = kept \cup Running
    BY <1>0, <2>2 DEF CountInv, Once
  <2> QED BY <2>1, <2>2 DEF OnPacket, Running
<1> QED BY <1>1, <1>2, <1>3 DEF Control

LEMMA LeaveControl == ASSUME CountInv, Leave PROVE Control'
<1>0. /\ loop = "leave" /\ loop' = "wait" /\ lock' = None /\ running' = <<>> /\ acquired' = FALSE
      /\ UNCHANGED <<queue, pc, arg, hold, kept, given>>
      /\ Running' = {} /\ Queued' = Queued
  BY DEF Leave, threads, Running, ToSet, Queued
<1>1. Places'
  BY <1>0 DEF CountInv, Places
<1>2. Excluded'
  <2>1. lock = "loop"
    BY <1>0 DEF CountInv, Excluded
  <2>2. \A n \in Noders : pc[n] = "idle"
    BY <2>1, HandlerAssumption DEF CountInv, Excluded
  <2> QED BY <1>0, <2>2, HandlerAssumption DEF Excluded
<1>3. Once'
  BY <1>0 DEF CountInv, Once
<1> QED BY <1>1, <1>2, <1>3 DEF Control

LEMMA ReleaseKeptControl == ASSUME CountInv, NEW j \in kept, ReleaseKept(j) PROVE Control'
<1>0. /\ kept' = kept \ {j}
      /\ UNCHANGED <<lock, queue, pc, arg, hold, loop, running, acquired, given>>
      /\ Running' = Running /\ Queued' = Queued
  BY DEF ReleaseKept, threads, looping, Running, Queued
<1> QED BY <1>0 DEF CountInv, Control, Places, Excluded, Once

LEMMA CallbackControl == ASSUME CountInv, NEW u \in Users, Callback(u) PROVE Control'
<1>0. /\ pc[u] = "callback" /\ u \notin Noders /\ UNCHANGED <<queue, kept, loop, running, acquired, given>>
      /\ lock' = lock
      /\ \A r \in Threads : pc'[r] = IF r = u THEN "done" ELSE pc[r]
      /\ \A r \in Threads : arg'[r] = IF r = u THEN None ELSE arg[r]
      /\ \A r \in Threads : hold'[r] = IF r = u THEN None ELSE hold[r]
  BY HandlerAssumption DEF Callback, Return, looping, CountInv, TypeOK
<1> QED BY <1>0, ControlByThread DEF CountInv, Places, Holding, UserLabels, Threads

LEMMA GetCopyControl == ASSUME CountInv, NEW u \in Users, GetCopy(u) PROVE Control'
<1>1. First(cps) \in Numbers
  BY FirstIsANumber DEF CountInv, TypeOK, GetCopy, Get
<1>0. /\ pc[u] = "get" /\ u \notin Noders /\ UNCHANGED <<queue, kept, loop, running, acquired, given, lock, arg>>
      /\ \A r \in Threads : pc'[r] = IF r = u THEN "acquire" ELSE pc[r]
      /\ \A r \in Threads : hold'[r] = IF r = u THEN First(cps) ELSE hold[r]
  BY HandlerAssumption DEF GetCopy, Get, looping, CountInv, TypeOK
<1> QED BY <1>0, <1>1, ControlByThread DEF CountInv, Places, Holding, UserLabels, Threads

LEMMA ControlStep == CountInv /\ [Next]_vars => Control'
<1> SUFFICES ASSUME CountInv, [Next]_vars PROVE Control'
  OBVIOUS
<1>1. ASSUME NEW t \in Threads, Acquire(t) PROVE Control'
  <2>1. /\ pc[t] = "acquire" /\ UNCHANGED <<queue, kept, loop, running, acquired, given, lock, arg, hold>>
        /\ \A r \in Threads : pc'[r] = IF r = t THEN "copy" ELSE pc[r]
    BY <1>1 DEF Acquire, looping, CountInv, TypeOK
  <2> QED BY <2>1, ControlByThread, HandlerAssumption
          DEF CountInv, Places, Holding, NoderLabels, UserLabels, Threads
<1>2. ASSUME NEW u \in Users, NEW n \in Noders, Connect(u, n) PROVE Control'
  <2>1. /\ pc[u] = "idle" /\ UNCHANGED <<queue, kept, loop, running, acquired, given, lock, hold>>
        /\ \A r \in Threads : pc'[r] = IF r = u THEN "get" ELSE pc[r]
        /\ \A r \in Threads : arg'[r] = IF r = u THEN n ELSE arg[r]
        /\ u \notin Noders
    BY <1>2, HandlerAssumption DEF Connect, looping, CountInv, TypeOK
  <2> QED BY <2>1, ControlByThread DEF CountInv, Places, Holding, UserLabels, Threads
<1>3. ASSUME NEW u \in Users, StoreInitial(u) \/ ReleaseCopy(u) PROVE Control'
  <2>1. /\ pc[u] \in {"store", "release"} /\ pc'[u] \in {"release", "callback"}
        /\ UNCHANGED <<queue, kept, loop, running, acquired, given, lock, arg, hold>>
        /\ \A r \in Threads : r # u => pc'[r] = pc[r]
        /\ u \notin Noders
    BY <1>3, HandlerAssumption DEF StoreInitial, ReleaseCopy, looping, CountInv, TypeOK, Threads
  <2> QED BY <2>1, ControlByThread DEF CountInv, Places, Holding, UserLabels, Threads
<1>4. CASE StorePrevious
  <2>1. /\ UNCHANGED <<queue, kept, running, acquired, given, lock, pc, arg, hold>>
        /\ loop = "store" /\ loop' = "leave"
    BY <1>4 DEF StorePrevious, threads
  <2>2. Queued' = Queued /\ Running' = Running
    BY <2>1 DEF Queued, Running
  <2> QED BY <2>1, <2>2 DEF CountInv, Control, Places, Excluded, Once
<1>5. CASE Close \/ UNCHANGED vars
  <2>1. UNCHANGED <<queue, kept, running, acquired, given, lock, loop, pc, arg, hold>>
    BY <1>5 DEF Close, vars, threads, looping
  <2>2. Queued' = Queued /\ Running' = Running
    BY <2>1 DEF Queued, Running
  <2> QED BY <2>1, <2>2 DEF CountInv, Control, Places, Excluded, Once
<1> QED
  BY <1>1, <1>2, <1>3, <1>4, <1>5, HandleControl, CopyControl, AddJobControl, GetCopyControl,
     CallbackControl, TakeControl, OnPacketControl, LeaveControl, ReleaseKeptControl DEF Next

-----------------------------------------------------------------------------
(* Types *)

(* While the loop works, it works on one job.                                 *)
LEMMA RunningJob ==
  ASSUME CountInv, loop # "wait"
  PROVE  Head(running) \in Job /\ Running = {Head(running)}
<1>1. running \in Seq(Job) /\ Len(running) = 1
  BY DEF CountInv, TypeOK, Excluded
<1>2. DOMAIN running = {1} /\ Head(running) = running[1]
  BY <1>1
<1>3. running[1] \in Job
  BY <1>1, <1>2
<1> QED BY <1>2, <1>3 DEF Running, ToSet

LEMMA TypeStep == CountInv /\ [Next]_vars => TypeOK'
<1> SUFFICES ASSUME CountInv, [Next]_vars PROVE TypeOK'
  OBVIOUS
<1> USE HandlerAssumption
<1>a. cps \in CodecPool
  BY DEF CountInv, TypeOK, CodecPool
<1>1. ASSUME NEW p \in Packets, Handle(p) PROVE TypeOK'
  <2>1. CanGet(cps) => First(cps) \in Numbers /\ WithoutFirst(cps) \in CodecPool
    BY <1>a, FirstIsANumber, WithoutFirstFields DEF CodecPool
  <2>2. NoderOf[p] \in Noders
    OBVIOUS
  <2>3. /\ given' \subseteq Packets
        /\ UNCHANGED <<closed, content, buffers, payload, initial, previous, queue, loop, running, acquired, kept>>
    BY <1>1 DEF Handle, descriptors, looping, CountInv, TypeOK
  <2>4. CASE UNCHANGED <<lock, pc, arg, hold, cps>>
    BY <2>3, <2>4 DEF CountInv, TypeOK
  <2>5. CASE /\ lock' = NoderOf[p] /\ arg' = [arg EXCEPT ![NoderOf[p]] = p] /\ CanGet(cps)
             /\ hold' = [hold EXCEPT ![NoderOf[p]] = First(cps)] /\ cps' = WithoutFirst(cps)
             /\ pc' = [pc EXCEPT ![NoderOf[p]] = "acquire"]
    <3>1. /\ lock' \in Noders \cup {"loop", None} /\ cps' \in CodecPool
          /\ hold' \in [Threads -> Numbers \cup {None}]
          /\ arg' \in [Threads -> Packets \cup Noders \cup {None}]
          /\ pc' \in [Threads -> {"idle", "get", "acquire", "copy", "ref", "store", "release", "callback", "done"}]
      BY <2>1, <2>2, <2>5 DEF CountInv, TypeOK, Threads
    <3> QED BY <2>3, <3>1 DEF CountInv, TypeOK, CodecPool
  <2> QED BY <1>1, <2>4, <2>5 DEF Handle, Get, threads
<1>2. ASSUME NEW t \in Threads, Acquire(t) PROVE TypeOK'
  <2>1. Acquired(cps, hold[t]) \in CodecPool
    BY <1>2, <1>a, AcquiredFields DEF Acquire, CountInv, Places, Holding
  <2> QED BY <1>2, <2>1 DEF Acquire, descriptors, looping, CountInv, TypeOK, CodecPool
<1>3. ASSUME NEW t \in Threads, Copy(t) PROVE TypeOK'
  <2>1. Released(cps, hold[t]) \in CodecPool
    BY <1>3, <1>a, Referenced, ReleasedFields DEF Copy, Counting, Holding
  <2>2. Wanted(t) \in Streams
    <3>1. CASE t \in Noders
      BY <3>1, <1>3 DEF Copy, Wanted, CountInv, Places, TypeOK
    <3>2. CASE t \in Users
      BY <3>2, <1>3 DEF Copy, Wanted, CountInv, Places
    <3> QED BY <3>1, <3>2 DEF Threads
  <2>3. hold[t] \in Numbers
    BY <1>3 DEF Copy, CountInv, Places, Holding
  <2>4. UNCHANGED <<closed, buffers, payload, initial, previous, queue, loop, running, acquired, kept, given>>
    BY <1>3 DEF Copy, descriptors, looping
  <2>5. CASE /\ content' = [content EXCEPT ![hold[t]] = Wanted(t)]
             /\ pc' = [pc EXCEPT ![t] = IF t \in Noders THEN "ref" ELSE "store"]
             /\ UNCHANGED <<cps, lock, arg, hold>>
    BY <2>2, <2>3, <2>4, <2>5 DEF CountInv, TypeOK
  <2>6. CASE Return(t) /\ cps' = Released(cps, hold[t]) /\ UNCHANGED content
    BY <2>1, <2>4, <2>6 DEF Return, CountInv, TypeOK, CodecPool
  <2> QED BY <1>3, <2>5, <2>6 DEF Copy
<1>4. ASSUME NEW n \in Noders, AddJob(n) PROVE TypeOK'
  <2>1. Released(cps, hold[n]) \in CodecPool
    BY <1>4, <1>a, Referenced, ReleasedFields DEF AddJob, Counting, Holding, Threads
  <2>2. First(buffers) \in Numbers /\ WithoutFirst(buffers) \in Pool
    <3>1. CanGet(buffers) /\ buffers \in Pool
      BY <1>4 DEF AddJob, CountInv, TypeOK
    <3>2. First(buffers) \in Numbers
      BY <3>1, FirstIsANumber DEF Pool
    <3>3. WithoutFirst(buffers) \in Pool
      BY <3>1, WithoutFirstBuffer
    <3> QED BY <3>2, <3>3
  <2>3. hold[n] \in Numbers /\ arg[n] \in Packets
    BY <1>4 DEF AddJob, CountInv, Places, Holding, Threads, TypeOK
  <2>4. [p |-> arg[n], cp |-> hold[n], buffer |-> First(buffers)] \in Job
    BY <2>2, <2>3 DEF Job
  <2> DEFINE j == [p |-> arg[n], cp |-> hold[n], buffer |-> First(buffers)]
  <2>5. /\ UNCHANGED <<closed, content, initial, previous, loop, running, acquired, kept, given>>
        /\ buffers' \in Pool
    BY <1>4, <2>2 DEF AddJob, descriptors, looping
  <2>6. /\ pc' \in [Threads -> {"idle", "get", "acquire", "copy", "ref", "store", "release", "callback", "done"}]
        /\ lock' = None /\ hold' \in [Threads -> Numbers \cup {None}]
        /\ arg' \in [Threads -> Packets \cup Noders \cup {None}]
    BY <1>4 DEF AddJob, Return, CountInv, TypeOK
  <2>7. CASE /\ payload' = [payload EXCEPT ![First(buffers)] = arg[n]]
             /\ queue' = Append(queue, j) /\ UNCHANGED cps
    <3>1. queue' \in Seq(Job) /\ payload' \in [Numbers -> Packets \cup {None}]
      BY <2>2, <2>3, <2>4, <2>7 DEF CountInv, TypeOK
    <3> QED BY <2>5, <2>6, <2>7, <3>1 DEF CountInv, TypeOK
  <2>8. CASE cps' = Released(cps, hold[n]) /\ UNCHANGED <<payload, queue>>
    BY <2>1, <2>5, <2>6, <2>8 DEF CountInv, TypeOK, CodecPool
  <2> QED BY <1>4, <2>7, <2>8 DEF AddJob
<1>5. ASSUME NEW u \in Users, NEW n \in Noders, Connect(u, n) PROVE TypeOK'
  BY <1>5 DEF Connect, pools, descriptors, looping, CountInv, TypeOK, Threads
<1>6. ASSUME NEW u \in Users, GetCopy(u) PROVE TypeOK'
  <2>1. First(cps) \in Numbers /\ WithoutFirst(cps) \in CodecPool
    BY <1>6, <1>a, FirstIsANumber, WithoutFirstFields DEF GetCopy, Get, CodecPool
  <2> QED BY <1>6, <2>1 DEF GetCopy, Get, descriptors, looping, CountInv, TypeOK, CodecPool, Threads
<1>7. ASSUME NEW u \in Users, StoreInitial(u) PROVE TypeOK'
  <2>1. arg[u] \in Noders /\ hold[u] \in Numbers
    BY <1>7 DEF StoreInitial, CountInv, Places, Holding, Threads
  <2>2. Stored(cps, initial[arg[u]], hold[u]) \in CodecPool
    BY <1>a, <2>1, Referenced, StoredFields
  <2>3. [cp |-> hold[u], stream |-> InitialOf[arg[u]]] \in Descriptor
    BY <2>1 DEF Descriptor
  <2> QED BY <1>7, <2>1, <2>2, <2>3 DEF StoreInitial, looping, CountInv, TypeOK, CodecPool, Threads
<1>8. ASSUME NEW u \in Users, ReleaseCopy(u) PROVE TypeOK'
  <2>1. Released(cps, hold[u]) \in CodecPool
    BY <1>8, <1>a, Referenced, ReleasedFields DEF ReleaseCopy, Counting, Holding, Threads
  <2> QED BY <1>8, <2>1 DEF ReleaseCopy, descriptors, looping, CountInv, TypeOK, CodecPool, Threads
<1>9. ASSUME NEW u \in Users, Callback(u) PROVE TypeOK'
  <2>1. arg[u] \in Noders
    BY <1>9 DEF Callback, CountInv, Places, Threads
  <2>2. initial[arg[u]] # None => Released(cps, initial[arg[u]].cp) \in CodecPool
    BY <1>a, <2>1, Referenced, ReleasedFields
  <2> QED BY <1>9, <1>a, <2>1, <2>2 DEF Callback, Return, looping, CountInv, TypeOK, CodecPool, Threads
<1>10. CASE Take
  <2>1. queue \in Seq(Job) /\ queue # <<>>
    BY <1>10 DEF Take, CountInv, TypeOK
  <2>2. Tail(queue) \in Seq(Job) /\ <<Head(queue)>> \in Seq(Job)
    BY <2>1
  <2> QED BY <1>10, <2>2 DEF Take, pools, descriptors, threads, looping, CountInv, TypeOK
<1>11. CASE OnPacket
  <2>1. kept \cup ToSet(running) \subseteq Job
    BY DEF CountInv, TypeOK, ToSet
  <2> QED BY <1>11, <2>1 DEF OnPacket, pools, descriptors, threads, CountInv, TypeOK
<1>12. CASE StorePrevious
  <2> DEFINE j == Head(running)
  <2>1. j \in Job
    <3>1. loop # "wait"
      BY <1>12 DEF StorePrevious
    <3> QED BY <3>1, RunningJob
  <2>2. NoderOf[j.p] \in Noders /\ j.cp \in Numbers /\ StreamOf[j.p] \in Streams
    BY <2>1 DEF Job
  <2>3. Stored(cps, previous[NoderOf[j.p]], j.cp) \in CodecPool
    BY <1>a, <2>2, Referenced, StoredFields
  <2>4. [cp |-> j.cp, stream |-> StreamOf[j.p]] \in Descriptor
    BY <2>2 DEF Descriptor
  <2> QED BY <1>12, <2>2, <2>3, <2>4 DEF StorePrevious, threads, CountInv, TypeOK, CodecPool
<1>13. ASSUME NEW j \in Jobs, FreeJob(j)
       PROVE  /\ cps' \in CodecPool /\ content' = content
              /\ buffers' \in Pool /\ payload' \in [Numbers -> Packets \cup {None}]
  <2>1. j \in Job /\ cps.refs[j.cp] >= 1 /\ j.cp \in Numbers /\ j.buffer \in Numbers
    BY Referenced DEF Job
  <2>2. Released(cps, j.cp) \in CodecPool
    BY <1>a, <2>1, ReleasedFields
  <2>3. Append(buffers.free, j.buffer) \in Seq(Numbers)
    BY <2>1 DEF CountInv, TypeOK, Pool
  <2> QED BY <1>13, <2>1, <2>2, <2>3 DEF FreeJob, Put, CountInv, TypeOK, Pool
<1>14. CASE Leave
  <2>1. ~acquired => Head(running) \in Jobs
    <3>1. loop # "wait"
      BY <1>14 DEF Leave
    <3> QED BY <3>1, RunningJob DEF Jobs, Running
  <2>2. /\ cps' \in CodecPool /\ content' = content
        /\ buffers' \in Pool /\ payload' \in [Numbers -> Packets \cup {None}]
    BY <1>14, <1>13, <1>a, <2>1 DEF Leave, pools, CountInv, TypeOK
  <2>3. /\ lock' = None /\ loop' = "wait" /\ running' = <<>> /\ acquired' = FALSE
        /\ UNCHANGED <<closed, initial, previous, queue, pc, arg, hold, kept, given>>
    BY <1>14 DEF Leave, descriptors, threads
  <2>4. running' \in Seq(Job)
    BY <2>3
  <2> QED BY <2>2, <2>3, <2>4 DEF CountInv, TypeOK, CodecPool
<1>15. ASSUME NEW j \in kept, ReleaseKept(j) PROVE TypeOK'
  <2>1. j \in Jobs
    BY DEF Jobs
  <2> QED BY <1>15, <1>13, <2>1 DEF ReleaseKept, descriptors, threads, looping, CountInv, TypeOK, CodecPool
<1>16. CASE Close \/ UNCHANGED vars
  BY <1>16 DEF Close, vars, pools, descriptors, threads, looping, CountInv, TypeOK
<1> QED
  BY <1>1, <1>2, <1>3, <1>4, <1>5, <1>6, <1>7, <1>8, <1>9, <1>10, <1>11, <1>12, <1>14, <1>15, <1>16
  DEF Next

-----------------------------------------------------------------------------
(* Counts *)

Moved(S, T, d) ==
  \/ d = 0 /\ T = S
  \/ d = 1 /\ \E x : x \notin S /\ T = S \cup {x}
  \/ d = -1 /\ \E x \in S : T = S \ {x}

LEMMA MovedCount ==
  ASSUME NEW S, IsFiniteSet(S), NEW T, NEW d \in Int, Moved(S, T, d)
  PROVE  Cardinality(T) = Cardinality(S) + d
<1>1. Cardinality(S) \in Nat
  BY FS_CardinalityType
<1>2. CASE d = 0
  BY <1>1, <1>2 DEF Moved
<1>3. CASE d = 1
  BY <1>1, <1>3, OneMore DEF Moved
<1>4. CASE d = -1
  BY <1>1, <1>4, OneLess DEF Moved
<1> QED BY <1>2, <1>3, <1>4 DEF Moved

(* Uses are counted family by family.                                         *)
LEMMA HoldersMove ==
  ASSUME CountInv, NEW cp \in Numbers, NEW f \in Int, NEW l \in Int, NEW j \in Int, NEW c \in Int,
         Moved(FirstOf(cp), FirstOf(cp)', f), Moved(LastOf(cp), LastOf(cp)', l),
         Moved(JobsOf(cp), JobsOf(cp)', j), Moved(CopiesOf(cp), CopiesOf(cp)', c)
  PROVE  Holders(cp)' = Holders(cp) + f + l + j + c
<1>1. \A S \in {FirstOf(cp), LastOf(cp), JobsOf(cp), CopiesOf(cp)} :
        IsFiniteSet(S) /\ Cardinality(S) \in Nat
  BY Families
<1>2. Holders(cp) = Cardinality(FirstOf(cp)) + Cardinality(LastOf(cp))
                    + Cardinality(JobsOf(cp)) + Cardinality(CopiesOf(cp))
  BY Families
<1>3. /\ Cardinality(FirstOf(cp)') = Cardinality(FirstOf(cp)) + f
      /\ Cardinality(LastOf(cp)') = Cardinality(LastOf(cp)) + l
      /\ Cardinality(JobsOf(cp)') = Cardinality(JobsOf(cp)) + j
      /\ Cardinality(CopiesOf(cp)') = Cardinality(CopiesOf(cp)) + c
  BY <1>1, MovedCount
<1>4. Holders(cp)' = Cardinality(FirstOf(cp)') + Cardinality(LastOf(cp)')
                     + Cardinality(JobsOf(cp)') + Cardinality(CopiesOf(cp)')
  BY DEF Holders, FirstOf, LastOf, JobsOf, CopiesOf, Counting, Holding
<1> QED BY <1>1, <1>2, <1>3, <1>4

LEMMA FirstMoves ==
  ASSUME CountInv, NEW cp \in Numbers, NEW d \in Int, Moved(FirstOf(cp), FirstOf(cp)', d),
         LastOf(cp)' = LastOf(cp), JobsOf(cp)' = JobsOf(cp), CopiesOf(cp)' = CopiesOf(cp)
  PROVE  Holders(cp)' = Holders(cp) + d
<1>1. Moved(LastOf(cp), LastOf(cp)', 0) /\ Moved(JobsOf(cp), JobsOf(cp)', 0) /\ Moved(CopiesOf(cp), CopiesOf(cp)', 0)
  BY DEF Moved
<1>2. Holders(cp)' = Holders(cp) + d + 0 + 0 + 0
  BY <1>1, HoldersMove, 0 \in Int, ZenonT(60)
<1>3. Holders(cp) \in Int
  BY Families
<1> QED BY <1>2, <1>3

LEMMA LastMoves ==
  ASSUME CountInv, NEW cp \in Numbers, NEW d \in Int, Moved(LastOf(cp), LastOf(cp)', d),
         FirstOf(cp)' = FirstOf(cp), JobsOf(cp)' = JobsOf(cp), CopiesOf(cp)' = CopiesOf(cp)
  PROVE  Holders(cp)' = Holders(cp) + d
<1>1. Moved(FirstOf(cp), FirstOf(cp)', 0) /\ Moved(JobsOf(cp), JobsOf(cp)', 0) /\ Moved(CopiesOf(cp), CopiesOf(cp)', 0)
  BY DEF Moved
<1>2. Holders(cp)' = Holders(cp) + 0 + d + 0 + 0
  BY <1>1, HoldersMove, 0 \in Int, ZenonT(60)
<1>3. Holders(cp) \in Int
  BY Families
<1> QED BY <1>2, <1>3

(* References and uses change together.                                       *)
LEMMA CountedTogether ==
  ASSUME CountInv, closed => closed',
         \A cp \in Numbers : /\ cps'.refs[cp] \in Int
                             /\ \E d \in Int : /\ cps'.refs[cp] = cps.refs[cp] + d
                                               /\ Holders(cp)' = Holders(cp) + d
  PROVE  Counted'
<1>1. \A cp \in Numbers : Holders(cp) \in Int /\ cps.refs[cp] \in Int
  <2> TAKE cp \in Numbers
  <2>1. Holders(cp) = Cardinality(FirstOf(cp)) + Cardinality(LastOf(cp))
                      + Cardinality(JobsOf(cp)) + Cardinality(CopiesOf(cp))
    BY Families
  <2>2. /\ Cardinality(FirstOf(cp)) \in Nat /\ Cardinality(LastOf(cp)) \in Nat
        /\ Cardinality(JobsOf(cp)) \in Nat /\ Cardinality(CopiesOf(cp)) \in Nat
    BY Families
  <2> QED BY <2>1, <2>2 DEF CountInv, TypeOK
<1> QED BY <1>1 DEF CountInv, Counted

(* What leaves a family alone.                                                *)
LEMMA SameFirst == ASSUME UNCHANGED initial, NEW cp PROVE FirstOf(cp)' = FirstOf(cp)
BY DEF FirstOf

LEMMA SameLast == ASSUME UNCHANGED previous, NEW cp PROVE LastOf(cp)' = LastOf(cp)
BY DEF LastOf

LEMMA SameJobs ==
  ASSUME Jobs' = Jobs, NEW cp
  PROVE  JobsOf(cp)' = JobsOf(cp)
BY DEF JobsOf

LEMMA SameCopies ==
  ASSUME \A t \in Threads : /\ pc'[t] \in Counting <=> pc[t] \in Counting
                            /\ pc[t] \in Counting => hold'[t] = hold[t],
         NEW cp
  PROVE  CopiesOf(cp)' = CopiesOf(cp)
BY DEF CopiesOf, Counting, Holding

(* A thread's copy is counted from Acquire on.                                *)
LEMMA CopyCounted ==
  ASSUME NEW t \in Threads, pc[t] \notin Counting, pc'[t] \in Counting, hold'[t] = hold[t],
         \A r \in Threads \ {t} : pc'[r] = pc[r] /\ hold'[r] = hold[r], NEW cp
  PROVE  Moved(CopiesOf(cp), CopiesOf(cp)', IF cp = hold[t] THEN 1 ELSE 0)
<1>1. CASE cp = hold[t]
  <2>1. t \notin CopiesOf(cp) /\ CopiesOf(cp)' = CopiesOf(cp) \cup {t}
    BY <1>1 DEF CopiesOf, Counting, Holding
  <2> QED BY <1>1, <2>1 DEF Moved
<1>2. CASE cp # hold[t]
  <2>1. CopiesOf(cp)' = CopiesOf(cp)
    BY <1>2 DEF CopiesOf, Counting, Holding
  <2> QED BY <1>2, <2>1 DEF Moved
<1> QED BY <1>1, <1>2

LEMMA CopyDropped ==
  ASSUME NEW t \in Threads, pc[t] \in Counting, pc'[t] \notin Counting,
         \A r \in Threads \ {t} : pc'[r] = pc[r] /\ hold'[r] = hold[r], NEW cp
  PROVE  Moved(CopiesOf(cp), CopiesOf(cp)', IF cp = hold[t] THEN -1 ELSE 0)
<1>1. CASE cp = hold[t]
  <2>1. t \in CopiesOf(cp) /\ CopiesOf(cp)' = CopiesOf(cp) \ {t}
    BY <1>1 DEF CopiesOf, Counting, Holding
  <2> QED BY <1>1, <2>1 DEF Moved
<1>2. CASE cp # hold[t]
  <2>1. CopiesOf(cp)' = CopiesOf(cp)
    BY <1>2 DEF CopiesOf, Counting, Holding
  <2> QED BY <1>2, <2>1 DEF Moved
<1> QED BY <1>1, <1>2

LEMMA JobAdded ==
  ASSUME NEW j, j \notin Jobs, Jobs' = Jobs \cup {j}, NEW cp
  PROVE  Moved(JobsOf(cp), JobsOf(cp)', IF cp = j.cp THEN 1 ELSE 0)
<1>1. CASE cp = j.cp
  <2>1. j \notin JobsOf(cp) /\ JobsOf(cp)' = JobsOf(cp) \cup {j}
    BY <1>1 DEF JobsOf
  <2> QED BY <1>1, <2>1 DEF Moved
<1>2. CASE cp # j.cp
  <2>1. JobsOf(cp)' = JobsOf(cp)
    BY <1>2 DEF JobsOf
  <2> QED BY <1>2, <2>1 DEF Moved
<1> QED BY <1>1, <1>2

LEMMA JobFreed ==
  ASSUME NEW j \in Jobs, Jobs' = Jobs \ {j}, NEW cp
  PROVE  Moved(JobsOf(cp), JobsOf(cp)', IF cp = j.cp THEN -1 ELSE 0)
<1>1. CASE cp = j.cp
  <2>1. j \in JobsOf(cp) /\ JobsOf(cp)' = JobsOf(cp) \ {j}
    BY <1>1 DEF JobsOf
  <2> QED BY <1>1, <2>1 DEF Moved
<1>2. CASE cp # j.cp
  <2>1. JobsOf(cp)' = JobsOf(cp)
    BY <1>2 DEF JobsOf
  <2> QED BY <1>2, <2>1 DEF Moved
<1> QED BY <1>1, <1>2

(* Jobs move between the queue, the loop and the node.                        *)
NewJob(n) == [p |-> arg[n], cp |-> hold[n], buffer |-> First(buffers)]

LEMMA AddJobJobs ==
  ASSUME CountInv, NEW n \in Noders, AddJob(n), queue' = Append(queue, NewJob(n))
  PROVE  NewJob(n) \notin Jobs /\ Jobs' = Jobs \cup {NewJob(n)}
<1> DEFINE j == NewJob(n)
<1>1. UNCHANGED <<kept, running, acquired>> /\ pc[n] # "idle" /\ queue \in Seq(Job) /\ Len(queue) \in Nat
  BY DEF AddJob, looping, CountInv, TypeOK
<1>2. j \notin Queued \cup kept \cup Running
  BY <1>1 DEF CountInv, Once, NewJob
<1>3. ToSet(queue') = ToSet(queue) \cup {j}
  BY <1>1, AppendSet
<1> HIDE DEF j
<1>4. j \notin Jobs /\ Jobs' = Jobs \cup {j}
  BY <1>1, <1>2, <1>3 DEF Jobs, Queued, Running
<1> QED BY <1>4 DEF j

LEMMA TakeJobs ==
  ASSUME CountInv, Take
  PROVE  Jobs' = Jobs \/ (closed /\ Jobs' \subseteq Jobs)
<1>1. /\ queue # <<>> /\ queue \in Seq(Job) /\ queue' = Tail(queue) /\ loop = "wait"
      /\ UNCHANGED <<kept, closed>>
  BY DEF Take, CountInv, TypeOK
<1>2. running = <<>> /\ ~acquired /\ ToSet(running) = {}
  BY <1>1 DEF CountInv, Excluded, ToSet
<1>3. ToSet(queue) = ToSet(queue') \cup {Head(queue)}
  BY <1>1, TailSet
<1>4. CASE closed /\ UNCHANGED <<lock, looping>>
  BY <1>1, <1>2, <1>3, <1>4 DEF Jobs, looping
<1>5. CASE running' = <<Head(queue)>> /\ acquired' = FALSE
  <2>1. ToSet(running') = {Head(queue)}
    BY <1>5 DEF ToSet
  <2> QED BY <1>1, <1>2, <1>3, <1>5, <2>1 DEF Jobs
<1> QED BY <1>4, <1>5 DEF Take, looping

LEMMA LeaveJobs ==
  ASSUME CountInv, Leave, ~acquired
  PROVE  Head(running) \in Jobs /\ Jobs' = Jobs \ {Head(running)}
<1>1. UNCHANGED <<queue, kept>> /\ ToSet(running') = {} /\ loop # "wait"
  BY DEF Leave, ToSet
<1>2. ToSet(running) = {Head(running)}
  BY <1>1, RunningJob DEF Running
<1>3. Head(running) \notin Queued \cup kept
  BY <1>2 DEF CountInv, Once, Running
<1> QED BY <1>1, <1>2, <1>3 DEF Leave, Jobs, Queued

LEMMA ReleaseKeptJobs ==
  ASSUME CountInv, NEW j \in kept, ReleaseKept(j)
  PROVE  j \in Jobs /\ Jobs' = Jobs \ {j}
<1>1. j \notin Queued /\ (~acquired => j \notin Running)
  BY DEF CountInv, Once
<1> QED BY <1>1 DEF ReleaseKept, looping, Jobs, Queued, Running

LEMMA OnPacketJobs == ASSUME CountInv, OnPacket PROVE Jobs' = Jobs
<1>1. ~acquired /\ UNCHANGED <<queue, running>>
  BY DEF OnPacket, CountInv, Excluded
<1> QED BY <1>1 DEF OnPacket, Jobs

(* The other steps leave the jobs alone.                                      *)
LEMMA JobsMove ==
  ASSUME CountInv, [Next]_vars
  PROVE  \/ UNCHANGED Jobs
         \/ Take /\ closed /\ Jobs' \subseteq Jobs
         \/ \E n \in Noders : /\ AddJob(n) /\ queue' = Append(queue, NewJob(n))
                              /\ NewJob(n) \notin Jobs /\ Jobs' = Jobs \cup {NewJob(n)}
         \/ Leave /\ ~acquired /\ Head(running) \in Jobs /\ Jobs' = Jobs \ {Head(running)}
         \/ \E j \in kept : ReleaseKept(j) /\ j \in Jobs /\ Jobs' = Jobs \ {j}
<1>1. ASSUME UNCHANGED <<queue, kept, running, acquired>> PROVE UNCHANGED Jobs
  BY <1>1 DEF Jobs
<1>2. ASSUME NEW p \in Packets, Handle(p) PROVE UNCHANGED Jobs
  BY <1>1, <1>2 DEF Handle, looping
<1>3. ASSUME NEW t \in Threads, Acquire(t) \/ Copy(t) PROVE UNCHANGED Jobs
  BY <1>1, <1>3 DEF Acquire, Copy, looping
<1>4. ASSUME NEW u \in Users, \/ \E n \in Noders : Connect(u, n)
                              \/ GetCopy(u) \/ StoreInitial(u) \/ ReleaseCopy(u) \/ Callback(u)
      PROVE  UNCHANGED Jobs
  BY <1>1, <1>4 DEF Connect, GetCopy, StoreInitial, ReleaseCopy, Callback, looping
<1>5. ASSUME NEW n \in Noders, AddJob(n) PROVE UNCHANGED Jobs \/ queue' = Append(queue, NewJob(n))
  BY <1>1, <1>5 DEF AddJob, looping, NewJob
<1>6. ASSUME Leave, acquired PROVE UNCHANGED Jobs
  BY <1>6 DEF Leave, Jobs, ToSet
<1>7. ASSUME StorePrevious \/ Close \/ UNCHANGED vars PROVE UNCHANGED Jobs
  BY <1>1, <1>7 DEF StorePrevious, Close, vars, looping
<1> QED
  BY <1>2, <1>3, <1>4, <1>5, <1>6, <1>7, AddJobJobs, TakeJobs, LeaveJobs, ReleaseKeptJobs, OnPacketJobs
  DEF Next

LEMMA FiniteStep == CountInv /\ [Next]_vars => IsFiniteSet(Jobs)'
<1> SUFFICES ASSUME CountInv, [Next]_vars PROVE IsFiniteSet(Jobs')
  OBVIOUS
<1>1. IsFiniteSet(Jobs)
  BY DEF CountInv
<1>2. \/ Jobs' \subseteq Jobs
      \/ \E j : Jobs' = Jobs \cup {j}
  BY JobsMove
<1> QED BY <1>1, <1>2, FS_Subset, FS_AddElement

(* A parent's or a user's step that gets, copies or releases codec parameters.  *)
LEMMA CountedGet ==
  ASSUME CountInv, closed' = closed, Jobs' = Jobs, UNCHANGED <<initial, previous>>,
         CanGet(cps), cps' = WithoutFirst(cps), NEW t \in Threads, pc[t] \notin Counting, pc'[t] \notin Counting,
         \A r \in Threads \ {t} : pc'[r] = pc[r] /\ hold'[r] = hold[r]
  PROVE  Counted'
<1>1. cps'.refs = cps.refs
  BY WithoutFirstFields DEF CountInv, TypeOK, CodecPool
<1>2. ASSUME NEW cp \in Numbers PROVE Holders(cp)' = Holders(cp)
  <2>1. CopiesOf(cp)' = CopiesOf(cp)
    BY SameCopies
  <2>2. JobsOf(cp)' = JobsOf(cp) /\ FirstOf(cp)' = FirstOf(cp) /\ LastOf(cp)' = LastOf(cp)
    BY SameJobs, SameFirst, SameLast
  <2> QED BY <2>1, <2>2 DEF Holders, FirstOf, LastOf, JobsOf, CopiesOf, Counting, Holding
<1> QED BY <1>1, <1>2 DEF CountInv, Counted, TypeOK

LEMMA CountedSame ==
  ASSUME CountInv, closed => closed', Jobs' = Jobs, UNCHANGED <<initial, previous, cps>>,
         \A t \in Threads : /\ pc'[t] \in Counting <=> pc[t] \in Counting
                            /\ pc[t] \in Counting => hold'[t] = hold[t]
  PROVE  Counted'
<1>2. ASSUME NEW cp \in Numbers PROVE Holders(cp)' = Holders(cp)
  <2>1. CopiesOf(cp)' = CopiesOf(cp)
    BY SameCopies
  <2>2. JobsOf(cp)' = JobsOf(cp) /\ FirstOf(cp)' = FirstOf(cp) /\ LastOf(cp)' = LastOf(cp)
    BY SameJobs, SameFirst, SameLast
  <2> QED BY <2>1, <2>2 DEF Holders, FirstOf, LastOf, JobsOf, CopiesOf, Counting, Holding
<1> QED BY <1>2 DEF CountInv, Counted, TypeOK

LEMMA CountedDropCopy ==
  ASSUME CountInv, closed' = closed, Jobs' = Jobs, UNCHANGED <<initial, previous>>,
         NEW t \in Threads, cps' = Released(cps, hold[t]), pc[t] \in Counting, pc'[t] \notin Counting,
         \A r \in Threads \ {t} : pc'[r] = pc[r] /\ hold'[r] = hold[r]
  PROVE  Counted'
<1>1. hold[t] \in Numbers /\ cps.refs[hold[t]] >= 1 /\ cps.refs \in [Numbers -> Nat] /\ cps \in CodecPool
  BY Referenced DEF CountInv, TypeOK, CodecPool
<1>2. cps'.refs = [cps.refs EXCEPT ![hold[t]] = @ - 1]
  BY <1>1, ReleasedFields
<1>3. ASSUME NEW cp \in Numbers
      PROVE  \E d \in Int : cps'.refs[cp] = cps.refs[cp] + d /\ Holders(cp)' = Holders(cp) + d
  <2> DEFINE d == IF cp = hold[t] THEN -1 ELSE 0
  <2>0. d \in Int
    OBVIOUS
  <2>1. Moved(CopiesOf(cp), CopiesOf(cp)', d)
    BY CopyDropped
  <2>2. Moved(FirstOf(cp), FirstOf(cp)', 0) /\ Moved(LastOf(cp), LastOf(cp)', 0) /\ Moved(JobsOf(cp), JobsOf(cp)', 0)
    BY SameJobs, SameFirst, SameLast DEF Moved
  <2>3. cps'.refs[cp] = cps.refs[cp] + d
    BY <1>1, <1>2
  <2> HIDE DEF d
  <2>4. Holders(cp)' = Holders(cp) + 0 + 0 + 0 + d
    BY <2>0, <2>1, <2>2, HoldersMove
  <2>5. Holders(cp) \in Int
    BY Families
  <2> QED BY <2>0, <2>3, <2>4, <2>5
<1> QED BY <1>1, <1>2, <1>3, CountedTogether

(* Freeing a job gives back its reference.                                     *)
LEMMA CountedFree ==
  ASSUME CountInv, closed' = closed, UNCHANGED <<initial, previous, pc, hold>>,
         NEW j \in Jobs, Jobs' = Jobs \ {j}, cps' = Released(cps, j.cp)
  PROVE  Counted'
<1>1. j.cp \in Numbers /\ cps.refs[j.cp] >= 1 /\ cps.refs \in [Numbers -> Nat] /\ cps \in CodecPool
  BY Referenced DEF CountInv, TypeOK, CodecPool, Job
<1>2. cps'.refs = [cps.refs EXCEPT ![j.cp] = @ - 1]
  BY <1>1, ReleasedFields
<1>3. ASSUME NEW cp \in Numbers
      PROVE  \E d \in Int : cps'.refs[cp] = cps.refs[cp] + d /\ Holders(cp)' = Holders(cp) + d
  <2> DEFINE d == IF cp = j.cp THEN -1 ELSE 0
  <2>0. d \in Int
    OBVIOUS
  <2>1. Moved(JobsOf(cp), JobsOf(cp)', d)
    BY JobFreed
  <2>2. CopiesOf(cp)' = CopiesOf(cp)
    BY DEF CopiesOf
  <2>3. Moved(FirstOf(cp), FirstOf(cp)', 0) /\ Moved(LastOf(cp), LastOf(cp)', 0) /\ Moved(CopiesOf(cp), CopiesOf(cp)', 0)
    BY <2>2, SameFirst, SameLast DEF Moved
  <2>4. cps'.refs[cp] = cps.refs[cp] + d
    BY <1>1, <1>2
  <2> HIDE DEF d
  <2>5. Holders(cp)' = Holders(cp) + 0 + 0 + d + 0
    BY <2>0, <2>1, <2>3, HoldersMove
  <2>6. Holders(cp) \in Int
    BY Families
  <2> QED BY <2>0, <2>4, <2>5, <2>6
<1> QED BY <1>1, <1>2, <1>3, CountedTogether

(* A descriptor takes the place of another in a parent's family.               *)
DescribedBy(map, cp) == {n \in Noders : map[n] # None /\ map[n].cp = cp}

LEMMA Replaced ==
  ASSUME NEW map \in [Noders -> Descriptor \cup {None}], NEW n \in Noders,
         NEW d \in Descriptor, NEW cp \in Numbers
  PROVE  Moved(DescribedBy(map, cp), DescribedBy([map EXCEPT ![n] = d], cp),
               (IF cp = d.cp THEN 1 ELSE 0) - (IF map[n] # None /\ map[n].cp = cp THEN 1 ELSE 0))
<1> DEFINE S == DescribedBy(map, cp)
           T == DescribedBy([map EXCEPT ![n] = d], cp)
<1>0. d # None
  BY HandlerAssumption DEF Descriptor
<1>1. \A m \in Noders : m # n => (m \in T <=> m \in S)
  BY DEF DescribedBy
<1>2. n \in T <=> cp = d.cp
  BY <1>0 DEF DescribedBy
<1>3. n \in S <=> map[n] # None /\ map[n].cp = cp
  BY DEF DescribedBy
<1>4. S \subseteq Noders /\ T \subseteq Noders
  BY DEF DescribedBy
<1> HIDE DEF S, T
<1>5. CASE n \in S /\ n \in T
  <2>1. T = S
    BY <1>1, <1>4, <1>5
  <2> QED BY <1>2, <1>3, <1>5, <2>1 DEF Moved, S, T
<1>6. CASE n \in S /\ n \notin T
  <2>1. T = S \ {n}
    BY <1>1, <1>4, <1>6
  <2>2. Moved(S, T, -1)
    BY <1>6, <2>1 DEF Moved
  <2> QED BY <1>2, <1>3, <1>6, <2>2 DEF S, T
<1>7. CASE n \notin S /\ n \in T
  <2>1. T = S \cup {n}
    BY <1>1, <1>4, <1>7
  <2>2. Moved(S, T, 1)
    BY <1>7, <2>1 DEF Moved
  <2> QED BY <1>2, <1>3, <1>7, <2>2 DEF S, T
<1>8. CASE n \notin S /\ n \notin T
  <2>1. T = S
    BY <1>1, <1>4, <1>8
  <2> QED BY <1>2, <1>3, <1>8, <2>1 DEF Moved, S, T
<1> QED BY <1>5, <1>6, <1>7, <1>8

(* A descriptor is stored: the one before is released, the new one acquired.   *)
LEMMA CountedStore ==
  ASSUME CountInv, closed' = closed, Jobs' = Jobs, NEW n \in Noders, NEW d \in Descriptor,
         \A t \in Threads : /\ pc'[t] \in Counting <=> pc[t] \in Counting
                            /\ pc[t] \in Counting => hold'[t] = hold[t],
         \/ /\ initial' = [initial EXCEPT ![n] = d] /\ UNCHANGED previous
            /\ cps' = Stored(cps, initial[n], d.cp)
         \/ /\ previous' = [previous EXCEPT ![n] = d] /\ UNCHANGED initial
            /\ cps' = Stored(cps, previous[n], d.cp)
  PROVE  Counted'
<1>0. /\ cps \in CodecPool /\ cps.refs \in [Numbers -> Nat] /\ d.cp \in Numbers
      /\ initial \in [Noders -> Descriptor \cup {None}] /\ previous \in [Noders -> Descriptor \cup {None}]
  BY DEF CountInv, TypeOK, CodecPool, Descriptor
<1>1. ASSUME NEW cp \in Numbers
      PROVE  /\ cps'.refs[cp] \in Int
             /\ \E e \in Int : cps'.refs[cp] = cps.refs[cp] + e /\ Holders(cp)' = Holders(cp) + e
  <2> DEFINE e == (IF cp = d.cp THEN 1 ELSE 0) - (IF initial[n] # None /\ initial[n].cp = cp THEN 1 ELSE 0)
             g == (IF cp = d.cp THEN 1 ELSE 0) - (IF previous[n] # None /\ previous[n].cp = cp THEN 1 ELSE 0)
  <2>0. e \in Int /\ g \in Int
    OBVIOUS
  <2>1. /\ Moved(DescribedBy(initial, cp), DescribedBy([initial EXCEPT ![n] = d], cp), e)
        /\ Moved(DescribedBy(previous, cp), DescribedBy([previous EXCEPT ![n] = d], cp), g)
    BY <1>0, Replaced
  <2>2. FirstOf(cp) = DescribedBy(initial, cp) /\ LastOf(cp) = DescribedBy(previous, cp)
    BY DEF FirstOf, LastOf, DescribedBy
  <2>3. FirstOf(cp)' = DescribedBy(initial', cp) /\ LastOf(cp)' = DescribedBy(previous', cp)
    BY DEF FirstOf, LastOf, DescribedBy
  <2>4. JobsOf(cp)' = JobsOf(cp) /\ CopiesOf(cp)' = CopiesOf(cp)
    BY SameJobs, SameCopies
  <2>5. Holders(cp) \in Int /\ cps.refs[cp] \in Int
    BY <1>0, Families
  <2>6. CASE /\ initial' = [initial EXCEPT ![n] = d] /\ UNCHANGED previous
             /\ cps' = Stored(cps, initial[n], d.cp)
    <3>1. Moved(FirstOf(cp), FirstOf(cp)', e) /\ LastOf(cp)' = LastOf(cp)
      BY <2>1, <2>2, <2>3, <2>6, SameLast
    <3>2. Holders(cp)' = Holders(cp) + e
      BY <2>0, <2>4, <3>1, FirstMoves
    <3>3. /\ initial[n] \in Descriptor \cup {None}
          /\ initial[n] # None => cps.refs[initial[n].cp] >= 1
      BY Referenced
    <3>4. cps'.refs[cp] = cps.refs[cp] - (IF initial[n] # None /\ initial[n].cp = cp THEN 1 ELSE 0)
                          + (IF cp = d.cp THEN 1 ELSE 0)
      BY <1>0, <2>6, <3>3, StoredFields
    <3>5. cps'.refs[cp] = cps.refs[cp] + e
      BY <2>5, <3>4
    <3> QED BY <2>0, <2>5, <3>2, <3>5
  <2>7. CASE /\ previous' = [previous EXCEPT ![n] = d] /\ UNCHANGED initial
             /\ cps' = Stored(cps, previous[n], d.cp)
    <3>1. Moved(LastOf(cp), LastOf(cp)', g) /\ FirstOf(cp)' = FirstOf(cp)
      BY <2>1, <2>2, <2>3, <2>7, SameFirst
    <3>2. Holders(cp)' = Holders(cp) + g
      BY <2>0, <2>4, <3>1, LastMoves
    <3>3. /\ previous[n] \in Descriptor \cup {None}
          /\ previous[n] # None => cps.refs[previous[n].cp] >= 1
      BY Referenced
    <3>4. cps'.refs[cp] = cps.refs[cp] - (IF previous[n] # None /\ previous[n].cp = cp THEN 1 ELSE 0)
                          + (IF cp = d.cp THEN 1 ELSE 0)
      BY <1>0, <2>7, <3>3, StoredFields
    <3>5. cps'.refs[cp] = cps.refs[cp] + g
      BY <2>5, <3>4
    <3> QED BY <2>0, <2>5, <3>2, <3>5
  <2> QED BY <2>6, <2>7
<1> QED BY <1>1, CountedTogether

LEMMA CountedForget ==
  ASSUME CountInv, closed' = closed, Jobs' = Jobs, UNCHANGED previous,
         NEW n \in Noders, initial[n] # None, initial' = [initial EXCEPT ![n] = None],
         cps' = Released(cps, initial[n].cp),
         \A t \in Threads : /\ pc'[t] \in Counting <=> pc[t] \in Counting
                            /\ pc[t] \in Counting => hold'[t] = hold[t]
  PROVE  Counted'
<1> DEFINE c == initial[n].cp
<1>0. /\ cps \in CodecPool /\ cps.refs \in [Numbers -> Nat] /\ c \in Numbers /\ cps.refs[c] >= 1
      /\ initial \in [Noders -> Descriptor \cup {None}]
  BY Referenced DEF CountInv, TypeOK, CodecPool
<1>1. cps'.refs = [cps.refs EXCEPT ![c] = @ - 1]
  BY <1>0, ReleasedFields
<1>2. ASSUME NEW cp \in Numbers
      PROVE  \E d \in Int : cps'.refs[cp] = cps.refs[cp] + d /\ Holders(cp)' = Holders(cp) + d
  <2> DEFINE d == IF cp = c THEN -1 ELSE 0
  <2>i. d \in Int
    OBVIOUS
  <2>0. Holders(cp) \in Int /\ cps'.refs[cp] = cps.refs[cp] + d
    BY <1>0, <1>1, Families
  <2>1. FirstOf(cp)' = FirstOf(cp) \ {n} /\ (n \in FirstOf(cp) <=> cp = c)
    BY <1>0 DEF FirstOf
  <2>2. Moved(FirstOf(cp), FirstOf(cp)', d)
    BY <2>1 DEF Moved
  <2>3. Moved(LastOf(cp), LastOf(cp)', 0) /\ Moved(JobsOf(cp), JobsOf(cp)', 0) /\ Moved(CopiesOf(cp), CopiesOf(cp)', 0)
    BY SameJobs, SameLast, SameCopies DEF Moved
  <2> HIDE DEF d
  <2>4. Holders(cp)' = Holders(cp) + d + 0 + 0 + 0
    BY <2>i, <2>2, <2>3, HoldersMove, 0 \in Int, ZenonT(60)
  <2> QED BY <2>i, <2>0, <2>4
<1> QED BY <1>0, <1>1, <1>2, CountedTogether

(* A copy in progress becomes a job.                                           *)
LEMMA CountedQueue ==
  ASSUME CountInv, closed' = closed, UNCHANGED <<initial, previous, cps>>,
         NEW t \in Threads, pc[t] \in Counting, pc'[t] \notin Counting,
         \A r \in Threads \ {t} : pc'[r] = pc[r] /\ hold'[r] = hold[r],
         NEW j, j.cp = hold[t], j \notin Jobs, Jobs' = Jobs \cup {j}
  PROVE  Counted'
<1>1. ASSUME NEW cp \in Numbers PROVE Holders(cp)' = Holders(cp)
  <2> DEFINE d == IF cp = hold[t] THEN 1 ELSE 0
             e == IF cp = hold[t] THEN -1 ELSE 0
  <2>i. d \in Int /\ e \in Int
    OBVIOUS
  <2>0. d + e = 0
    OBVIOUS
  <2>1. Moved(CopiesOf(cp), CopiesOf(cp)', e)
    BY CopyDropped
  <2>2. Moved(JobsOf(cp), JobsOf(cp)', IF cp = j.cp THEN 1 ELSE 0)
    BY JobAdded
  <2>3. Moved(JobsOf(cp), JobsOf(cp)', d)
    BY <2>2
  <2>4. Moved(FirstOf(cp), FirstOf(cp)', 0) /\ Moved(LastOf(cp), LastOf(cp)', 0)
    BY SameFirst, SameLast DEF Moved
  <2> HIDE DEF d, e
  <2>5. Holders(cp)' = Holders(cp) + 0 + 0 + d + e
    BY <2>i, <2>1, <2>3, <2>4, HoldersMove, 0 \in Int, ZenonT(60)
  <2>6. Holders(cp) \in Int
    BY Families
  <2> QED BY <2>i, <2>0, <2>5, <2>6
<1> QED BY <1>1 DEF CountInv, Counted, TypeOK

LEMMA CountedAcquire ==
  ASSUME CountInv, closed' = closed, Jobs' = Jobs, UNCHANGED <<initial, previous>>,
         NEW t \in Threads, pc[t] = "acquire", pc'[t] = "copy", UNCHANGED hold,
         \A r \in Threads \ {t} : pc'[r] = pc[r], cps' = Acquired(cps, hold[t])
  PROVE  Counted'
<1>0. hold[t] \in Numbers /\ cps \in CodecPool /\ cps.refs \in [Numbers -> Nat]
  BY DEF CountInv, Places, Holding, TypeOK, CodecPool
<1>1. cps'.refs = [cps.refs EXCEPT ![hold[t]] = @ + 1]
  BY <1>0, AcquiredFields
<1>2. ASSUME NEW cp \in Numbers
      PROVE  \E d \in Int : cps'.refs[cp] = cps.refs[cp] + d /\ Holders(cp)' = Holders(cp) + d
  <2> DEFINE d == IF cp = hold[t] THEN 1 ELSE 0
  <2>i. d \in Int
    OBVIOUS
  <2>0. Holders(cp) \in Int /\ cps'.refs[cp] = cps.refs[cp] + d
    BY <1>0, <1>1, Families
  <2>1. pc[t] \notin Counting /\ pc'[t] \in Counting
    BY DEF Counting, Holding
  <2>2. Moved(CopiesOf(cp), CopiesOf(cp)', d)
    BY <2>1, CopyCounted
  <2>3. Moved(FirstOf(cp), FirstOf(cp)', 0) /\ Moved(LastOf(cp), LastOf(cp)', 0) /\ Moved(JobsOf(cp), JobsOf(cp)', 0)
    BY SameJobs, SameFirst, SameLast DEF Moved
  <2> HIDE DEF d
  <2>4. Holders(cp)' = Holders(cp) + 0 + 0 + 0 + d
    BY <2>i, <2>2, <2>3, HoldersMove
  <2> QED BY <2>i, <2>0, <2>4
<1> QED BY <1>0, <1>1, <1>2, CountedTogether

LEMMA CountedStep == CountInv /\ [Next]_vars => Counted'
<1> SUFFICES ASSUME CountInv, [Next]_vars PROVE Counted'
  OBVIOUS
<1> USE HandlerAssumption
<1>0. /\ pc \in [Threads -> {"idle", "get", "acquire", "copy", "ref", "store", "release", "callback", "done"}]
      /\ hold \in [Threads -> Numbers \cup {None}]
  BY DEF CountInv, TypeOK
<1>a. UNCHANGED <<queue, kept, running, acquired>> => Jobs' = Jobs
  BY DEF Jobs
<1>1. ASSUME NEW p \in Packets, Handle(p) PROVE Counted'
  <2> DEFINE n == NoderOf[p]
  <2>0. /\ n \in Threads /\ pc[n] = "idle" /\ closed' = closed /\ Jobs' = Jobs /\ UNCHANGED <<initial, previous>>
    BY <1>1, <1>a DEF Handle, Threads, looping, descriptors
  <2>1. CASE UNCHANGED <<pc, hold, cps>>
    BY <2>0, <2>1, CountedSame
  <2>2. CASE /\ CanGet(cps) /\ cps' = WithoutFirst(cps) /\ hold' = [hold EXCEPT ![n] = First(cps)]
             /\ pc' = [pc EXCEPT ![n] = "acquire"]
    <3>1. /\ pc[n] \notin Counting /\ pc'[n] \notin Counting
          /\ \A r \in Threads \ {n} : pc'[r] = pc[r] /\ hold'[r] = hold[r]
      BY <1>0, <2>0, <2>2 DEF Counting, Holding
    <3> QED BY <2>0, <2>2, <3>1, CountedGet
  <2> QED BY <1>1, <2>1, <2>2 DEF Handle, Get, threads
<1>2. ASSUME NEW t \in Threads, Acquire(t) PROVE Counted'
  <2>1. /\ pc[t] = "acquire" /\ pc'[t] = "copy" /\ UNCHANGED <<closed, hold, initial, previous>>
        /\ Jobs' = Jobs /\ cps' = Acquired(cps, hold[t]) /\ \A r \in Threads \ {t} : pc'[r] = pc[r]
    BY <1>0, <1>2, <1>a DEF Acquire, looping, descriptors
  <2> QED BY <2>1, CountedAcquire
<1>3. ASSUME NEW t \in Threads, Copy(t) PROVE Counted'
  <2>0. pc[t] = "copy" /\ closed' = closed /\ Jobs' = Jobs /\ UNCHANGED <<initial, previous>>
    BY <1>3, <1>a DEF Copy, looping, descriptors
  <2>1. CASE pc' = [pc EXCEPT ![t] = IF t \in Noders THEN "ref" ELSE "store"] /\ UNCHANGED <<cps, hold>>
    <3>1. \A r \in Threads : (pc'[r] \in Counting <=> pc[r] \in Counting) /\ hold'[r] = hold[r]
      BY <1>0, <2>0, <2>1 DEF Counting, Holding
    <3> QED BY <2>0, <2>1, <3>1, CountedSame
  <2>2. CASE Return(t) /\ cps' = Released(cps, hold[t])
    <3>1. /\ pc[t] \in Counting /\ pc'[t] \notin Counting
          /\ \A r \in Threads \ {t} : pc'[r] = pc[r] /\ hold'[r] = hold[r]
      BY <1>0, <2>0, <2>2 DEF Return, Counting, Holding
    <3> QED BY <2>0, <2>2, <3>1, CountedDropCopy
  <2> QED BY <1>3, <2>1, <2>2 DEF Copy
<1>4. ASSUME NEW n \in Noders, AddJob(n) PROVE Counted'
  <2>0. /\ n \in Threads /\ pc[n] = "ref" /\ closed' = closed /\ UNCHANGED <<initial, previous>>
        /\ UNCHANGED <<kept, running, acquired>> /\ Return(n)
    BY <1>4 DEF AddJob, Threads, looping, descriptors
  <2>1. /\ pc[n] \in Counting /\ pc'[n] \notin Counting
        /\ \A r \in Threads \ {n} : pc'[r] = pc[r] /\ hold'[r] = hold[r]
    BY <1>0, <2>0 DEF Return, Counting, Holding
  <2>2. CASE queue' = Append(queue, NewJob(n)) /\ UNCHANGED cps
    <3>1. NewJob(n) \notin Jobs /\ Jobs' = Jobs \cup {NewJob(n)}
      BY <1>4, <2>2, AddJobJobs
    <3>2. NewJob(n).cp = hold[n]
      BY DEF NewJob
    <3> QED BY <2>0, <2>1, <2>2, <3>1, <3>2, CountedQueue
  <2>3. CASE cps' = Released(cps, hold[n]) /\ UNCHANGED queue
    BY <1>a, <2>0, <2>1, <2>3, CountedDropCopy
  <2> QED BY <1>4, <2>2, <2>3 DEF AddJob, NewJob
<1>5. ASSUME NEW u \in Users, NEW n \in Noders, Connect(u, n) PROVE Counted'
  <2>1. /\ closed' = closed /\ Jobs' = Jobs /\ UNCHANGED <<initial, previous, cps, hold>>
        /\ \A r \in Threads : (pc'[r] \in Counting <=> pc[r] \in Counting) /\ hold'[r] = hold[r]
    BY <1>0, <1>5, <1>a DEF Connect, pools, descriptors, looping, Counting, Holding
  <2> QED BY <2>1, CountedSame
<1>6. ASSUME NEW u \in Users, GetCopy(u) PROVE Counted'
  <2>1. /\ closed' = closed /\ Jobs' = Jobs /\ UNCHANGED <<initial, previous>>
        /\ CanGet(cps) /\ cps' = WithoutFirst(cps)
        /\ u \in Threads /\ pc[u] \notin Counting /\ pc'[u] \notin Counting
        /\ \A r \in Threads \ {u} : pc'[r] = pc[r] /\ hold'[r] = hold[r]
    BY <1>0, <1>6, <1>a DEF GetCopy, Get, Threads, descriptors, looping, Counting, Holding
  <2> QED BY <2>1, CountedGet
<1>7. ASSUME NEW u \in Users, StoreInitial(u) PROVE Counted'
  <2> DEFINE d == [cp |-> hold[u], stream |-> InitialOf[arg[u]]]
  <2>1. arg[u] \in Noders /\ hold[u] \in Numbers
    BY <1>7 DEF StoreInitial, CountInv, Places, Holding, Threads
  <2>2. d \in Descriptor /\ d.cp = hold[u]
    BY <2>1 DEF Descriptor
  <2>3. /\ closed' = closed /\ Jobs' = Jobs /\ UNCHANGED <<previous, hold>>
        /\ cps' = Stored(cps, initial[arg[u]], hold[u]) /\ initial' = [initial EXCEPT ![arg[u]] = d]
    BY <1>7, <1>a DEF StoreInitial, looping
  <2>4. \A r \in Threads : pc'[r] \in Counting <=> pc[r] \in Counting
    BY <1>0, <1>7 DEF StoreInitial, Counting, Holding
  <2> HIDE DEF d
  <2> QED BY <2>1, <2>2, <2>3, <2>4, CountedStore
<1>8. ASSUME NEW u \in Users, ReleaseCopy(u) PROVE Counted'
  <2>1. /\ closed' = closed /\ Jobs' = Jobs /\ UNCHANGED <<initial, previous>>
        /\ cps' = Released(cps, hold[u])
        /\ u \in Threads /\ pc[u] \in Counting /\ pc'[u] \notin Counting
        /\ \A r \in Threads \ {u} : pc'[r] = pc[r] /\ hold'[r] = hold[r]
    BY <1>0, <1>8, <1>a DEF ReleaseCopy, Threads, descriptors, looping, Counting, Holding
  <2> QED BY <2>1, CountedDropCopy
<1>9. ASSUME NEW u \in Users, Callback(u) PROVE Counted'
  <2>1. /\ closed' = closed /\ Jobs' = Jobs /\ UNCHANGED previous /\ pc[u] = "callback" /\ Return(u)
        /\ u \in Threads /\ arg[u] \in Noders
    BY <1>9, <1>a DEF Callback, Threads, looping, CountInv, Places
  <2>2. \A r \in Threads : /\ pc'[r] \in Counting <=> pc[r] \in Counting
                           /\ pc[r] \in Counting => hold'[r] = hold[r]
    BY <1>0, <2>1 DEF Return, Counting, Holding
  <2>3. CASE UNCHANGED <<cps, initial>>
    BY <2>1, <2>2, <2>3, CountedSame
  <2>4. CASE initial[arg[u]] = None /\ cps' = cps /\ initial' = [initial EXCEPT ![arg[u]] = None]
    <3>1. initial' = initial
      BY <2>1, <2>4 DEF CountInv, TypeOK
    <3> QED BY <2>1, <2>2, <2>4, <3>1, CountedSame
  <2>5. CASE /\ initial[arg[u]] # None /\ cps' = Released(cps, initial[arg[u]].cp)
             /\ initial' = [initial EXCEPT ![arg[u]] = None]
    BY <2>1, <2>2, <2>5, CountedForget
  <2> QED BY <1>9, <2>3, <2>4, <2>5 DEF Callback
<1>10. CASE Take
  <2>0. UNCHANGED <<closed, cps, initial, previous, pc, hold>>
    BY <1>10 DEF Take, pools, descriptors, threads
  <2>1. CASE Jobs' = Jobs
    BY <2>0, <2>1, CountedSame
  <2>2. CASE closed /\ Jobs' \subseteq Jobs
    <3>1. ASSUME NEW cp \in Numbers PROVE cps'.refs[cp] >= Holders(cp)'
      <4>1. FirstOf(cp)' = FirstOf(cp) /\ LastOf(cp)' = LastOf(cp) /\ CopiesOf(cp)' = CopiesOf(cp)
        BY <2>0, SameFirst, SameLast DEF CopiesOf
      <4>2. JobsOf(cp)' \subseteq JobsOf(cp)
        BY <2>2 DEF JobsOf
      <4>3. IsFiniteSet(JobsOf(cp))
        BY Families
      <4>4. /\ Cardinality(JobsOf(cp)') <= Cardinality(JobsOf(cp))
            /\ Cardinality(JobsOf(cp)') \in Nat
        BY <4>2, <4>3, FS_Subset, FS_CardinalityType
      <4>5. Holders(cp)' = Cardinality(FirstOf(cp)') + Cardinality(LastOf(cp)')
                           + Cardinality(JobsOf(cp)') + Cardinality(CopiesOf(cp)')
        BY DEF Holders, FirstOf, LastOf, JobsOf, CopiesOf, Counting, Holding
      <4>6. /\ Holders(cp) = Cardinality(FirstOf(cp)) + Cardinality(LastOf(cp))
                             + Cardinality(JobsOf(cp)) + Cardinality(CopiesOf(cp))
            /\ Cardinality(FirstOf(cp)) \in Nat /\ Cardinality(LastOf(cp)) \in Nat
            /\ Cardinality(JobsOf(cp)) \in Nat /\ Cardinality(CopiesOf(cp)) \in Nat
        BY Families
      <4>7. cps.refs[cp] >= Holders(cp) /\ cps.refs[cp] \in Nat /\ cps' = cps
        BY <2>0 DEF CountInv, Counted, TypeOK
      <4> QED BY <4>1, <4>4, <4>5, <4>6, <4>7
    <3> QED BY <2>0, <2>2, <3>1 DEF Counted
  <2> QED BY <1>10, <2>1, <2>2, TakeJobs
<1>11. CASE OnPacket
  <2>1. Jobs' = Jobs
    BY <1>11, OnPacketJobs
  <2> QED BY <1>11, <2>1, CountedSame DEF OnPacket, pools, descriptors, threads
<1>12. CASE StorePrevious
  <2> DEFINE j == Head(running)
             d == [cp |-> j.cp, stream |-> StreamOf[j.p]]
  <2>1. NoderOf[j.p] \in Noders /\ d \in Descriptor /\ d.cp = j.cp
    BY <1>12, RunningJob DEF StorePrevious, Job, Descriptor
  <2>2. /\ closed' = closed /\ Jobs' = Jobs /\ UNCHANGED <<initial, pc, hold>>
        /\ previous' = [previous EXCEPT ![NoderOf[j.p]] = d]
        /\ cps' = Stored(cps, previous[NoderOf[j.p]], d.cp)
    BY <1>12, <1>a DEF StorePrevious, threads
  <2> HIDE DEF d
  <2> QED BY <2>1, <2>2, CountedStore
<1>13. CASE Leave
  <2>0. UNCHANGED <<closed, initial, previous, pc, hold>>
    BY <1>13 DEF Leave, descriptors, threads
  <2>1. CASE acquired
    <3>1. Jobs' = Jobs /\ cps' = cps
      BY <1>13, <2>1 DEF Leave, Jobs, ToSet, pools
    <3> QED BY <2>0, <3>1, CountedSame
  <2>2. CASE ~acquired
    <3>1. Head(running) \in Jobs /\ Jobs' = Jobs \ {Head(running)}
      BY <1>13, <2>2, LeaveJobs
    <3> QED BY <1>13, <2>0, <2>2, <3>1, CountedFree DEF Leave, FreeJob
  <2> QED BY <2>1, <2>2
<1>14. ASSUME NEW j \in kept, ReleaseKept(j) PROVE Counted'
  <2>1. j \in Jobs /\ Jobs' = Jobs \ {j}
    BY <1>14, ReleaseKeptJobs
  <2> QED BY <1>14, <2>1, CountedFree DEF ReleaseKept, FreeJob, descriptors, threads
<1>15. CASE Close \/ UNCHANGED vars
  <2>1. (closed => closed') /\ Jobs' = Jobs /\ UNCHANGED <<initial, previous, cps, pc, hold>>
    BY <1>15, <1>a DEF Close, vars, pools, descriptors, threads, looping, CountInv, TypeOK
  <2> QED BY <2>1, CountedSame
<1> QED
  BY <1>1, <1>2, <1>3, <1>4, <1>5, <1>6, <1>7, <1>8, <1>9, <1>10, <1>11, <1>12, <1>13, <1>14, <1>15
  DEF Next

-----------------------------------------------------------------------------

LEMMA CountInit == Init => CountInv
<1> SUFFICES ASSUME Init PROVE CountInv
  OBVIOUS
<1> USE HandlerAssumption DEF Init
<1>1. TypeOK
  <2>1. /\ cps \in CodecPool /\ buffers \in Pool
        /\ queue \in Seq(Job) /\ running \in Seq(Job)
    BY DEF Pool, CodecPool
  <2> QED BY <2>1 DEF TypeOK, CodecPool
<1>2. Places /\ Excluded
  BY DEF Places, Excluded, NoderLabels, UserLabels, Holding, Threads
<1>3. Queued = {} /\ Running = {} /\ Jobs = {}
  BY DEF Queued, Running, Jobs, ToSet
<1>4. Once
  BY <1>3 DEF Once
<1>5. IsFiniteSet(Jobs)
  BY <1>3, FS_EmptySet
<1>6. ASSUME NEW cp \in Numbers PROVE cps.refs[cp] = 0 /\ Holders(cp) = 0
  <2>1. FirstOf(cp) = {} /\ LastOf(cp) = {} /\ JobsOf(cp) = {} /\ CopiesOf(cp) = {}
    BY <1>3 DEF FirstOf, LastOf, JobsOf, CopiesOf, Threads, Counting, Holding
  <2>2. Holders(cp) = Cardinality(FirstOf(cp)) + Cardinality(LastOf(cp))
                      + Cardinality(JobsOf(cp)) + Cardinality(CopiesOf(cp))
    BY DEF Holders, FirstOf, LastOf, JobsOf, CopiesOf, Counting, Holding
  <2> QED BY <2>1, <2>2, FS_EmptySet
<1>7. Counted
  BY <1>6 DEF Counted
<1> QED BY <1>1, <1>2, <1>4, <1>5, <1>7 DEF CountInv

LEMMA CountInvariance == Spec => []CountInv
<1>1. CountInv /\ [Next]_vars => CountInv'
  BY TypeStep, ControlStep, FiniteStep, CountedStep DEF CountInv, Control
<1> QED BY CountInit, <1>1, PTL DEF Spec

(* No step gives a reference back twice: the counts stay natural numbers, the   *)
(* pools hold numbers that were allocated, and descriptors and jobs are whole,  *)
(* whoever connects, hands over, acquires and releases meanwhile.              *)
THEOREM TypeCorrect == Spec => []TypeOK
<1>1. CountInv => TypeOK
  BY DEF CountInv
<1> QED BY <1>1, CountInvariance, PTL

(* Until the closer is closed, codec parameters are referenced as often as they *)
(* are used (codec_parameters.go), even when the node releases on a goroutine   *)
(* of its own.                                                               *)
THEOREM CountsAgreeHolds == Spec => []CountsAgree
<1>1. CountInv => CountsAgree
  <2> SUFFICES ASSUME CountInv, ~closed, NEW cp \in 1 .. cps.allocated
               PROVE  cps.refs[cp] = Holders(cp)
    BY DEF CountsAgree
  <2>1. cps.allocated \in 0 .. MaxAllocated
    BY DEF CountInv, TypeOK
  <2>2. cp \in Numbers
    BY <2>1, HandlerAssumption DEF Numbers
  <2> QED BY <2>2 DEF CountInv, Counted
<1> QED BY <1>1, CountInvariance, PTL

-----------------------------------------------------------------------------
(* What is free and what is in use *)

LEMMA FreeGet ==
  ASSUME NEW s \in CodecPool, NEW H \in SUBSET Numbers, FreeAgrees(s, H), CanGet(s)
  PROVE  /\ First(s) \notin H /\ s.refs[First(s)] = 0 /\ First(s) \in Numbers
         /\ FreeAgrees(WithoutFirst(s), H \cup {First(s)})
<1> DEFINE w == WithoutFirst(s)
           c == First(s)
<1>0. /\ s.free \in Seq(Numbers) /\ s.allocated \in 0 .. MaxAllocated /\ s.refs \in [Numbers -> Nat]
      /\ c \in Numbers /\ MaxAllocated \in Nat
  BY HandlerAssumption, FirstIsANumber DEF CodecPool
<1>1. /\ w \in CodecPool /\ w.refs = s.refs
      /\ w.free = IF s.free = <<>> THEN s.free ELSE Tail(s.free)
      /\ w.allocated = IF s.free = <<>> THEN s.allocated + 1 ELSE s.allocated
  BY WithoutFirstFields
<1>2. \A x \in Numbers : x \in 1 .. MaxAllocated
  BY DEF Numbers
<1>3. CASE s.free = <<>>
  <2>1. c = s.allocated + 1 /\ ToSet(s.free) = {}
    BY <1>3 DEF First, ToSet
  <2> HIDE DEF w, c
  <2>2. c \notin H /\ s.refs[c] = 0
    BY <1>0, <1>2, <2>1 DEF FreeAgrees
  <2>3. FreeAgrees(w, H \cup {c})
    BY <1>0, <1>1, <1>2, <1>3, <2>1, <2>2 DEF FreeAgrees
  <2> QED BY <1>0, <2>2, <2>3 DEF w, c
<1>4. CASE s.free # <<>>
  <2>1. c = Head(s.free)
    BY <1>4 DEF First
  <2>2. /\ c \in ToSet(s.free) /\ ToSet(s.free) = ToSet(w.free) \cup {c}
        /\ IsInjective(w.free) /\ c \notin ToSet(w.free)
    BY <1>0, <1>1, <1>4, <2>1, TailSet DEF FreeAgrees
  <2> HIDE DEF w, c
  <2>3. c \notin H /\ s.refs[c] = 0 /\ c <= s.allocated
    BY <1>0, <2>2 DEF FreeAgrees
  <2>4. FreeAgrees(w, H \cup {c})
    BY <1>0, <1>1, <1>2, <1>4, <2>2, <2>3 DEF FreeAgrees
  <2> QED BY <1>0, <2>3, <2>4 DEF w, c
<1> QED BY <1>3, <1>4

LEMMA FreeAcquire ==
  ASSUME NEW s \in CodecPool, NEW H \in SUBSET Numbers, FreeAgrees(s, H), NEW c \in Numbers,
         c \in H \/ s.refs[c] >= 1
  PROVE  FreeAgrees(Acquired(s, c), H \ {c})
<1> DEFINE w == Acquired(s, c)
<1>0. /\ s.refs \in [Numbers -> Nat] /\ s.allocated \in Nat
      /\ \A x \in Numbers : x \in Nat
  BY HandlerAssumption DEF CodecPool, Numbers
<1>1. w.free = s.free /\ w.allocated = s.allocated /\ w.refs = [s.refs EXCEPT ![c] = @ + 1]
  BY AcquiredFields
<1> HIDE DEF w
<1>2. \A x \in Numbers : w.refs[x] = IF x = c THEN s.refs[x] + 1 ELSE s.refs[x]
  BY <1>0, <1>1
<1>3. FreeAgrees(w, H \ {c})
  BY <1>0, <1>1, <1>2 DEF FreeAgrees
<1> QED BY <1>3 DEF w

LEMMA FreeRelease ==
  ASSUME NEW s \in CodecPool, NEW H \in SUBSET Numbers, FreeAgrees(s, H), NEW c \in Numbers, s.refs[c] >= 1
  PROVE  FreeAgrees(Released(s, c), H)
<1> DEFINE w == Released(s, c)
<1>0. /\ s.refs \in [Numbers -> Nat] /\ s.allocated \in Nat /\ s.free \in Seq(Numbers)
      /\ \A x \in Numbers : x \in Nat
  BY HandlerAssumption DEF CodecPool, Numbers
<1>1. /\ w.free = IF s.refs[c] = 1 THEN Append(s.free, c) ELSE s.free
      /\ w.allocated = s.allocated /\ w.refs = [s.refs EXCEPT ![c] = @ - 1]
  BY ReleasedFields
<1> HIDE DEF w
<1>2. \A x \in Numbers : w.refs[x] = IF x = c THEN s.refs[x] - 1 ELSE s.refs[x]
  BY <1>0, <1>1
<1>3. c \notin H /\ c \notin ToSet(s.free) /\ c <= s.allocated
  BY <1>0 DEF FreeAgrees
<1>4. /\ ToSet(Append(s.free, c)) = ToSet(s.free) \cup {c}
      /\ IsInjective(Append(s.free, c))
  BY <1>0, <1>3, AppendSet DEF FreeAgrees
<1>5. FreeAgrees(w, H)
  <2>1. CASE s.refs[c] = 1
    BY <1>0, <1>1, <1>2, <1>3, <1>4, <2>1 DEF FreeAgrees
  <2>2. CASE s.refs[c] # 1
    BY <1>0, <1>1, <1>2, <1>3, <2>2 DEF FreeAgrees
  <2> QED BY <2>1, <2>2
<1> QED BY <1>5 DEF w

(* A descriptor that takes the place of one with the same codec parameters is  *)
(* not their only use.                                                       *)
LEMMA FreeStored ==
  ASSUME NEW s \in CodecPool, NEW H \in SUBSET Numbers, FreeAgrees(s, H), NEW c \in Numbers,
         s.refs[c] >= 1, NEW d \in Descriptor \cup {None},
         d # None => s.refs[d.cp] >= 1 /\ (d.cp = c => s.refs[c] >= 2)
  PROVE  FreeAgrees(Stored(s, d, c), H)
<1>1. c \notin H
  BY DEF FreeAgrees
<1>2. H \ {c} = H
  BY <1>1
<1>3. CASE d = None
  BY <1>2, <1>3, FreeAcquire DEF Stored
<1>4. CASE d # None
  <2> DEFINE w == Released(s, d.cp)
  <2>1. d.cp \in Numbers /\ s.refs \in [Numbers -> Nat]
    BY <1>4 DEF Descriptor, CodecPool
  <2>2. FreeAgrees(w, H) /\ w \in CodecPool /\ w.refs = [s.refs EXCEPT ![d.cp] = @ - 1]
    BY <1>4, <2>1, FreeRelease, ReleasedFields
  <2>3. w.refs[c] >= 1
    BY <1>4, <2>1, <2>2
  <2>4. Stored(s, d, c) = Acquired(w, c)
    BY <1>4 DEF Stored
  <2> HIDE DEF w
  <2>5. FreeAgrees(Acquired(w, c), H \ {c})
    BY <2>2, <2>3, FreeAcquire
  <2> QED BY <1>2, <2>4, <2>5
<1> QED BY <1>3, <1>4

(* What two uses share has two references; what a copy is about to fill is its *)
(* own.                                                                      *)
LEMMA TwoUses ==
  ASSUME CountInv, NEW c \in Numbers,
         \/ FirstOf(c) # {} /\ CopiesOf(c) # {}
         \/ LastOf(c) # {} /\ JobsOf(c) # {}
  PROVE  cps.refs[c] >= 2
<1>1. /\ Cardinality(FirstOf(c)) \in Nat /\ Cardinality(LastOf(c)) \in Nat
      /\ Cardinality(JobsOf(c)) \in Nat /\ Cardinality(CopiesOf(c)) \in Nat
  BY Families
<1>2. /\ Cardinality(FirstOf(c)) = 0 <=> FirstOf(c) = {}
      /\ Cardinality(LastOf(c)) = 0 <=> LastOf(c) = {}
      /\ Cardinality(JobsOf(c)) = 0 <=> JobsOf(c) = {}
      /\ Cardinality(CopiesOf(c)) = 0 <=> CopiesOf(c) = {}
  BY Families
<1>3. Holders(c) = Cardinality(FirstOf(c)) + Cardinality(LastOf(c))
                   + Cardinality(JobsOf(c)) + Cardinality(CopiesOf(c))
  BY Families
<1>4. cps.refs[c] >= Holders(c) /\ cps.refs[c] \in Nat
  BY DEF CountInv, Counted, TypeOK
<1>5. ASSUME NEW f \in Nat, NEW l \in Nat, NEW j \in Nat, NEW k \in Nat, NEW r \in Nat,
             r >= f + l + j + k, (f # 0 /\ k # 0) \/ (l # 0 /\ j # 0)
      PROVE  r >= 2
  BY <1>5
<1>6. \/ Cardinality(FirstOf(c)) # 0 /\ Cardinality(CopiesOf(c)) # 0
      \/ Cardinality(LastOf(c)) # 0 /\ Cardinality(JobsOf(c)) # 0
  BY <1>2
<1> QED BY <1>1, <1>3, <1>4, <1>5, <1>6

LEMMA OwnCopy ==
  ASSUME CountInv, Pooled, NEW t \in Threads, pc[t] = "copy"
  PROVE  /\ hold[t] \in Numbers
         /\ \A n \in Noders : /\ initial[n] # None => initial[n].cp # hold[t]
                              /\ previous[n] # None => previous[n].cp # hold[t]
         /\ \A j \in Jobs : j.cp # hold[t]
         /\ \A r \in Threads : pc[r] \in Counting /\ hold[r] = hold[t] => r = t
<1> DEFINE c == hold[t]
<1>0. c \in Numbers /\ t \in CopiesOf(c) /\ cps.refs[c] = 1
  BY DEF CountInv, Places, Holding, Counting, CopiesOf, Pooled
<1> HIDE DEF c
<1>1. /\ Cardinality(FirstOf(c)) \in Nat /\ Cardinality(LastOf(c)) \in Nat
      /\ Cardinality(JobsOf(c)) \in Nat /\ Cardinality(CopiesOf(c)) \in Nat
      /\ IsFiniteSet(CopiesOf(c))
  BY <1>0, Families
<1>2. /\ Cardinality(FirstOf(c)) = 0 <=> FirstOf(c) = {}
      /\ Cardinality(LastOf(c)) = 0 <=> LastOf(c) = {}
      /\ Cardinality(JobsOf(c)) = 0 <=> JobsOf(c) = {}
      /\ Cardinality(CopiesOf(c)) = 0 <=> CopiesOf(c) = {}
  BY <1>0, Families
<1>3. /\ Holders(c) = Cardinality(FirstOf(c)) + Cardinality(LastOf(c))
                   + Cardinality(JobsOf(c)) + Cardinality(CopiesOf(c))
      /\ 1 >= Holders(c)
  BY <1>0, Families DEF CountInv, Counted
<1>4. FirstOf(c) = {} /\ LastOf(c) = {} /\ JobsOf(c) = {} /\ Cardinality(CopiesOf(c)) = 1
  <2> DEFINE f == Cardinality(FirstOf(c))
             l == Cardinality(LastOf(c))
             j == Cardinality(JobsOf(c))
             k == Cardinality(CopiesOf(c))
  <2>1. f \in Nat /\ l \in Nat /\ j \in Nat /\ k \in Nat
    BY <1>1
  <2>2. k # 0
    BY <1>0, <1>2
  <2>3. 1 >= f + l + j + k
    BY <1>3
  <2>4. f = 0 /\ l = 0 /\ j = 0 /\ k = 1
    <3> HIDE DEF f, l, j, k
    <3> QED BY <2>1, <2>2, <2>3
  <2> QED BY <1>2, <2>4
<1>5. CopiesOf(c) = {t}
  BY <1>0, <1>1, <1>4, FS_Singleton
<1> QED BY <1>0, <1>4, <1>5 DEF FirstOf, LastOf, JobsOf, CopiesOf, c

(* What a thread got from the pool nobody uses yet.                           *)
LEMMA InHandUnused ==
  ASSUME CountInv, Pooled
  PROVE  /\ InHand \in SUBSET Numbers
         /\ \A t \in Fetched : hold[t] \in InHand /\ cps.refs[hold[t]] = 0
<1>1. \A t \in Fetched : hold[t] \in Numbers
  BY DEF Fetched, CountInv, Places, Holding
<1> QED BY <1>1 DEF InHand, Pooled, FreeAgrees

-----------------------------------------------------------------------------
(* The pool of codec parameters, after a step of each kind *)

LEMMA PooledSame ==
  ASSUME CountInv, Pooled, UNCHANGED cps,
         \A t \in Threads : /\ pc'[t] = "acquire" <=> pc[t] = "acquire"
                            /\ pc'[t] = "copy" => pc[t] = "copy"
                            /\ pc[t] \in {"acquire", "copy"} => hold'[t] = hold[t] \/ pc'[t] # pc[t]
  PROVE  Pooled'
<1>1. Fetched' = Fetched /\ \A t \in Fetched : hold'[t] = hold[t]
  BY DEF Fetched
<1>2. InHand' = InHand
  BY <1>1 DEF InHand
<1> QED BY <1>1, <1>2 DEF Pooled

LEMMA PooledGet ==
  ASSUME CountInv, Pooled, CanGet(cps), cps' = WithoutFirst(cps),
         NEW t \in Threads, pc[t] # "acquire", pc'[t] = "acquire", hold'[t] = First(cps),
         \A r \in Threads \ {t} : pc'[r] = pc[r] /\ hold'[r] = hold[r]
  PROVE  Pooled'
<1>1. cps \in CodecPool /\ InHand \in SUBSET Numbers /\ FreeAgrees(cps, InHand)
  BY InHandUnused DEF CountInv, TypeOK, CodecPool, Pooled
<1>2. /\ First(cps) \notin InHand
      /\ FreeAgrees(cps', InHand \cup {First(cps)})
  BY <1>1, FreeGet
<1>3. Fetched' = Fetched \cup {t} /\ \A r \in Fetched : hold'[r] = hold[r] /\ hold[r] \in InHand
  BY InHandUnused DEF Fetched
<1>4. InHand' = InHand \cup {First(cps)}
  BY <1>3 DEF InHand
<1>5. \A r, q \in Fetched' : hold'[q] = hold'[r] => r = q
  BY <1>2, <1>3 DEF Pooled
<1>6. cps'.refs = cps.refs
  BY <1>1, WithoutFirstFields
<1>7. \A r \in Threads : pc'[r] = "copy" => cps'.refs[hold'[r]] = 1
  BY <1>6 DEF Pooled
<1> QED BY <1>2, <1>4, <1>5, <1>7 DEF Pooled

LEMMA PooledAcquire ==
  ASSUME CountInv, Pooled, NEW t \in Threads, pc[t] = "acquire", pc'[t] = "copy", UNCHANGED hold,
         \A r \in Threads \ {t} : pc'[r] = pc[r], cps' = Acquired(cps, hold[t])
  PROVE  Pooled'
<1>0. t \in Fetched
  BY DEF Fetched
<1>1. /\ cps \in CodecPool /\ InHand \in SUBSET Numbers /\ FreeAgrees(cps, InHand)
      /\ hold[t] \in InHand /\ cps.refs[hold[t]] = 0 /\ cps.refs \in [Numbers -> Nat]
  BY <1>0, InHandUnused DEF CountInv, TypeOK, CodecPool, Pooled
<1>2. FreeAgrees(cps', InHand \ {hold[t]})
  BY <1>1, FreeAcquire
<1>3. Fetched' = Fetched \ {t}
  BY DEF Fetched
<1>4. InHand' = InHand \ {hold[t]}
  BY <1>0, <1>3 DEF InHand, Pooled
<1>5. cps'.refs = [cps.refs EXCEPT ![hold[t]] = @ + 1]
  BY <1>1, AcquiredFields
<1>6. \A r \in Threads : pc'[r] = "copy" => cps'.refs[hold'[r]] = 1
  <2> SUFFICES ASSUME NEW r \in Threads, pc'[r] = "copy" PROVE cps'.refs[hold[r]] = 1
    OBVIOUS
  <2>1. CASE r = t
    BY <1>1, <1>5, <2>1
  <2>2. CASE r # t
    <3>1. cps.refs[hold[r]] = 1
      BY <2>2 DEF Pooled
    <3>2. hold[r] \in Numbers
      BY <2>2 DEF CountInv, Places, Holding
    <3> QED BY <1>1, <1>5, <3>1, <3>2
  <2> QED BY <2>1, <2>2
<1> QED BY <1>2, <1>3, <1>4, <1>6 DEF Pooled

(* A reference is given back, and no copy in progress had it.                  *)
LEMMA PooledRelease ==
  ASSUME CountInv, Pooled, NEW c \in Numbers, cps.refs[c] >= 1, cps' = Released(cps, c),
         \A t \in Threads : /\ pc'[t] = "acquire" <=> pc[t] = "acquire"
                            /\ pc[t] = "acquire" => hold'[t] = hold[t]
                            /\ pc'[t] = "copy" => pc[t] = "copy" /\ hold'[t] = hold[t] /\ hold[t] # c
  PROVE  Pooled'
<1>1. cps \in CodecPool /\ InHand \in SUBSET Numbers /\ FreeAgrees(cps, InHand) /\ cps.refs \in [Numbers -> Nat]
  BY InHandUnused DEF CountInv, TypeOK, CodecPool, Pooled
<1>2. FreeAgrees(cps', InHand)
  BY <1>1, FreeRelease
<1>3. Fetched' = Fetched /\ \A t \in Fetched : hold'[t] = hold[t]
  BY DEF Fetched
<1>4. InHand' = InHand
  BY <1>3 DEF InHand
<1>5. cps'.refs = [cps.refs EXCEPT ![c] = @ - 1]
  BY <1>1, ReleasedFields
<1>6. \A t \in Threads : pc'[t] = "copy" => cps'.refs[hold'[t]] = 1
  BY <1>1, <1>5 DEF Pooled, CountInv, Places, Holding
<1> QED BY <1>2, <1>3, <1>4, <1>6 DEF Pooled

LEMMA PooledStore ==
  ASSUME CountInv, Pooled, NEW c \in Numbers, cps.refs[c] >= 1, NEW d \in Descriptor \cup {None},
         d # None => cps.refs[d.cp] >= 1 /\ (d.cp = c => cps.refs[c] >= 2),
         cps' = Stored(cps, d, c),
         \A t \in Threads : /\ pc'[t] = "acquire" <=> pc[t] = "acquire"
                            /\ pc[t] = "acquire" => hold'[t] = hold[t]
                            /\ pc'[t] = "copy" => /\ pc[t] = "copy" /\ hold'[t] = hold[t] /\ hold[t] # c
                                                  /\ d # None => hold[t] # d.cp
  PROVE  Pooled'
<1>1. cps \in CodecPool /\ InHand \in SUBSET Numbers /\ FreeAgrees(cps, InHand) /\ cps.refs \in [Numbers -> Nat]
  BY InHandUnused DEF CountInv, TypeOK, CodecPool, Pooled
<1>2. FreeAgrees(cps', InHand)
  BY <1>1, FreeStored
<1>3. Fetched' = Fetched /\ \A t \in Fetched : hold'[t] = hold[t]
  BY DEF Fetched
<1>4. InHand' = InHand
  BY <1>3 DEF InHand
<1>5. \A x \in Numbers :
        cps'.refs[x] = cps.refs[x] - (IF d # None /\ d.cp = x THEN 1 ELSE 0) + (IF x = c THEN 1 ELSE 0)
  BY <1>1, StoredFields
<1>6. ASSUME NEW t \in Threads, pc'[t] = "copy" PROVE cps'.refs[hold'[t]] = 1
  <2>1. /\ hold'[t] = hold[t] /\ hold[t] # c /\ (d # None => hold[t] # d.cp)
        /\ hold[t] \in Numbers /\ cps.refs[hold[t]] = 1
    BY <1>6 DEF Pooled, CountInv, Places, Holding
  <2>2. cps'.refs[hold[t]] = cps.refs[hold[t]] - 0 + 0
    BY <1>5, <2>1
  <2> QED BY <2>1, <2>2
<1> QED BY <1>2, <1>3, <1>4, <1>6 DEF Pooled

(* The job the loop works on is in use until the loop leaves it: nobody else   *)
(* releases it meanwhile.                                                     *)
LEMMA RunningInUse ==
  ASSUME CountInv, Kept, loop # "wait"
  PROVE  Head(running) \in Jobs
<1>1. Running = {Head(running)}
  BY RunningJob
<1> QED BY <1>1 DEF Kept, Jobs, Running

LEMMA KeptStep ==
  ASSUME Keeper # "ticker", CountInv, Kept, [Next]_vars
  PROVE  Kept'
<1>1. ASSUME UNCHANGED <<kept, acquired, running>>, loop' # "wait" => loop # "wait" PROVE Kept'
  BY <1>1 DEF Kept, Running
<1>2. ASSUME NEW p \in Packets, Handle(p) PROVE Kept'
  BY <1>1, <1>2 DEF Handle, looping
<1>3. ASSUME NEW t \in Threads, Acquire(t) \/ Copy(t) PROVE Kept'
  BY <1>1, <1>3 DEF Acquire, Copy, looping
<1>4. ASSUME NEW n \in Noders, AddJob(n) PROVE Kept'
  BY <1>1, <1>4 DEF AddJob, looping
<1>5. ASSUME NEW u \in Users, \/ \E n \in Noders : Connect(u, n)
                              \/ GetCopy(u) \/ StoreInitial(u) \/ ReleaseCopy(u) \/ Callback(u)
      PROVE  Kept'
  BY <1>1, <1>5 DEF Connect, GetCopy, StoreInitial, ReleaseCopy, Callback, looping
<1>6. CASE Take
  <2>1. CASE UNCHANGED <<lock, looping>>
    BY <1>1, <1>6, <2>1 DEF Take, looping
  <2>2. CASE acquired' = FALSE
    BY <1>6, <2>2 DEF Take, Kept
  <2> QED BY <1>6, <2>1, <2>2 DEF Take
<1>7. CASE OnPacket
  <2>1. Running' = Running /\ ~acquired
    BY <1>7 DEF OnPacket, Running, CountInv, Excluded
  <2> QED BY <1>7, <2>1 DEF OnPacket, Kept, Running
<1>8. CASE StorePrevious
  BY <1>1, <1>8 DEF StorePrevious
<1>9. CASE Leave
  BY <1>9 DEF Leave, Kept
<1>10. ASSUME NEW j \in kept, ReleaseKept(j) PROVE Kept'
  <2>1. Keeper = "handler"
    BY HandlerAssumption DEF Kept
  <2>2. ~acquired /\ acquired' = acquired
    BY <1>10, <2>1 DEF ReleaseKept, looping, CountInv, Excluded
  <2> QED BY <2>1, <2>2 DEF Kept
<1>11. CASE Close \/ UNCHANGED vars
  BY <1>1, <1>11 DEF Close, vars, looping
<1> QED
  BY <1>2, <1>3, <1>4, <1>5, <1>6, <1>7, <1>8, <1>9, <1>10, <1>11 DEF Next

(* A copy in progress is not a job, nor what a descriptor says.                *)
LEMMA PooledFree ==
  ASSUME CountInv, Pooled, NEW j \in Jobs, cps' = Released(cps, j.cp), UNCHANGED <<pc, hold>>
  PROVE  Pooled'
<1>1. j.cp \in Numbers /\ cps.refs[j.cp] >= 1
  BY Referenced DEF Job
<1>2. \A t \in Threads : pc[t] = "copy" => hold[t] # j.cp
  BY OwnCopy
<1> QED BY <1>1, <1>2, PooledRelease

LEMMA PooledStep == UseInv /\ [Next]_vars => Pooled'
<1> SUFFICES ASSUME UseInv, [Next]_vars PROVE Pooled'
  OBVIOUS
<1> USE HandlerAssumption
<1>i. CountInv /\ Pooled /\ Kept
  BY DEF UseInv
<1>0. /\ pc \in [Threads -> {"idle", "get", "acquire", "copy", "ref", "store", "release", "callback", "done"}]
      /\ hold \in [Threads -> Numbers \cup {None}]
  BY <1>i DEF CountInv, TypeOK
<1>1. ASSUME NEW p \in Packets, Handle(p) PROVE Pooled'
  <2> DEFINE n == NoderOf[p]
  <2>0. n \in Threads /\ pc[n] = "idle"
    BY <1>1 DEF Handle, Threads
  <2>1. CASE UNCHANGED <<pc, hold, cps>>
    BY <1>i, <2>1, PooledSame
  <2>2. CASE /\ CanGet(cps) /\ cps' = WithoutFirst(cps) /\ hold' = [hold EXCEPT ![n] = First(cps)]
             /\ pc' = [pc EXCEPT ![n] = "acquire"]
    <3>1. /\ pc'[n] = "acquire" /\ hold'[n] = First(cps)
          /\ \A r \in Threads \ {n} : pc'[r] = pc[r] /\ hold'[r] = hold[r]
      BY <1>0, <2>0, <2>2
    <3> QED BY <1>i, <2>0, <2>2, <3>1, PooledGet
  <2> QED BY <1>1, <2>1, <2>2 DEF Handle, Get, threads
<1>2. ASSUME NEW t \in Threads, Acquire(t) PROVE Pooled'
  <2>1. /\ pc[t] = "acquire" /\ pc'[t] = "copy" /\ UNCHANGED hold
        /\ cps' = Acquired(cps, hold[t]) /\ \A r \in Threads \ {t} : pc'[r] = pc[r]
    BY <1>0, <1>2 DEF Acquire
  <2> QED BY <1>i, <2>1, PooledAcquire
<1>3. ASSUME NEW t \in Threads, Copy(t) PROVE Pooled'
  <2>0. pc[t] = "copy" /\ pc[t] \in Counting
    BY <1>3 DEF Copy, Counting, Holding
  <2>1. CASE pc' = [pc EXCEPT ![t] = IF t \in Noders THEN "ref" ELSE "store"] /\ UNCHANGED <<cps, hold>>
    BY <1>0, <1>i, <2>0, <2>1, PooledSame
  <2>2. CASE Return(t) /\ cps' = Released(cps, hold[t])
    <3>1. /\ pc'[t] \in {"idle", "done"}
          /\ \A r \in Threads \ {t} : pc'[r] = pc[r] /\ hold'[r] = hold[r]
      BY <1>0, <2>0, <2>2 DEF Return
    <3>2. \A r \in Threads \ {t} : pc[r] = "copy" => hold[r] # hold[t]
      BY <1>i, <2>0, OwnCopy DEF Counting, Holding
    <3>3. hold[t] \in Numbers /\ cps.refs[hold[t]] >= 1
      BY <1>i, <2>0, Referenced
    <3> QED BY <1>i, <2>0, <2>2, <3>1, <3>2, <3>3, PooledRelease
  <2> QED BY <1>3, <2>1, <2>2 DEF Copy
<1>4. ASSUME NEW n \in Noders, AddJob(n) PROVE Pooled'
  <2>0. /\ n \in Threads /\ pc[n] = "ref" /\ Return(n) /\ pc[n] \in Counting
    BY <1>4 DEF AddJob, Threads, Counting, Holding
  <2>1. /\ pc'[n] = "idle" /\ pc[n] # "acquire"
        /\ \A r \in Threads \ {n} : pc'[r] = pc[r] /\ hold'[r] = hold[r]
    BY <1>0, <2>0 DEF Return
  <2>2. CASE UNCHANGED cps
    BY <1>i, <2>0, <2>1, <2>2, PooledSame
  <2>3. CASE cps' = Released(cps, hold[n])
    <3>1. hold[n] \in Numbers /\ cps.refs[hold[n]] >= 1
      BY <1>i, <2>0, Referenced
    <3>2. \A r \in Threads : pc[r] = "copy" => hold[r] # hold[n]
      BY <1>i, <2>0, OwnCopy
    <3> QED BY <1>i, <2>0, <2>1, <2>3, <3>1, <3>2, PooledRelease
  <2> QED BY <1>4, <2>2, <2>3 DEF AddJob
<1>5. ASSUME NEW u \in Users, NEW n \in Noders, Connect(u, n) PROVE Pooled'
  <2>1. /\ UNCHANGED <<cps, hold>> /\ u \in Threads /\ pc[u] = "idle" /\ pc'[u] = "get"
        /\ \A r \in Threads \ {u} : pc'[r] = pc[r]
    BY <1>0, <1>5 DEF Connect, pools, Threads
  <2> QED BY <1>i, <2>1, PooledSame
<1>6. ASSUME NEW u \in Users, GetCopy(u) PROVE Pooled'
  <2>1. /\ CanGet(cps) /\ cps' = WithoutFirst(cps)
        /\ u \in Threads /\ pc[u] # "acquire" /\ pc'[u] = "acquire" /\ hold'[u] = First(cps)
        /\ \A r \in Threads \ {u} : pc'[r] = pc[r] /\ hold'[r] = hold[r]
    BY <1>0, <1>6 DEF GetCopy, Get, Threads
  <2> QED BY <1>i, <2>1, PooledGet
<1>7. ASSUME NEW u \in Users, StoreInitial(u) PROVE Pooled'
  <2> DEFINE d == initial[arg[u]]
             c == hold[u]
  <2>1. /\ arg[u] \in Noders /\ u \in Threads /\ pc[u] = "store" /\ pc[u] \in Counting
        /\ cps' = Stored(cps, d, c) /\ UNCHANGED hold
    BY <1>i, <1>7 DEF StoreInitial, CountInv, Places, Counting, Holding, Threads
  <2>2. /\ c \in Numbers /\ cps.refs[c] >= 1 /\ d \in Descriptor \cup {None}
        /\ d # None => cps.refs[d.cp] >= 1
    BY <1>i, <2>1, Referenced
  <2>3. d # None /\ d.cp = c => cps.refs[c] >= 2
    <3> SUFFICES ASSUME d # None, d.cp = c PROVE cps.refs[c] >= 2
      OBVIOUS
    <3>1. u \in CopiesOf(c) /\ arg[u] \in FirstOf(c)
      BY <2>1 DEF CopiesOf, FirstOf
    <3> QED BY <1>i, <2>2, <3>1, TwoUses
  <2>4. \A t \in Threads : pc[t] = "copy" => hold[t] # c /\ (d # None => hold[t] # d.cp)
    BY <1>i, <2>1, OwnCopy
  <2>5. \A t \in Threads : /\ pc'[t] = "acquire" <=> pc[t] = "acquire"
                           /\ pc'[t] = "copy" => pc[t] = "copy"
    BY <1>0, <1>7 DEF StoreInitial
  <2> HIDE DEF d, c
  <2> QED BY <1>i, <2>1, <2>2, <2>3, <2>4, <2>5, PooledStore
<1>8. ASSUME NEW u \in Users, ReleaseCopy(u) PROVE Pooled'
  <2>1. /\ cps' = Released(cps, hold[u]) /\ UNCHANGED hold
        /\ u \in Threads /\ pc[u] = "release" /\ pc[u] \in Counting /\ pc'[u] = "callback"
        /\ \A r \in Threads \ {u} : pc'[r] = pc[r]
    BY <1>0, <1>8 DEF ReleaseCopy, Threads, Counting, Holding
  <2>2. hold[u] \in Numbers /\ cps.refs[hold[u]] >= 1
    BY <1>i, <2>1, Referenced
  <2>3. \A r \in Threads : pc[r] = "copy" => hold[r] # hold[u]
    BY <1>i, <2>1, OwnCopy
  <2> QED BY <1>i, <2>1, <2>2, <2>3, PooledRelease
<1>9. ASSUME NEW u \in Users, Callback(u) PROVE Pooled'
  <2>1. /\ u \in Threads /\ arg[u] \in Noders /\ pc[u] = "callback" /\ pc'[u] \in {"idle", "done"}
        /\ \A r \in Threads \ {u} : pc'[r] = pc[r] /\ hold'[r] = hold[r]
    BY <1>0, <1>i, <1>9 DEF Callback, Return, Threads, CountInv, Places
  <2>2. CASE cps' = cps
    BY <1>i, <2>1, <2>2, PooledSame
  <2>3. CASE initial[arg[u]] # None /\ cps' = Released(cps, initial[arg[u]].cp)
    <3>1. initial[arg[u]].cp \in Numbers /\ cps.refs[initial[arg[u]].cp] >= 1
      BY <1>i, <2>1, <2>3, Referenced
    <3>2. \A r \in Threads : pc[r] = "copy" => hold[r] # initial[arg[u]].cp
      BY <1>i, <2>1, <2>3, OwnCopy
    <3> QED BY <1>i, <2>1, <2>3, <3>1, <3>2, PooledRelease
  <2> QED BY <1>9, <2>2, <2>3 DEF Callback
<1>10. CASE StorePrevious
  <2> DEFINE j == Head(running)
             d == previous[NoderOf[j.p]]
             c == j.cp
  <2>0. j \in Jobs /\ j \in Job
    BY <1>i, <1>10, RunningInUse, RunningJob DEF StorePrevious
  <2>1. /\ NoderOf[j.p] \in Noders /\ c \in Numbers /\ cps' = Stored(cps, d, c) /\ UNCHANGED <<pc, hold>>
    BY <1>10, <2>0 DEF StorePrevious, Job, threads
  <2>2. /\ cps.refs[c] >= 1 /\ d \in Descriptor \cup {None}
        /\ d # None => cps.refs[d.cp] >= 1
    BY <1>i, <2>0, <2>1, Referenced
  <2>3. d # None /\ d.cp = c => cps.refs[c] >= 2
    <3> SUFFICES ASSUME d # None, d.cp = c PROVE cps.refs[c] >= 2
      OBVIOUS
    <3>1. j \in JobsOf(c) /\ NoderOf[j.p] \in LastOf(c)
      BY <2>0, <2>1 DEF JobsOf, LastOf
    <3> QED BY <1>i, <2>1, <3>1, TwoUses
  <2>4. \A t \in Threads : pc[t] = "copy" => hold[t] # c /\ (d # None => hold[t] # d.cp)
    BY <1>i, <2>0, <2>1, OwnCopy
  <2> HIDE DEF d, c
  <2> QED BY <1>i, <2>1, <2>2, <2>3, <2>4, PooledStore
<1>11. CASE Leave
  <2>0. UNCHANGED <<pc, hold>>
    BY <1>11 DEF Leave, threads
  <2>1. CASE acquired
    BY <1>i, <1>11, <2>0, <2>1, PooledSame DEF Leave, pools
  <2>2. CASE ~acquired
    <3>1. Head(running) \in Jobs
      BY <1>i, <1>11, <2>2, LeaveJobs
    <3> QED BY <1>i, <1>11, <2>0, <2>2, <3>1, PooledFree DEF Leave, FreeJob
  <2> QED BY <2>1, <2>2
<1>12. ASSUME NEW j \in kept, ReleaseKept(j) PROVE Pooled'
  <2>1. j \in Jobs
    BY DEF Jobs
  <2> QED BY <1>i, <1>12, <2>1, PooledFree DEF ReleaseKept, FreeJob, threads
<1>13. CASE Take \/ OnPacket \/ Close \/ UNCHANGED vars
  <2>1. UNCHANGED <<cps, pc, hold>>
    BY <1>13 DEF Take, OnPacket, Close, vars, pools, threads
  <2> QED BY <1>i, <2>1, PooledSame
<1> QED
  BY <1>1, <1>2, <1>3, <1>4, <1>5, <1>6, <1>7, <1>8, <1>9, <1>10, <1>11, <1>12, <1>13 DEF Next

-----------------------------------------------------------------------------
(* What is in use keeps what it says *)

(* Codec parameters are written by the copy in progress of a thread, which goes  *)
(* on to use them; no other step does, nor gives a thread a copy to use.        *)
Fills(t) ==
  /\ pc[t] = "copy" /\ UNCHANGED <<initial, previous, queue, kept, running, acquired, arg, hold>>
  /\ content' = [content EXCEPT ![hold[t]] = Wanted(t)]
  /\ pc' = [pc EXCEPT ![t] = IF t \in Noders THEN "ref" ELSE "store"]

CopiesStay ==
  \A t \in Threads :
    pc'[t] \in {"ref", "store"} => pc[t] = pc'[t] /\ hold'[t] = hold[t] /\ arg'[t] = arg[t]

LEMMA ContentMoves ==
  ASSUME CountInv, [Next]_vars
  PROVE  \/ UNCHANGED content /\ CopiesStay
         \/ \E t \in Threads : Fills(t)
<1>0. /\ pc \in [Threads -> {"idle", "get", "acquire", "copy", "ref", "store", "release", "callback", "done"}]
      /\ hold \in [Threads -> Numbers \cup {None}] /\ arg \in [Threads -> Packets \cup Noders \cup {None}]
  BY DEF CountInv, TypeOK
<1>1. ASSUME NEW p \in Packets, Handle(p) PROVE UNCHANGED content /\ CopiesStay
  BY <1>0, <1>1 DEF Handle, Get, threads, CopiesStay
<1>2. ASSUME NEW r \in Threads, Acquire(r) PROVE UNCHANGED content /\ CopiesStay
  BY <1>0, <1>2 DEF Acquire, CopiesStay
<1>3. ASSUME NEW r \in Threads, Copy(r) PROVE Fills(r) \/ (UNCHANGED content /\ CopiesStay)
  BY <1>0, <1>3 DEF Copy, Return, Fills, CopiesStay, descriptors, looping
<1>4. ASSUME NEW n \in Noders, AddJob(n) PROVE UNCHANGED content /\ CopiesStay
  BY <1>0, <1>4 DEF AddJob, Return, CopiesStay
<1>5. ASSUME NEW u \in Users, (\E n \in Noders : Connect(u, n)) \/ GetCopy(u)
      PROVE  UNCHANGED content /\ CopiesStay
  BY <1>0, <1>5 DEF Connect, GetCopy, Get, pools, CopiesStay
<1>6. ASSUME NEW u \in Users, StoreInitial(u) \/ ReleaseCopy(u) \/ Callback(u)
      PROVE  UNCHANGED content /\ CopiesStay
  BY <1>0, <1>6 DEF StoreInitial, ReleaseCopy, Callback, Return, CopiesStay
<1>7. CASE Take \/ OnPacket \/ StorePrevious \/ Leave \/ Close \/ UNCHANGED vars
  BY <1>7 DEF Take, OnPacket, StorePrevious, Leave, FreeJob, Close, vars, pools, threads, CopiesStay
<1>8. ASSUME NEW j \in kept, ReleaseKept(j) PROVE UNCHANGED content /\ CopiesStay
  BY <1>8 DEF ReleaseKept, FreeJob, threads, CopiesStay
<1> QED BY <1>1, <1>2, <1>3, <1>4, <1>5, <1>6, <1>7, <1>8 DEF Next

(* A copy fills what nobody else uses.                                        *)
LEMMA FilledCopy ==
  ASSUME UseInv, NEW t \in Threads, Fills(t)
  PROVE  Filled'
<1> USE DEF Fills
<1>1. /\ hold[t] \in Numbers
      /\ \A n \in Noders : /\ initial[n] # None => initial[n].cp # hold[t]
                           /\ previous[n] # None => previous[n].cp # hold[t]
      /\ \A j \in Jobs : j.cp # hold[t]
      /\ \A r \in Threads : pc[r] \in Counting /\ hold[r] = hold[t] => r = t
  BY OwnCopy DEF UseInv
<1>2. /\ content \in [Numbers -> Streams \cup {None}]
      /\ \A r \in Threads : pc'[r] = IF r = t THEN (IF t \in Noders THEN "ref" ELSE "store") ELSE pc[r]
  BY DEF UseInv, CountInv, TypeOK
<1>3. content'[hold[t]] = Wanted(t) /\ \A c : c # hold[t] => content'[c] = content[c]
  BY <1>1, <1>2
<1>4. Jobs' = Jobs
  BY DEF Jobs
<1>5. \A j \in Jobs' : content'[j.cp] = StreamOf[j.p]
  BY <1>1, <1>3, <1>4 DEF UseInv, Filled, JobsFilled, CopiesFilled, DescriptorsFilled
<1>6. \A n \in Noders : pc'[n] = "ref" => content'[hold'[n]] = StreamOf[arg'[n]]
  <2> SUFFICES ASSUME NEW n \in Noders, pc'[n] = "ref" PROVE content'[hold[n]] = StreamOf[arg[n]]
    OBVIOUS
  <2>1. CASE n = t
    BY <1>3, <2>1 DEF Wanted
  <2>2. CASE n # t
    <3>1. pc[n] = "ref" /\ hold[n] # hold[t]
      BY <1>1, <1>2, <2>2 DEF Threads, Counting, Holding
    <3> QED BY <1>3, <3>1 DEF UseInv, Filled, JobsFilled, CopiesFilled, DescriptorsFilled
  <2> QED BY <2>1, <2>2
<1>7. \A u \in Users : pc'[u] = "store" => content'[hold'[u]] = InitialOf[arg'[u]]
  <2> SUFFICES ASSUME NEW u \in Users, pc'[u] = "store" PROVE content'[hold[u]] = InitialOf[arg[u]]
    OBVIOUS
  <2>1. CASE u = t
    BY <1>3, <2>1, HandlerAssumption DEF Wanted
  <2>2. CASE u # t
    <3>1. pc[u] = "store" /\ hold[u] # hold[t]
      BY <1>1, <1>2, <2>2 DEF Threads, Counting, Holding
    <3> QED BY <1>3, <3>1 DEF UseInv, Filled, JobsFilled, CopiesFilled, DescriptorsFilled
  <2> QED BY <2>1, <2>2
<1>8. DescriptorsFilled'
  BY <1>1, <1>3 DEF UseInv, Filled, JobsFilled, CopiesFilled, DescriptorsFilled
<1> QED BY <1>5, <1>6, <1>7, <1>8 DEF Filled, JobsFilled, CopiesFilled, DescriptorsFilled

(* Descriptors are stored from a copy that says so, or from a job that does.    *)
LEMMA DescriptorsStay ==
  ASSUME UseInv, [Next]_vars, UNCHANGED content
  PROVE  DescriptorsFilled'
<1>0. /\ CountInv /\ Kept /\ JobsFilled /\ CopiesFilled /\ DescriptorsFilled
      /\ initial \in [Noders -> Descriptor \cup {None}] /\ previous \in [Noders -> Descriptor \cup {None}]
  BY DEF UseInv, CountInv, TypeOK, Filled, JobsFilled, CopiesFilled, DescriptorsFilled
<1>1. ASSUME UNCHANGED <<initial, previous>> PROVE DescriptorsFilled'
  BY <1>0, <1>1 DEF DescriptorsFilled
<1>2. ASSUME NEW u \in Users, StoreInitial(u) PROVE DescriptorsFilled'
  <2>1. /\ pc[u] = "store" /\ arg[u] \in Noders /\ UNCHANGED previous
        /\ initial' = [initial EXCEPT ![arg[u]] = [cp |-> hold[u], stream |-> InitialOf[arg[u]]]]
    BY <1>0, <1>2 DEF StoreInitial, CountInv, Places
  <2>2. content[hold[u]] = InitialOf[arg[u]]
    BY <1>0, <2>1 DEF CopiesFilled
  <2> QED BY <1>0, <2>1, <2>2 DEF DescriptorsFilled
<1>3. ASSUME NEW u \in Users, Callback(u) PROVE DescriptorsFilled'
  BY <1>0, <1>3 DEF Callback, DescriptorsFilled
<1>4. CASE StorePrevious
  <2> DEFINE j == Head(running)
  <2>1. j \in Jobs
    BY <1>0, <1>4, RunningInUse DEF StorePrevious
  <2>2. content[j.cp] = StreamOf[j.p]
    BY <1>0, <2>1 DEF JobsFilled
  <2>3. UNCHANGED initial /\ previous' = [previous EXCEPT ![NoderOf[j.p]] = [cp |-> j.cp, stream |-> StreamOf[j.p]]]
    BY <1>4 DEF StorePrevious
  <2> HIDE DEF j
  <2> QED BY <1>0, <2>2, <2>3 DEF DescriptorsFilled
<1>5. ASSUME NEW p \in Packets, Handle(p) PROVE DescriptorsFilled'
  BY <1>1, <1>5 DEF Handle, descriptors
<1>6. ASSUME NEW t \in Threads, Acquire(t) \/ Copy(t) PROVE DescriptorsFilled'
  BY <1>1, <1>6 DEF Acquire, Copy, descriptors
<1>7. ASSUME NEW n \in Noders, AddJob(n) PROVE DescriptorsFilled'
  BY <1>1, <1>7 DEF AddJob, descriptors
<1>8. ASSUME NEW u \in Users, (\E n \in Noders : Connect(u, n)) \/ GetCopy(u) \/ ReleaseCopy(u) PROVE DescriptorsFilled'
  BY <1>1, <1>8 DEF Connect, GetCopy, ReleaseCopy, descriptors
<1>9. CASE Take \/ OnPacket \/ Leave \/ Close \/ UNCHANGED vars
  BY <1>1, <1>9 DEF Take, OnPacket, Leave, Close, vars, descriptors
<1>10. ASSUME NEW j \in kept, ReleaseKept(j) PROVE DescriptorsFilled'
  BY <1>1, <1>10 DEF ReleaseKept, descriptors
<1> QED BY <1>2, <1>3, <1>4, <1>5, <1>6, <1>7, <1>8, <1>9, <1>10 DEF Next

LEMMA FilledStep == UseInv /\ [Next]_vars => Filled'
<1> SUFFICES ASSUME UseInv, [Next]_vars PROVE Filled'
  OBVIOUS
<1>i. CountInv /\ JobsFilled /\ CopiesFilled
  BY DEF UseInv, Filled, DescriptorsFilled, JobsFilled, CopiesFilled
<1>1. CASE UNCHANGED content /\ CopiesStay
  <2>1. JobsFilled'
    <3>1. ASSUME NEW n \in Noders, AddJob(n), Jobs' = Jobs \cup {NewJob(n)} PROVE JobsFilled'
      <4>1. content[hold[n]] = StreamOf[arg[n]]
        BY <1>i, <3>1 DEF AddJob, CopiesFilled
      <4> QED BY <1>1, <1>i, <3>1, <4>1 DEF JobsFilled, NewJob
    <3>2. ASSUME Jobs' \subseteq Jobs PROVE JobsFilled'
      BY <1>1, <1>i, <3>2 DEF JobsFilled
    <3> QED BY <1>i, <3>1, <3>2, JobsMove
  <2>2. CopiesFilled'
    BY <1>1, <1>i DEF CopiesStay, CopiesFilled, Threads
  <2>3. DescriptorsFilled'
    BY <1>1, DescriptorsStay
  <2> QED BY <2>1, <2>2, <2>3 DEF Filled, JobsFilled, CopiesFilled, DescriptorsFilled
<1>2. ASSUME NEW t \in Threads, Fills(t) PROVE Filled'
  BY <1>2, FilledCopy
<1> QED BY <1>1, <1>2, <1>i, ContentMoves

-----------------------------------------------------------------------------
(* Packets and their buffers *)

(* A buffer is written when its job is queued, and cleared when it is freed.    *)
LEMMA BufferedQueue ==
  ASSUME CountInv, Buffered, NEW n \in Noders, AddJob(n)
  PROVE  Buffered'
<1>0. /\ CanGet(buffers) /\ buffers' = WithoutFirst(buffers) /\ buffers \in Pool
      /\ payload \in [Numbers -> Packets \cup {None}]
      /\ buffers.free \in Seq(Numbers) /\ buffers.allocated \in Nat
  BY HandlerAssumption DEF AddJob, CountInv, TypeOK, Pool
<1> DEFINE b == First(buffers)
<1>1. b \in Numbers /\ \A x \in Numbers : x \in Nat
  BY <1>0, FirstIsANumber, HandlerAssumption DEF Pool, Numbers
<1>2. /\ buffers'.free = IF buffers.free = <<>> THEN buffers.free ELSE Tail(buffers.free)
      /\ buffers'.allocated = IF buffers.free = <<>> THEN buffers.allocated + 1 ELSE buffers.allocated
  BY <1>0, WithoutFirstBuffer
<1>3. /\ IsInjective(buffers'.free) /\ ToSet(buffers'.free) \subseteq ToSet(buffers.free)
      /\ b \notin ToSet(buffers'.free) /\ b <= buffers'.allocated
      /\ buffers.free = <<>> => b = buffers.allocated + 1
      /\ buffers.free # <<>> => b \in ToSet(buffers.free)
  <2>1. CASE buffers.free = <<>>
    BY <1>0, <1>2, <2>1 DEF Buffered, First, ToSet
  <2>2. CASE buffers.free # <<>>
    <3>1. b = Head(buffers.free)
      BY <2>2 DEF First
    <3>2. /\ b \in ToSet(buffers.free) /\ ToSet(buffers.free) = ToSet(buffers'.free) \cup {b}
          /\ IsInjective(buffers'.free) /\ b \notin ToSet(buffers'.free)
      BY <1>0, <1>2, <2>2, <3>1, TailSet DEF Buffered
    <3>3. b <= buffers.allocated
      BY <3>2 DEF Buffered, ToSet
    <3> HIDE DEF b
    <3> QED BY <1>2, <2>2, <3>2, <3>3
  <2> QED BY <2>1, <2>2
<1> HIDE DEF b
<1>4. buffers.allocated <= buffers'.allocated /\ buffers'.allocated \in Nat
  BY <1>0, <1>2
<1>5. \A x \in ToSet(buffers'.free) : x <= buffers'.allocated
  <2>1. \A x \in ToSet(buffers.free) : x <= buffers.allocated /\ x \in Numbers
    BY <1>0 DEF Buffered, ToSet
  <2> QED BY <1>0, <1>1, <1>3, <1>4, <2>1
<1>6. \A j \in Jobs : /\ j.buffer \in Numbers /\ j.buffer <= buffers'.allocated
                      /\ j.buffer # b /\ j.buffer \notin ToSet(buffers'.free)
  <2>1. \A j \in Jobs : j.buffer \in Numbers /\ j.buffer <= buffers.allocated /\ j.buffer \notin ToSet(buffers.free)
    BY Referenced DEF Buffered, Job
  <2> QED BY <1>0, <1>1, <1>3, <1>4, <2>1
<1>7. /\ IsInjective(buffers'.free)
      /\ \A i \in DOMAIN buffers'.free : buffers'.free[i] <= buffers'.allocated
  BY <1>3, <1>5 DEF ToSet
<1>8. CASE UNCHANGED <<payload, queue>>
  <2>1. Jobs' = Jobs
    BY <1>8 DEF AddJob, looping, Jobs
  <2> QED BY <1>6, <1>7, <1>8, <2>1 DEF Buffered
<1>9. CASE payload' = [payload EXCEPT ![b] = arg[n]] /\ queue' = Append(queue, NewJob(n))
  <2>1. Jobs' = Jobs \cup {NewJob(n)} /\ NewJob(n).buffer = b /\ NewJob(n).p = arg[n]
    BY <1>9, AddJobJobs DEF NewJob, b
  <2>2. payload'[b] = arg[n] /\ \A x \in Numbers : x # b => payload'[x] = payload[x]
    BY <1>0, <1>1, <1>9
  <2> QED BY <1>3, <1>6, <1>7, <2>1, <2>2 DEF Buffered
<1> QED BY <1>8, <1>9 DEF AddJob, NewJob, b

LEMMA BufferedFree ==
  ASSUME CountInv, Buffered, NEW j \in Jobs, Jobs' = Jobs \ {j}, Put(j.buffer)
  PROVE  Buffered'
<1>0. /\ buffers.free \in Seq(Numbers) /\ payload \in [Numbers -> Packets \cup {None}]
      /\ j.buffer \in Numbers /\ \A k \in Jobs : k.buffer \in Numbers
      /\ buffers \in Pool
  BY Referenced DEF CountInv, TypeOK, Pool, Job
<1>1. /\ buffers'.free = Append(buffers.free, j.buffer) /\ buffers'.allocated = buffers.allocated
      /\ payload' = [payload EXCEPT ![j.buffer] = None]
  BY <1>0 DEF Put, Pool
<1>2. j.buffer \notin ToSet(buffers.free) /\ j.buffer <= buffers.allocated
  BY DEF Buffered
<1>3. /\ ToSet(buffers'.free) = ToSet(buffers.free) \cup {j.buffer}
      /\ IsInjective(buffers'.free)
  BY <1>0, <1>1, <1>2, AppendSet DEF Buffered
<1>4. \A x \in ToSet(buffers'.free) : x <= buffers'.allocated
  BY <1>1, <1>2, <1>3 DEF Buffered, ToSet
<1>5. \A k \in Jobs' : k.buffer # j.buffer /\ payload'[k.buffer] = payload[k.buffer]
  BY <1>0, <1>1 DEF Buffered
<1> QED BY <1>1, <1>3, <1>4, <1>5 DEF Buffered, ToSet

LEMMA BufferedStep ==
  ASSUME CountInv, Buffered, [Next]_vars
  PROVE  Buffered'
<1>1. ASSUME UNCHANGED <<buffers, payload>>, Jobs' \subseteq Jobs PROVE Buffered'
  BY <1>1 DEF Buffered
<1>2. ASSUME UNCHANGED <<queue, kept, running, acquired>> PROVE Jobs' = Jobs
  BY <1>2 DEF Jobs
<1>3. ASSUME NEW p \in Packets, Handle(p) PROVE Buffered'
  BY <1>1, <1>2, <1>3 DEF Handle, looping
<1>4. ASSUME NEW t \in Threads, Acquire(t) \/ Copy(t) PROVE Buffered'
  BY <1>1, <1>2, <1>4 DEF Acquire, Copy, looping
<1>5. ASSUME NEW u \in Users, \/ \E n \in Noders : Connect(u, n)
                              \/ GetCopy(u) \/ StoreInitial(u) \/ ReleaseCopy(u) \/ Callback(u)
      PROVE  Buffered'
  BY <1>1, <1>2, <1>5 DEF Connect, GetCopy, StoreInitial, ReleaseCopy, Callback, pools, looping
<1>6. ASSUME NEW n \in Noders, AddJob(n) PROVE Buffered'
  BY <1>6, BufferedQueue
<1>7. CASE Take
  <2>1. Jobs' \subseteq Jobs
    BY <1>7, TakeJobs
  <2> QED BY <1>1, <1>7, <2>1 DEF Take, pools
<1>8. CASE OnPacket
  <2>1. Jobs' = Jobs
    BY <1>8, OnPacketJobs
  <2> QED BY <1>1, <1>8, <2>1 DEF OnPacket, pools
<1>9. CASE Leave
  <2>1. CASE acquired
    <3>1. Jobs' = Jobs
      BY <1>9, <2>1 DEF Leave, Jobs, ToSet
    <3> QED BY <1>1, <1>9, <2>1, <3>1 DEF Leave, pools
  <2>2. CASE ~acquired
    <3>1. Head(running) \in Jobs /\ Jobs' = Jobs \ {Head(running)}
      BY <1>9, <2>2, LeaveJobs
    <3> QED BY <1>9, <2>2, <3>1, BufferedFree DEF Leave, FreeJob
  <2> QED BY <2>1, <2>2
<1>10. ASSUME NEW j \in kept, ReleaseKept(j) PROVE Buffered'
  <2>1. j \in Jobs /\ Jobs' = Jobs \ {j}
    BY <1>10, ReleaseKeptJobs
  <2> QED BY <1>10, <2>1, BufferedFree DEF ReleaseKept, FreeJob
<1>11. CASE StorePrevious \/ Close \/ UNCHANGED vars
  BY <1>1, <1>2, <1>11 DEF StorePrevious, Close, vars, pools, looping
<1> QED
  BY <1>3, <1>4, <1>5, <1>6, <1>7, <1>8, <1>9, <1>10, <1>11 DEF Next

-----------------------------------------------------------------------------

LEMMA UseInit == Init => UseInv
<1> SUFFICES ASSUME Init PROVE UseInv
  OBVIOUS
<1>1. CountInv
  BY CountInit
<1>2. Fetched = {} /\ InHand = {} /\ Running = {} /\ Jobs = {}
  BY DEF Init, Fetched, InHand, Running, Jobs, ToSet
<1>3. Pooled
  BY <1>2 DEF Init, Pooled, FreeAgrees, IsInjective, ToSet, Fetched, Numbers
<1>4. Kept /\ Filled
  BY <1>2 DEF Init, Kept, Filled, JobsFilled, CopiesFilled, DescriptorsFilled, Threads
<1>5. Buffered
  BY <1>2 DEF Init, Buffered, IsInjective, ToSet
<1> QED BY <1>1, <1>3, <1>4, <1>5 DEF UseInv

LEMMA UseInvariance == Keeper # "ticker" => (Spec => []UseInv)
<1> SUFFICES ASSUME Keeper # "ticker" PROVE Spec => []UseInv
  OBVIOUS
<1>1. UseInv /\ [Next]_vars => UseInv'
  BY TypeStep, ControlStep, FiniteStep, CountedStep, PooledStep, KeptStep, FilledStep, BufferedStep
  DEF UseInv, CountInv, Control
<1> QED BY UseInit, <1>1, PTL DEF Spec

(* When the node releases what it acquired in its own calls, or acquires        *)
(* nothing, the pool of codec parameters holds what nobody uses, once each.     *)
THEOREM PoolHolds == Keeper # "ticker" => (Spec => []PoolHoldsTheRest)
<1> SUFFICES ASSUME Keeper # "ticker" PROVE Spec => []PoolHoldsTheRest
  OBVIOUS
<1>1. UseInv => PoolHoldsTheRest
  <2> SUFFICES ASSUME UseInv, NEW c \in 1 .. cps.allocated
               PROVE  Cardinality({i \in DOMAIN cps.free : cps.free[i] = c}) =
                        IF cps.refs[c] = 0 /\ \A t \in Threads : ~(hold[t] = c /\ pc[t] = "acquire") THEN 1 ELSE 0
    BY DEF PoolHoldsTheRest
  <2>0. cps.allocated \in 0 .. MaxAllocated
    BY DEF UseInv, CountInv, TypeOK
  <2>1. c \in Numbers /\ c <= cps.allocated
    BY <2>0, HandlerAssumption DEF Numbers
  <2>2. c \in InHand <=> \E t \in Threads : hold[t] = c /\ pc[t] = "acquire"
    BY DEF InHand, Fetched
  <2>3. c \in ToSet(cps.free) <=> cps.refs[c] = 0 /\ c \notin InHand
    BY <2>1 DEF UseInv, Pooled, FreeAgrees
  <2>4. CASE c \in ToSet(cps.free)
    <3>1. PICK i \in DOMAIN cps.free : cps.free[i] = c
      BY <2>4 DEF ToSet
    <3>2. {k \in DOMAIN cps.free : cps.free[k] = c} = {i}
      BY <3>1 DEF UseInv, Pooled, FreeAgrees, IsInjective
    <3>3. Cardinality({i}) = 1
      BY FS_Singleton
    <3> QED BY <2>2, <2>3, <2>4, <3>2, <3>3
  <2>5. CASE c \notin ToSet(cps.free)
    <3>1. {k \in DOMAIN cps.free : cps.free[k] = c} = {}
      BY <2>5 DEF ToSet
    <3> QED BY <2>2, <2>3, <2>5, <3>1, FS_EmptySet
  <2> QED BY <2>4, <2>5
<1> QED BY <1>1, UseInvariance, PTL

(* Until it is released, a packet the node was given keeps its data and the     *)
(* codec parameters it came with, however many parents hand over and users      *)
(* connect meanwhile: no pool gives out what a job uses.                       *)
THEOREM PacketsKeep == Keeper # "ticker" => (Spec => []PacketsKeepWhatTheyCameWith)
<1> SUFFICES ASSUME Keeper # "ticker" PROVE Spec => []PacketsKeepWhatTheyCameWith
  OBVIOUS
<1>1. UseInv => PacketsKeepWhatTheyCameWith
  BY DEF UseInv, Filled, JobsFilled, CopiesFilled, DescriptorsFilled, Buffered, PacketsKeepWhatTheyCameWith
<1> QED BY <1>1, UseInvariance, PTL

(* A parent's first and last descriptors say what they said when they were      *)
(* stored (packet_descriptor.go): nobody copies over codec parameters that a    *)
(* decoder will be made and flushed with.                                      *)
THEOREM DescriptorsKeep == Keeper # "ticker" => (Spec => []DescriptorsKeepWhatTheySaid)
<1> SUFFICES ASSUME Keeper # "ticker" PROVE Spec => []DescriptorsKeepWhatTheySaid
  OBVIOUS
<1>1. UseInv => DescriptorsKeepWhatTheySaid
  BY DEF UseInv, Filled, JobsFilled, CopiesFilled, DescriptorsFilled, DescriptorsKeepWhatTheySaid
<1> QED BY <1>1, UseInvariance, PTL

=============================================================================
