-------------------------- MODULE RateEmulatorProofs --------------------------
(***************************************************************************)
(* Proofs about RateEmulator.tla, for any items, timestamps and demuxers,   *)
(* any length of the clock and of the pauses, with or without a reference   *)
(* and a flush.                                                              *)
(***************************************************************************)
EXTENDS RateEmulator, SequenceLemmas, SequenceTheorems

(* Where the ticker is tells what has been taken out of the buffer and not     *)
(* dispatched, what may wait for the start and whether the node is stopped.    *)
Taken == {"wait", "paused", "dispatch"}

Stages ==
  /\ started <=> ticker # "unborn"
  /\ started => preStart = <<>>
  /\ ~started => items = <<>> /\ dispatched = <<>>
  /\ IF ticker \in Taken THEN Len(popped) = 1 ELSE popped = <<>>
  /\ flushing \/ ticker \in {"stop", "flush", "done"} => ctx = "cancelled" /\ started
  /\ ticker = "done" /\ FlushOnStop => items = <<>>
  /\ pause = "none" => pausedAt = NoTime
  /\ pause # "none" => pausedAt \in 0 .. now

(* Nothing is twice in one place or in two places.                            *)
Once(s) == \A k, l \in DOMAIN s : s[k] = s[l] => k = l
Disjoint(s, t) == ToSet(s) \cap ToSet(t) = {}
Sent == [k \in DOMAIN dispatched |-> dispatched[k].item]

Apart ==
  /\ Once(preStart) /\ Once(items) /\ Once(Sent)
  /\ Disjoint(preStart, items) /\ Disjoint(preStart, popped) /\ Disjoint(preStart, Sent)
  /\ Disjoint(items, popped) /\ Disjoint(items, Sent) /\ Disjoint(popped, Sent)
  /\ ToSet(preStart) \cup ToSet(items) \cup ToSet(popped) \cup ToSet(Sent) \subseteq ToSet(given)

(* What is dispatched, taken and buffered are in the order of the pushes        *)
(* wherever their timestamps are equal; the buffer is in the order of these.   *)
Precedes(s, i, j) == \E k, l \in DOMAIN s : s[k] = i /\ s[l] = j /\ k < l
Sorted(s, g) ==
  \A k, l \in DOMAIN s : k < l =>
    \/ ts[s[k]] < ts[s[l]]
    \/ ts[s[k]] = ts[s[l]] /\ Precedes(g, s[k], s[l])
Ahead(s, t) ==
  \A i \in ToSet(s), j \in ToSet(t) : ts[i] = ts[j] => Precedes(given, i, j)

InTurn ==
  /\ \A k, l \in DOMAIN preStart : k < l => Precedes(given, preStart[k], preStart[l])
  /\ Sorted(items, given)
  /\ Ahead(popped, items) /\ Ahead(Sent, items) /\ Ahead(Sent, popped)
  /\ DispatchedInOrder

(* What is buffered has its time, and what the ticker has decided to take is    *)
(* due.                                                                       *)
Known == reference \in Int

Timed ==
  /\ items = <<>> <=> nextAt = NoTime
  /\ items # <<>> => Known /\ nextAt >= reference + ts[Head(items)]
  /\ \A i \in ToSet(popped) : Known /\ now >= reference + ts[i]
  /\ dispatched # <<>> => Known
  /\ NotBeforeItsTime

Deciding ==
  /\ ticker \in {"decide", "sleep"} /\ at \in Int =>
       items # <<>> /\ at >= reference + ts[Head(items)]
  /\ ticker = "sleep" => at \in Int
  /\ ticker = "pop" => items # <<>> /\ now >= reference + ts[Head(items)]

RateInv == TypeOK /\ Stages /\ Apart /\ InTurn /\ Timed /\ Deciding

(* What was pushed is somewhere, unless it was turned away once the node was    *)
(* stopped.  Each step moves an item from one place to the next or turns it    *)
(* away; that it is then nowhere else is in Apart.                            *)
Somewhere == ToSet(preStart) \cup ToSet(items) \cup ToSet(popped) \cup ToSet(Sent)

Kept ==
  /\ Somewhere = ToSet(given) \ (refused \cup forgotten)
  /\ refused \cup forgotten \subseteq ToSet(given)
  /\ refused \cap forgotten = {}
  /\ refused \cup forgotten # {} => started /\ ctx = "cancelled"

-----------------------------------------------------------------------------
(* What an insertion does to the buffer *)

(* The item comes behind those whose timestamp is not above its own.           *)
Inserted(r, s, i, j) ==
  /\ r \in Seq(Items) /\ Len(r) = Len(s) + 1 /\ j \in 1 .. Len(s) + 1
  /\ r[j] = i
  /\ \A k \in 1 .. Len(s) : k < j => r[k] = s[k] /\ ts[s[k]] <= ts[i]
  /\ \A k \in 1 .. Len(s) : k >= j => r[k + 1] = s[k]
  /\ j <= Len(s) => ts[i] < ts[s[j]]

LEMMA Insertion ==
  ASSUME NEW s \in Seq(Items), NEW i \in Items, ts \in [Items \cup Controllers -> Int]
  PROVE  \E j \in Nat : Inserted(Insert(s, i), s, i, j)
<1> DEFINE later == {j \in DOMAIN s : ts[i] < ts[s[j]]}
<1>1. /\ Len(s) \in Nat /\ DOMAIN s = 1 .. Len(s) /\ \A k \in 1 .. Len(s) : s[k] \in Items /\ ts[s[k]] \in Int
      /\ ts[i] \in Int
  OBVIOUS
<1>2. CASE later = {}
  <2>1. Insert(s, i) = Append(s, i)
    BY <1>2 DEF Insert
  <2>2. \A k \in 1 .. Len(s) : ts[s[k]] <= ts[i]
    BY <1>1, <1>2
  <2>3. Inserted(Append(s, i), s, i, Len(s) + 1)
    <3> HIDE DEF later
    <3> QED BY <1>1, <2>2 DEF Inserted
  <2> QED BY <1>1, <2>1, <2>3
<1>3. CASE later # {}
  <2> DEFINE j == Min(later)
  <2>1. later \in SUBSET Nat
    BY <1>1
  <2>2. j \in later /\ \A k \in later : j <= k
    <3> HIDE DEF later
    <3> QED BY <1>3, <2>1, Least
  <2>3. j \in 1 .. Len(s) /\ ts[i] < ts[s[j]] /\ \A k \in 1 .. Len(s) : k < j => ts[s[k]] <= ts[i]
    <3>1. \A k : k \in later <=> k \in 1 .. Len(s) /\ ts[i] < ts[s[k]]
      BY <1>1
    <3> HIDE DEF j, later
    <3>2. j \in 1 .. Len(s) /\ ts[i] < ts[s[j]]
      BY <2>2, <3>1
    <3>3. \A k \in 1 .. Len(s) : k < j => k \notin later
      BY <1>1, <2>2, <3>2
    <3>4. \A k \in 1 .. Len(s) : k < j => ~(ts[i] < ts[s[k]])
      BY <3>1, <3>3
    <3> QED BY <1>1, <3>2, <3>4
  <2>4. Insert(s, i) = InsertAt(s, j, i)
    BY <1>3 DEF Insert
  <2> HIDE DEF j, later
  <2> DEFINE front == SubSeq(s, 1, j - 1)
             back == SubSeq(s, j, Len(s))
  <2>5. /\ front \in Seq(Items) /\ Len(front) = j - 1 /\ \A k \in 1 .. j - 1 : front[k] = s[k]
        /\ back \in Seq(Items) /\ Len(back) = Len(s) - j + 1
        /\ \A k \in 1 .. Len(s) - j + 1 : back[k] = s[j + k - 1]
    <3>1. /\ 1 \in 1 .. Len(s) + 1 /\ j - 1 \in 0 .. Len(s) /\ j \in 1 .. Len(s) + 1 /\ Len(s) \in 0 .. Len(s)
      BY <1>1, <2>3
    <3>2. /\ front \in Seq(Items) /\ Len(front) = (IF 1 <= j - 1 THEN j - 1 - 1 + 1 ELSE 0)
          /\ \A k \in 1 .. j - 1 - 1 + 1 : front[k] = s[1 + k - 1]
      BY <3>1, SubSeqProperties
    <3>3. /\ back \in Seq(Items) /\ Len(back) = (IF j <= Len(s) THEN Len(s) - j + 1 ELSE 0)
          /\ \A k \in 1 .. Len(s) - j + 1 : back[k] = s[j + k - 1]
      BY <3>1, SubSeqProperties
    <3> HIDE DEF front, back
    <3>4. Len(front) = j - 1 /\ \A k \in 1 .. j - 1 : front[k] = s[k]
      BY <1>1, <2>3, <3>2
    <3>5. Len(back) = Len(s) - j + 1
      BY <1>1, <2>3, <3>3
    <3> QED BY <3>2, <3>3, <3>4, <3>5
  <2> DEFINE r == front \o <<i>> \o back
  <2> HIDE DEF front, back
  <2>6. /\ r \in Seq(Items) /\ Len(r) = Len(s) + 1
        /\ \A k \in 1 .. j - 1 : r[k] = front[k]
        /\ r[j] = i
        /\ \A k \in 1 .. Len(s) - j + 1 : r[j + k] = back[k]
    <3> DEFINE m == front \o <<i>>
    <3>1. /\ <<i>> \in Seq(Items) /\ Len(<<i>>) = 1 /\ <<i>>[1] = i /\ Len(front) \in Nat /\ Len(back) \in Nat
          /\ front \in Seq(Items) /\ back \in Seq(Items)
      BY <2>5
    <3>2. /\ m \in Seq(Items) /\ Len(m) = Len(front) + 1
          /\ \A k \in 1 .. Len(front) + 1 :
               m[k] = IF k <= Len(front) THEN front[k] ELSE <<i>>[k - Len(front)]
      BY <3>1, ConcatProperties
    <3> HIDE DEF m
    <3>3. Len(m) = j /\ m[j] = i /\ \A k \in 1 .. j - 1 : m[k] = front[k]
      <4>1. Len(front) = j - 1 /\ j \in 1 .. Len(front) + 1 /\ j - Len(front) = 1
        BY <1>1, <2>3, <2>5
      <4>2. \A k \in 1 .. j - 1 : k \in 1 .. Len(front) + 1 /\ k <= Len(front)
        BY <1>1, <2>3, <4>1
      <4>4. m[j] = IF j <= Len(front) THEN front[j] ELSE <<i>>[j - Len(front)]
        BY <3>2, <4>1
      <4>5. ~(j <= Len(front))
        BY <2>3, <4>1
      <4>3. m[j] = i
        BY <3>1, <4>1, <4>4, <4>5
      <4> QED BY <3>2, <4>1, <4>2, <4>3
    <3>4. /\ m \o back \in Seq(Items) /\ Len(m \o back) = j + Len(back)
          /\ \A k \in 1 .. j + Len(back) : (m \o back)[k] = IF k <= j THEN m[k] ELSE back[k - j]
      <4>1. m \in Seq(Items) /\ back \in Seq(Items)
        BY <3>1, <3>2
      <4>2. /\ m \o back \in Seq(Items) /\ Len(m \o back) = Len(m) + Len(back)
            /\ \A k \in 1 .. Len(m) + Len(back) :
                 (m \o back)[k] = IF k <= Len(m) THEN m[k] ELSE back[k - Len(m)]
        BY ONLY <4>1, ConcatProperties
      <4> QED BY <3>3, <4>2
    <3>5. r = m \o back
      BY DEF m
    <3> HIDE DEF r
    <3>6. /\ \A k \in 1 .. j - 1 : k \in 1 .. j + Len(back) /\ k <= j
          /\ j \in 1 .. j + Len(back) /\ j + Len(back) = Len(s) + 1
          /\ \A k \in 1 .. Len(s) - j + 1 : j + k \in 1 .. j + Len(back) /\ ~(j + k <= j) /\ j + k - j = k
      BY <1>1, <2>3, <2>5
    <3>7. \A k \in 1 .. j - 1 : r[k] = front[k]
      BY <3>3, <3>4, <3>5, <3>6
    <3>8. r[j] = i
      BY <2>3, <3>3, <3>4, <3>5, <3>6
    <3>9. ASSUME NEW k \in 1 .. Len(s) - j + 1 PROVE r[j + k] = back[k]
      <4> DEFINE p == j + k
      <4>1. p \in 1 .. j + Len(back) /\ ~(p <= j) /\ p - j = k
        BY <3>6
      <4> HIDE DEF p
      <4>2. r[p] = back[p - j]
        BY <3>4, <3>5, <4>1
      <4> QED BY <4>1, <4>2 DEF p
    <3> QED BY <3>4, <3>5, <3>6, <3>7, <3>8, <3>9
  <2>7. \A k \in 1 .. Len(s) : k >= j => r[k + 1] = s[k]
    <3> TAKE k \in 1 .. Len(s)
    <3> HAVE k >= j
    <3>1. k - j + 1 \in 1 .. Len(s) - j + 1 /\ j + (k - j + 1) = k + 1 /\ j + (k - j + 1) - 1 = k
      BY <1>1, <2>3
    <3> HIDE DEF r
    <3>2. r[j + (k - j + 1)] = back[k - j + 1]
      BY <2>6, <3>1
    <3>3. back[k - j + 1] = s[j + (k - j + 1) - 1]
      BY <2>5, <3>1
    <3> QED BY <3>1, <3>2, <3>3
  <2>8. \A k \in 1 .. Len(s) : k < j => r[k] = s[k]
    <3> TAKE k \in 1 .. Len(s)
    <3> HAVE k < j
    <3>1. k \in 1 .. j - 1
      BY <1>1, <2>3
    <3> HIDE DEF r
    <3> QED BY <2>5, <2>6, <3>1
  <2>9. Insert(s, i) = r
    BY <2>4 DEF InsertAt, front, back
  <2> HIDE DEF r
  <2>10. Inserted(r, s, i, j)
    BY <1>1, <2>3, <2>6, <2>7, <2>8 DEF Inserted
  <2> QED BY <1>1, <2>3, <2>9, <2>10
<1> QED BY <1>2, <1>3

LEMMA InsertedSet ==
  ASSUME NEW s \in Seq(Items), NEW r, NEW i \in Items, NEW j \in Nat, Inserted(r, s, i, j)
  PROVE  /\ ToSet(r) = ToSet(s) \cup {i}
         /\ Once(s) /\ i \notin ToSet(s) => Once(r)
         /\ r # <<>>
<1>1. /\ Len(s) \in Nat /\ DOMAIN s = 1 .. Len(s) /\ DOMAIN r = 1 .. Len(s) + 1 /\ Len(r) = Len(s) + 1
      /\ j \in 1 .. Len(s) + 1 /\ r[j] = i
      /\ \A k \in 1 .. Len(s) : k < j => r[k] = s[k]
      /\ \A k \in 1 .. Len(s) : k >= j => r[k + 1] = s[k]
  BY DEF Inserted
<1>2. \A k \in 1 .. Len(s) + 1 : k > j => k - 1 \in 1 .. Len(s) /\ r[k] = s[k - 1]
  <2> TAKE k \in 1 .. Len(s) + 1
  <2> HAVE k > j
  <2>1. k - 1 \in 1 .. Len(s) /\ k - 1 >= j /\ k - 1 + 1 = k
    BY <1>1
  <2> QED BY <1>1, <2>1
<1>3. \A k \in 1 .. Len(s) + 1 : k < j => k \in 1 .. Len(s)
  BY <1>1
<1>4. \A k \in 1 .. Len(s) : k + 1 \in 1 .. Len(s) + 1 /\ k \in 1 .. Len(s) + 1
  BY <1>1
<1>5. ToSet(r) \subseteq ToSet(s) \cup {i}
  <2> SUFFICES ASSUME NEW k \in 1 .. Len(s) + 1 PROVE r[k] \in ToSet(s) \cup {i}
    BY <1>1 DEF ToSet
  <2>1. CASE k < j
    BY <1>1, <1>3, <2>1 DEF ToSet
  <2>2. CASE k = j
    BY <1>1, <2>2
  <2>3. CASE k > j
    BY <1>1, <1>2, <2>3 DEF ToSet
  <2> QED BY <1>1, <2>1, <2>2, <2>3
<1>6. ToSet(s) \cup {i} \subseteq ToSet(r)
  <2>1. i \in ToSet(r)
    BY <1>1 DEF ToSet
  <2>2. ASSUME NEW k \in 1 .. Len(s) PROVE s[k] \in ToSet(r)
    <3>1. CASE k < j
      BY <1>1, <1>4, <3>1 DEF ToSet
    <3>2. CASE k >= j
      BY <1>1, <1>4, <3>2 DEF ToSet
    <3> QED BY <1>1, <3>1, <3>2
  <2> QED BY <1>1, <2>1, <2>2 DEF ToSet
<1>7. ASSUME Once(s), i \notin ToSet(s) PROVE Once(r)
  <2> SUFFICES ASSUME NEW k \in 1 .. Len(s) + 1, NEW l \in 1 .. Len(s) + 1, r[k] = r[l]
               PROVE  k = l
    BY <1>1 DEF Once
  <2>1. \A m \in 1 .. Len(s) : s[m] # i
    BY <1>1, <1>7 DEF ToSet
  <2>2. \A m, n \in 1 .. Len(s) : s[m] = s[n] => m = n
    BY <1>1, <1>7 DEF Once
  <2> DEFINE old(m) == IF m < j THEN m ELSE m - 1
  <2>3. \A m \in 1 .. Len(s) + 1 : m # j => old(m) \in 1 .. Len(s) /\ r[m] = s[old(m)]
    BY <1>1, <1>2, <1>3
  <2>4. \A m, n \in 1 .. Len(s) + 1 : m # j /\ n # j /\ old(m) = old(n) => m = n
    BY <1>1
  <2> HIDE DEF old
  <2> QED BY <1>1, <2>1, <2>2, <2>3, <2>4
<1> QED BY <1>1, <1>5, <1>6, <1>7

(* The order of the buffer outlives an insertion of what came after all of it.  *)
LEMMA InsertedSorted ==
  ASSUME NEW s \in Seq(Items), NEW r, NEW i \in Items, NEW j \in Nat, NEW g,
         Inserted(r, s, i, j), ts \in [Items \cup Controllers -> Int], Sorted(s, g),
         \A k \in 1 .. Len(s) : Precedes(g, s[k], i)
  PROVE  Sorted(r, g)
<1>1. /\ Len(s) \in Nat /\ DOMAIN s = 1 .. Len(s) /\ DOMAIN r = 1 .. Len(s) + 1 /\ Len(r) = Len(s) + 1
      /\ j \in 1 .. Len(s) + 1 /\ r[j] = i
      /\ \A k \in 1 .. Len(s) : k < j => r[k] = s[k] /\ ts[s[k]] <= ts[i]
      /\ \A k \in 1 .. Len(s) : k >= j => r[k + 1] = s[k]
      /\ j <= Len(s) => ts[i] < ts[s[j]]
      /\ \A k \in 1 .. Len(s) : ts[s[k]] \in Int
      /\ ts[i] \in Int
  BY DEF Inserted
<1>2. \A k \in 1 .. Len(s) : k >= j => ts[i] < ts[s[k]]
  <2> TAKE k \in 1 .. Len(s)
  <2> HAVE k >= j
  <2>1. j \in 1 .. Len(s)
    BY <1>1
  <2>2. CASE k = j
    BY <1>1, <2>1, <2>2
  <2>3. CASE k > j
    <3>1. ts[s[j]] < ts[s[k]] \/ ts[s[j]] = ts[s[k]]
      BY <1>1, <2>1, <2>3 DEF Sorted
    <3> QED BY <1>1, <2>1, <3>1
  <2> QED BY <1>1, <2>2, <2>3
<1> DEFINE old(m) == IF m < j THEN m ELSE m - 1
<1>3. \A m \in 1 .. Len(s) + 1 : m # j => old(m) \in 1 .. Len(s) /\ r[m] = s[old(m)]
  <2> TAKE m \in 1 .. Len(s) + 1
  <2> HAVE m # j
  <2>1. CASE m < j
    <3>1. m \in 1 .. Len(s)
      BY <1>1, <2>1
    <3> QED BY <1>1, <2>1, <3>1
  <2>2. CASE m > j
    <3>1. m - 1 \in 1 .. Len(s) /\ m - 1 >= j /\ m - 1 + 1 = m
      BY <1>1, <2>2
    <3> QED BY <1>1, <2>2, <3>1
  <2> QED BY <1>1, <2>1, <2>2
<1> SUFFICES ASSUME NEW k \in 1 .. Len(s) + 1, NEW l \in 1 .. Len(s) + 1, k < l
             PROVE  \/ ts[r[k]] < ts[r[l]]
                    \/ ts[r[k]] = ts[r[l]] /\ Precedes(g, r[k], r[l])
  BY <1>1 DEF Sorted
<1>4. CASE k = j
  <2>1. l # j /\ old(l) >= j
    BY <1>1, <1>4
  <2> HIDE DEF old
  <2> QED BY <1>1, <1>2, <1>3, <1>4, <2>1
<1>5. CASE l = j
  <2>1. k # j /\ old(k) < j
    BY <1>1, <1>5
  <2>2. ts[r[k]] <= ts[i] /\ Precedes(g, r[k], i)
    <3> HIDE DEF old
    <3> QED BY <1>1, <1>3, <2>1
  <2>3. ts[r[k]] \in Int
    <3> HIDE DEF old
    <3> QED BY <1>1, <1>3, <2>1
  <2> QED BY <1>1, <1>5, <2>2, <2>3
<1>6. CASE k # j /\ l # j
  <2>1. old(k) < old(l)
    BY <1>1, <1>6
  <2> HIDE DEF old
  <2> QED BY <1>1, <1>3, <1>6, <2>1 DEF Sorted
<1> QED BY <1>4, <1>5, <1>6

(* The items that waited for the start, each behind those that are not later,   *)
(* are a buffer in order.                                                     *)
LEMMA AllInserted ==
  ASSUME NEW new \in Seq(Items), NEW g, ts \in [Items \cup Controllers -> Int], Once(new),
         \A k, l \in DOMAIN new : k < l => Precedes(g, new[k], new[l])
  PROVE  /\ InsertAll(<<>>, new) \in Seq(Items)
         /\ ToSet(InsertAll(<<>>, new)) = ToSet(new)
         /\ Once(InsertAll(<<>>, new)) /\ Sorted(InsertAll(<<>>, new), g)
<1> DEFINE n == Len(new)
           W == Seq(Items)
           step == [i \in 1 .. n |-> [v \in W |-> Insert(v, new[i])]]
           Body(f, i) == IF i = 0 THEN <<>> ELSE Insert(f[i - 1], new[i])
           filled == CHOOSE f : f = [i \in 0 .. n |-> Body(f, i)]
<1>1. n \in Nat /\ DOMAIN new = 1 .. n /\ <<>> \in W /\ \A i \in 1 .. n : new[i] \in Items
  OBVIOUS
<1>2. filled = [i \in 0 .. n |-> Body(filled, i)]
  <2>1. \A v \in W, i \in 1 .. n : Insert(v, new[i]) \in W
    <3> TAKE v \in W, i \in 1 .. n
    <3>1. \E j \in Nat : Inserted(Insert(v, new[i]), v, new[i], j)
      BY <1>1, Insertion
    <3> QED BY <3>1 DEF Inserted
  <2>2. step \in [1 .. n -> [W -> W]]
    <3> HIDE DEF n, W
    <3> QED BY <2>1
  <2>3. PICK f : Builds(f, W, <<>>, n, step)
    <3> HIDE DEF step, n, W
    <3> QED BY <1>1, <2>2, Recursion
  <2>4. \A i \in 1 .. n : i - 1 \in 0 .. n /\ f[i - 1] \in W /\ f[i] = step[i][f[i - 1]]
    <3>1. \A i \in 1 .. n : i - 1 \in 0 .. n
      BY <1>1
    <3> HIDE DEF n, W, step
    <3> QED BY <2>3, <3>1 DEF Builds
  <2>5. \A i \in 1 .. n : f[i] = Insert(f[i - 1], new[i])
    <3> HIDE DEF n, W
    <3> QED BY <2>4
  <2>6. \A i \in 0 .. n : f[i] = Body(f, i)
    <3>1. \A i \in 0 .. n : i = 0 \/ (i \in 1 .. n /\ i # 0)
      BY <1>1
    <3>2. f[0] = <<>>
      BY <2>3 DEF Builds
    <3> HIDE DEF n, W, step
    <3> QED BY <2>5, <3>1, <3>2
  <2>7. f = [i \in 0 .. n |-> Body(f, i)]
    <3>1. f \in [0 .. n -> W]
      BY <2>3 DEF Builds
    <3> HIDE DEF Body, n, W, step
    <3> QED BY <2>6, <3>1
  <2> QED BY <2>7
<1>3. InsertAll(<<>>, new) = filled[n]
  BY DEF InsertAll
<1>4. filled[0] = <<>> /\ \A i \in 1 .. n : filled[i] = Insert(filled[i - 1], new[i])
  <2> HIDE DEF filled
  <2>1. \A i \in 0 .. n : filled[i] = Body(filled, i)
    <3> HIDE DEF Body
    <3> QED BY <1>2
  <2> HIDE DEF n
  <2>2. 0 \in 0 .. n /\ \A i \in 1 .. n : i \in 0 .. n /\ i # 0
    BY <1>1
  <2> QED BY <2>1, <2>2
<1> HIDE DEF filled
<1> DEFINE Upto(m) == {new[k] : k \in 1 .. m}
           Fine(m) == m <= n => /\ filled[m] \in Seq(Items) /\ ToSet(filled[m]) = Upto(m)
                                /\ Once(filled[m]) /\ Sorted(filled[m], g)
           T == {m \in Nat : Fine(m)}
<1>5. Fine(0)
  BY <1>4 DEF ToSet, Once, Sorted
<1>6. ASSUME NEW m \in Nat, Fine(m), m + 1 <= n PROVE Fine(m + 1)
  <2> DEFINE s == filled[m]
             i == new[m + 1]
             r == Insert(s, i)
  <2>1. filled[m + 1] = r /\ i \in Items /\ m + 1 \in 1 .. n /\ m <= n
    <3>1. m + 1 \in 1 .. n /\ m + 1 - 1 = m /\ m <= n
      BY <1>1, <1>6
    <3> QED BY <1>1, <1>4, <3>1
  <2>2. s \in Seq(Items) /\ ToSet(s) = Upto(m) /\ Once(s) /\ Sorted(s, g)
    BY <1>6, <2>1
  <2>3. Upto(m + 1) = Upto(m) \cup {i}
    OBVIOUS
  <2>4. \A x \in Upto(m) : Precedes(g, x, i) /\ x # i
    <3> TAKE x \in Upto(m)
    <3>1. PICK k \in 1 .. m : x = new[k]
      OBVIOUS
    <3>2. k \in 1 .. n /\ k < m + 1
      BY <1>1, <2>1, <3>1
    <3> QED BY <1>1, <2>1, <3>1, <3>2 DEF Once
  <2> HIDE DEF s, i, Upto
  <2>5. \A k \in 1 .. Len(s) : Precedes(g, s[k], i)
    BY <2>2, <2>4 DEF ToSet
  <2>6. PICK j \in Nat : Inserted(r, s, i, j)
    <3> HIDE DEF r
    <3>1. r = Insert(s, i)
      BY DEF r
    <3> QED BY <2>1, <2>2, <3>1, Insertion
  <2> HIDE DEF r
  <2>7. i \notin ToSet(s)
    BY <2>2, <2>4
  <2>8. ToSet(r) = ToSet(s) \cup {i} /\ Once(r)
    BY <2>1, <2>2, <2>6, <2>7, InsertedSet
  <2>9. Sorted(r, g)
    BY <2>1, <2>2, <2>5, <2>6, InsertedSorted
  <2>10. r \in Seq(Items)
    BY <2>6 DEF Inserted
  <2> QED BY <2>1, <2>2, <2>3, <2>8, <2>9, <2>10
<1>7. \A m \in Nat : m \in T => m + 1 \in T
  <2>1. ASSUME NEW m \in Nat, Fine(m) PROVE Fine(m + 1)
    <3>1. CASE m + 1 <= n
      <4> HIDE DEF Fine
      <4> QED BY <1>6, <2>1, <3>1
    <3> QED BY <3>1
  <2> HIDE DEF Fine
  <2> QED BY <2>1
<1>8. n \in T
  <2> HIDE DEF Fine
  <2>1. 0 \in T
    BY <1>5
  <2> HIDE DEF T
  <2> QED BY <1>1, <1>7, <2>1, Induction
<1>9. Upto(n) = ToSet(new)
  BY DEF ToSet
<1>10. n <= n
  BY <1>1
<1> QED BY <1>3, <1>8, <1>9, <1>10

(* What an item pushed last comes after.                                      *)
LEMMA Later ==
  ASSUME NEW g \in Seq(Items), NEW i \in Items
  PROVE  /\ \A x, y : Precedes(g, x, y) => Precedes(Append(g, i), x, y)
         /\ \A x \in ToSet(g) : Precedes(Append(g, i), x, i)
         /\ ToSet(Append(g, i)) = ToSet(g) \cup {i}
<1>1. /\ Len(g) \in Nat /\ DOMAIN g = 1 .. Len(g) /\ DOMAIN Append(g, i) = 1 .. Len(g) + 1
      /\ \A k \in 1 .. Len(g) : Append(g, i)[k] = g[k] /\ k \in 1 .. Len(g) + 1 /\ k < Len(g) + 1
      /\ Append(g, i)[Len(g) + 1] = i /\ Len(g) + 1 \in 1 .. Len(g) + 1
  OBVIOUS
<1>2. \A x, y : Precedes(g, x, y) => Precedes(Append(g, i), x, y)
  BY <1>1 DEF Precedes
<1>3. \A x \in ToSet(g) : Precedes(Append(g, i), x, i)
  <2> TAKE x \in ToSet(g)
  <2>1. PICK k \in 1 .. Len(g) : g[k] = x
    BY <1>1 DEF ToSet
  <2> QED BY <1>1, <2>1 DEF Precedes
<1> QED BY <1>2, <1>3, AppendSet

LEMMA OnceAppend ==
  ASSUME NEW s \in Seq(Items), NEW i \in Items, Once(s), i \notin ToSet(s)
  PROVE  Once(Append(s, i))
<1>1. /\ Len(s) \in Nat /\ DOMAIN s = 1 .. Len(s) /\ DOMAIN Append(s, i) = 1 .. Len(s) + 1
      /\ \A k \in 1 .. Len(s) : Append(s, i)[k] = s[k]
      /\ Append(s, i)[Len(s) + 1] = i
      /\ \A k \in 1 .. Len(s) + 1 : k \in 1 .. Len(s) \/ k = Len(s) + 1
  OBVIOUS
<1>2. \A k \in 1 .. Len(s) : s[k] # i
  BY <1>1 DEF ToSet
<1> QED BY <1>1, <1>2 DEF Once

LEMMA SentType ==
  ASSUME TypeOK
  PROVE  /\ Sent \in Seq(Items) /\ DOMAIN Sent = DOMAIN dispatched /\ DOMAIN dispatched = 1 .. Len(dispatched)
         /\ Len(Sent) = Len(dispatched) /\ Len(dispatched) \in Nat
         /\ \A k \in DOMAIN dispatched : /\ Sent[k] = dispatched[k].item /\ Sent[k] \in Items
                                         /\ dispatched[k].at \in Nat
<1>1. /\ dispatched \in Seq([item : Items, at : Nat]) /\ DOMAIN dispatched = 1 .. Len(dispatched)
      /\ Len(dispatched) \in Nat /\ \A k \in 1 .. Len(dispatched) : dispatched[k] \in [item : Items, at : Nat]
  <2> DEFINE R == [item : Items, at : Nat]
  <2>1. dispatched \in Seq(R)
    BY DEF TypeOK
  <2> HIDE DEF R
  <2>2. /\ DOMAIN dispatched = 1 .. Len(dispatched) /\ Len(dispatched) \in Nat
        /\ \A k \in 1 .. Len(dispatched) : dispatched[k] \in R
    BY <2>1
  <2> QED BY <2>1, <2>2 DEF R
<1>2. Sent \in [1 .. Len(dispatched) -> Items]
  BY <1>1 DEF Sent
<1>3. Sent \in Seq(Items) /\ Len(Sent) = Len(dispatched)
  BY <1>1, <1>2
<1> QED BY <1>1, <1>2, <1>3 DEF Sent

(* What is where, and in which order, changes with the buffer only.            *)
LEMMA SamePlaces ==
  ASSUME RateInv, UNCHANGED <<preStart, items, popped, ts, given, dispatched>>
  PROVE  Apart' /\ InTurn'
<1>1. Sent' = Sent
  BY DEF Sent
<1>2. Apart'
  BY <1>1 DEF RateInv, Apart, Once, Disjoint
<1>3. Sorted(items, given)'
  BY DEF RateInv, InTurn, Sorted, Precedes
<1>4. (Ahead(popped, items) /\ Ahead(Sent, items) /\ Ahead(Sent, popped))'
  BY <1>1 DEF RateInv, InTurn, Ahead, Precedes
<1>5. DispatchedInOrder'
  BY DEF RateInv, InTurn, DispatchedInOrder, Before
<1>6. (\A k, l \in DOMAIN preStart : k < l => Precedes(given, preStart[k], preStart[l]))'
  BY DEF RateInv, InTurn, Precedes
<1> QED BY <1>2, <1>3, <1>4, <1>5, <1>6 DEF InTurn

LEMMA Numbers ==
  ASSUME TypeOK
  PROVE  /\ now \in Nat /\ offset \in Nat
         /\ \A i \in Items \cup Controllers : ts[i] \in Int
         /\ items # <<>> => Head(items) \in Items /\ Tail(items) \in Seq(Items)
         /\ popped # <<>> => Head(popped) \in Items
         /\ preStart # <<>> => Head(preStart) \in Items
         /\ reference \in Int \/ reference = NoTime
         /\ nextAt \in Int \/ nextAt = NoTime
         /\ at \in Int \/ at = NoTime
         /\ ToSet(items) \subseteq Items /\ ToSet(popped) \subseteq Items
         /\ MaxTime \in Nat /\ MaxOffset \in Nat /\ NoTime \notin Int /\ BufferDuration \in Nat
<1>1. now \in Nat /\ offset \in Nat /\ MaxTime \in Nat /\ MaxOffset \in Nat /\ NoTime \notin Int
      /\ BufferDuration \in Nat
  BY RateAssumption DEF TypeOK
<1>2. \A i \in Items \cup Controllers : ts[i] \in Int
  BY DEF TypeOK
<1>3. /\ items # <<>> => Head(items) \in Items /\ Tail(items) \in Seq(Items)
      /\ popped # <<>> => Head(popped) \in Items
      /\ preStart # <<>> => Head(preStart) \in Items
  BY DEF TypeOK
<1>4. /\ reference \in Int \/ reference = NoTime
      /\ nextAt \in Int \/ nextAt = NoTime
      /\ at \in Int \/ at = NoTime
  BY DEF TypeOK, Times
<1>5. ToSet(items) \subseteq Items /\ ToSet(popped) \subseteq Items
  BY DEF TypeOK, ToSet
<1> QED BY <1>1, <1>2, <1>3, <1>4, <1>5

(* Time passes: what is due stays so.                                         *)
LEMMA SameTimes ==
  ASSUME RateInv, UNCHANGED <<items, popped, ts, dispatched, nextAt>>,
         reference' = reference \/ ~Known, now' \in Nat, now <= now'
  PROVE  Timed'
<1>1. TypeOK /\ Timed
  BY DEF RateInv
<1>2. Known => reference' = reference
  OBVIOUS
<1>3. (items = <<>> <=> nextAt = NoTime)'
  BY <1>1 DEF Timed
<1>4. (items # <<>> => Known /\ nextAt >= reference + ts[Head(items)])'
  BY <1>1, <1>2 DEF Timed, Known
<1>5. (\A i \in ToSet(popped) : Known /\ now >= reference + ts[i])'
  <2> SUFFICES ASSUME NEW i \in ToSet(popped) PROVE reference' \in Int /\ now' >= reference' + ts[i]
    BY DEF Known
  <2>1. reference \in Int /\ now >= reference + ts[i] /\ ts[i] \in Int /\ now \in Nat
    BY <1>1, Numbers DEF Timed, Known
  <2> QED BY <1>2, <2>1 DEF Known
<1>6. (dispatched # <<>> => Known)'
  BY <1>1, <1>2 DEF Timed, Known
<1>7. NotBeforeItsTime'
  <2>1. dispatched # <<>> => reference' = reference
    BY <1>1, <1>2 DEF Timed
  <2>2. CASE dispatched = <<>>
    BY <2>2 DEF NotBeforeItsTime
  <2>3. CASE dispatched # <<>>
    BY <1>1, <2>1, <2>3 DEF NotBeforeItsTime, Timed
  <2> QED BY <2>2, <2>3
<1> QED BY <1>3, <1>4, <1>5, <1>6, <1>7 DEF Timed

(* The ticker's steps between two items.                                      *)
Turning ==
  Tick \/ Decide \/ Select \/ WatchReload \/ Blocked \/ Sleep \/ EndTick \/ Stop \/ Flush \/ PauseWait

LEMMA TurningStep ==
  ASSUME RateInv, Turning
  PROVE  RateInv'
<1>1. UNCHANGED <<now, ctx, started, buffer, popped, pausing, control, history>>
  BY DEF Turning, Tick, Decide, Select, WatchReload, ReadReload, Blocked, Sleep, EndTick, CloseReload, Stop,
         Flush, PauseWait, Turn
<1>2. TypeOK /\ Stages /\ Timed /\ Deciding
  BY DEF RateInv
<1>3. Apart' /\ InTurn'
  BY <1>1, SamePlaces DEF buffer, history
<1>4. Timed'
  BY <1>1, <1>2, Numbers, SameTimes DEF buffer, history
<1>5. /\ ticker' \in TickerLabels /\ flushing' \in BOOLEAN /\ at' \in Times
      /\ reload' \in {"nil", "open"} /\ seen' \in {"unread", "nil", "open", "closed"}
  <2>1. CASE Tick
    BY <1>2, <2>1 DEF Tick, Go, TypeOK, TickerLabels
  <2>2. CASE Decide \/ Stop
    BY <1>2, <2>2 DEF Decide, Stop, wait, TypeOK, TickerLabels
  <2>3. CASE Select \/ WatchReload
    BY <1>2, <2>3 DEF Select, WatchReload, ReadReload, Go, TypeOK, TickerLabels
  <2>4. CASE Blocked \/ Sleep \/ Flush
    BY <1>2, <2>4 DEF Blocked, Sleep, Flush, Turn, Go, wait, TypeOK, TickerLabels
  <2>5. CASE EndTick
    BY <1>2, <2>5 DEF EndTick, CloseReload, Go, TypeOK, TickerLabels
  <2>6. CASE PauseWait
    BY <1>2, <2>6 DEF PauseWait, Turn, Go, wait, TypeOK, TickerLabels
  <2> QED BY <2>1, <2>2, <2>3, <2>4, <2>5, <2>6 DEF Turning
<1>6. TypeOK'
  BY <1>1, <1>2, <1>5 DEF TypeOK, buffer, pausing, history
<1>7. Stages'
  <2>1. CASE Tick
    BY <1>1, <1>2, <2>1 DEF Tick, Go, Stages, Taken, buffer, pausing, history
  <2>2. CASE Decide
    BY <1>1, <1>2, <2>2 DEF Decide, wait, Stages, Taken, buffer, pausing, history
  <2>3. CASE Select \/ WatchReload
    BY <1>1, <1>2, <2>3 DEF Select, WatchReload, ReadReload, Go, Stages, Taken, buffer, pausing, history
  <2>4. CASE Blocked \/ Sleep
    BY <1>1, <1>2, <2>4 DEF Blocked, Sleep, Turn, Go, wait, Stages, Taken, buffer, pausing, history
  <2>5. CASE EndTick
    BY <1>1, <1>2, <2>5 DEF EndTick, CloseReload, Go, Stages, Taken, buffer, pausing, history
  <2>6. CASE Stop
    BY <1>1, <1>2, <2>6 DEF Stop, Stages, Taken, buffer, pausing, history
  <2>7. CASE Flush
    BY <1>1, <1>2, <2>7 DEF Flush, Turn, Go, wait, Stages, Timed, Taken, buffer, pausing, history
  <2>8. CASE PauseWait
    BY <1>1, <1>2, <2>8 DEF PauseWait, Turn, Go, wait, Stages, Taken, buffer, pausing, history
  <2> QED BY <2>1, <2>2, <2>3, <2>4, <2>5, <2>6, <2>7, <2>8 DEF Turning
<1>8. Deciding'
  <2>1. CASE Tick
    BY <1>1, <1>2, <2>1, Numbers DEF Tick, Go, Deciding, Timed, buffer, history
  <2>2. CASE Decide
    BY <1>1, <1>2, <2>2, Numbers DEF Decide, wait, Deciding, Timed, Known, buffer, history
  <2>3. CASE Select \/ WatchReload
    BY <1>1, <1>2, <2>3 DEF Select, WatchReload, ReadReload, Go, Deciding, buffer, history
  <2>4. CASE Blocked
    BY <1>1, <1>2, <2>4 DEF Blocked, Turn, Go, wait, Deciding, buffer, history
  <2>5. CASE Sleep
    BY <1>1, <1>2, <2>5, Numbers DEF Sleep, Turn, Go, wait, Deciding, Timed, Known, buffer, history
  <2>6. CASE EndTick \/ Stop \/ PauseWait
    BY <1>1, <1>2, <2>6 DEF EndTick, Stop, PauseWait, Turn, CloseReload, Go, Deciding, buffer, history
  <2>7. CASE Flush
    BY <1>1, <1>2, <2>7, Numbers DEF Flush, Turn, Go, wait, Deciding, Timed, Known, buffer, history
  <2> QED BY <2>1, <2>2, <2>3, <2>4, <2>5, <2>6, <2>7 DEF Turning
<1> QED BY <1>3, <1>4, <1>6, <1>7, <1>8 DEF RateInv

(* The steps of everybody else, but for the items that are pushed.             *)
LEMMA AroundStep ==
  ASSUME RateInv,
         \/ Pause \/ Resume \/ Cancel \/ Clock
         \/ \E c \in Controllers : Control(c) \/ ControlWakes(c) \/ ParentEnds(c)
         \/ UNCHANGED vars
  PROVE  RateInv'
<1>1. /\ UNCHANGED <<started, preStart, items, nextAt, at, flushing, popped, ts, given, dispatched,
                  refused, forgotten>>
      /\ reload' \in {"nil", "open"} /\ seen' \in {"unread", "nil", "open", "closed"}
  BY DEF RateInv, TypeOK, Pause, Resume, Cancel, Clock, Control, ControlWakes, ParentEnds, vars, buffer, wait, history
<1>2. TypeOK /\ Stages /\ Timed /\ Deciding
  BY DEF RateInv
<1>3. Apart' /\ InTurn'
  BY <1>1, SamePlaces
<1>4. now' \in 0 .. MaxTime /\ now <= now'
  BY <1>2, RateAssumption DEF TypeOK, Pause, Resume, Cancel, Clock, Control, ControlWakes, ParentEnds, vars
<1>5. (reference' = reference \/ ~Known) /\ reference' \in Times
  <2>1. CASE \E c \in Controllers : Control(c)
    BY <1>2, <2>1, Numbers DEF Control, ReferenceWith, Shifted, Known, Times
  <2>2. CASE ~\E c \in Controllers : Control(c)
    BY <1>2, <2>2 DEF TypeOK, Pause, Resume, Cancel, Clock, ControlWakes, ParentEnds, vars, buffer
  <2> QED BY <2>1, <2>2
<1>6. Timed'
  BY <1>1, <1>2, <1>4, <1>5, SameTimes
<1>7. ticker' = ticker \/ (ticker = "paused" /\ ticker' = "dispatch")
  BY DEF Pause, Resume, Cancel, Unpause, Clock, Control, ControlWakes, ParentEnds, vars
<1>8. Deciding'
  <2>1. items # <<>> => reference' = reference
    BY <1>2, <1>5 DEF Timed
  <2>2. now \in Nat /\ now' \in Nat /\ (items # <<>> => ts[Head(items)] \in Int /\ reference \in Int)
    BY <1>2, <1>4, Numbers DEF Timed, Known
  <2> QED BY <1>1, <1>2, <1>4, <1>7, <2>1, <2>2 DEF Deciding
<1>9. /\ ctx' \in {"live", "cancelled"} /\ (ctx = "cancelled" => ctx' = "cancelled")
  BY <1>2 DEF TypeOK, Pause, Resume, Cancel, Clock, Control, ControlWakes, ParentEnds, vars
<1>10. /\ pause' \in {"none", "live", "cancelled"} /\ pausedAt' \in Times /\ offset' \in 0 .. MaxOffset
       /\ pause' = "none" => pausedAt' = NoTime
       /\ pause' # "none" => pausedAt' \in 0 .. now'
  <2>1. CASE Pause
    BY <1>2, <2>1, Numbers DEF Pause, TypeOK, Times, pausing
  <2>2. CASE Resume
    BY <1>2, <2>2, Numbers DEF Resume, TypeOK, Stages, Times
  <2>3. CASE Cancel
    BY <1>2, <2>3, Numbers DEF Cancel, TypeOK, Stages, Times
  <2>4. CASE UNCHANGED pausing
    BY <1>2, <1>4, <2>4, Numbers DEF TypeOK, Stages, Times, pausing
  <2> QED BY <2>1, <2>2, <2>3, <2>4 DEF Clock, Control, ControlWakes, ParentEnds, vars
<1>11. Stages'
  BY <1>1, <1>2, <1>7, <1>9, <1>10 DEF Stages, Taken
<1>12. control' \in [Controllers -> [pc : {"idle", "sleep", "paused", "done"}, until : Times, heard : BOOLEAN]]
  <2> DEFINE R == [pc : {"idle", "sleep", "paused", "done"}, until : Times, heard : BOOLEAN]
  <2> SUFFICES control' \in [Controllers -> R]
    OBVIOUS
  <2>1. /\ control \in [Controllers -> R]
        /\ At("done") \in R /\ At("paused") \in R
    BY <1>2 DEF TypeOK, At, Times
  <2>2. CASE UNCHANGED control
    BY <2>1, <2>2
  <2>3. CASE Unpause
    <3> DEFINE V(c) == IF control[c].pc = "paused" THEN At("done") ELSE control[c]
    <3> HIDE DEF R
    <3>1. \A c \in Controllers : V(c) \in R
      BY <2>1
    <3>2. control' = [c \in Controllers |-> V(c)]
      BY <2>3 DEF Unpause
    <3> HIDE DEF V
    <3> QED BY <3>1, <3>2
  <2>4. CASE \E c \in Controllers : ControlWakes(c)
    <3> DEFINE v == At(IF pause = "live" THEN "paused" ELSE "done")
    <3>1. v = At("paused") \/ v = At("done")
      OBVIOUS
    <3>2. PICK c \in Controllers : control' = [control EXCEPT ![c] = v]
      BY <2>4 DEF ControlWakes
    <3> HIDE DEF R, v
    <3> QED BY <2>1, <3>1, <3>2
  <2>6. CASE \E c \in Controllers : ParentEnds(c)
    <3>1. PICK c \in Controllers : control' = [control EXCEPT ![c] = At("done")]
      BY <2>6 DEF ParentEnds
    <3> HIDE DEF R
    <3> QED BY <2>1, <3>1
  <2>5. ASSUME NEW c \in Controllers, Control(c) PROVE control' \in [Controllers -> R]
    <3>1. Due(c) - BufferDuration \in Times
      BY <1>2, Numbers DEF Due, ReferenceWith, Shifted, Times
    <3>2. [pc |-> "sleep", until |-> Due(c) - BufferDuration, heard |-> started] \in R
      BY <1>2, <3>1 DEF TypeOK
    <3> HIDE DEF R
    <3> QED BY <2>1, <2>5, <3>2 DEF Control
  <2> QED BY <2>2, <2>3, <2>4, <2>5, <2>6 DEF Pause, Resume, Cancel, Clock, vars
<1>13. TypeOK'
  <2>1. ticker' \in TickerLabels
    BY <1>2, <1>7 DEF TypeOK, TickerLabels
  <2> QED BY <1>1, <1>2, <1>4, <1>5, <1>9, <1>10, <1>12, <2>1 DEF TypeOK
<1> QED BY <1>3, <1>6, <1>8, <1>11, <1>13 DEF RateInv

(* Where the buffer is set the next time follows.                              *)
LEMMA NextAt ==
  ASSUME TypeOK, items' \in Seq(Items), ts' = ts, SetNextAt
  PROVE  /\ (items = <<>> <=> nextAt = NoTime)'
         /\ (items # <<>> => Known /\ nextAt >= reference + ts[Head(items)])'
         /\ reference' = reference \/ ~Known
         /\ reference' \in Times /\ nextAt' \in Times
<1>1. CASE items' = <<>>
  BY <1>1 DEF SetNextAt, TypeOK, Times
<1>2. CASE items' # <<>>
  <2> DEFINE h == Head(items')
  <2>1. h \in Items /\ ts[h] \in Int /\ offset \in Nat /\ now \in Nat /\ NoTime \notin Int
        /\ (reference \in Int \/ reference = NoTime)
    BY <1>2, Numbers
  <2>2. nextAt' = ReferenceWith(ts[h] + offset) + (ts[h] + offset) /\ reference' = ReferenceWith(ts[h] + offset)
    BY <1>2 DEF SetNextAt, Due, Shifted
  <2> HIDE DEF h
  <2>3. ReferenceWith(ts[h] + offset) \in Int /\ (Known => ReferenceWith(ts[h] + offset) = reference)
    BY <2>1 DEF ReferenceWith, Known
  <2>4. reference' \in Int /\ nextAt' \in Int /\ nextAt' >= reference' + ts[h]
    BY <2>1, <2>2, <2>3
  <2>5. reference' = reference \/ ~Known
    BY <2>2, <2>3
  <2> QED BY <1>2, <2>1, <2>4, <2>5 DEF h, Known, Times
<1> QED BY <1>1, <1>2

LEMMA InsertedHead ==
  ASSUME NEW s \in Seq(Items), NEW r, NEW i \in Items, NEW j \in Nat, Inserted(r, s, i, j), s # <<>>,
         ts \in [Items \cup Controllers -> Int]
  PROVE  ts[Head(r)] <= ts[Head(s)]
<1>1. /\ Len(s) \in Nat \ {0} /\ Head(s) = s[1] /\ r \in Seq(Items) /\ Len(r) = Len(s) + 1 /\ s[1] \in Items
      /\ ts[s[1]] \in Int /\ ts[i] \in Int
  BY DEF Inserted
<1>2. Head(r) = r[1]
  BY <1>1
<1>3. CASE j = 1
  BY <1>1, <1>2, <1>3 DEF Inserted
<1>4. CASE j > 1
  <2>1. r[1] = s[1]
    BY <1>1, <1>4 DEF Inserted
  <2> QED BY <1>1, <1>2, <2>1
<1> QED BY <1>3, <1>4 DEF Inserted

(* The history of what is pushed grows; the rest of the order stands.          *)
LEMMA Grown ==
  ASSUME RateInv, NEW i \in Items, given' = Append(given, i), UNCHANGED <<ts, popped, dispatched>>
  PROVE  /\ ToSet(given)' = ToSet(given) \cup {i} /\ given' \in Seq(Items)
         /\ \A x, y : Precedes(given, x, y) => Precedes(given', x, y)
         /\ \A x \in ToSet(given) : Precedes(given', x, i)
         /\ Sorted(items, given')
         /\ Ahead(Sent, popped)' /\ DispatchedInOrder'
         /\ Sent' = Sent
<1>1. given \in Seq(Items)
  BY DEF RateInv, TypeOK
<1>2. /\ \A x, y : Precedes(given, x, y) => Precedes(given', x, y)
      /\ \A x \in ToSet(given) : Precedes(given', x, i)
      /\ ToSet(given') = ToSet(given) \cup {i} /\ given' \in Seq(Items)
  BY <1>1, Later
<1>3. Sorted(items, given')
  BY <1>2 DEF RateInv, InTurn, Sorted
<1>4. Sent' = Sent
  BY DEF Sent
<1>5. Ahead(Sent, popped)'
  BY <1>2, <1>4 DEF RateInv, InTurn, Ahead
<1>6. \A x, y : Before(x, y) => Before(x, y)'
  BY <1>2 DEF Before, Precedes
<1>7. DispatchedInOrder'
  BY <1>6 DEF RateInv, InTurn, DispatchedInOrder
<1> QED BY <1>2, <1>3, <1>4, <1>5, <1>7

LEMMA PushStep ==
  ASSUME RateInv, NEW i \in Items, Push(i)
  PROVE  RateInv'
<1>1. /\ i \notin ToSet(given) /\ given' = Append(given, i)
      /\ UNCHANGED <<now, ctx, started, ticker, popped, pausing, control, ts, dispatched>>
  BY DEF Push
<1>2. TypeOK /\ Stages /\ Apart /\ InTurn /\ Timed /\ Deciding
  BY DEF RateInv
<1>3. /\ ToSet(given)' = ToSet(given) \cup {i} /\ given' \in Seq(Items)
      /\ \A x, y : Precedes(given, x, y) => Precedes(given', x, y)
      /\ \A x \in ToSet(given) : Precedes(given', x, i)
      /\ Sorted(items, given')
      /\ Ahead(Sent, popped)' /\ DispatchedInOrder'
      /\ Sent' = Sent
  BY <1>1, Grown
<1>4. preStart \in Seq(Items) /\ items \in Seq(Items) /\ ts \in [Items \cup Controllers -> Int]
  BY <1>2 DEF TypeOK
<1>5. /\ i \notin ToSet(preStart) /\ i \notin ToSet(items) /\ i \notin ToSet(popped) /\ i \notin ToSet(Sent)
  BY <1>1, <1>2 DEF Apart
<1>6. /\ at' = at /\ flushing' = flushing
      /\ reload' \in {"nil", "open"} /\ seen' \in {"unread", "nil", "open", "closed"}
  BY <1>2 DEF Push, CloseReload, wait, TypeOK
<1>10. refused' \subseteq Items /\ forgotten' \subseteq Items
  BY <1>2 DEF Push, TypeOK
<1>7. CASE ~started /\ preStart' = Append(preStart, i) /\ UNCHANGED <<reference, items, nextAt, wait>>
  <2>1. ToSet(preStart)' = ToSet(preStart) \cup {i} /\ preStart' \in Seq(Items) /\ Once(preStart')
    BY <1>2, <1>4, <1>5, <1>7, AppendSet, OnceAppend DEF Apart
  <2>2. Apart'
    <3>1. Once(preStart)' /\ Once(items)' /\ Once(Sent)'
      BY <1>2, <1>3, <1>7, <2>1 DEF Apart, Once
    <3>2. (ToSet(preStart) \cup ToSet(items) \cup ToSet(popped) \cup ToSet(Sent) \subseteq ToSet(given))'
      BY <1>1, <1>2, <1>3, <1>7, <2>1 DEF Apart
    <3> QED BY <1>1, <1>2, <1>3, <1>5, <1>7, <2>1, <3>1, <3>2 DEF Apart, Disjoint
  <2>3. (\A k, l \in DOMAIN preStart : k < l => Precedes(given, preStart[k], preStart[l]))'
    <3>1. /\ Len(preStart) \in Nat /\ DOMAIN preStart = 1 .. Len(preStart)
          /\ DOMAIN preStart' = 1 .. Len(preStart) + 1
          /\ \A k \in 1 .. Len(preStart) : preStart'[k] = preStart[k] /\ preStart[k] \in ToSet(preStart)
          /\ preStart'[Len(preStart) + 1] = i
      BY <1>4, <1>7 DEF ToSet
    <3> SUFFICES ASSUME NEW k \in 1 .. Len(preStart) + 1, NEW l \in 1 .. Len(preStart) + 1, k < l
                 PROVE  Precedes(given', preStart'[k], preStart'[l])
      BY <3>1
    <3>2. k \in 1 .. Len(preStart)
      BY <3>1
    <3>3. CASE l \in 1 .. Len(preStart)
      BY <1>2, <1>3, <3>1, <3>2, <3>3 DEF InTurn
    <3>4. CASE l = Len(preStart) + 1
      BY <1>2, <1>3, <3>1, <3>2, <3>4 DEF Apart
    <3> QED BY <3>1, <3>3, <3>4
  <2>4. Sorted(items, given)'
    BY <1>1, <1>3, <1>7 DEF Sorted
  <2>5. (Ahead(popped, items) /\ Ahead(Sent, items))'
    BY <1>1, <1>2, <1>3, <1>7 DEF InTurn, Ahead
  <2>6. InTurn'
    BY <1>3, <2>3, <2>4, <2>5 DEF InTurn
  <2>7. Timed'
    BY <1>1, <1>2, <1>7, Numbers, SameTimes
  <2>8. TypeOK'
    BY <1>1, <1>2, <1>3, <1>6, <1>7, <1>10, <2>1 DEF TypeOK, pausing
  <2>9. Stages' /\ Deciding'
    BY <1>1, <1>2, <1>6, <1>7 DEF Stages, Deciding, pausing
  <2> QED BY <2>2, <2>6, <2>7, <2>8, <2>9 DEF RateInv
<1>8. CASE UNCHANGED <<buffer, wait>>
  <2>1. Apart'
    BY <1>1, <1>2, <1>3, <1>8 DEF Apart, Once, Disjoint, buffer
  <2>2. (\A k, l \in DOMAIN preStart : k < l => Precedes(given, preStart[k], preStart[l]))'
    BY <1>2, <1>3, <1>8 DEF InTurn, buffer
  <2>4. Sorted(items, given)'
    BY <1>1, <1>3, <1>8 DEF Sorted, buffer
  <2>5. (Ahead(popped, items) /\ Ahead(Sent, items))'
    BY <1>1, <1>2, <1>3, <1>8 DEF InTurn, Ahead, buffer
  <2>6. InTurn'
    BY <1>3, <2>2, <2>4, <2>5 DEF InTurn
  <2>7. Timed'
    BY <1>1, <1>2, <1>8, Numbers, SameTimes DEF buffer
  <2>8. TypeOK'
    BY <1>1, <1>2, <1>3, <1>6, <1>8, <1>10 DEF TypeOK, pausing, buffer
  <2>9. Stages' /\ Deciding'
    BY <1>1, <1>2, <1>6, <1>8 DEF Stages, Deciding, pausing, buffer
  <2> QED BY <2>1, <2>6, <2>7, <2>8, <2>9 DEF RateInv
<1>9. CASE started /\ ctx = "live" /\ items' = Insert(items, i) /\ SetNextAt /\ UNCHANGED preStart
  <2>1. PICK j \in Nat : Inserted(items', items, i, j)
    BY <1>4, <1>9, Insertion
  <2>2. /\ ToSet(items)' = ToSet(items) \cup {i} /\ Once(items') /\ items' # <<>> /\ items' \in Seq(Items)
    <3>1. Once(items)
      BY <1>2 DEF Apart
    <3>2. ToSet(items') = ToSet(items) \cup {i} /\ Once(items') /\ items' # <<>>
      BY <1>4, <1>5, <2>1, <3>1, InsertedSet
    <3>3. items' \in Seq(Items)
      BY <2>1 DEF Inserted
    <3> QED BY <3>2, <3>3
  <2>3. Sorted(items', given')
    <3>1. \A k \in 1 .. Len(items) : Precedes(given', items[k], i)
      <4>1. \A k \in 1 .. Len(items) : items[k] \in ToSet(items)
        BY <1>4 DEF ToSet
      <4> QED BY <1>2, <1>3, <4>1 DEF Apart
    <3> QED BY <1>3, <1>4, <2>1, <3>1, InsertedSorted
  <2>4. Apart'
    <3>1. Once(preStart)' /\ Once(items)' /\ Once(Sent)'
      BY <1>2, <1>3, <1>9, <2>2 DEF Apart, Once
    <3>2. (ToSet(preStart) \cup ToSet(items) \cup ToSet(popped) \cup ToSet(Sent) \subseteq ToSet(given))'
      BY <1>1, <1>2, <1>3, <1>9, <2>2 DEF Apart
    <3> QED BY <1>1, <1>2, <1>3, <1>5, <1>9, <2>2, <3>1, <3>2 DEF Apart, Disjoint
  <2>5. InTurn'
    <3>1. (\A k, l \in DOMAIN preStart : k < l => Precedes(given, preStart[k], preStart[l]))'
      BY <1>2, <1>3, <1>9 DEF InTurn
    <3>2. Sorted(items, given)'
      BY <1>1, <2>3 DEF Sorted
    <3>3. ToSet(popped) \subseteq ToSet(given) /\ ToSet(Sent) \subseteq ToSet(given)
      BY <1>2 DEF Apart
    <3>4. (Ahead(popped, items) /\ Ahead(Sent, items))'
      BY <1>1, <1>2, <1>3, <2>2, <3>3 DEF InTurn, Ahead
    <3> QED BY <1>3, <3>1, <3>2, <3>4 DEF InTurn
  <2>6. /\ (items = <<>> <=> nextAt = NoTime)'
        /\ (items # <<>> => Known /\ nextAt >= reference + ts[Head(items)])'
        /\ reference' = reference \/ ~Known
        /\ reference' \in Times /\ nextAt' \in Times
    BY <1>1, <1>2, <1>9, <2>2, NextAt
  <2>7. Timed'
    <3>1. (\A x \in ToSet(popped) : Known /\ now >= reference + ts[x])'
      BY <1>1, <1>2, <2>6 DEF Timed, Known
    <3>2. (dispatched # <<>> => Known)'
      BY <1>1, <1>2, <2>6 DEF Timed, Known
    <3>3. NotBeforeItsTime'
      <4>1. CASE dispatched = <<>>
        BY <1>1, <4>1 DEF NotBeforeItsTime
      <4>2. CASE dispatched # <<>>
        BY <1>1, <1>2, <2>6, <4>2 DEF Timed, NotBeforeItsTime
      <4> QED BY <4>1, <4>2
    <3> QED BY <2>6, <3>1, <3>2, <3>3 DEF Timed
  <2>8. Deciding'
    <3>1. items # <<>> => /\ reference' = reference /\ reference \in Int
                          /\ ts[Head(items')] <= ts[Head(items)]
                          /\ ts[Head(items')] \in Int /\ ts[Head(items)] \in Int
      <4>1. items # <<>> => ts[Head(items')] <= ts[Head(items)]
        BY <1>4, <2>1, InsertedHead
      <4>2. Head(items') \in Items
        BY <2>2
      <4> QED BY <1>2, <2>6, <4>1, <4>2, Numbers DEF Timed, Known
    <3>2. now \in Nat
      BY <1>2, Numbers
    <3> QED BY <1>1, <1>2, <1>6, <2>2, <3>1, <3>2 DEF Deciding
  <2>9. TypeOK'
    BY <1>1, <1>2, <1>3, <1>6, <1>9, <1>10, <2>2, <2>6 DEF TypeOK, pausing
  <2>10. Stages'
    BY <1>1, <1>2, <1>6, <1>9 DEF Stages, pausing
  <2> QED BY <2>4, <2>5, <2>7, <2>8, <2>9, <2>10 DEF RateInv
<1> QED BY <1>7, <1>8, <1>9 DEF Push

LEMMA StartStep ==
  ASSUME RateInv, Start
  PROVE  RateInv'
<1>1. /\ ticker = "unborn" /\ ticker' = "tick" /\ started' = TRUE /\ preStart' = <<>>
      /\ UNCHANGED <<now, ctx, wait, popped, pausing, control, ts, given, dispatched, refused>>
  BY DEF Start, Go
<1>2. TypeOK /\ Stages /\ Apart /\ InTurn /\ Timed /\ Deciding
  BY DEF RateInv
<1>3. ~started /\ items = <<>> /\ dispatched = <<>> /\ popped = <<>> /\ nextAt = NoTime /\ ~flushing
  BY <1>1, <1>2 DEF Stages, Taken, Timed
<1>4. preStart \in Seq(Items) /\ ts \in [Items \cup Controllers -> Int] /\ given' = given /\ ts' = ts
  BY <1>1, <1>2 DEF TypeOK
<1>5. Sent' = <<>> /\ ToSet(Sent)' = {} /\ ToSet(popped)' = {} /\ ToSet(preStart)' = {}
  <2>1. Sent' = <<>>
    BY <1>1, <1>3 DEF Sent
  <2> QED BY <1>1, <1>3, <2>1 DEF ToSet
<1>6. /\ items' \in Seq(Items) /\ ToSet(items') \subseteq ToSet(preStart) /\ Once(items')
      /\ Sorted(items', given)
      /\ (items = <<>> <=> nextAt = NoTime)'
      /\ (items # <<>> => Known /\ nextAt >= reference + ts[Head(items)])'
      /\ reference' \in Times /\ nextAt' \in Times
  <2>1. CASE UNCHANGED <<items, reference, nextAt>>
    <3>1. ToSet(items') = {}
      BY <1>3, <2>1 DEF ToSet
    <3> QED BY <1>2, <1>3, <2>1, <3>1 DEF TypeOK, Once, Sorted
  <2>2. CASE /\ preStart # <<>> /\ items' = InsertAll(<<>>, preStart)
             /\ reference' = ReferenceWith(Shifted(Head(preStart)))
             /\ nextAt' = reference' + Shifted(Head(items'))
    <3>1. Once(preStart) /\ \A k, l \in DOMAIN preStart : k < l => Precedes(given, preStart[k], preStart[l])
      BY <1>2 DEF Apart, InTurn
    <3>2. /\ items' \in Seq(Items) /\ ToSet(items') = ToSet(preStart) /\ Once(items')
          /\ Sorted(items', given)
      BY <1>4, <2>2, <3>1, AllInserted
    <3>3. items' # <<>>
      <4>1. Head(preStart) \in ToSet(preStart)
        BY <1>4, <2>2 DEF ToSet
      <4>2. items' = <<>> => ToSet(items') = {}
        BY DEF ToSet
      <4> QED BY <3>2, <4>1, <4>2
    <3> DEFINE h == Head(items')
               p == Head(preStart)
    <3>4. h \in Items /\ ts[h] \in Int /\ p \in Items /\ ts[p] \in Int
      BY <1>2, <1>4, <2>2, <3>2, <3>3, Numbers
    <3>5. offset \in Nat /\ now \in Nat /\ (reference \in Int \/ reference = NoTime) /\ NoTime \notin Int
      BY <1>2, Numbers
    <3>6. reference' = ReferenceWith(ts[p] + offset) /\ nextAt' = reference' + (ts[h] + offset)
      BY <2>2 DEF Shifted
    <3> HIDE DEF h, p
    <3>7. reference' \in Int
      BY <3>4, <3>5, <3>6 DEF ReferenceWith
    <3>8. nextAt' \in Int /\ nextAt' >= reference' + ts[h]
      BY <3>4, <3>5, <3>6, <3>7
    <3> QED BY <1>4, <3>2, <3>3, <3>5, <3>7, <3>8 DEF Known, Times, h
  <2> QED BY <1>3, <2>1, <2>2 DEF Start
<1>7. Apart'
  <2>1. Once(preStart)' /\ Once(items)' /\ Once(Sent)'
    BY <1>1, <1>5, <1>6 DEF Once
  <2>2. ToSet(preStart) \subseteq ToSet(given)
    BY <1>2 DEF Apart
  <2> QED BY <1>4, <1>5, <1>6, <2>1, <2>2 DEF Apart, Disjoint
<1>8. InTurn'
  <2>1. Sorted(items, given)'
    BY <1>4, <1>6 DEF Sorted
  <2>2. (Ahead(popped, items) /\ Ahead(Sent, items) /\ Ahead(Sent, popped))'
    BY <1>5 DEF Ahead
  <2>3. dispatched' = <<>>
    BY <1>1, <1>3
  <2> QED BY <1>1, <2>1, <2>2, <2>3 DEF InTurn, DispatchedInOrder
<1>9. Timed'
  <2>1. dispatched' = <<>>
    BY <1>1, <1>3
  <2> QED BY <1>5, <1>6, <2>1 DEF Timed, NotBeforeItsTime
<1>10. TypeOK'
  <2>1. ToSet(preStart) \subseteq Items
    BY <1>4 DEF ToSet
  <2>2. forgotten' \subseteq Items
    BY <1>2, <2>1 DEF Start, TypeOK
  <2> QED BY <1>1, <1>2, <1>6, <2>2 DEF TypeOK, TickerLabels, wait, pausing
<1>11. Stages' /\ Deciding'
  BY <1>1, <1>2, <1>3 DEF Stages, Taken, Deciding, wait, pausing
<1> QED BY <1>7, <1>8, <1>9, <1>10, <1>11 DEF RateInv

LEMMA PopStep ==
  ASSUME RateInv, Pop
  PROVE  RateInv'
<1> DEFINE h == Head(items)
           rest == Tail(items)
<1>1. /\ ticker = "pop" /\ ticker' = "wait" /\ items # <<>> /\ popped' = <<h>> /\ items' = rest /\ SetNextAt
      /\ UNCHANGED <<now, ctx, started, preStart, wait, pausing, control, history>>
  BY DEF Pop, Go
<1>2. TypeOK /\ Stages /\ Apart /\ InTurn /\ Timed /\ Deciding
  BY DEF RateInv
<1>3. /\ items \in Seq(Items) /\ Len(items) \in Nat \ {0} /\ DOMAIN items = 1 .. Len(items) /\ h = items[1]
      /\ h \in Items /\ rest \in Seq(Items) /\ Len(rest) = Len(items) - 1
      /\ DOMAIN rest = 1 .. Len(items) - 1
      /\ \A k \in 1 .. Len(items) - 1 : rest[k] = items[k + 1] /\ k + 1 \in 1 .. Len(items)
      /\ 1 \in 1 .. Len(items)
  BY <1>1, <1>2 DEF TypeOK
<1> HIDE DEF h, rest
<1>4. /\ ToSet(rest) \subseteq ToSet(items) /\ h \in ToSet(items) /\ h \notin ToSet(rest) /\ Once(rest)
      /\ ToSet(popped)' = {h} /\ popped' \in Seq(Items) /\ Len(popped') = 1
  <2>1. ToSet(rest) \subseteq ToSet(items) /\ h \in ToSet(items)
    BY <1>3 DEF ToSet
  <2>2. \A k, l \in 1 .. Len(items) : items[k] = items[l] => k = l
    BY <1>2, <1>3 DEF Apart, Once
  <2>3. \A k \in 1 .. Len(items) - 1 : rest[k] # h
    <3> TAKE k \in 1 .. Len(items) - 1
    <3>1. k + 1 # 1
      BY <1>3
    <3> QED BY <1>3, <2>2, <3>1
  <2>4. h \notin ToSet(rest)
    BY <1>3, <2>3 DEF ToSet
  <2>5. Once(rest)
    <3> SUFFICES ASSUME NEW k \in 1 .. Len(items) - 1, NEW l \in 1 .. Len(items) - 1, rest[k] = rest[l]
                 PROVE  k = l
      BY <1>3 DEF Once
    <3>1. k + 1 = l + 1
      BY <1>3, <2>2
    <3> QED BY <1>3, <3>1
  <2>6. ToSet(popped') = {h} /\ popped' \in Seq(Items) /\ Len(popped') = 1
    BY <1>1, <1>3 DEF ToSet
  <2> QED BY <2>1, <2>4, <2>5, <2>6
<1>5. Sent' = Sent /\ ts' = ts /\ given' = given /\ dispatched' = dispatched
  BY <1>1 DEF Sent, history
<1>6. Apart'
  <2>1. Once(preStart)' /\ Once(items)' /\ Once(Sent)'
    BY <1>1, <1>2, <1>4, <1>5 DEF Apart, Once
  <2>2. popped = <<>>
    BY <1>1, <1>2 DEF Stages, Taken
  <2> QED BY <1>1, <1>2, <1>4, <1>5, <2>1, <2>2 DEF Apart, Disjoint
<1>7. InTurn'
  <2>1. (\A k, l \in DOMAIN preStart : k < l => Precedes(given, preStart[k], preStart[l]))'
    BY <1>1, <1>2, <1>5 DEF InTurn
  <2>2. Sorted(rest, given)
    <3> SUFFICES ASSUME NEW k \in 1 .. Len(items) - 1, NEW l \in 1 .. Len(items) - 1, k < l
                 PROVE  \/ ts[rest[k]] < ts[rest[l]]
                        \/ ts[rest[k]] = ts[rest[l]] /\ Precedes(given, rest[k], rest[l])
      BY <1>3 DEF Sorted
    <3>1. k + 1 < l + 1
      BY <1>3
    <3> QED BY <1>2, <1>3, <3>1 DEF InTurn, Sorted
  <2>3. Sorted(items, given)'
    BY <1>1, <1>5, <2>2 DEF Sorted
  <2>4. \A x \in ToSet(rest) : ts[h] = ts[x] => Precedes(given, h, x)
    <3> SUFFICES ASSUME NEW k \in 1 .. Len(items) - 1, ts[h] = ts[rest[k]]
                 PROVE  Precedes(given, h, rest[k])
      BY <1>3 DEF ToSet
    <3>1. 1 < k + 1
      BY <1>3
    <3>2. \/ ts[items[1]] < ts[items[k + 1]]
          \/ ts[items[1]] = ts[items[k + 1]] /\ Precedes(given, items[1], items[k + 1])
      BY <1>2, <1>3, <3>1 DEF InTurn, Sorted
    <3>3. ts[h] \in Int
      BY <1>2, <1>3, Numbers
    <3> QED BY <1>3, <3>2, <3>3
  <2>5. Ahead(popped, items)'
    BY <1>1, <1>4, <1>5, <2>4 DEF Ahead
  <2>6. (Ahead(Sent, items) /\ Ahead(Sent, popped))'
    BY <1>1, <1>2, <1>4, <1>5 DEF Ahead, InTurn
  <2>7. DispatchedInOrder'
    BY <1>2, <1>5 DEF InTurn, DispatchedInOrder, Before
  <2> QED BY <2>1, <2>3, <2>5, <2>6, <2>7 DEF InTurn
<1>8. /\ (items = <<>> <=> nextAt = NoTime)'
      /\ (items # <<>> => Known /\ nextAt >= reference + ts[Head(items)])'
      /\ reference' = reference \/ ~Known
      /\ reference' \in Times /\ nextAt' \in Times
  BY <1>1, <1>2, <1>3, <1>5, NextAt
<1>9. Timed'
  <2>1. Known /\ now >= reference + ts[h]
    BY <1>1, <1>2 DEF Timed, Deciding, h
  <2>2. reference' = reference
    BY <1>8, <2>1
  <2>3. (\A x \in ToSet(popped) : Known /\ now >= reference + ts[x])'
    BY <1>1, <1>4, <1>5, <2>1, <2>2 DEF Known
  <2>4. (dispatched # <<>> => Known)' /\ NotBeforeItsTime'
    BY <1>1, <1>2, <1>5, <2>1, <2>2 DEF Timed, Known, NotBeforeItsTime
  <2> QED BY <1>8, <2>3, <2>4 DEF Timed
<1>10. TypeOK'
  BY <1>1, <1>2, <1>3, <1>4, <1>8 DEF TypeOK, TickerLabels, wait, pausing, history
<1>11. Stages' /\ Deciding'
  BY <1>1, <1>2, <1>4 DEF Stages, Taken, Deciding, wait, pausing, history
<1> QED BY <1>6, <1>7, <1>9, <1>10, <1>11 DEF RateInv

LEMMA DispatchStep ==
  ASSUME RateInv, Dispatch
  PROVE  RateInv'
<1> DEFINE h == Head(popped)
           n == Len(dispatched)
<1>1. /\ ticker = "dispatch" /\ ticker' = (IF flushing THEN "flush" ELSE "end") /\ popped' = <<>>
      /\ dispatched' = Append(dispatched, [item |-> h, at |-> now])
      /\ UNCHANGED <<now, ctx, started, buffer, wait, pausing, control, ts, given, refused, forgotten>>
  BY DEF Dispatch, Go
<1>2. TypeOK /\ Stages /\ Apart /\ InTurn /\ Timed /\ Deciding
  BY DEF RateInv
<1>3. /\ Len(popped) = 1 /\ popped # <<>> /\ h \in Items /\ ToSet(popped) = {h}
  <2>1. Len(popped) = 1 /\ popped \in Seq(Items)
    BY <1>1, <1>2 DEF Stages, Taken, TypeOK
  <2> QED BY <2>1 DEF ToSet
<1>4. h \in Items /\ now \in Nat /\ ts[h] \in Int
  BY <1>2, <1>3, Numbers
<1> HIDE DEF h
<1>5. /\ n \in Nat /\ DOMAIN dispatched = 1 .. n /\ DOMAIN dispatched' = 1 .. n + 1
      /\ dispatched' \in Seq([item : Items, at : Nat])
      /\ \A k \in 1 .. n : dispatched'[k] = dispatched[k]
      /\ dispatched'[n + 1].item = h /\ dispatched'[n + 1].at = now
      /\ dispatched' # <<>>
      /\ \A k \in 1 .. n + 1 : k \in 1 .. n \/ k = n + 1
  <2> DEFINE R == [item : Items, at : Nat]
             e == [item |-> h, at |-> now]
  <2>1. dispatched \in Seq(R) /\ e \in R /\ e.item = h /\ e.at = now
    BY <1>2, <1>4 DEF TypeOK
  <2>2. dispatched' = Append(dispatched, e)
    BY <1>1
  <2> HIDE DEF R, e
  <2>3. /\ n \in Nat /\ DOMAIN dispatched = 1 .. n /\ DOMAIN Append(dispatched, e) = 1 .. n + 1
        /\ Append(dispatched, e) \in Seq(R)
        /\ \A k \in 1 .. n : Append(dispatched, e)[k] = dispatched[k]
        /\ Append(dispatched, e)[n + 1] = e
        /\ Append(dispatched, e) # <<>>
        /\ \A k \in 1 .. n + 1 : k \in 1 .. n \/ k = n + 1
    BY <2>1
  <2> QED BY <2>1, <2>2, <2>3 DEF R
<1> HIDE DEF n
<1>6. /\ DOMAIN Sent = 1 .. n /\ DOMAIN Sent' = 1 .. n + 1 /\ n \in Nat
      /\ \A k \in 1 .. n : Sent'[k] = Sent[k] /\ Sent[k] = dispatched[k].item /\ Sent[k] \in ToSet(Sent)
      /\ Sent'[n + 1] = h /\ Sent' = Append(Sent, h)
      /\ ToSet(Sent') = ToSet(Sent) \cup {h}
  <2>1. /\ Sent \in Seq(Items) /\ DOMAIN Sent = 1 .. n /\ Len(Sent) = n
        /\ \A k \in 1 .. n : Sent[k] = dispatched[k].item
    BY <1>2, SentType DEF n
  <2>2. Sent' = [k \in 1 .. n + 1 |-> dispatched'[k].item]
    BY <1>5 DEF Sent
  <2>3. \A k \in 1 .. n : Sent'[k] = Sent[k] /\ k \in 1 .. n + 1
    BY <1>5, <2>1, <2>2
  <2>4. Sent'[n + 1] = h
    BY <1>5, <2>2
  <2>6. Sent' = Append(Sent, h)
    <3> DEFINE o == Sent
               r == Sent'
    <3>1. /\ o \in Seq(Items) /\ Len(o) = n /\ h \in Items /\ n \in Nat
          /\ r \in Seq(Items) /\ Len(r) = n + 1
          /\ \A k \in 1 .. n : r[k] = o[k]
          /\ r[n + 1] = h
      <4>1. \A k \in 1 .. n + 1 : dispatched'[k].item \in Items
        <5>1. \A k \in 1 .. n : dispatched'[k].item = o[k] /\ o[k] \in Items
          BY <1>5, <2>1
        <5> QED BY <1>4, <1>5, <5>1
      <4>2. r = [k \in 1 .. n + 1 |-> dispatched'[k].item]
        BY <2>2
      <4>3. r \in Seq(Items) /\ Len(r) = n + 1
        BY <1>5, <4>1, <4>2
      <4> QED BY <1>4, <1>5, <2>1, <2>3, <2>4, <4>3
    <3> HIDE DEF o, r
    <3>2. /\ Append(o, h) \in Seq(Items) /\ Len(Append(o, h)) = n + 1
          /\ \A k \in 1 .. n : Append(o, h)[k] = o[k]
          /\ Append(o, h)[n + 1] = h
      BY <3>1
    <3>3. \A k \in 1 .. n + 1 : r[k] = Append(o, h)[k]
      BY <3>1, <3>2
    <3>4. r = Append(o, h)
      BY <3>1, <3>2, <3>3, SeqEqual
    <3> QED BY <3>4 DEF o, r
  <2>7. ToSet(Append(Sent, h)) = ToSet(Sent) \cup {h}
    BY <2>1, AppendSet
  <2>8. \A k \in 1 .. n : Sent[k] \in ToSet(Sent)
    BY <2>1 DEF ToSet
  <2> QED BY <1>5, <2>1, <2>2, <2>3, <2>4, <2>6, <2>7, <2>8
<1>7. Apart'
  <2>1. h \notin ToSet(Sent) /\ h \notin ToSet(preStart) /\ h \notin ToSet(items)
    BY <1>2, <1>3 DEF Apart, Disjoint
  <2>2. Once(Sent)'
    <3>1. Sent \in Seq(Items) /\ Once(Sent)
      BY <1>2, SentType DEF Apart
    <3>2. Once(Append(Sent, h))
      BY <1>4, <2>1, <3>1, OnceAppend
    <3> QED BY <1>6, <3>2 DEF Once
  <2>3. Once(preStart)' /\ Once(items)'
    BY <1>1, <1>2 DEF Apart, Once, buffer
  <2>4. ToSet(popped)' = {}
    BY <1>1 DEF ToSet
  <2> QED BY <1>1, <1>2, <1>3, <1>6, <2>1, <2>2, <2>3, <2>4 DEF Apart, Disjoint, buffer
<1>8. InTurn'
  <2>1. (\A k, l \in DOMAIN preStart : k < l => Precedes(given, preStart[k], preStart[l]))'
    BY <1>1, <1>2 DEF InTurn, buffer
  <2>2. Sorted(items, given)'
    BY <1>1, <1>2 DEF InTurn, Sorted, buffer
  <2>3. ToSet(popped)' = {}
    BY <1>1 DEF ToSet
  <2>4. Ahead(popped, items)' /\ Ahead(Sent, popped)'
    BY <2>3 DEF Ahead
  <2>5. Ahead(Sent, items)'
    BY <1>1, <1>2, <1>3, <1>6 DEF InTurn, Ahead, buffer
  <2>6. DispatchedInOrder'
    <3> SUFFICES ASSUME NEW k \in 1 .. n + 1, NEW l \in 1 .. n + 1, k < l,
                        ts[dispatched'[k].item] = ts[dispatched'[l].item]
                 PROVE  Precedes(given, dispatched'[k].item, dispatched'[l].item)
      BY <1>1, <1>5 DEF DispatchedInOrder, Before, Precedes
    <3>1. k \in 1 .. n
      BY <1>5
    <3>2. CASE l \in 1 .. n
      <4>1. Before(dispatched[k].item, dispatched[l].item)
        BY <1>2, <1>5, <3>1, <3>2 DEF InTurn, DispatchedInOrder
      <4> QED BY <1>5, <3>1, <3>2, <4>1 DEF Before, Precedes
    <3>3. CASE l = n + 1
      <4>1. Sent[k] \in ToSet(Sent) /\ Sent[k] = dispatched'[k].item
        BY <1>5, <1>6, <3>1
      <4> QED BY <1>2, <1>3, <1>5, <3>3, <4>1 DEF InTurn, Ahead
    <3> QED BY <1>5, <3>2, <3>3
  <2> QED BY <2>1, <2>2, <2>4, <2>5, <2>6 DEF InTurn
<1>9. Timed'
  <2>1. Known /\ now >= reference + ts[h]
    BY <1>2, <1>3 DEF Timed
  <2>2. /\ (items = <<>> <=> nextAt = NoTime)'
        /\ (items # <<>> => Known /\ nextAt >= reference + ts[Head(items)])'
    BY <1>1, <1>2 DEF Timed, Known, buffer
  <2>3. (\A x \in ToSet(popped) : Known /\ now >= reference + ts[x])'
    BY <1>1 DEF ToSet
  <2>4. Known'
    BY <1>1, <2>1 DEF Known, buffer
  <2>5. NotBeforeItsTime'
    <3> SUFFICES ASSUME NEW k \in 1 .. n + 1 PROVE dispatched'[k].at >= reference + ts[dispatched'[k].item]
      BY <1>1, <1>5 DEF NotBeforeItsTime, buffer
    <3>1. CASE k \in 1 .. n
      BY <1>2, <1>5, <3>1 DEF Timed, NotBeforeItsTime
    <3>2. CASE k = n + 1
      BY <1>5, <2>1, <3>2
    <3> QED BY <1>5, <3>1, <3>2
  <2> QED BY <2>2, <2>3, <2>4, <2>5 DEF Timed
<1>10. TypeOK'
  BY <1>1, <1>2, <1>5 DEF TypeOK, TickerLabels, buffer, wait, pausing
<1>11. Stages' /\ Deciding'
  BY <1>1, <1>2 DEF Stages, Taken, Deciding, buffer, wait, pausing
<1> QED BY <1>7, <1>8, <1>9, <1>10, <1>11 DEF RateInv

LEMMA RateInit == Init => RateInv
<1> SUFFICES ASSUME Init PROVE RateInv
  OBVIOUS
<1>1. TypeOK
  <2>1. ts \in [Items \cup Controllers -> Int]
    <3>1. \A i \in Items \cup Controllers : Stamps[i] \subseteq Int
      BY RateAssumption
    <3>2. \A i \in Items \cup Controllers : ts[i] \in Stamps[i]
      BY DEF Init
    <3>3. ts = [i \in Items \cup Controllers |-> ts[i]]
      BY DEF Init
    <3> QED BY <3>1, <3>2, <3>3
  <2>2. control \in [Controllers -> [pc : {"idle", "sleep", "paused", "done"}, until : Times, heard : BOOLEAN]]
    <3>1. At("idle") \in [pc : {"idle", "sleep", "paused", "done"}, until : Times, heard : BOOLEAN]
      BY DEF At, Times
    <3> QED BY <3>1 DEF Init
  <2>3. /\ preStart \in Seq(Items) /\ items \in Seq(Items) /\ popped \in Seq(Items) /\ given \in Seq(Items)
        /\ dispatched \in Seq([item : Items, at : Nat])
    BY DEF Init
  <2>4. now \in 0 .. MaxTime /\ offset \in 0 .. MaxOffset
    BY RateAssumption DEF Init
  <2>5. reference \in Times /\ nextAt \in Times /\ at \in Times /\ pausedAt \in Times
    BY RateAssumption DEF Init, Times
  <2>6. /\ ctx \in {"live", "cancelled"} /\ started \in BOOLEAN
        /\ reload \in {"nil", "open"} /\ seen \in {"unread", "nil", "open", "closed"}
        /\ ticker \in TickerLabels /\ flushing \in BOOLEAN /\ pause \in {"none", "live", "cancelled"}
        /\ refused \subseteq Items /\ forgotten \subseteq Items
    BY DEF Init, TickerLabels
  <2> QED BY <2>1, <2>2, <2>3, <2>4, <2>5, <2>6 DEF TypeOK
<1>2. Stages
  BY DEF Init, Stages, Taken
<1>3. Sent = <<>> /\ ToSet(<<>>) = {}
  BY DEF Init, Sent, ToSet
<1>4. Apart /\ InTurn
  BY <1>3 DEF Init, Apart, Once, Disjoint, InTurn, Sorted, Ahead, DispatchedInOrder
<1>5. Timed /\ Deciding
  BY <1>3 DEF Init, Timed, Deciding, NotBeforeItsTime
<1> QED BY <1>1, <1>2, <1>4, <1>5 DEF RateInv

LEMMA RateStep == RateInv /\ [Next]_vars => RateInv'
<1> SUFFICES ASSUME RateInv, [Next]_vars PROVE RateInv'
  OBVIOUS
<1>1. CASE \E i \in Items : Push(i)
  BY <1>1, PushStep
<1>2. CASE Start
  BY <1>2, StartStep
<1>3. CASE Pop
  BY <1>3, PopStep
<1>4. CASE Dispatch
  BY <1>4, DispatchStep
<1>5. CASE Turning
  BY <1>5, TurningStep
<1>6. CASE \/ Pause \/ Resume \/ Cancel \/ Clock
           \/ \E c \in Controllers : Control(c) \/ ControlWakes(c) \/ ParentEnds(c)
           \/ UNCHANGED vars
  BY <1>6, AroundStep
<1> QED BY <1>1, <1>2, <1>3, <1>4, <1>5, <1>6 DEF Next, TickerStep, Turning

LEMMA RateHolds == Spec => []RateInv
<1> QED BY RateInit, RateStep, PTL DEF Spec

-----------------------------------------------------------------------------
(* Nothing slips out between two places *)

(* What is pushed waits, is buffered or is refused.                            *)
LEMMA PushKeeps ==
  ASSUME RateInv, Kept, NEW i \in Items, Push(i)
  PROVE  Kept'
<1>1. /\ i \notin ToSet(given) /\ given' = Append(given, i)
      /\ UNCHANGED <<ctx, started, popped, dispatched, forgotten>>
  BY DEF Push
<1>2. TypeOK
  BY DEF RateInv
<1>3. /\ preStart \in Seq(Items) /\ items \in Seq(Items) /\ given \in Seq(Items)
      /\ ts \in [Items \cup Controllers -> Int]
  BY <1>2 DEF TypeOK
<1>4. ToSet(given)' = ToSet(given) \cup {i} /\ ToSet(popped)' = ToSet(popped) /\ ToSet(Sent)' = ToSet(Sent)
  <2>1. ToSet(Append(given, i)) = ToSet(given) \cup {i}
    BY <1>3, AppendSet
  <2> QED BY <1>1, <2>1 DEF Sent
<1>5. CASE preStart' = Append(preStart, i) /\ UNCHANGED <<items, refused>>
  <2>1. ToSet(Append(preStart, i)) = ToSet(preStart) \cup {i}
    BY <1>3, AppendSet
  <2>2. Somewhere' = Somewhere \cup {i}
    BY <1>4, <1>5, <2>1 DEF Somewhere
  <2> HIDE DEF Somewhere
  <2> QED BY <1>1, <1>4, <1>5, <2>2 DEF Kept
<1>6. CASE started /\ ctx = "cancelled" /\ refused' = refused \cup {i} /\ UNCHANGED buffer
  <2>1. Somewhere' = Somewhere
    BY <1>4, <1>6 DEF Somewhere, buffer
  <2> HIDE DEF Somewhere
  <2> QED BY <1>1, <1>4, <1>6, <2>1 DEF Kept
<1>7. CASE items' = Insert(items, i) /\ UNCHANGED <<preStart, refused>>
  <2>1. PICK j \in Nat : Inserted(items', items, i, j)
    BY <1>3, <1>7, Insertion
  <2>2. ToSet(items') = ToSet(items) \cup {i}
    BY <1>3, <2>1, InsertedSet
  <2>3. Somewhere' = Somewhere \cup {i}
    BY <1>4, <1>7, <2>2 DEF Somewhere
  <2> HIDE DEF Somewhere
  <2> QED BY <1>1, <1>4, <1>7, <2>3 DEF Kept
<1> QED BY <1>5, <1>6, <1>7 DEF Push

(* What waited for the start is buffered, or forgotten with a node that is      *)
(* already stopped.                                                           *)
LEMMA StartKeeps ==
  ASSUME RateInv, Kept, Start
  PROVE  Kept'
<1>1. /\ ~started /\ started' = TRUE /\ preStart' = <<>>
      /\ UNCHANGED <<ctx, popped, ts, given, dispatched, refused>>
  BY DEF Start, Go, RateInv, Stages
<1>2. items = <<>> /\ preStart \in Seq(Items) /\ ts \in [Items \cup Controllers -> Int]
  BY <1>1 DEF RateInv, Stages, TypeOK
<1>3. refused = {} /\ forgotten = {}
  BY <1>1 DEF Kept
<1>4. ToSet(<<>>) = {} /\ ToSet(preStart') = {} /\ ToSet(items) = {}
  BY <1>1, <1>2 DEF ToSet
<1>5. ToSet(given)' = ToSet(given) /\ ToSet(popped)' = ToSet(popped) /\ ToSet(Sent)' = ToSet(Sent)
  BY <1>1 DEF Sent
<1>6. ToSet(popped) = {} /\ ToSet(Sent) = {}
  <2>1. popped = <<>> /\ dispatched = <<>>
    BY <1>1 DEF RateInv, Stages, Taken
  <2> QED BY <2>1 DEF Sent, ToSet
<1>7. ToSet(preStart) = ToSet(given)
  BY <1>3, <1>4, <1>6 DEF Kept, Somewhere
<1>8. CASE /\ ctx = "cancelled" \/ preStart = <<>>
           /\ forgotten' = ToSet(preStart) /\ items' = items
  BY <1>1, <1>3, <1>4, <1>5, <1>6, <1>7, <1>8 DEF Kept, Somewhere
<1>9. CASE items' = InsertAll(<<>>, preStart) /\ forgotten' = forgotten
  <2>1. Once(preStart) /\ \A k, l \in DOMAIN preStart : k < l => Precedes(given, preStart[k], preStart[l])
    BY DEF RateInv, Apart, InTurn
  <2>2. ToSet(items') = ToSet(preStart)
    BY <1>2, <1>9, <2>1, AllInserted
  <2> QED BY <1>1, <1>3, <1>4, <1>5, <1>6, <1>7, <1>9, <2>2 DEF Kept, Somewhere
<1> QED BY <1>2, <1>8, <1>9 DEF Start

(* The head of the buffer is taken, and the rest stays.                        *)
LEMMA PopKeeps ==
  ASSUME RateInv, Kept, Pop
  PROVE  Kept'
<1>1. /\ items # <<>> /\ popped' = <<Head(items)>> /\ items' = Tail(items)
      /\ UNCHANGED <<ctx, started, preStart, given, dispatched, refused, forgotten>>
  BY DEF Pop, history
<1>2. items \in Seq(Items) /\ popped = <<>>
  BY DEF RateInv, TypeOK, Stages, Taken, Pop, Go
<1>3. /\ Len(items) \in Nat \ {0} /\ DOMAIN items = 1 .. Len(items)
      /\ DOMAIN Tail(items) = 1 .. Len(items) - 1
      /\ \A k \in 1 .. Len(items) - 1 : Tail(items)[k] = items[k + 1] /\ k + 1 \in 1 .. Len(items)
      /\ \A k \in 1 .. Len(items) : k = 1 \/ (k - 1 \in 1 .. Len(items) - 1 /\ k - 1 + 1 = k)
      /\ Head(items) = items[1] /\ 1 \in 1 .. Len(items)
  BY <1>1, <1>2
<1>4. ToSet(items) = ToSet(Tail(items)) \cup {Head(items)}
  <2>1. \A k \in 1 .. Len(items) : k = 1 \/ (k - 1 \in 1 .. Len(items) - 1 /\ Tail(items)[k - 1] = items[k])
    BY <1>3
  <2>2. ToSet(items) \subseteq ToSet(Tail(items)) \cup {Head(items)}
    <3> SUFFICES ASSUME NEW k \in 1 .. Len(items)
                 PROVE  items[k] \in ToSet(Tail(items)) \cup {Head(items)}
      BY <1>3 DEF ToSet
    <3>1. CASE k = 1
      BY <1>3, <3>1
    <3>2. CASE k - 1 \in 1 .. Len(items) - 1 /\ Tail(items)[k - 1] = items[k]
      <4>1. Tail(items)[k - 1] \in ToSet(Tail(items))
        BY <1>3, <3>2 DEF ToSet
      <4> QED BY <3>2, <4>1
    <3> QED BY <2>1, <3>1, <3>2
  <2>3. ToSet(Tail(items)) \cup {Head(items)} \subseteq ToSet(items)
    BY <1>3 DEF ToSet
  <2> QED BY <2>2, <2>3
<1>5. ToSet(popped) = {} /\ ToSet(popped') = {Head(items)}
  BY <1>1, <1>2 DEF ToSet
<1>6. Somewhere' = Somewhere
  BY <1>1, <1>4, <1>5 DEF Somewhere, Sent
<1> HIDE DEF Somewhere
<1> QED BY <1>1, <1>6 DEF Kept

(* What was taken is dispatched.                                              *)
LEMMA DispatchKeeps ==
  ASSUME RateInv, Kept, Dispatch
  PROVE  Kept'
<1> DEFINE h == Head(popped)
           n == Len(dispatched)
           e == [item |-> h, at |-> now]
           R == [item : Items, at : Nat]
<1>1. /\ popped' = <<>> /\ dispatched' = Append(dispatched, e)
      /\ UNCHANGED <<ctx, started, preStart, items, given, refused, forgotten>>
  BY DEF Dispatch, buffer
<1>2. /\ Len(popped) = 1 /\ popped \in Seq(Items) /\ dispatched \in Seq(R) /\ now \in Nat
  BY Numbers DEF RateInv, TypeOK, Stages, Taken, Dispatch, Go
<1>3. ToSet(popped) = {h} /\ ToSet(popped') = {} /\ h \in Items /\ e \in R /\ e.item = h
  <2>0. popped # <<>> /\ DOMAIN popped = 1 .. Len(popped) /\ 1 \in 1 .. Len(popped)
    BY <1>2
  <2>1. popped[1] = h /\ DOMAIN popped = {1} /\ h \in Items
    BY <1>2, <2>0
  <2>2. ToSet(popped) = {h} /\ ToSet(popped') = {}
    BY <1>1, <2>1 DEF ToSet
  <2> QED BY <1>2, <2>1, <2>2
<1> HIDE DEF h, e, R
<1>4. /\ n \in Nat /\ DOMAIN dispatched = 1 .. n /\ DOMAIN dispatched' = 1 .. n + 1
      /\ \A k \in 1 .. n : dispatched'[k] = dispatched[k] /\ k \in 1 .. n + 1
      /\ dispatched'[n + 1] = e /\ n + 1 \in 1 .. n + 1
      /\ \A k \in 1 .. n + 1 : k \in 1 .. n \/ k = n + 1
  BY <1>1, <1>2, <1>3
<1>5. ToSet(Sent) = {dispatched[k].item : k \in 1 .. n} /\ ToSet(Sent)' = {dispatched'[k].item : k \in 1 .. n + 1}
  BY <1>4 DEF Sent, ToSet
<1>6. ToSet(Sent)' = ToSet(Sent) \cup {h}
  BY <1>3, <1>4, <1>5
<1>7. Somewhere' = Somewhere
  BY <1>1, <1>3, <1>6 DEF Somewhere
<1> HIDE DEF Somewhere
<1> QED BY <1>1, <1>7 DEF Kept

(* The other steps leave every item where it is, and nobody starts the node      *)
(* again once it is stopped.                                                  *)
LEMMA OthersKeep ==
  ASSUME RateInv, Kept, UNCHANGED <<started, preStart, items, popped, given, dispatched, refused, forgotten>>,
         ctx = "cancelled" => ctx' = "cancelled"
  PROVE  Kept'
<1>1. Somewhere' = Somewhere
  BY DEF Somewhere, Sent
<1> HIDE DEF Somewhere
<1> QED BY <1>1 DEF Kept

LEMMA KeptStep == RateInv /\ Kept /\ [Next]_vars => Kept'
<1> SUFFICES ASSUME RateInv, Kept, [Next]_vars PROVE Kept'
  OBVIOUS
<1>1. CASE \E i \in Items : Push(i)
  BY <1>1, PushKeeps
<1>2. CASE Start
  BY <1>2, StartKeeps
<1>3. CASE Pop
  BY <1>3, PopKeeps
<1>4. CASE Dispatch
  BY <1>4, DispatchKeeps
<1>5. CASE Turning
  <2>1. /\ UNCHANGED <<started, preStart, items, popped, given, dispatched, refused, forgotten>>
        /\ ctx' = ctx
    BY <1>5 DEF Turning, Tick, Decide, Select, WatchReload, ReadReload, Blocked, Sleep, EndTick, CloseReload,
                Stop, Flush, PauseWait, Turn, buffer, history
  <2> QED BY <2>1, OthersKeep
<1>6. CASE \/ Pause \/ Resume \/ Cancel \/ Clock
           \/ \E c \in Controllers : Control(c) \/ ControlWakes(c) \/ ParentEnds(c)
           \/ UNCHANGED vars
  <2>1. /\ UNCHANGED <<started, preStart, items, popped, given, dispatched, refused, forgotten>>
        /\ ctx = "cancelled" => ctx' = "cancelled"
    BY <1>6 DEF Pause, Resume, Cancel, Clock, Control, ControlWakes, ParentEnds, vars, buffer, history
  <2> QED BY <2>1, OthersKeep
<1> QED BY <1>1, <1>2, <1>3, <1>4, <1>5, <1>6 DEF Next, TickerStep, Turning

LEMMA KeptHolds == Spec => []Kept
<1>1. Init => Kept
  <2>1. Init => Sent = <<>>
    BY DEF Init, Sent
  <2> QED BY <2>1 DEF Init, Kept, Somewhere, ToSet
<1>2. Kept /\ RateInv /\ [Next]_vars => Kept'
  BY KeptStep
<1> QED BY <1>1, <1>2, RateHolds, PTL DEF Spec

LEMMA OnceConcat ==
  ASSUME NEW s \in Seq(Items), NEW t \in Seq(Items), Once(s), Once(t), Disjoint(s, t)
  PROVE  s \o t \in Seq(Items) /\ Once(s \o t) /\ ToSet(s \o t) = ToSet(s) \cup ToSet(t)
<1>1. /\ s \o t \in Seq(Items) /\ Len(s \o t) = Len(s) + Len(t) /\ Len(s) \in Nat /\ Len(t) \in Nat
      /\ \A k \in 1 .. Len(s) + Len(t) : (s \o t)[k] = IF k <= Len(s) THEN s[k] ELSE t[k - Len(s)]
  BY ConcatProperties
<1> DEFINE r == s \o t
<1> HIDE DEF r
<1>2. \A k \in 1 .. Len(s) : s[k] \in ToSet(s)
  BY DEF ToSet
<1>3. \A k \in 1 .. Len(t) : t[k] \in ToSet(t)
  BY DEF ToSet
<1>4. \A k \in 1 .. Len(s) + Len(t) :
        \/ k \in 1 .. Len(s) /\ r[k] = s[k]
        \/ k - Len(s) \in 1 .. Len(t) /\ r[k] = t[k - Len(s)]
  BY <1>1 DEF r
<1>5. ASSUME NEW k \in 1 .. Len(s) + Len(t), NEW l \in 1 .. Len(s) + Len(t), r[k] = r[l] PROVE k = l
  <2>0. /\ \A p, q \in 1 .. Len(s) : s[p] = s[q] => p = q
        /\ \A p, q \in 1 .. Len(t) : t[p] = t[q] => p = q
    <3>1. DOMAIN s = 1 .. Len(s) /\ DOMAIN t = 1 .. Len(t)
      OBVIOUS
    <3> QED BY <3>1 DEF Once
  <2>1. CASE k \in 1 .. Len(s) /\ r[k] = s[k] /\ l \in 1 .. Len(s) /\ r[l] = s[l]
    BY <1>5, <2>0, <2>1
  <2>2. CASE k - Len(s) \in 1 .. Len(t) /\ r[k] = t[k - Len(s)] /\ l - Len(s) \in 1 .. Len(t) /\ r[l] = t[l - Len(s)]
    <3>1. k - Len(s) = l - Len(s)
      BY <1>5, <2>0, <2>2
    <3> QED BY <1>1, <3>1
  <2>3. CASE k \in 1 .. Len(s) /\ r[k] = s[k] /\ l - Len(s) \in 1 .. Len(t) /\ r[l] = t[l - Len(s)]
    BY <1>2, <1>3, <1>5, <2>3 DEF Disjoint
  <2>4. CASE k - Len(s) \in 1 .. Len(t) /\ r[k] = t[k - Len(s)] /\ l \in 1 .. Len(s) /\ r[l] = s[l]
    BY <1>2, <1>3, <1>5, <2>4 DEF Disjoint
  <2> QED BY <1>4, <2>1, <2>2, <2>3, <2>4
<1>6. DOMAIN r = 1 .. Len(s) + Len(t)
  BY <1>1 DEF r
<1>7. Once(r)
  BY <1>5, <1>6 DEF Once
<1> QED BY <1>1, <1>7, ConcatSet DEF r

-----------------------------------------------------------------------------
(* The theorems *)

(* The types of the emulator's variables: whatever the ticker takes is an item, *)
(* and the time it reads one, or none.                                        *)
THEOREM TypeCorrect == Spec => []TypeOK
<1>1. RateInv => TypeOK
  BY DEF RateInv
<1> QED BY <1>1, RateHolds, PTL

(* The buffer is sorted, equal timestamps in the order of the pushes, and the   *)
(* next time is there exactly when something is buffered: whatever is pushed   *)
(* while the ticker sleeps, decides or flushes.                                *)
THEOREM BufferAgreesHolds == Spec => []BufferAgrees
<1>1. RateInv => BufferAgrees
  BY DEF RateInv, InTurn, Sorted, Timed, BufferAgrees, Precedes, Before
<1> QED BY <1>1, RateHolds, PTL

(* Each item that was pushed waits for the start, is buffered, taken or         *)
(* dispatched, in one of these places and once; all but those turned away       *)
(* after the node was stopped, refused by push or forgotten by a late start,   *)
(* are in one of them, and none is turned away before (rate_emulator.go:72-75,  *)
(* 192-198).                                                                  *)
THEOREM InOnePlaceHolds == Spec => []InOnePlace
<1>1. RateInv /\ Kept => InOnePlace
  <2> SUFFICES ASSUME RateInv, Kept PROVE InOnePlace
    OBVIOUS
  <2>1. TypeOK /\ Apart /\ Stages
    BY DEF RateInv
  <2>2. preStart \in Seq(Items) /\ items \in Seq(Items) /\ popped \in Seq(Items) /\ Sent \in Seq(Items)
    BY <2>1, SentType DEF TypeOK
  <2>3. Once(popped)
    <3>1. popped = <<>> \/ Len(popped) = 1
      BY <2>1 DEF Stages
    <3> QED BY <2>2, <3>1 DEF Once
  <2> DEFINE a == preStart \o items
             b == a \o popped
             c == b \o Sent
  <2>4. a \in Seq(Items) /\ Once(a) /\ ToSet(a) = ToSet(preStart) \cup ToSet(items)
    BY <2>1, <2>2, OnceConcat DEF Apart
  <2> HIDE DEF a
  <2>5. Disjoint(a, popped)
    BY <2>1, <2>4 DEF Apart, Disjoint
  <2>6. b \in Seq(Items) /\ Once(b) /\ ToSet(b) = ToSet(a) \cup ToSet(popped)
    BY <2>2, <2>3, <2>4, <2>5, OnceConcat
  <2> HIDE DEF b
  <2>7. Disjoint(b, Sent)
    BY <2>1, <2>4, <2>6 DEF Apart, Disjoint
  <2>8. c \in Seq(Items) /\ Once(c) /\ ToSet(c) = ToSet(b) \cup ToSet(Sent)
    BY <2>1, <2>2, <2>6, <2>7, OnceConcat DEF Apart
  <2>9. ToSet(c) = ToSet(given) \ (refused \cup forgotten)
    BY <2>4, <2>6, <2>8 DEF Kept, Somewhere
  <2>10. c = preStart \o items \o popped \o [k \in DOMAIN dispatched |-> dispatched[k].item]
    BY DEF a, b, Sent
  <2> HIDE DEF c
  <2>11. /\ refused \cup forgotten \subseteq ToSet(given) /\ refused \cap forgotten = {}
         /\ refused \cup forgotten # {} => ctx = "cancelled"
    BY DEF Kept
  <2> QED BY <2>8, <2>9, <2>10, <2>11 DEF InOnePlace, Once
<1> QED BY <1>1, RateHolds, KeptHolds, PTL

(* Packets that depend on one another reach the handler in order.              *)
THEOREM DispatchedInOrderHolds == Spec => []DispatchedInOrder
<1>1. RateInv => DispatchedInOrder
  BY DEF RateInv, InTurn
<1> QED BY <1>1, RateHolds, PTL

(* Nothing is dispatched before its time.                                      *)
THEOREM NotBeforeItsTimeHolds == Spec => []NotBeforeItsTime
<1>1. RateInv => NotBeforeItsTime
  BY DEF RateInv, Timed
<1> QED BY <1>1, RateHolds, PTL

(* A ticker that was to flush leaves nothing behind.                           *)
THEOREM FlushedAtTheEndHolds == Spec => []FlushedAtTheEnd
<1>1. RateInv => FlushedAtTheEnd
  BY DEF RateInv, Stages, Taken, FlushedAtTheEnd
<1> QED BY <1>1, RateHolds, PTL

=============================================================================
